-------------------- MODULE PreconfirmationStreamProofs --------------------
(***************************************************************************)
(* The two promises of PreconfirmationStream, for any set of flashblocks.  *)
(***************************************************************************)
EXTENDS PreconfirmationStream, TLAPS

TypeInv ==
    /\ session \in Seq(Flashblock)
    /\ out \in Seq(Flashblock)
    /\ served \subseteq Seq(Flashblock)

\* What is accumulated is the end of what was sent, and indices count up.
IsSuffix(s, t) ==
    /\ Len(s) <= Len(t)
    /\ \A i \in 1 .. Len(s) : s[i] = t[Len(t) - Len(s) + i]

StreamInv ==
    /\ IsSuffix(session, out)
    /\ \A i \in 1 .. Len(session) : session[i].index = i - 1
    /\ ServedIsSegmentOfOut
    /\ OutIsReplayable

LEMMA AppendFacts ==
    ASSUME NEW s \in Seq(Flashblock), NEW x \in Flashblock
    PROVE  /\ Append(s, x) \in Seq(Flashblock)
           /\ Len(Append(s, x)) = Len(s) + 1
           /\ Append(s, x)[Len(s) + 1] = x
           /\ \A i \in 1 .. Len(s) : Append(s, x)[i] = s[i]
  OBVIOUS

LEMMA TypeInvariant == Spec => []TypeInv
<1>1. Init => TypeInv
  BY DEF Init, TypeInv
<1>2. TypeInv /\ [Next]_vars => TypeInv'
  <2> SUFFICES ASSUME TypeInv, [Next]_vars PROVE TypeInv'
    OBVIOUS
  <2>1. CASE \E fb \in Flashblock : Accept(fb)
    BY <2>1, AppendFacts DEF TypeInv, Accept
  <2>2. CASE Discard
    BY <2>2 DEF TypeInv, Discard
  <2>3. CASE Serve
    BY <2>3 DEF TypeInv, Serve
  <2>4. CASE UNCHANGED vars
    BY <2>4 DEF TypeInv, vars
  <2> QED
    BY <2>1, <2>2, <2>3, <2>4 DEF Next
<1> QED
  BY <1>1, <1>2, PTL DEF Spec

\* A segment of a sequence stays one when the sequence grows.
LEMMA SegmentOfAppend ==
    ASSUME NEW s \in Seq(Flashblock), NEW t \in Seq(Flashblock), NEW x \in Flashblock,
           IsSegment(s, t)
    PROVE  IsSegment(s, Append(t, x))
<1>1. PICK k \in 0 .. Len(t) : /\ k + Len(s) <= Len(t)
                               /\ \A i \in 1 .. Len(s) : s[i] = t[k + i]
  BY DEF IsSegment
<1>2. \A i \in 1 .. Len(s) : s[i] = Append(t, x)[k + i]
  BY <1>1, AppendFacts
<1>3. k \in 0 .. Len(Append(t, x)) /\ k + Len(s) <= Len(Append(t, x))
  BY <1>1, AppendFacts
<1> QED
  BY <1>2, <1>3 DEF IsSegment

LEMMA SuffixIsSegment ==
    ASSUME NEW s \in Seq(Flashblock), NEW t \in Seq(Flashblock), IsSuffix(s, t)
    PROVE  IsSegment(s, t)
<1>1. Len(t) - Len(s) \in 0 .. Len(t) /\ (Len(t) - Len(s)) + Len(s) <= Len(t)
  BY DEF IsSuffix
<1> QED
  BY <1>1 DEF IsSegment, IsSuffix

LEMMA AcceptPreserves ==
    ASSUME TypeInv, StreamInv, NEW fb \in Flashblock, Accept(fb)
    PROVE  StreamInv'
<1>1. /\ session' = Append(session, fb) /\ out' = Append(out, fb) /\ served' = served
      /\ fb.index = Len(session)
  BY DEF Accept
<1>2. /\ Len(session') = Len(session) + 1 /\ session'[Len(session) + 1] = fb
      /\ \A i \in 1 .. Len(session) : session'[i] = session[i]
      /\ Len(out') = Len(out) + 1 /\ out'[Len(out) + 1] = fb
      /\ \A i \in 1 .. Len(out) : out'[i] = out[i]
  BY <1>1, AppendFacts DEF TypeInv
<1>3. Len(session) \in Nat /\ Len(out) \in Nat /\ Len(session) <= Len(out)
  BY DEF TypeInv, StreamInv, IsSuffix
<1>4. IsSuffix(session', out')
  <2>1. ASSUME NEW i \in 1 .. Len(session')
        PROVE  session'[i] = out'[Len(out') - Len(session') + i]
    <3>1. CASE i = Len(session) + 1
      BY <1>2, <1>3, <3>1
    <3>2. CASE i \in 1 .. Len(session)
      <4>1. Len(out) - Len(session) + i \in 1 .. Len(out)
        BY <1>3, <3>2
      <4>2. session[i] = out[Len(out) - Len(session) + i]
        BY <3>2 DEF StreamInv, IsSuffix
      <4> QED
        BY <1>2, <1>3, <3>2, <4>1, <4>2, SMTT(30)
    <3> QED
      BY <1>2, <1>3, <3>1, <3>2
  <2> QED
    BY <1>2, <1>3, <2>1 DEF IsSuffix
<1>5. \A i \in 1 .. Len(session') : session'[i].index = i - 1
  BY <1>1, <1>2, <1>3 DEF StreamInv
<1>6. ServedIsSegmentOfOut'
  BY <1>1, SegmentOfAppend DEF StreamInv, ServedIsSegmentOfOut, TypeInv
<1>7. OutIsReplayable'
  <2>1. ASSUME NEW k \in 1 .. Len(out'), out'[k].index > 0
        PROVE  k > 1 /\ out'[k - 1].index = out'[k].index - 1
    <3>1. CASE k \in 1 .. Len(out)
      BY <1>2, <2>1, <3>1 DEF StreamInv, OutIsReplayable
    <3>2. CASE k = Len(out) + 1
      <4>1. Len(session) > 0
        BY <1>1, <1>2, <1>3, <2>1, <3>2
      <4>2. session[Len(session)].index = Len(session) - 1
        BY <1>3, <4>1 DEF StreamInv
      <4>3. session[Len(session)] = out[Len(out)]
        BY <1>3, <4>1 DEF StreamInv, IsSuffix
      <4> QED
        BY <1>1, <1>2, <1>3, <3>2, <4>1, <4>2, <4>3
    <3> QED
      BY <1>2, <1>3, <3>1, <3>2
  <2> QED
    BY <2>1 DEF OutIsReplayable
<1> QED
  BY <1>4, <1>5, <1>6, <1>7 DEF StreamInv

LEMMA StreamInvariant == Spec => []StreamInv
<1>1. Init => StreamInv
  BY DEF Init, StreamInv, IsSuffix, ServedIsSegmentOfOut, OutIsReplayable
<1>2. TypeInv /\ StreamInv /\ [Next]_vars => StreamInv'
  <2> SUFFICES ASSUME TypeInv, StreamInv, [Next]_vars PROVE StreamInv'
    OBVIOUS
  <2>1. ASSUME session' = <<>>, UNCHANGED out
        PROVE  /\ IsSuffix(session', out')
               /\ \A i \in 1 .. Len(session') : session'[i].index = i - 1
               /\ OutIsReplayable'
    BY <2>1 DEF IsSuffix, StreamInv, OutIsReplayable, TypeInv
  <2>2. CASE \E fb \in Flashblock : Accept(fb)
    BY <2>2, AcceptPreserves
  <2>3. CASE Discard
    BY <2>1, <2>3 DEF Discard, StreamInv, ServedIsSegmentOfOut
  <2>4. CASE Serve
    <3>1. IsSegment(session, out)
      BY SuffixIsSegment DEF TypeInv, StreamInv
    <3> QED
      BY <2>1, <2>4, <3>1 DEF Serve, StreamInv, ServedIsSegmentOfOut
  <2>5. CASE UNCHANGED vars
    BY <2>5 DEF vars, StreamInv, IsSuffix, ServedIsSegmentOfOut, OutIsReplayable
  <2> QED
    BY <2>2, <2>3, <2>4, <2>5 DEF Next
<1> QED
  BY <1>1, <1>2, TypeInvariant, PTL DEF Spec

\* Every block handed to the consensus node was pre-confirmed as one run of
\* flashblocks.
THEOREM ServedSegments == Spec => []ServedIsSegmentOfOut
<1>1. StreamInv => ServedIsSegmentOfOut
  BY DEF StreamInv
<1> QED
  BY <1>1, StreamInvariant, PTL

\* Subscribers never meet a gap inside a block.
THEOREM ReplayableOut == Spec => []OutIsReplayable
<1>1. StreamInv => OutIsReplayable
  BY DEF StreamInv
<1> QED
  BY <1>1, StreamInvariant, PTL
=============================================================================
