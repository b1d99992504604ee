----------------------- MODULE PreconfirmationStream -----------------------
(***************************************************************************)
(* What FlashblocksService promises, without saying how.  Flashblocks of   *)
(* the block under construction are accepted one after the other; each     *)
(* accepted flashblock goes out to the subscribers; the accumulated block  *)
(* is handed to one getPayload call, or discarded when another block       *)
(* starts.                                                                 *)
(***************************************************************************)
EXTENDS Naturals, Sequences

CONSTANT Flashblock     \* the flashblocks there are: records with an index

VARIABLES
    session,    \* the flashblocks accumulated for the current block
    out,        \* every flashblock sent to the subscribers, in order
    served      \* the blocks handed out by getPayload

vars == <<session, out, served>>

Init ==
    /\ session = <<>>
    /\ out = <<>>
    /\ served = {}

Accept(fb) ==
    /\ fb.index = Len(session)
    /\ session' = Append(session, fb)
    /\ out' = Append(out, fb)
    /\ UNCHANGED served

Discard ==
    /\ session' = <<>>
    /\ UNCHANGED <<out, served>>

Serve ==
    /\ session # <<>>
    /\ served' = served \cup {session}
    /\ session' = <<>>
    /\ UNCHANGED out

Next ==
    \/ \E fb \in Flashblock : Accept(fb)
    \/ Discard
    \/ Serve

Spec == Init /\ [][Next]_vars
-----------------------------------------------------------------------------
IsSegment(s, t) ==
    \E k \in 0 .. Len(t) : /\ k + Len(s) <= Len(t)
                           /\ \A i \in 1 .. Len(s) : s[i] = t[k + i]

\* A block handed to the consensus node consists of flashblocks that the
\* subscribers were sent one right after the other: a pre-confirmed prefix is
\* never reordered, skipped or completed with something nobody was shown.
ServedIsSegmentOfOut == \A s \in served : IsSegment(s, out)

\* A subscriber that restarts its block at index 0 never meets a gap: what it
\* receives before index i > 0 is index i - 1.
OutIsReplayable ==
    \A k \in 1 .. Len(out) :
        out[k].index > 0 => /\ k > 1
                            /\ out[k - 1].index = out[k].index - 1
=============================================================================
