------------------------ MODULE RedisRateLimitProofs ------------------------
(***************************************************************************)
(* Proofs about RedisRateLimit, for any finite number of instances and     *)
(* requests, any addresses, applications and limits, and any errors.       *)
(***************************************************************************)
EXTENDS RedisRateLimit, FiniteSetTheorems, TLAPS

\* A request belongs to an instance from its permit to its return, and the counter
\* it is about is one of its list.
RequestOK(q) ==
    /\ q.pc = "idle" <=> q.inst = NoKey
    /\ q.pc \in {"keys", "get"} => q.at <= Len(q.keys)
RequestInv == \A r \in Requests : RequestOK(req[r])

\* Requests belong to running processes: what a crashed one has counted stays.
OwnersUp == \A r \in Requests : req[r].inst \in Instances => process[req[r].inst] = "up"

PermitInv == TypeOK /\ RequestInv /\ OwnersUp /\ PermitsAreConserved

\* What a round of the cleanup still has to do about counter k of instance j.
Pending(b, j, k) ==
    \/ <<j, k>> \in b.keys
    \/ \E s \in b.stale : s[2] = j
    \/ b.pc = "app_keys" /\ b.id = j /\ k \in Apps

\* Where a round stands with the instances that were gone when it began: every counter
\* they have left, except those of IPv6 addresses, is listed or will be.
Clean(b) ==
    /\ \A j \in b.dead : process[j] = "down" /\ ~heartbeat[j]
    /\ b.pc \in {"ip_ids", "app_ids"} => b.dead \cap b.active = {}
    /\ b.pc = "app_ids" =>
          \A j \in b.dead, k \in IPv4 : count[j][k] # NoKey => <<"ip", j>> \in b.stale
    /\ b.pc = "ip_keys" => b.keys = {}
    /\ b.pc \in {"ip_keys", "app_keys", "del"} =>
          \A j \in b.dead, k \in Counters \ IPv6 : count[j][k] # NoKey => Pending(b, j, k)
CleanupInv == \A i \in Instances : Clean(background[i])

IInv == PermitInv /\ CleanupInv

LEMMA OwnedFinite ==
    \A i \in Instances : IsFiniteSet(Owned(i)) /\ Cardinality(Owned(i)) \in Nat
<1>1. \A i \in Instances : Owned(i) \in SUBSET Requests
  BY DEF Owned
<1>2. \A T \in SUBSET Requests : IsFiniteSet(T) /\ Cardinality(T) \in Nat
  BY RedisAssumption, FS_Subset, FS_CardinalityType
<1> QED
  BY <1>1, <1>2

LEMMA IdleFacts == Idle \in RequestRecord /\ RequestOK(Idle)
<1>1. <<>> \in Seq(Counters)
  OBVIOUS
<1>2. 1 \in Nat \ {0} /\ 0 \in Nat
  OBVIOUS
<1>3. Idle \in RequestRecord
  BY <1>1, <1>2 DEF Idle, RequestRecord
<1> QED
  BY <1>3 DEF Idle, RequestOK

LEMMA NotStartedFacts == NotStarted \in TaskRecord
  BY DEF NotStarted, TaskRecord

\* What the loop over the stale instances goes on with is well formed.
LEMMA ResumeType ==
    ASSUME NEW b \in TaskRecord
    PROVE  Resume(b) \in TaskRecord
<1> DEFINE pc == IF b.keys # {} THEN "del" ELSE IF b.stale # {} THEN "ip_keys" ELSE "heartbeat"
           dead == IF b.keys \cup b.stale # {} THEN b.dead ELSE {}
<1>1. Resume(b) = [pc |-> pc, active |-> {}, stale |-> b.stale, id |-> NoKey, keys |-> b.keys,
                   dead |-> dead]
  BY DEF Resume
<1>2. /\ pc \in {"del", "ip_keys", "heartbeat"}
      /\ dead \in SUBSET Instances
      /\ b.stale \in SUBSET ({"ip", "app"} \X (Instances \cup {NoKey}))
      /\ b.keys \in SUBSET (Instances \X Counters)
  BY DEF TaskRecord
<1> HIDE DEF pc, dead
<1> QED
  BY <1>1, <1>2 DEF TaskRecord
-----------------------------------------------------------------------------
(* The permits *)

\* Requests that stay with their instances, and no permit given or taken.
LEMMA SameOwners ==
    ASSUME PermitsAreConserved, UNCHANGED semaphore,
           \A r \in Requests : req'[r].inst = req[r].inst
    PROVE  PermitsAreConserved'
<1>1. \A i \in Instances : Owned(i)' = Owned(i)
  BY DEF Owned
<1> QED
  BY <1>1 DEF PermitsAreConserved

\* A step of one request that keeps its permit.
LEMMA OneRequestStep ==
    ASSUME PermitInv, NEW r \in Requests, NEW q \in RequestRecord,
           req' = [req EXCEPT ![r] = q], UNCHANGED semaphore,
           RequestOK(q), q.inst = req[r].inst
    PROVE  req' \in [Requests -> RequestRecord] /\ RequestInv' /\ PermitsAreConserved'
<1>1. req \in [Requests -> RequestRecord]
  BY DEF PermitInv, TypeOK
<1>2. \A p \in Requests : req'[p] = IF p = r THEN q ELSE req[p]
  BY <1>1
<1>3. RequestInv'
  BY <1>2 DEF PermitInv, RequestInv
<1>4. PermitsAreConserved'
  BY <1>2, SameOwners DEF PermitInv
<1> QED
  BY <1>1, <1>3, <1>4

\* An early return, and the end of the ticket's drop.
LEMMA RefusedStep ==
    ASSUME PermitInv, NEW r \in Requests, req[r].pc # "idle", Refused(r)
    PROVE  /\ semaphore' \in [Instances -> Nat]
           /\ req' \in [Requests -> RequestRecord]
           /\ RequestInv' /\ PermitsAreConserved'
<1>1. req \in [Requests -> RequestRecord] /\ semaphore \in [Instances -> Nat]
  BY DEF PermitInv, TypeOK
<1>2. PICK i \in Instances : i = req[r].inst
  BY <1>1 DEF PermitInv, RequestInv, RequestOK, RequestRecord
<1>3. /\ semaphore' = [semaphore EXCEPT ![i] = @ + 1]
      /\ req' = [req EXCEPT ![r] = Idle]
  BY <1>2 DEF Refused
<1>4. semaphore' \in [Instances -> Nat]
  BY <1>1, <1>2, <1>3
<1>5. req' \in [Requests -> RequestRecord] /\ RequestInv'
  BY <1>1, <1>3, IdleFacts DEF PermitInv, RequestInv
<1>6. /\ Owned(i)' = Owned(i) \ {r} /\ r \in Owned(i)
      /\ \A j \in Instances \ {i} : Owned(j)' = Owned(j)
  <2>1. Idle.inst = NoKey /\ NoKey \notin Instances
    BY RedisAssumption DEF Idle
  <2>2. \A p \in Requests : req'[p] = IF p = r THEN Idle ELSE req[p]
    BY <1>1, <1>3
  <2> QED
    BY <1>2, <2>1, <2>2 DEF Owned
<1>7. Cardinality(Owned(i) \ {r}) = Cardinality(Owned(i)) - 1
  BY <1>2, <1>6, OwnedFinite, FS_RemoveElement
<1>8. \A j \in Instances : semaphore'[j] = IF j = i THEN semaphore[i] + 1 ELSE semaphore[j]
  BY <1>1, <1>2, <1>3
<1>9. PermitsAreConserved'
  <2> SUFFICES ASSUME NEW j \in Instances
               PROVE  semaphore'[j] >= 0
                      /\ semaphore'[j] + Cardinality(Owned(j)') = instance_limit
    BY DEF PermitsAreConserved
  <2>1. /\ semaphore[j] >= 0 /\ semaphore[j] \in Nat /\ Cardinality(Owned(j)) \in Nat
        /\ semaphore[j] + Cardinality(Owned(j)) = instance_limit
    BY <1>1, OwnedFinite DEF PermitInv, PermitsAreConserved
  <2>2. CASE j = i
    <3>1. Cardinality(Owned(j)') = Cardinality(Owned(j)) - 1
      BY <1>6, <1>7, <2>2
    <3>2. semaphore'[j] = semaphore[j] + 1
      BY <1>8, <2>2
    <3> QED
      BY <2>1, <3>1, <3>2
  <2>3. CASE j # i
    BY <1>6, <1>8, <2>1, <2>3
  <2> QED
    BY <2>2, <2>3
<1> QED
  BY <1>4, <1>5, <1>9

LEMMA BeginStep ==
    ASSUME PermitInv, NEW r \in Requests, NEW i \in Instances, NEW a \in Addrs,
           NEW app \in Apps \cup {NoApp}, Begin(r, i, a, app)
    PROVE  /\ semaphore' \in [Instances -> Nat]
           /\ req' \in [Requests -> RequestRecord]
           /\ RequestInv' /\ PermitsAreConserved'
<1> DEFINE keys == Taken(a, app)
           q == [Idle EXCEPT !.pc = IF keys = <<>> THEN "held" ELSE "keys",
                             !.inst = i, !.keys = keys]
<1>1. req \in [Requests -> RequestRecord] /\ semaphore \in [Instances -> Nat]
  BY DEF PermitInv, TypeOK
<1>2. keys \in Seq(Counters) /\ (keys # <<>> => 1 <= Len(keys))
  <2>1. a \in Counters /\ (app \in Apps => app \in Counters)
    BY DEF Counters
  <2>2. /\ <<>> \in Seq(Counters) /\ <<a>> \in Seq(Counters)
        /\ app \in Apps => <<app>> \in Seq(Counters)
    BY <2>1
  <2>3. ASSUME NEW s \in Seq(Counters), NEW t \in Seq(Counters)
        PROVE  s \o t \in Seq(Counters)
    OBVIOUS
  <2>4. keys \in Seq(Counters)
    BY <2>2, <2>3 DEF Taken
  <2> HIDE DEF keys
  <2> QED
    BY <2>4
<1>3. /\ semaphore[i] > 0 /\ semaphore' = [semaphore EXCEPT ![i] = @ - 1]
      /\ req[r].pc = "idle" /\ req' = [req EXCEPT ![r] = q]
  BY DEF Begin
<1>4. q \in RequestRecord /\ RequestOK(q) /\ q.inst = i
  <2> HIDE DEF keys
  <2>1. /\ q.pc = IF keys = <<>> THEN "held" ELSE "keys"
        /\ q.inst = i /\ q.keys = keys /\ q.at = Idle.at /\ q \in RequestRecord
    BY <1>2, IdleFacts DEF RequestRecord
  <2>2. Idle.at = 1
    BY DEF Idle
  <2> QED
    BY <1>2, <2>1, <2>2, RedisAssumption DEF RequestOK
<1> HIDE DEF q
<1>5. semaphore' \in [Instances -> Nat]
  BY <1>1, <1>3
<1>6. \A p \in Requests : req'[p] = IF p = r THEN q ELSE req[p]
  BY <1>1, <1>3
<1>7. req' \in [Requests -> RequestRecord] /\ RequestInv'
  BY <1>1, <1>3, <1>4, <1>6 DEF PermitInv, RequestInv
<1>8. /\ Owned(i)' = Owned(i) \cup {r} /\ r \notin Owned(i)
      /\ \A j \in Instances \ {i} : Owned(j)' = Owned(j)
  <2>1. req[r].inst = NoKey /\ NoKey \notin Instances
    BY <1>3, RedisAssumption DEF PermitInv, RequestInv, RequestOK
  <2> QED
    BY <1>4, <1>6, <2>1 DEF Owned
<1>9. Cardinality(Owned(i) \cup {r}) = Cardinality(Owned(i)) + 1
  BY <1>8, OwnedFinite, FS_AddElement
<1>10. \A j \in Instances : semaphore'[j] = IF j = i THEN semaphore[i] - 1 ELSE semaphore[j]
  BY <1>1, <1>3
<1>11. PermitsAreConserved'
  <2> SUFFICES ASSUME NEW j \in Instances
               PROVE  semaphore'[j] >= 0
                      /\ semaphore'[j] + Cardinality(Owned(j)') = instance_limit
    BY DEF PermitsAreConserved
  <2>1. /\ semaphore[j] \in Nat /\ Cardinality(Owned(j)) \in Nat
        /\ semaphore[j] + Cardinality(Owned(j)) = instance_limit
    BY <1>1, OwnedFinite DEF PermitInv, PermitsAreConserved
  <2>2. CASE j = i
    <3>1. Cardinality(Owned(j)') = Cardinality(Owned(j)) + 1
      BY <1>8, <1>9, <2>2
    <3>2. semaphore'[j] = semaphore[j] - 1 /\ semaphore[j] > 0
      BY <1>3, <1>10, <2>2
    <3> QED
      BY <2>1, <3>1, <3>2
  <2>3. CASE j # i
    BY <1>8, <1>10, <2>1, <2>3
  <2> QED
    BY <2>2, <2>3
<1> QED
  BY <1>5, <1>7, <1>11

\* A crash frees the permits with the process, and ends its requests.
LEMMA CrashStep ==
    ASSUME PermitInv, NEW i \in Instances, Crash(i)
    PROVE  /\ semaphore' \in [Instances -> Nat]
           /\ req' \in [Requests -> RequestRecord]
           /\ RequestInv' /\ PermitsAreConserved'
<1> DEFINE gone == {r \in Requests : req[r].inst = i}
           Left(r) == [req[r] EXCEPT !.before = @ \ gone]
<1>1. req \in [Requests -> RequestRecord] /\ semaphore \in [Instances -> Nat]
  BY DEF PermitInv, TypeOK
<1>2. /\ semaphore' = [semaphore EXCEPT ![i] = instance_limit]
      /\ req' = [r \in Requests |-> IF r \in gone THEN Idle ELSE Left(r)]
  BY DEF Crash
<1>3. ASSUME NEW r \in Requests
      PROVE  Left(r) \in RequestRecord /\ RequestOK(Left(r)) /\ Left(r).inst = req[r].inst
  <2>1. RequestOK(req[r]) /\ req[r] \in RequestRecord
    BY <1>1 DEF PermitInv, RequestInv
  <2>2. /\ Left(r) \in RequestRecord /\ Left(r).pc = req[r].pc /\ Left(r).inst = req[r].inst
        /\ Left(r).at = req[r].at /\ Left(r).keys = req[r].keys
    BY <2>1 DEF RequestRecord
  <2> QED
    BY <2>1, <2>2 DEF RequestOK
<1>4. semaphore' \in [Instances -> Nat]
  BY <1>1, <1>2, RedisAssumption
<1> HIDE DEF Left
<1>5. req' \in [Requests -> RequestRecord] /\ RequestInv'
  BY <1>2, <1>3, IdleFacts DEF RequestInv
<1>6. Owned(i)' = {} /\ \A j \in Instances \ {i} : Owned(j)' = Owned(j)
  <2>1. Idle.inst = NoKey /\ NoKey \notin Instances
    BY RedisAssumption DEF Idle
  <2> QED
    BY <1>2, <1>3, <2>1 DEF Owned
<1>7. PermitsAreConserved'
  <2> SUFFICES ASSUME NEW j \in Instances
               PROVE  semaphore'[j] >= 0
                      /\ semaphore'[j] + Cardinality(Owned(j)') = instance_limit
    BY DEF PermitsAreConserved
  <2>1. CASE j = i
    <3>1. semaphore'[j] = instance_limit /\ Cardinality(Owned(j)') = 0
      BY <1>1, <1>2, <1>6, <2>1, FS_EmptySet
    <3> QED
      BY <3>1, RedisAssumption
  <2>2. CASE j # i
    <3>1. semaphore'[j] = semaphore[j] /\ Owned(j)' = Owned(j)
      BY <1>1, <1>2, <1>6, <2>2
    <3> QED
      BY <3>1 DEF PermitInv, PermitsAreConserved
  <2> QED
    BY <2>1, <2>2
<1> QED
  BY <1>4, <1>5, <1>7

\* Requests keep their instance or leave it.
LEMMA OwnersKept ==
    ASSUME OwnersUp, UNCHANGED process,
           \A r \in Requests : req'[r].inst \in {req[r].inst, NoKey}
    PROVE  OwnersUp'
<1>1. NoKey \notin Instances
  BY RedisAssumption
<1> QED
  BY <1>1 DEF OwnersUp
-----------------------------------------------------------------------------
(* The rounds of the cleanup *)

\* An instance that is down stays so, and nothing is added to what it has left.
DownStays ==
    \A j \in Instances : process[j] = "down" =>
        /\ process'[j] = "down"
        /\ heartbeat'[j] => heartbeat[j]
        /\ \A k \in Counters : count'[j][k] # NoKey => count[j][k] # NoKey

\* What OneRoundCleansUp says of a step.
RoundsClean ==
    \A i \in Instances : RoundEnds(i) =>
        \A j \in background[i].dead, k \in Counters \ IPv6 : count'[j][k] = NoKey

LEMMA CleanKept ==
    ASSUME NEW b \in TaskRecord, Clean(b), DownStays
    PROVE  Clean(b)'
<1>1. b.dead \subseteq Instances
  BY DEF TaskRecord
<1>2. \A j \in b.dead :
        /\ process'[j] = "down" /\ ~heartbeat'[j]
        /\ \A k \in Counters : count'[j][k] # NoKey => count[j][k] # NoKey
  BY <1>1 DEF Clean, DownStays
<1>3. \A k \in IPv4 : k \in Counters
  BY DEF Counters, Addrs
<1> QED
  BY <1>2, <1>3 DEF Clean, Pending

\* A step that leaves the background tasks alone.
LEMMA NoTaskStep ==
    ASSUME IInv, UNCHANGED background, DownStays
    PROVE  CleanupInv' /\ RoundsClean
<1>1. background \in [Instances -> TaskRecord]
  BY DEF IInv, PermitInv, TypeOK
<1>2. ASSUME NEW i \in Instances
      PROVE  Clean(background[i])'
  <2>1. PICK b \in TaskRecord : b = background[i]
    BY <1>1
  <2>2. Clean(b)'
    BY <2>1, CleanKept DEF IInv, CleanupInv
  <2>3. background'[i] = b
    BY <2>1
  <2> QED
    BY <2>2, <2>3 DEF Clean, Pending
<1>3. CleanupInv'
  BY <1>2 DEF CleanupInv
<1>4. RoundsClean
  BY DEF RoundsClean, RoundEnds
<1> QED
  BY <1>3, <1>4

\* A step of one background task.
LEMMA OneTaskStep ==
    ASSUME IInv, NEW i \in Instances, NEW b \in TaskRecord,
           background' = [background EXCEPT ![i] = b], DownStays, Clean(b)',
           /\ background[i].pc \notin {"none", "heartbeat"}
           /\ b.pc = "heartbeat"
           /\ UNCHANGED errors
           => \A j \in background[i].dead, k \in Counters \ IPv6 : count'[j][k] = NoKey
    PROVE  background' \in [Instances -> TaskRecord] /\ CleanupInv' /\ RoundsClean
<1>1. background \in [Instances -> TaskRecord]
  BY DEF IInv, PermitInv, TypeOK
<1>2. \A n \in Instances : background'[n] = IF n = i THEN b ELSE background[n]
  BY <1>1
<1>3. ASSUME NEW n \in Instances
      PROVE  Clean(background[n])'
  <2>1. PICK c \in TaskRecord : c = background[n]
    BY <1>1
  <2>2. Clean(c)'
    BY <2>1, CleanKept DEF IInv, CleanupInv
  <2>3. background'[n] = IF n = i THEN b ELSE c
    BY <1>2, <2>1
  <2> QED
    BY <2>2, <2>3 DEF Clean, Pending
<1>4. CleanupInv'
  BY <1>3 DEF CleanupInv
<1>5. RoundsClean
  BY <1>2 DEF RoundsClean, RoundEnds
<1> QED
  BY <1>1, <1>4, <1>5

\* The end of a round, or what it goes on with.
LEMMA ResumeClean ==
    ASSUME NEW b \in TaskRecord,
           \A j \in b.dead : process'[j] = "down" /\ ~heartbeat'[j],
           \A j \in b.dead, k \in Counters \ IPv6 : count'[j][k] # NoKey =>
               <<j, k>> \in b.keys \/ \E s \in b.stale : s[2] = j
    PROVE  /\ Clean(Resume(b))'
           /\ Resume(b).pc = "heartbeat" =>
                 \A j \in b.dead, k \in Counters \ IPv6 : count'[j][k] = NoKey
<1> DEFINE c == Resume(b)
<1>1. /\ c.pc \in {"del", "ip_keys", "heartbeat"}
      /\ c.pc = "heartbeat" <=> b.keys = {} /\ b.stale = {}
      /\ c.pc = "ip_keys" => b.keys = {}
      /\ c.keys = b.keys /\ c.stale = b.stale
      /\ c.dead \subseteq b.dead
  BY DEF Resume
<1> HIDE DEF c
<1>2. PICK d : d = c
  OBVIOUS
<1>3. Clean(d)'
  BY <1>1, <1>2 DEF Clean, Pending
<1>4. c' = d
  BY <1>2 DEF c, Resume
<1> QED
  BY <1>1, <1>3, <1>4 DEF Clean, Pending, c
-----------------------------------------------------------------------------
(* The steps of requests *)

LEMMA ErrorsType ==
    ASSUME TypeOK, Error \/ UNCHANGED errors
    PROVE  errors' \in Nat
  BY DEF TypeOK, Error

\* The counter a request is about is one of its instance.
LEMMA KeyType ==
    ASSUME PermitInv, NEW r \in Requests, req[r].pc # "idle",
           req[r].pc \in {"keys", "get"} \/ req[r].at <= Len(req[r].keys)
    PROVE  req[r].inst \in Instances /\ Key(r) \in Counters
<1>1. req[r] \in RequestRecord /\ RequestOK(req[r])
  BY DEF PermitInv, TypeOK, RequestInv
<1>2. req[r].inst \in Instances
  BY <1>1 DEF RequestOK, RequestRecord
<1>3. /\ req[r].keys \in Seq(Counters) /\ req[r].at \in Nat \ {0}
      /\ req[r].at <= Len(req[r].keys)
  BY <1>1 DEF RequestOK, RequestRecord
<1> QED
  BY <1>2, <1>3 DEF Key

LEMMA AddStep ==
    ASSUME PermitInv, NEW r \in Requests, NEW n \in Int,
           req[r].inst \in Instances, Key(r) \in Counters, Add(r, n)
    PROVE  /\ count' \in [Instances -> [Counters -> Int \cup {NoKey}]]
           /\ \A j \in Instances : process[j] = "down" => count'[j] = count[j]
<1>1. PICK i \in Instances : i = req[r].inst
  OBVIOUS
<1>2. PICK k \in Counters : k = Key(r)
  OBVIOUS
<1>3. count \in [Instances -> [Counters -> Int \cup {NoKey}]]
  BY DEF PermitInv, TypeOK
<1>4. PICK v : v = Value(count[i][k]) + n
  OBVIOUS
<1>5. Value(count[i][k]) \in Int
  BY <1>3, <1>1, <1>2 DEF Value
<1>6. v \in Int
  BY <1>4, <1>5
<1>7. count' = [count EXCEPT ![i][k] = v]
  BY <1>1, <1>2, <1>3, <1>4 DEF Add
<1>8. process[i] = "up"
  BY <1>1 DEF PermitInv, OwnersUp
<1> QED
  BY <1>3, <1>6, <1>7, <1>8

\* What has to be shown of a step that concerns only requests.
LEMMA RequestStep ==
    ASSUME IInv, UNCHANGED <<process, background, heartbeat, wiped>>,
           errors' \in Nat, semaphore' \in [Instances -> Nat],
           count' \in [Instances -> [Counters -> Int \cup {NoKey}]],
           \A j \in Instances : process[j] = "down" => count'[j] = count[j],
           req' \in [Requests -> RequestRecord], RequestInv', PermitsAreConserved',
           \A r \in Requests : req'[r].inst \in {req[r].inst, NoKey}
    PROVE  IInv' /\ RoundsClean
<1>1. TypeOK'
  BY DEF IInv, PermitInv, TypeOK
<1>2. OwnersUp'
  BY OwnersKept DEF IInv, PermitInv
<1>3. DownStays
  BY DEF DownStays
<1>4. CleanupInv' /\ RoundsClean
  BY <1>3, NoTaskStep
<1> QED
  BY <1>1, <1>2, <1>4 DEF IInv, PermitInv

\* The same for one request that keeps its permit.
LEMMA KeepingStep ==
    ASSUME IInv, NEW r \in Requests, NEW q \in RequestRecord,
           req' = [req EXCEPT ![r] = q], RequestOK(q), q.inst = req[r].inst,
           UNCHANGED <<process, semaphore, background, heartbeat, wiped>>,
           Error \/ UNCHANGED errors,
           count' \in [Instances -> [Counters -> Int \cup {NoKey}]],
           \A j \in Instances : process[j] = "down" => count'[j] = count[j]
    PROVE  IInv' /\ RoundsClean
<1>1. PermitInv /\ TypeOK /\ req \in [Requests -> RequestRecord]
      /\ semaphore \in [Instances -> Nat]
  BY DEF IInv, PermitInv, TypeOK
<1>2. req' \in [Requests -> RequestRecord] /\ RequestInv' /\ PermitsAreConserved'
  BY <1>1, OneRequestStep
<1>3. \A p \in Requests : req'[p].inst \in {req[p].inst, NoKey}
  BY <1>1
<1> QED
  BY <1>1, <1>2, <1>3, ErrorsType, RequestStep

\* The same for one that gives it back.
LEMMA ReturningStep ==
    ASSUME IInv, NEW r \in Requests, req[r].pc # "idle", Refused(r),
           UNCHANGED <<process, background, heartbeat, wiped>>,
           Error \/ UNCHANGED errors,
           count' \in [Instances -> [Counters -> Int \cup {NoKey}]],
           \A j \in Instances : process[j] = "down" => count'[j] = count[j]
    PROVE  IInv' /\ RoundsClean
<1>1. PermitInv /\ TypeOK /\ req \in [Requests -> RequestRecord]
  BY DEF IInv, PermitInv, TypeOK
<1>2. /\ semaphore' \in [Instances -> Nat]
      /\ req' \in [Requests -> RequestRecord] /\ RequestInv' /\ PermitsAreConserved'
  BY <1>1, RefusedStep
<1>3. \A p \in Requests : req'[p].inst \in {req[p].inst, NoKey}
  BY <1>1 DEF Refused, Idle
<1> QED
  BY <1>1, <1>2, <1>3, ErrorsType, RequestStep

LEMMA AcquireSteps ==
    ASSUME IInv, NEW r \in Requests,
           \/ Keys(r) \/ (\E i \in Instances : Get(r, i)) \/ LimitReached(r)
           \/ Incr(r) \/ AcquireFails(r)
    PROVE  IInv' /\ RoundsClean
<1> DEFINE o == req[r]
<1>1. /\ PermitInv /\ o \in RequestRecord /\ RequestOK(o)
      /\ count \in [Instances -> [Counters -> Int \cup {NoKey}]]
  BY DEF IInv, PermitInv, TypeOK, RequestInv
<1>2. CASE Keys(r)
  <2> DEFINE q == [o EXCEPT !.pc = "get", !.total = 0, !.missed = FALSE,
                            !.todo = {i \in Instances : count[i][Key(r)] # NoKey},
                            !.before = Holders(Key(r))]
  <2>1. Holders(Key(r)) \subseteq Requests
    BY DEF Holders
  <2>2. q \in RequestRecord
    BY <1>1, <2>1 DEF RequestRecord
  <2>3. req' = [req EXCEPT ![r] = q] /\ o.pc = "keys"
        /\ UNCHANGED <<process, semaphore, background, heartbeat, count, errors, wiped>>
    BY <1>2 DEF Keys, redis
  <2>4. q.pc = "get" /\ q.inst = o.inst /\ q.at = o.at /\ q.keys = o.keys
    BY <1>1 DEF RequestRecord
  <2>5. RequestOK(q)
    BY <1>1, <2>3, <2>4 DEF RequestOK
  <2> HIDE DEF q
  <2> QED
    BY <1>1, <2>2, <2>3, <2>4, <2>5, KeepingStep
<1>3. ASSUME NEW i \in Instances, Get(r, i)
      PROVE  IInv' /\ RoundsClean
  <2>1. o.pc = "get" /\ UNCHANGED <<process, semaphore, background, heartbeat, count, wiped>>
    BY <1>3 DEF Get, redis
  <2>2. Key(r) \in Counters
    BY <1>1, <2>1, KeyType
  <2>3. CASE UNCHANGED errors /\
             req' = [req EXCEPT ![r] = [req[r] EXCEPT !.todo = @ \ {i},
                                                 !.total = @ + GetOr0(count[i][Key(r)])]]
    <3>1. PICK v : v = GetOr0(count[i][Key(r)])
      OBVIOUS
    <3>2. v \in Nat
      <4>1. Value(count[i][Key(r)]) \in Int
        BY <1>1, <2>2 DEF Value
      <4> QED
        BY <3>1, <4>1 DEF GetOr0
    <3> DEFINE q == [o EXCEPT !.todo = @ \ {i}, !.total = @ + v]
    <3>3. o.total + v \in Nat
      BY <1>1, <3>2 DEF RequestRecord
    <3>4. q \in RequestRecord
      BY <1>1, <3>3 DEF RequestRecord
    <3>5. req' = [req EXCEPT ![r] = q]
      BY <2>3, <3>1
    <3>6. q.pc = o.pc /\ q.inst = o.inst /\ q.at = o.at /\ q.keys = o.keys
      BY <1>1 DEF RequestRecord
    <3>7. RequestOK(q)
      BY <1>1, <3>6 DEF RequestOK
    <3> HIDE DEF q
    <3> QED
      BY <1>1, <2>1, <2>3, <3>4, <3>5, <3>6, <3>7, KeepingStep
  <2>4. CASE Error /\ req' = [req EXCEPT ![r] = [req[r] EXCEPT !.todo = @ \ {i}, !.missed = TRUE]]
    <3> DEFINE q == [o EXCEPT !.todo = @ \ {i}, !.missed = TRUE]
    <3>1. q \in RequestRecord
      BY <1>1 DEF RequestRecord
    <3>2. req' = [req EXCEPT ![r] = q]
      BY <2>4
    <3>3. q.pc = o.pc /\ q.inst = o.inst /\ q.at = o.at /\ q.keys = o.keys
      BY <1>1 DEF RequestRecord
    <3>4. RequestOK(q)
      BY <1>1, <3>3 DEF RequestOK
    <3> HIDE DEF q
    <3> QED
      BY <1>1, <2>1, <2>4, <3>1, <3>2, <3>3, <3>4, KeepingStep
  <2> QED
    BY <1>3, <2>3, <2>4 DEF Get
<1>4. CASE LimitReached(r)
  <2>1. /\ o.pc = "get" /\ Refused(r)
        /\ UNCHANGED <<process, background, heartbeat, count, errors, wiped>>
    BY <1>4 DEF LimitReached, Summed, redis
  <2> QED
    BY <1>1, <2>1, ReturningStep
<1>5. CASE Incr(r)
  <2> DEFINE q == [o EXCEPT !.pc = IF o.at = Len(o.keys) THEN "held" ELSE "keys",
                            !.at = @ + 1, !.total = 0, !.missed = FALSE, !.before = {}]
  <2>1. /\ o.pc = "get" /\ Add(r, 1) /\ req' = [req EXCEPT ![r] = q]
        /\ UNCHANGED <<process, semaphore, background, heartbeat, errors, wiped>>
    BY <1>5 DEF Incr, Summed
  <2>2. o.inst \in Instances /\ Key(r) \in Counters
    BY <1>1, <2>1, KeyType
  <2>3. /\ count' \in [Instances -> [Counters -> Int \cup {NoKey}]]
        /\ \A j \in Instances : process[j] = "down" => count'[j] = count[j]
    BY <1>1, <2>1, <2>2, AddStep
  <2>4. o.at + 1 \in Nat \ {0}
    BY <1>1 DEF RequestRecord
  <2>5. q \in RequestRecord
    BY <1>1, <2>4 DEF RequestRecord
  <2>6. /\ q.pc = IF o.at = Len(o.keys) THEN "held" ELSE "keys"
        /\ q.inst = o.inst /\ q.at = o.at + 1 /\ q.keys = o.keys
    BY <1>1 DEF RequestRecord
  <2>7. o.at \in Nat /\ Len(o.keys) \in Nat /\ o.at <= Len(o.keys) /\ o.inst # NoKey
    BY <1>1, <2>1 DEF RequestOK, RequestRecord
  <2>8. RequestOK(q)
    BY <2>6, <2>7 DEF RequestOK
  <2> HIDE DEF q
  <2> QED
    BY <2>1, <2>3, <2>5, <2>6, <2>8, KeepingStep
<1>6. CASE AcquireFails(r)
  <2>1. /\ Error /\ Refused(r) /\ o.pc \in {"keys", "get"}
        /\ UNCHANGED count \/ Add(r, 1)
        /\ UNCHANGED <<process, background, heartbeat, wiped>>
    BY <1>6 DEF AcquireFails, Summed
  <2>2. o.inst \in Instances /\ Key(r) \in Counters
    BY <1>1, <2>1, KeyType
  <2>3. /\ count' \in [Instances -> [Counters -> Int \cup {NoKey}]]
        /\ \A j \in Instances : process[j] = "down" => count'[j] = count[j]
    BY <1>1, <2>1, <2>2, AddStep
  <2> QED
    BY <2>1, <2>3, ReturningStep
<1> QED
  BY <1>2, <1>3, <1>4, <1>5, <1>6

LEMMA ReleaseSteps ==
    ASSUME IInv, NEW r \in Requests, Drop(r) \/ Decr(r) \/ DropPermit(r)
    PROVE  IInv' /\ RoundsClean
<1> DEFINE o == req[r]
<1>1. /\ PermitInv /\ req \in [Requests -> RequestRecord]
      /\ semaphore \in [Instances -> Nat]
      /\ count \in [Instances -> [Counters -> Int \cup {NoKey}]]
      /\ \A p \in Requests : RequestOK(req[p])
  BY DEF IInv, PermitInv, TypeOK, RequestInv
<1>2. CASE Drop(r)
  <2>1. PICK failed \in BOOLEAN :
          /\ IF failed THEN Error ELSE UNCHANGED errors
          /\ req' = [q \in Requests |->
                      IF q = r
                      THEN [req[r] EXCEPT !.pc = "release",
                                          !.at = IF failed THEN Len(req[r].keys) + 1 ELSE 1]
                      ELSE [req[q] EXCEPT !.before = @ \ {r}]]
    BY <1>2 DEF Drop
  <2>2. /\ o.pc = "held"
        /\ UNCHANGED <<process, semaphore, background, heartbeat, count, wiped>>
    BY <1>2 DEF Drop, redis
  <2>3. PICK n : n = IF failed THEN Len(req[r].keys) + 1 ELSE 1
    OBVIOUS
  <2>4. n \in Nat \ {0}
    BY <1>1, <2>3 DEF RequestRecord
  <2> DEFINE Mine == [req[r] EXCEPT !.pc = "release", !.at = n]
             Other(q) == [req[q] EXCEPT !.before = @ \ {r}]
  <2>5. \A q \in Requests : req'[q] = IF q = r THEN Mine ELSE Other(q)
    BY <2>1, <2>3
  <2>6. Mine \in RequestRecord /\ Mine.inst = o.inst /\ Mine.pc = "release"
    <3>1. req[r] \in RequestRecord
      BY <1>1
    <3> QED
      BY <2>4, <3>1 DEF RequestRecord
  <2>7. RequestOK(Mine)
    BY <1>1, <2>2, <2>6 DEF RequestOK
  <2>8. ASSUME NEW q \in Requests
        PROVE  Other(q) \in RequestRecord /\ Other(q).inst = req[q].inst /\ RequestOK(Other(q))
    <3>1. req[q] \in RequestRecord
      BY <1>1
    <3>2. /\ Other(q) \in RequestRecord /\ Other(q).inst = req[q].inst
          /\ Other(q).pc = req[q].pc /\ Other(q).at = req[q].at /\ Other(q).keys = req[q].keys
      BY <3>1 DEF RequestRecord
    <3> QED
      BY <1>1, <3>2 DEF RequestOK
  <2> HIDE DEF Mine, Other
  <2>9. req' \in [Requests -> RequestRecord] /\ RequestInv'
    <3>1. DOMAIN req' = Requests /\ req' = [q \in Requests |-> req'[q]]
      BY <2>1
    <3> QED
      BY <2>5, <2>6, <2>7, <2>8, <3>1 DEF RequestInv
  <2>10. \A q \in Requests : req'[q].inst = req[q].inst
    BY <2>5, <2>6, <2>8
  <2>11. PermitsAreConserved'
    BY <2>2, <2>10, SameOwners DEF IInv, PermitInv
  <2>12. errors' \in Nat
    BY <2>1, ErrorsType DEF IInv, PermitInv
  <2> QED
    BY <1>1, <2>2, <2>9, <2>10, <2>11, <2>12, RequestStep
<1>3. CASE Decr(r)
  <2> DEFINE q == [o EXCEPT !.at = @ + 1]
  <2>1. /\ o.pc = "release" /\ o.at <= Len(o.keys)
        /\ UNCHANGED errors \/ Error
        /\ Add(r, -1) \/ UNCHANGED count
        /\ req' = [req EXCEPT ![r] = q]
        /\ UNCHANGED <<process, semaphore, background, heartbeat, wiped>>
    BY <1>3 DEF Decr
  <2>2. o.inst \in Instances /\ Key(r) \in Counters
    BY <1>1, <2>1, KeyType
  <2>3. /\ count' \in [Instances -> [Counters -> Int \cup {NoKey}]]
        /\ \A j \in Instances : process[j] = "down" => count'[j] = count[j]
    BY <1>1, <2>1, <2>2, AddStep
  <2>4. o \in RequestRecord /\ o.at + 1 \in Nat \ {0}
    BY <1>1 DEF RequestRecord
  <2>5. q \in RequestRecord /\ q.pc = o.pc /\ q.inst = o.inst
    BY <2>4 DEF RequestRecord
  <2>6. RequestOK(q)
    BY <1>1, <2>1, <2>5 DEF RequestOK
  <2> HIDE DEF q
  <2> QED
    BY <2>1, <2>3, <2>5, <2>6, KeepingStep
<1>4. CASE DropPermit(r)
  <2>1. /\ o.pc = "release" /\ Refused(r)
        /\ UNCHANGED <<process, background, heartbeat, count, errors, wiped>>
    BY <1>4 DEF DropPermit, redis
  <2> QED
    BY <1>1, <2>1, ReturningStep
<1> QED
  BY <1>2, <1>3, <1>4

\* start_background_tasks wakes a task or leaves all as they are.
LEMMA StartStep ==
    ASSUME IInv, NEW i \in Instances, start_background_tasks(i), DownStays
    PROVE  background' \in [Instances -> TaskRecord] /\ CleanupInv' /\ RoundsClean
<1>1. background \in [Instances -> TaskRecord]
  BY DEF IInv, PermitInv, TypeOK
<1>2. CASE background[i].pc = "none"
  <2>1. PICK o \in TaskRecord : o = background[i]
    BY <1>1
  <2> DEFINE b == [o EXCEPT !.pc = "heartbeat"]
  <2>2. background' = [background EXCEPT ![i] = b]
    BY <1>1, <1>2, <2>1 DEF start_background_tasks
  <2>3. b \in TaskRecord /\ b.pc = "heartbeat" /\ b.dead = o.dead
    BY DEF TaskRecord
  <2>4. Clean(o)'
    BY <2>1, CleanKept DEF IInv, CleanupInv
  <2> HIDE DEF b
  <2>5. PICK c : c = b
    OBVIOUS
  <2>6. Clean(c)'
    BY <2>3, <2>4, <2>5 DEF Clean
  <2> QED
    BY <1>2, <2>2, <2>3, <2>5, <2>6, OneTaskStep
<1>3. CASE background[i].pc # "none"
  BY <1>1, <1>3, NoTaskStep DEF start_background_tasks
<1> QED
  BY <1>2, <1>3

LEMMA BeginSteps ==
    ASSUME IInv, NEW r \in Requests, NEW i \in Instances,
           \/ \E a \in Addrs, app \in Apps \cup {NoApp} : Begin(r, i, a, app)
           \/ BeginRefused(r, i)
    PROVE  IInv' /\ RoundsClean
<1>1. PermitInv /\ TypeOK
  BY DEF IInv, PermitInv
<1>2. /\ start_background_tasks(i) /\ process[i] = "up"
      /\ UNCHANGED <<process, heartbeat, count, wiped>>
      /\ Error \/ UNCHANGED errors
  BY DEF Begin, BeginRefused, redis
<1>3. DownStays
  BY <1>2 DEF DownStays
<1>4. background' \in [Instances -> TaskRecord] /\ CleanupInv' /\ RoundsClean
  BY <1>2, <1>3, StartStep
<1>5. errors' \in Nat
  BY <1>1, <1>2, ErrorsType
<1>6. ASSUME NEW a \in Addrs, NEW app \in Apps \cup {NoApp}, Begin(r, i, a, app)
      PROVE  IInv' /\ RoundsClean
  <2>1. /\ semaphore' \in [Instances -> Nat]
        /\ req' \in [Requests -> RequestRecord] /\ RequestInv' /\ PermitsAreConserved'
    BY <1>1, <1>6, BeginStep
  <2>2. TypeOK'
    BY <1>1, <1>2, <1>4, <1>5, <2>1 DEF TypeOK
  <2>3. \A p \in Requests : p # r => req'[p] = req[p]
    BY <1>1, <1>6 DEF Begin, TypeOK
  <2>4. req'[r].inst = i
    BY <1>1, <1>6 DEF Begin, TypeOK, Idle
  <2>5. OwnersUp'
    BY <1>1, <1>2, <2>3, <2>4 DEF PermitInv, OwnersUp
  <2> QED
    BY <1>4, <2>1, <2>2, <2>5 DEF IInv, PermitInv
<1>7. CASE BeginRefused(r, i)
  <2>1. UNCHANGED <<semaphore, req>>
    BY <1>7 DEF BeginRefused
  <2>2. TypeOK' /\ RequestInv' /\ OwnersUp'
    BY <1>1, <1>2, <1>4, <1>5, <2>1 DEF PermitInv, TypeOK, RequestInv, OwnersUp
  <2>3. PermitsAreConserved'
    BY <1>1, <2>1, SameOwners DEF PermitInv
  <2> QED
    BY <1>4, <2>2, <2>3 DEF IInv, PermitInv
<1> QED
  BY <1>6, <1>7
-----------------------------------------------------------------------------
(* The steps of processes *)

LEMMA ProcessSteps ==
    ASSUME IInv, NEW i \in Instances, new(i) \/ Crash(i) \/ Expire(i)
    PROVE  IInv' /\ RoundsClean
<1>1. PermitInv /\ TypeOK /\ OwnersUp /\ PermitsAreConserved
  BY DEF IInv, PermitInv
<1>2. CASE new(i) \/ Expire(i)
  <2>1. /\ UNCHANGED <<semaphore, background, count, req, wiped>>
        /\ Error \/ UNCHANGED errors
        /\ heartbeat' \in [Instances -> BOOLEAN]
        /\ process' \in [Instances -> {"new", "up", "down"}]
        /\ \A j \in Instances : process[j] = "up" => process'[j] = "up"
    BY <1>1, <1>2 DEF TypeOK, new, Expire
  <2>2. DownStays
    BY <1>1, <1>2 DEF TypeOK, new, Expire, DownStays
  <2>3. CleanupInv' /\ RoundsClean
    BY <2>1, <2>2, NoTaskStep
  <2>4. TypeOK'
    BY <1>1, <2>1, ErrorsType DEF TypeOK
  <2>5. RequestInv' /\ OwnersUp'
    BY <1>1, <2>1 DEF PermitInv, RequestInv, OwnersUp
  <2>6. PermitsAreConserved'
    BY <1>1, <2>1, SameOwners
  <2> QED
    BY <2>3, <2>4, <2>5, <2>6 DEF IInv, PermitInv
<1>3. CASE Crash(i)
  <2>1. /\ semaphore' \in [Instances -> Nat]
        /\ req' \in [Requests -> RequestRecord] /\ RequestInv' /\ PermitsAreConserved'
    BY <1>1, <1>3, CrashStep
  <2>2. /\ process[i] = "up" /\ process' = [process EXCEPT ![i] = "down"]
        /\ background' = [background EXCEPT ![i] = NotStarted]
        /\ UNCHANGED <<heartbeat, count, errors, wiped>>
    BY <1>3 DEF Crash, redis
  <2>3. DownStays
    BY <1>1, <2>2 DEF TypeOK, DownStays
  <2>4. PICK b : b = NotStarted
    OBVIOUS
  <2>5. b \in TaskRecord /\ b.pc = "none" /\ b.dead = {}
    BY <2>4, NotStartedFacts DEF NotStarted
  <2>6. Clean(b)'
    BY <2>5 DEF Clean
  <2>7. background' \in [Instances -> TaskRecord] /\ CleanupInv' /\ RoundsClean
    BY <2>2, <2>3, <2>4, <2>5, <2>6, OneTaskStep
  <2>8. TypeOK'
    BY <1>1, <2>1, <2>2, <2>7 DEF TypeOK
  <2>9. OwnersUp'
    <3> DEFINE gone == {r \in Requests : req[r].inst = i}
    <3>1. req' = [r \in Requests |->
                    IF r \in gone THEN Idle ELSE [req[r] EXCEPT !.before = @ \ gone]]
      BY <1>3 DEF Crash
    <3>2. ASSUME NEW r \in Requests, req'[r].inst \in Instances
          PROVE  process'[req'[r].inst] = "up"
      <4>1. Idle.inst = NoKey /\ NoKey \notin Instances
        BY RedisAssumption DEF Idle
      <4>2. r \notin gone
        BY <3>1, <3>2, <4>1
      <4>3. req[r] \in RequestRecord
        BY <1>1 DEF TypeOK
      <4>4. req'[r].inst = req[r].inst
        <5>1. req'[r] = [req[r] EXCEPT !.before = @ \ gone]
          BY <3>1, <4>2
        <5> QED
          BY <4>3, <5>1 DEF RequestRecord
      <4>5. req[r].inst # i
        BY <4>2
      <4> QED
        BY <1>1, <2>2, <3>2, <4>4, <4>5 DEF OwnersUp, TypeOK
    <3> QED
      BY <3>2 DEF OwnersUp
  <2> QED
    BY <2>1, <2>7, <2>8, <2>9 DEF IInv, PermitInv
<1> QED
  BY <1>2, <1>3
-----------------------------------------------------------------------------
(* The steps of background tasks *)

\* What has to be shown of such a step.
LEMMA TaskStep ==
    ASSUME IInv, UNCHANGED <<process, semaphore, req>>,
           Error \/ UNCHANGED errors, wiped' \in BOOLEAN,
           heartbeat' \in [Instances -> BOOLEAN],
           count' \in [Instances -> [Counters -> Int \cup {NoKey}]],
           background' \in [Instances -> TaskRecord] /\ CleanupInv' /\ RoundsClean
    PROVE  IInv' /\ RoundsClean
<1>1. TypeOK'
  BY ErrorsType DEF IInv, PermitInv, TypeOK
<1>2. RequestInv' /\ OwnersUp'
  BY DEF IInv, PermitInv, RequestInv, OwnersUp
<1>3. PermitsAreConserved'
  BY SameOwners DEF IInv, PermitInv
<1> QED
  BY <1>1, <1>2, <1>3 DEF IInv, PermitInv

LEMMA StaleType ==
    ASSUME NEW i \in Instances, NEW kind \in {"ip", "app"}, NEW S
    PROVE  StaleIds(i, kind, S) \subseteq {"ip", "app"} \X (Instances \cup {NoKey})
<1>1. ASSUME NEW jk \in Instances \X S
      PROVE  IdIn(jk[1], jk[2]) \in Instances \cup {NoKey}
  BY DEF IdIn
<1> QED
  BY <1>1 DEF StaleIds

\* An instance that left a counter of S, is not active and is not the task's own, is
\* found, unless the counter is of an IPv6 address.
LEMMA StaleFound ==
    ASSUME NEW i \in Instances, NEW kind, NEW S, NEW j \in Instances, NEW k \in S,
           k \notin IPv6, count[j][k] # NoKey, j \notin background[i].active, j # i
    PROVE  <<kind, j>> \in StaleIds(i, kind, S)
<1> DEFINE x == <<j, k>>
<1>1. x \in {y \in Instances \X S : count[y[1]][y[2]] # NoKey}
  OBVIOUS
<1>2. IdIn(x[1], x[2]) = j
  BY DEF IdIn
<1>3. j \in {IdIn(jk[1], jk[2]) : jk \in {y \in Instances \X S : count[y[1]][y[2]] # NoKey}}
  BY <1>1, <1>2
<1> QED
  BY <1>3 DEF StaleIds

LEMMA ListSteps ==
    ASSUME IInv, NEW i \in Instances,
           update_heartbeat(i) \/ ListHeartbeats(i) \/ ListIpIds(i) \/ CleanupFails(i)
    PROVE  IInv' /\ RoundsClean
<1>1. /\ background \in [Instances -> TaskRecord] /\ heartbeat \in [Instances -> BOOLEAN]
      /\ count \in [Instances -> [Counters -> Int \cup {NoKey}]]
      /\ wiped \in BOOLEAN /\ errors \in Nat
  BY DEF IInv, PermitInv, TypeOK
<1>2. PICK o \in TaskRecord : o = background[i]
  BY <1>1
<1>3. Clean(o)
  BY <1>2 DEF IInv, CleanupInv
<1>4. /\ process[i] = "up" /\ UNCHANGED <<process, semaphore, count, req, wiped>>
      /\ Error \/ UNCHANGED errors
      /\ heartbeat' \in [Instances -> BOOLEAN]
      /\ \A j \in Instances \ {i} : heartbeat'[j] = heartbeat[j]
  BY <1>1 DEF update_heartbeat, ListHeartbeats, ListIpIds, CleanupFails, Background, redis
<1>5. DownStays
  BY <1>4 DEF DownStays
<1>6. Clean(o)'
  BY <1>3, <1>5, CleanKept
<1>7. ASSUME NEW b \in TaskRecord, background' = [background EXCEPT ![i] = b], Clean(b)',
             b.pc = "heartbeat" => ~UNCHANGED errors
      PROVE  IInv' /\ RoundsClean
  <2>1. background' \in [Instances -> TaskRecord] /\ CleanupInv' /\ RoundsClean
    BY <1>5, <1>7, OneTaskStep
  <2> QED
    BY <1>1, <1>4, <2>1, TaskStep
<1>8. CASE update_heartbeat(i)
  <2>1. PICK b : b = [o EXCEPT !.pc = "heartbeats"]
    OBVIOUS
  <2>2. b \in TaskRecord /\ b.pc = "heartbeats" /\ b.dead = o.dead
    BY <2>1 DEF TaskRecord
  <2>3. background' = [background EXCEPT ![i] = b]
    BY <1>1, <1>2, <1>8, <2>1 DEF update_heartbeat
  <2>4. Clean(b)'
    BY <1>6, <2>2 DEF Clean
  <2> QED
    BY <1>7, <2>2, <2>3, <2>4
<1>9. CASE ListHeartbeats(i)
  <2> DEFINE active == {j \in Instances : heartbeat[j]}
             dead == {j \in Instances : process[j] = "down" /\ ~heartbeat[j]}
  <2>1. PICK b : b = [o EXCEPT !.pc = "ip_ids", !.active = active, !.dead = dead]
    OBVIOUS
  <2>2. b \in TaskRecord /\ b.pc = "ip_ids" /\ b.active = active /\ b.dead = dead
    BY <2>1 DEF TaskRecord
  <2>3. background' = [background EXCEPT ![i] = b] /\ UNCHANGED <<heartbeat, process>>
    BY <1>2, <1>9, <2>1 DEF ListHeartbeats, redis
  <2>4. Clean(b)'
    BY <2>2, <2>3 DEF Clean
  <2> QED
    BY <1>7, <2>2, <2>3, <2>4
<1>10. CASE ListIpIds(i)
  <2>1. PICK s : s = StaleIds(i, "ip", Addrs)
    OBVIOUS
  <2>2. PICK b : b = [o EXCEPT !.pc = "app_ids", !.stale = s]
    OBVIOUS
  <2>3. s \subseteq {"ip", "app"} \X (Instances \cup {NoKey})
    BY <2>1, StaleType
  <2>4. /\ b \in TaskRecord /\ b.pc = "app_ids" /\ b.active = o.active /\ b.dead = o.dead
        /\ b.stale = s
    BY <2>2, <2>3 DEF TaskRecord
  <2>5. /\ background' = [background EXCEPT ![i] = b]
        /\ UNCHANGED <<heartbeat, process, count>> /\ o.pc = "ip_ids"
    BY <1>2, <1>10, <2>1, <2>2 DEF ListIpIds, Background, redis
  <2>6. \A j \in b.dead, k \in IPv4 : count[j][k] # NoKey => <<"ip", j>> \in s
    <3> SUFFICES ASSUME NEW j \in b.dead, NEW k \in IPv4, count[j][k] # NoKey
                 PROVE  <<"ip", j>> \in s
      OBVIOUS
    <3>1. j \in Instances /\ j # i /\ j \notin o.active
      BY <1>3, <1>4, <2>4, <2>5 DEF Clean, TaskRecord
    <3>2. k \in Addrs /\ k \notin IPv6
      BY RedisAssumption DEF Addrs
    <3> QED
      BY <1>2, <2>1, <3>1, <3>2, StaleFound
  <2>7. Clean(b)'
    BY <1>3, <2>4, <2>5, <2>6 DEF Clean
  <2> QED
    BY <1>7, <2>4, <2>5, <2>7
<1>11. CASE CleanupFails(i)
  <2>1. PICK b : b = [NotStarted EXCEPT !.pc = "heartbeat"]
    OBVIOUS
  <2>2. b \in TaskRecord /\ b.pc = "heartbeat" /\ b.dead = {}
    <3>1. NotStarted.dead = {}
      BY DEF NotStarted
    <3> QED
      BY <2>1, <3>1, NotStartedFacts DEF TaskRecord
  <2>3. background' = [background EXCEPT ![i] = b] /\ Error
    BY <1>11, <2>1 DEF CleanupFails
  <2>4. Clean(b)'
    BY <2>2 DEF Clean
  <2>5. ~UNCHANGED errors
    BY <1>1, <2>3 DEF Error
  <2> QED
    BY <1>7, <2>2, <2>3, <2>4, <2>5
<1> QED
  BY <1>8, <1>9, <1>10, <1>11

LEMMA ListIpKeysStep ==
    ASSUME IInv, NEW i \in Instances, ListIpKeys(i)
    PROVE  IInv' /\ RoundsClean
<1>1. /\ background \in [Instances -> TaskRecord] /\ heartbeat \in [Instances -> BOOLEAN]
      /\ count \in [Instances -> [Counters -> Int \cup {NoKey}]] /\ wiped \in BOOLEAN
  BY DEF IInv, PermitInv, TypeOK
<1>2. PICK o \in TaskRecord : o = background[i]
  BY <1>1
<1>3. PICK s \in o.stale :
        background' = [background EXCEPT ![i] =
                [background[i] EXCEPT !.pc = "app_keys", !.stale = @ \ {s}, !.id = s[2],
                                      !.keys = KeysOf(s[2], Addrs)]]
  BY <1>2 DEF ListIpKeys
<1>4. /\ o.pc = "ip_keys"
      /\ UNCHANGED <<process, semaphore, heartbeat, count, req, errors, wiped>>
  BY <1>2 DEF ListIpKeys, Background, redis
<1>5. Clean(o) /\ DownStays
  BY <1>2, <1>4 DEF IInv, CleanupInv, DownStays
<1>6. s[2] \in Instances \cup {NoKey}
  BY DEF TaskRecord
<1>7. PICK keys : keys = KeysOf(s[2], Addrs)
  OBVIOUS
<1>8. keys \subseteq Instances \X Counters
  BY <1>7 DEF KeysOf, Counters
<1>9. PICK b : b = [o EXCEPT !.pc = "app_keys", !.stale = @ \ {s}, !.id = s[2], !.keys = keys]
  OBVIOUS
<1>10. /\ b \in TaskRecord /\ b.pc = "app_keys" /\ b.stale = o.stale \ {s} /\ b.id = s[2]
       /\ b.keys = keys /\ b.dead = o.dead
  BY <1>6, <1>8, <1>9 DEF TaskRecord
<1>11. background' = [background EXCEPT ![i] = b]
  BY <1>2, <1>3, <1>7, <1>9
<1>12. \A j \in b.dead, k \in Counters \ IPv6 : count[j][k] # NoKey => Pending(b, j, k)
  <2> SUFFICES ASSUME NEW j \in b.dead, NEW k \in Counters \ IPv6, count[j][k] # NoKey
               PROVE  Pending(b, j, k)
    OBVIOUS
  <2>1. j \in Instances
    BY <1>10 DEF TaskRecord
  <2>2. PICK t \in o.stale : t[2] = j
    BY <1>4, <1>5, <1>10 DEF Clean, Pending
  <2>3. CASE t # s
    BY <1>10, <2>2, <2>3 DEF Pending
  <2>4. CASE t = s /\ k \in Apps
    BY <1>10, <2>2, <2>4 DEF Pending
  <2>5. CASE t = s /\ k \in Addrs
    <3>1. <<j, k>> \in KeysOf(j, Addrs)
      BY <2>1, <2>5 DEF KeysOf
    <3> QED
      BY <1>7, <1>10, <2>2, <2>5, <3>1 DEF Pending
  <2> QED
    BY <2>3, <2>4, <2>5 DEF Counters
<1>13. Clean(b)'
  BY <1>4, <1>5, <1>10, <1>12 DEF Clean, Pending
<1>14. background' \in [Instances -> TaskRecord] /\ CleanupInv' /\ RoundsClean
  BY <1>5, <1>10, <1>11, <1>13, OneTaskStep
<1> QED
  BY <1>1, <1>4, <1>14, TaskStep

\* A step that resumes the loop over the stale instances with what b lists.
LEMMA ResumeStep ==
    ASSUME IInv, NEW i \in Instances, NEW b \in TaskRecord,
           b.dead = background[i].dead, background' = [background EXCEPT ![i] = Resume(b)],
           DownStays, UNCHANGED <<process, semaphore, heartbeat, req, errors>>,
           count' \in [Instances -> [Counters -> Int \cup {NoKey}]], wiped' \in BOOLEAN,
           \A j \in b.dead, k \in Counters \ IPv6 : count'[j][k] # NoKey =>
               <<j, k>> \in b.keys \/ \E s \in b.stale : s[2] = j
    PROVE  IInv' /\ RoundsClean
<1>1. \A j \in b.dead : process'[j] = "down" /\ ~heartbeat'[j]
  BY DEF IInv, CleanupInv, Clean
<1>2. PICK c : c = Resume(b)
  OBVIOUS
<1>3. Clean(Resume(b))'
  BY <1>1, ResumeClean
<1>4. Clean(c)'
  BY <1>2, <1>3
<1>5. c.pc = "heartbeat" => \A j \in b.dead, k \in Counters \ IPv6 : count'[j][k] = NoKey
  BY <1>1, <1>2, ResumeClean
<1>6. c \in TaskRecord
  BY <1>2, ResumeType
<1>7. background' \in [Instances -> TaskRecord] /\ CleanupInv' /\ RoundsClean
  BY <1>2, <1>4, <1>5, <1>6, OneTaskStep
<1>8. heartbeat' \in [Instances -> BOOLEAN]
  BY DEF IInv, PermitInv, TypeOK
<1> QED
  BY <1>7, <1>8, TaskStep

LEMMA LoopSteps ==
    ASSUME IInv, NEW i \in Instances, ListAppIds(i) \/ ListAppKeys(i) \/ Del(i)
    PROVE  IInv' /\ RoundsClean
<1>1. /\ background \in [Instances -> TaskRecord]
      /\ count \in [Instances -> [Counters -> Int \cup {NoKey}]]
      /\ wiped \in BOOLEAN
  BY DEF IInv, PermitInv, TypeOK
<1>2. PICK o \in TaskRecord : o = background[i]
  BY <1>1
<1>3. Clean(o) /\ o.dead \subseteq Instances
  BY <1>2 DEF IInv, CleanupInv, TaskRecord
<1>4. \A j \in o.dead, k \in Counters \ IPv6 :
        k \in Apps \/ (k \in IPv4 /\ k \notin Apps)
  BY DEF Counters, Addrs
<1>5. CASE ListAppIds(i)
  <2>1. PICK s : s = StaleIds(i, "app", Apps)
    OBVIOUS
  <2>2. PICK b : b = [o EXCEPT !.stale = @ \cup s]
    OBVIOUS
  <2>3. s \subseteq {"ip", "app"} \X (Instances \cup {NoKey})
    BY <2>1, StaleType
  <2>4. b \in TaskRecord /\ b.stale = o.stale \cup s /\ b.dead = o.dead /\ b.keys = o.keys
    BY <2>2, <2>3 DEF TaskRecord
  <2>5. /\ background' = [background EXCEPT ![i] = Resume(b)]
        /\ o.pc = "app_ids" /\ process[i] = "up"
        /\ UNCHANGED <<process, semaphore, heartbeat, count, req, errors, wiped>>
    BY <1>2, <1>5, <2>1, <2>2 DEF ListAppIds, Background, redis
  <2>6. ASSUME NEW j \in b.dead, NEW k \in Counters \ IPv6, count'[j][k] # NoKey
        PROVE  \E t \in b.stale : t[2] = j
    <3>1. j \in Instances /\ j # i /\ j \notin o.active /\ count[j][k] # NoKey
      BY <1>3, <2>4, <2>5, <2>6 DEF Clean
    <3>2. CASE k \in IPv4
      <4>1. <<"ip", j>> \in o.stale
        BY <1>3, <2>4, <2>5, <3>1, <3>2 DEF Clean
      <4> QED
        BY <2>4, <4>1
    <3>3. CASE k \in Apps
      <4>1. <<"app", j>> \in s
        BY <1>2, <2>1, <3>1, <3>3, StaleFound
      <4> QED
        BY <2>4, <4>1
    <3> QED
      BY <1>4, <2>4, <3>2, <3>3
  <2>7. DownStays
    BY <2>5 DEF DownStays
  <2> QED
    BY <1>1, <1>2, <2>4, <2>5, <2>6, <2>7, ResumeStep
<1>6. CASE ListAppKeys(i)
  <2>1. PICK keys : keys = KeysOf(o.id, Apps)
    OBVIOUS
  <2>2. PICK b : b = [o EXCEPT !.keys = @ \cup keys]
    OBVIOUS
  <2>3. keys \subseteq Instances \X Counters
    BY <2>1 DEF KeysOf, Counters
  <2>4. b \in TaskRecord /\ b.stale = o.stale /\ b.dead = o.dead /\ b.keys = o.keys \cup keys
    BY <2>2, <2>3 DEF TaskRecord
  <2>5. /\ background' = [background EXCEPT ![i] = Resume(b)] /\ o.pc = "app_keys"
        /\ UNCHANGED <<process, semaphore, heartbeat, count, req, errors, wiped>>
    BY <1>2, <1>6, <2>1, <2>2 DEF ListAppKeys, Background, redis
  <2>6. ASSUME NEW j \in b.dead, NEW k \in Counters \ IPv6, count'[j][k] # NoKey
        PROVE  <<j, k>> \in b.keys \/ \E t \in b.stale : t[2] = j
    <3>1. Pending(o, j, k) /\ j \in Instances /\ count[j][k] # NoKey
      BY <1>3, <2>4, <2>5, <2>6 DEF Clean
    <3>2. CASE o.id = j /\ k \in Apps
      <4>1. <<j, k>> \in KeysOf(j, Apps)
        BY <3>1, <3>2 DEF KeysOf
      <4> QED
        BY <2>1, <2>4, <3>2, <4>1
    <3> QED
      BY <2>4, <3>1, <3>2 DEF Pending
  <2>7. DownStays
    BY <2>5 DEF DownStays
  <2> QED
    BY <1>1, <1>2, <2>4, <2>5, <2>6, <2>7, ResumeStep
<1>7. CASE Del(i)
  <2>1. PICK jk \in o.keys :
          /\ count' = [count EXCEPT ![jk[1]][jk[2]] = NoKey]
          /\ background' = [background EXCEPT
                ![i] = Resume([background[i] EXCEPT !.keys = @ \ {jk}])]
          /\ wiped' = (wiped \/ process[jk[1]] = "up")
    BY <1>2, <1>7 DEF Del
  <2>2. jk \in Instances \X Counters
    BY DEF TaskRecord
  <2>3. PICK b : b = [o EXCEPT !.keys = @ \ {jk}]
    OBVIOUS
  <2>4. b \in TaskRecord /\ b.stale = o.stale /\ b.dead = o.dead /\ b.keys = o.keys \ {jk}
    BY <2>3 DEF TaskRecord
  <2>5. /\ background' = [background EXCEPT ![i] = Resume(b)] /\ o.pc = "del"
        /\ UNCHANGED <<process, semaphore, heartbeat, req, errors>>
    BY <1>2, <1>7, <2>1, <2>3 DEF Del, Background
  <2>6. /\ count' \in [Instances -> [Counters -> Int \cup {NoKey}]]
        /\ \A j \in Instances, k \in Counters :
              count'[j][k] = IF <<j, k>> = jk THEN NoKey ELSE count[j][k]
    BY <1>1, <2>1, <2>2
  <2>7. wiped' \in BOOLEAN
    BY <1>1, <2>1
  <2>8. DownStays
    BY <2>5, <2>6 DEF DownStays
  <2>9. ASSUME NEW j \in b.dead, NEW k \in Counters \ IPv6, count'[j][k] # NoKey
        PROVE  <<j, k>> \in b.keys \/ \E t \in b.stale : t[2] = j
    <3>1. j \in Instances /\ count[j][k] # NoKey /\ <<j, k>> # jk
      BY <1>3, <2>4, <2>6, <2>9
    <3>2. Pending(o, j, k)
      BY <1>3, <2>4, <2>5, <3>1 DEF Clean
    <3> QED
      BY <2>4, <2>5, <3>1, <3>2 DEF Pending
  <2> QED
    BY <1>2, <2>4, <2>5, <2>6, <2>7, <2>8, <2>9, ResumeStep
<1> QED
  BY <1>5, <1>6, <1>7
-----------------------------------------------------------------------------
LEMMA InitIInv == Init => IInv
<1> SUFFICES ASSUME Init PROVE IInv
  OBVIOUS
<1>1. TypeOK
  BY IdleFacts, NotStartedFacts, RedisAssumption DEF Init, TypeOK
<1>2. RequestInv
  BY IdleFacts DEF Init, RequestInv
<1>3. \A r \in Requests : req[r].inst = NoKey
  BY DEF Init, Idle
<1>4. NoKey \notin Instances
  BY RedisAssumption
<1>5. OwnersUp
  BY <1>3, <1>4 DEF OwnersUp
<1>6. PermitsAreConserved
  <2>1. \A i \in Instances : Owned(i) = {}
    BY <1>3, <1>4 DEF Owned
  <2>2. \A i \in Instances : semaphore[i] = instance_limit /\ Cardinality(Owned(i)) = 0
    BY <2>1, FS_EmptySet DEF Init
  <2> QED
    BY <2>2, RedisAssumption DEF PermitsAreConserved
<1>7. CleanupInv
  <2>1. \A i \in Instances : background[i].pc = "none" /\ background[i].dead = {}
    BY DEF Init, NotStarted
  <2> QED
    BY <2>1 DEF CleanupInv, Clean
<1> QED
  BY <1>1, <1>2, <1>5, <1>6, <1>7 DEF IInv, PermitInv

LEMMA NextIInv == IInv /\ [Next]_vars => IInv' /\ RoundsClean
<1> SUFFICES ASSUME IInv, [Next]_vars PROVE IInv' /\ RoundsClean
  OBVIOUS
<1>1. CASE UNCHANGED vars
  <2>1. UNCHANGED <<process, semaphore, background, heartbeat, count, req, errors, wiped>>
    BY <1>1 DEF vars, redis
  <2>2. DownStays
    BY <2>1 DEF DownStays
  <2>3. CleanupInv' /\ RoundsClean
    BY <2>1, <2>2, NoTaskStep
  <2>4. background' \in [Instances -> TaskRecord] /\ heartbeat' \in [Instances -> BOOLEAN]
        /\ count' \in [Instances -> [Counters -> Int \cup {NoKey}]] /\ wiped' \in BOOLEAN
    BY <2>1 DEF IInv, PermitInv, TypeOK
  <2> QED
    BY <2>1, <2>3, <2>4, TaskStep
<1>2. ASSUME NEW r \in Requests, try_acquire(r)
      PROVE  IInv' /\ RoundsClean
  <2>1. \A i \in Route[r] : i \in Instances
    BY RedisAssumption
  <2>2. CASE \E i \in Route[r] :
                \/ \E a \in Addrs, app \in Apps \cup {NoApp} : Begin(r, i, a, app)
                \/ BeginRefused(r, i)
    BY <2>1, <2>2, BeginSteps
  <2> QED
    BY <1>2, <2>2, AcquireSteps DEF try_acquire
<1>3. ASSUME NEW r \in Requests, Drop(r) \/ release(r)
      PROVE  IInv' /\ RoundsClean
  BY <1>3, ReleaseSteps DEF release
<1>4. ASSUME NEW i \in Instances, new(i) \/ Crash(i) \/ Expire(i)
      PROVE  IInv' /\ RoundsClean
  BY <1>4, ProcessSteps
<1>5. ASSUME NEW i \in Instances, Task(i)
      PROVE  IInv' /\ RoundsClean
  BY <1>5, ListSteps, ListIpKeysStep, LoopSteps DEF Task
<1> QED
  BY <1>1, <1>2, <1>3, <1>4, <1>5 DEF Next

LEMMA InvariantHolds == Spec => []IInv
  BY InitIInv, NextIInv, PTL DEF Spec

\* Permits and errors stay natural numbers, every counter is an integer or missing, and
\* the records of requests and background tasks stay well formed.
THEOREM TypeCorrect == Spec => []TypeOK
<1>1. IInv => TypeOK
  BY DEF IInv, PermitInv
<1> QED
  BY <1>1, InvariantHolds, PTL

\* For any number of instances and requests, whatever commands fail and whichever
\* processes crash, an instance's permits are held by its requests or available, and
\* instance_limit bounds the former.
THEOREM PermitsConserved == Spec => []PermitsAreConserved
<1>1. IInv => PermitsAreConserved
  BY DEF IInv, PermitInv
<1> QED
  BY <1>1, InvariantHolds, PTL

\* Whatever requests, other cleanups, crashes and expirations interleave with it, a
\* round without a failing command deletes all counters of applications and IPv4
\* addresses that instances gone at its beginning have left.
THEOREM RoundCleansUp == Spec => OneRoundCleansUp
<1>1. IInv /\ [Next]_vars => [RoundsClean]_vars
  BY NextIInv
<1>2. Spec => [][RoundsClean]_vars
  BY <1>1, InvariantHolds, PTL DEF Spec
<1>3. [RoundsClean]_vars =>
        [\A i \in Instances : RoundEnds(i) =>
            \A j \in background[i].dead, k \in Counters \ IPv6 : count'[j][k] = NoKey]_vars
  BY DEF RoundsClean
<1> QED
  BY <1>2, <1>3, PTL DEF OneRoundCleansUp
=============================================================================
