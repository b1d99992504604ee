------------------------ MODULE WebsocketProxyProofs ------------------------
(***************************************************************************)
(* Proofs about WebsocketProxy, for any finite number of clients, any      *)
(* addresses, applications and limits, and any number of messages.         *)
(***************************************************************************)
EXTENDS WebsocketProxy, FiniteSetTheorems, TLAPS

\* What a connection has received, relative to the receiver's position.
Delivery(r) ==
    /\ r.pc \in {"none", "upgrade"} => r.got = <<>>
    /\ r.pc = "open" => r.next = r.start + Len(r.got)
    /\ r.pc = "sending" => r.next = r.start + Len(r.got) + 1
    /\ \A i \in 1 .. Len(r.got) : r.got[i] = r.start + i - 1
DeliveryInv == \A c \in Clients : Delivery(conn[c])

IInv == TypeOK /\ PermitsAreConserved /\ IpLimitHolds /\ AppLimitHolds /\ DeliveryInv

LEMMA NoConnectionFacts ==
    NoConnection \in ConnRecord /\ Delivery(NoConnection)
<1>1. <<>> \in Seq(Nat) /\ Len(<<>>) = 0
  OBVIOUS
<1>2. NoConnection \in ConnRecord
  BY <1>1 DEF NoConnection, ConnRecord, Counted
<1> QED
  BY <1>1, <1>2 DEF NoConnection, Delivery

LEMMA ConnFinite ==
    /\ IsFiniteSet(Holding)
    /\ \A a \in Addrs : IsFiniteSet(FromIp(a)) /\ Cardinality(FromIp(a)) \in Nat
    /\ \A x \in Apps : IsFiniteSet(OfApp(x)) /\ Cardinality(OfApp(x)) \in Nat
    /\ Cardinality(Holding) \in Nat
<1>1. /\ Holding \in SUBSET Clients
      /\ \A a \in Addrs : FromIp(a) \in SUBSET Clients
      /\ \A x \in Apps : OfApp(x) \in SUBSET Clients
  BY DEF Holding, FromIp, OfApp
<1>2. \A T \in SUBSET Clients : IsFiniteSet(T) /\ Cardinality(T) \in Nat
  BY ProxyAssumption, FS_Subset, FS_CardinalityType
<1> QED
  BY <1>1, <1>2

\* A step of one connection that keeps its ticket.
LEMMA SameHolders ==
    ASSUME conn \in [Clients -> ConnRecord], NEW c \in Clients, NEW r,
           conn' = [conn EXCEPT ![c] = r],
           r.pc # "none" <=> conn[c].pc # "none",
           r.pc \in Counted <=> conn[c].pc \in Counted,
           r.addr = conn[c].addr, r.app = conn[c].app
    PROVE  /\ Holding' = Holding
           /\ \A a \in Addrs : FromIp(a)' = FromIp(a)
           /\ \A x \in Apps : OfApp(x)' = OfApp(x)
<1>1. \A d \in Clients : conn'[d] = IF d = c THEN r ELSE conn[d]
  OBVIOUS
<1> QED
  BY <1>1 DEF Holding, FromIp, OfApp

\* Steps that leave the limiter alone and every ticket with its connection.
LEMMA KeepsLimits ==
    ASSUME PermitsAreConserved, IpLimitHolds, AppLimitHolds, UNCHANGED limits,
           Holding' = Holding,
           \A a \in Addrs : FromIp(a)' = FromIp(a),
           \A x \in Apps : OfApp(x)' = OfApp(x)
    PROVE  PermitsAreConserved' /\ IpLimitHolds' /\ AppLimitHolds'
  BY DEF PermitsAreConserved, IpLimitHolds, AppLimitHolds, limits

LEMMA OneConnStep ==
    ASSUME IInv, NEW c \in Clients, NEW r \in ConnRecord,
           conn' = [conn EXCEPT ![c] = r], UNCHANGED <<limits, tail>>,
           r.pc # "none" <=> conn[c].pc # "none",
           r.pc \in Counted <=> conn[c].pc \in Counted,
           r.addr = conn[c].addr, r.app = conn[c].app,
           Delivery(r)
    PROVE  IInv'
<1>1. conn \in [Clients -> ConnRecord]
  BY DEF IInv, TypeOK
<1>2. TypeOK'
  BY <1>1 DEF IInv, TypeOK, limits
<1>3. PermitsAreConserved' /\ IpLimitHolds' /\ AppLimitHolds'
  BY <1>1, SameHolders, KeepsLimits DEF IInv
<1>4. DeliveryInv'
  BY <1>1 DEF IInv, DeliveryInv
<1> QED
  BY <1>2, <1>3, <1>4 DEF IInv
-----------------------------------------------------------------------------
LEMMA SubscriptionSteps ==
    ASSUME IInv, NEW c \in Clients,
           \/ UpgradeFails(c) \/ subscribe(c) \/ Lagged(c) \/ SendFails(c)
           \/ ReaderSignals(c) \/ Disconnect(c) \/ Recv(c)
    PROVE  IInv'
<1> DEFINE o == conn[c]
<1>1. o \in ConnRecord /\ Delivery(o) /\ tail \in Nat
  BY DEF IInv, TypeOK, DeliveryInv
<1>2. CASE UpgradeFails(c)
  <2> DEFINE r == [o EXCEPT !.pc = "closing"]
  <2>1. r \in ConnRecord
    BY <1>1 DEF ConnRecord, Counted
  <2>2. conn' = [conn EXCEPT ![c] = r] /\ UNCHANGED <<limits, tail>> /\ o.pc = "upgrade"
    BY <1>2 DEF UpgradeFails, Step
  <2>3. /\ r.pc = "closing" /\ r.addr = o.addr /\ r.app = o.app
        /\ r.got = o.got /\ r.start = o.start
    BY <1>1 DEF ConnRecord
  <2>4. Delivery(r)
    BY <1>1, <2>3 DEF Delivery
  <2> QED
    BY <2>1, <2>2, <2>3, <2>4, OneConnStep DEF Counted
<1>3. CASE subscribe(c)
  <2> DEFINE r == [o EXCEPT !.pc = "open", !.reader = "running",
                            !.start = tail + 1, !.next = tail + 1]
  <2>0. tail + 1 \in Nat
    BY <1>1
  <2>1. r \in ConnRecord
    BY <1>1, <2>0 DEF ConnRecord, Counted
  <2>2. conn' = [conn EXCEPT ![c] = r] /\ UNCHANGED <<limits, tail>> /\ o.pc = "upgrade"
    BY <1>3 DEF subscribe
  <2>3. /\ r.pc = "open" /\ r.addr = o.addr /\ r.app = o.app /\ r.got = o.got
        /\ r.start = tail + 1 /\ r.next = tail + 1
    BY <1>1 DEF ConnRecord
  <2>4. r.got = <<>> /\ Len(<<>>) = 0
    BY <1>1, <2>2, <2>3 DEF Delivery
  <2>5. Delivery(r)
    BY <1>1, <2>3, <2>4 DEF Delivery
  <2> QED
    BY <2>1, <2>2, <2>3, <2>5, OneConnStep DEF Counted
<1>4. CASE Lagged(c) \/ SendFails(c) \/ Disconnect(c)
  <2> DEFINE r == [o EXCEPT !.pc = "closing", !.reader = "ended"]
  <2>1. r \in ConnRecord
    BY <1>1 DEF ConnRecord, Counted
  <2>2. /\ conn' = [conn EXCEPT ![c] = r] /\ UNCHANGED <<limits, tail>>
        /\ o.pc \in {"open", "sending"}
    BY <1>4 DEF Lagged, SendFails, Disconnect, Close
  <2>3. /\ r.pc = "closing" /\ r.addr = o.addr /\ r.app = o.app
        /\ r.got = o.got /\ r.start = o.start
    BY <1>1 DEF ConnRecord
  <2>4. Delivery(r)
    BY <1>1, <2>3 DEF Delivery
  <2> QED
    BY <2>1, <2>2, <2>3, <2>4, OneConnStep DEF Counted
<1>5. CASE ReaderSignals(c)
  <2> DEFINE r == [o EXCEPT !.reader = "signalled"]
  <2>1. r \in ConnRecord
    BY <1>1 DEF ConnRecord, Counted
  <2>2. conn' = [conn EXCEPT ![c] = r] /\ UNCHANGED <<limits, tail>>
    BY <1>5 DEF ReaderSignals
  <2>3. /\ r.pc = o.pc /\ r.addr = o.addr /\ r.app = o.app
        /\ r.got = o.got /\ r.start = o.start /\ r.next = o.next
    BY <1>1 DEF ConnRecord
  <2>4. Delivery(r)
    BY <1>1, <2>3 DEF Delivery
  <2> QED
    BY <2>1, <2>2, <2>3, <2>4, OneConnStep
<1>6. CASE Recv(c)
  <2> DEFINE r == [o EXCEPT !.pc = "sending", !.next = o.next + 1]
  <2>0. o.next + 1 \in Nat
    BY <1>1 DEF ConnRecord
  <2>1. r \in ConnRecord
    BY <1>1, <2>0 DEF ConnRecord, Counted
  <2>2. conn' = [conn EXCEPT ![c] = r] /\ UNCHANGED <<limits, tail>> /\ o.pc = "open"
    BY <1>6 DEF Recv
  <2>3. /\ r.pc = "sending" /\ r.addr = o.addr /\ r.app = o.app
        /\ r.got = o.got /\ r.start = o.start /\ r.next = o.next + 1
    BY <1>1 DEF ConnRecord
  <2>4. o.start \in Nat /\ o.next \in Nat /\ Len(o.got) \in Nat
    BY <1>1 DEF ConnRecord
  <2>5. Delivery(r)
    BY <1>1, <2>2, <2>3, <2>4 DEF Delivery
  <2> QED
    BY <2>1, <2>2, <2>3, <2>5, OneConnStep DEF Counted
<1> QED
  BY <1>2, <1>3, <1>4, <1>5, <1>6

LEMMA Predecessor ==
    ASSUME NEW x \in Nat, NEW n \in Nat, NEW y, y = x + n + 1
    PROVE  y - 1 \in Nat /\ y - 1 = x + n
  OBVIOUS

LEMMA SendOkStep ==
    ASSUME IInv, NEW c \in Clients, SendOk(c)
    PROVE  IInv'
<1> DEFINE o == conn[c]
           m == o.next - 1
           r == [o EXCEPT !.pc = "open", !.got = Append(o.got, m)]
<1>1. o \in ConnRecord /\ Delivery(o)
  BY DEF IInv, TypeOK, DeliveryInv
<1>2. conn' = [conn EXCEPT ![c] = r] /\ UNCHANGED <<limits, tail>> /\ o.pc = "sending"
  BY DEF SendOk
<1>3. o.start \in Nat /\ o.next \in Nat /\ o.got \in Seq(Nat)
  BY <1>1 DEF ConnRecord
<1>4. /\ o.next = o.start + Len(o.got) + 1 /\ m \in Nat
      /\ m = o.start + Len(o.got)
      /\ \A i \in 1 .. Len(o.got) : o.got[i] = o.start + i - 1
  <2>1. /\ o.next = o.start + Len(o.got) + 1 /\ Len(o.got) \in Nat
        /\ \A i \in 1 .. Len(o.got) : o.got[i] = o.start + i - 1
    BY <1>1, <1>2, <1>3 DEF Delivery
  <2> HIDE DEF o
  <2>2. m \in Nat /\ m = o.start + Len(o.got)
    BY <1>3, <2>1, Predecessor
  <2> QED
    BY <2>1, <2>2, Zenon
<1>5. Append(o.got, m) \in Seq(Nat)
  BY <1>3, <1>4
<1>6. r \in ConnRecord
  BY <1>1, <1>5 DEF ConnRecord, Counted
<1>7. /\ r.pc = "open" /\ r.addr = o.addr /\ r.app = o.app
      /\ r.got = Append(o.got, m) /\ r.start = o.start /\ r.next = o.next
  BY <1>1 DEF ConnRecord
<1>8. Len(r.got) = Len(o.got) + 1 /\ Len(o.got) \in Nat
  BY <1>3, <1>4, <1>7
<1>9. \A i \in 1 .. Len(r.got) : r.got[i] = r.start + i - 1
  <2> TAKE i \in 1 .. Len(r.got)
  <2>1. CASE i = Len(o.got) + 1
    BY <1>3, <1>4, <1>7, <1>8, <2>1
  <2>2. CASE i \in 1 .. Len(o.got)
    BY <1>3, <1>4, <1>7, <1>8, <2>2
  <2> QED
    BY <1>8, <2>1, <2>2
<1>10. Delivery(r)
  <2>2. r.pc = "open"
    BY <1>7
  <2>3. r.next = o.next /\ r.start = o.start
    BY <1>7
  <2>4. o.next = o.start + Len(o.got) + 1
    BY <1>4
  <2>5. o.start \in Nat
    BY <1>3
  <2> HIDE DEF r, o
  <2>1. r.next = r.start + Len(r.got)
    BY <1>8, <2>3, <2>4, <2>5
  <2> QED
    BY <1>9, <2>1, <2>2 DEF Delivery
<1> HIDE DEF r
<1> QED
  BY <1>2, <1>6, <1>7, <1>10, OneConnStep DEF Counted
-----------------------------------------------------------------------------
LEMMA RefuseAppStep ==
    ASSUME IInv, NEW c \in Clients, NEW app, NEW a \in Addrs, RefuseApp(c, app, a)
    PROVE  IInv'
<1>1. TypeOK'
  BY DEF IInv, TypeOK, RefuseApp, CountIp
<1>2. PermitsAreConserved' /\ AppLimitHolds' /\ DeliveryInv'
  BY DEF IInv, RefuseApp, PermitsAreConserved, AppLimitHolds, DeliveryInv, Holding, OfApp
<1>3. IpLimitHolds'
  <2> SUFFICES ASSUME per_ip_limit > 0, NEW b \in Addrs
               PROVE  /\ Cardinality(FromIp(b)') <= active_connections_per_ip'[b]
                      /\ active_connections_per_ip'[b] <= per_ip_limit
    BY DEF IpLimitHolds
  <2>1. FromIp(b)' = FromIp(b) /\ Cardinality(FromIp(b)) \in Nat
    BY ConnFinite DEF RefuseApp, FromIp
  <2>2. /\ Cardinality(FromIp(b)) <= active_connections_per_ip[b]
        /\ active_connections_per_ip[b] <= per_ip_limit
    BY DEF IInv, IpLimitHolds
  <2>3. /\ active_connections_per_ip \in [Addrs -> Nat] /\ per_ip_limit \in Nat
        /\ active_connections_per_ip[a] + 1 <= per_ip_limit
        /\ active_connections_per_ip' = [active_connections_per_ip EXCEPT ![a] = @ + 1]
    BY ProxyAssumption DEF IInv, TypeOK, RefuseApp, CountIp, IpAdmits
  <2> QED
    BY <2>1, <2>2, <2>3
<1> QED
  BY <1>1, <1>2, <1>3 DEF IInv

LEMMA AdmitStep ==
    ASSUME IInv, NEW c \in Clients, NEW app \in Apps \cup {NoApp}, NEW a \in Addrs,
           Admit(c, app, a)
    PROVE  IInv'
<1> DEFINE o == conn[c]
           r == [o EXCEPT !.pc = "upgrade", !.addr = a, !.app = app]
<1>1. o \in ConnRecord /\ Delivery(o) /\ o.pc = "none" /\ conn \in [Clients -> ConnRecord]
  BY DEF IInv, TypeOK, DeliveryInv, Admit, Request
<1>2. r \in ConnRecord
  BY <1>1 DEF ConnRecord, Counted
<1>3. /\ r.pc = "upgrade" /\ r.addr = a /\ r.app = app
      /\ r.got = o.got /\ r.start = o.start /\ r.next = o.next
  BY <1>1 DEF ConnRecord
<1>4. Delivery(r)
  BY <1>1, <1>3 DEF Delivery
<1>5. conn' = [conn EXCEPT ![c] = r] /\ UNCHANGED tail
  BY DEF Admit
<1>6. \A d \in Clients : conn'[d] = IF d = c THEN r ELSE conn[d]
  BY <1>1, <1>5
<1>7. /\ semaphore > 0 /\ semaphore' = semaphore - 1
      /\ CountIp(a) /\ IpAdmits(a) /\ AppAdmits(app)
      /\ active_connections_per_app' = IF app \in Apps
           THEN [active_connections_per_app EXCEPT ![app] = @ + 1]
           ELSE active_connections_per_app
  BY DEF Admit
<1> HIDE DEF r
<1>8. TypeOK'
  BY <1>2, <1>5, <1>7 DEF IInv, TypeOK, CountIp
<1>9. PermitsAreConserved'
  <2>1. Holding' = Holding \cup {c} /\ c \notin Holding
    BY <1>1, <1>3, <1>6 DEF Holding
  <2>2. Cardinality(Holding') = Cardinality(Holding) + 1
    BY <2>1, ConnFinite, FS_AddElement
  <2> QED
    BY <1>7, <2>2, ConnFinite, ProxyAssumption DEF IInv, TypeOK, PermitsAreConserved
<1>10. IpLimitHolds'
  <2> SUFFICES ASSUME per_ip_limit > 0, NEW b \in Addrs
               PROVE  /\ Cardinality(FromIp(b)') <= active_connections_per_ip'[b]
                      /\ active_connections_per_ip'[b] <= per_ip_limit
    BY DEF IpLimitHolds
  <2>1. FromIp(b)' = (IF b = a THEN FromIp(b) \cup {c} ELSE FromIp(b)) /\ c \notin FromIp(b)
    BY <1>1, <1>3, <1>6 DEF FromIp, Counted
  <2>2. Cardinality(FromIp(b)') = Cardinality(FromIp(b)) + (IF b = a THEN 1 ELSE 0)
    <3>1. IsFiniteSet(FromIp(b)) /\ Cardinality(FromIp(b)) \in Nat
      BY ConnFinite
    <3>2. Cardinality(FromIp(b) \cup {c}) = Cardinality(FromIp(b)) + 1
      BY <2>1, <3>1, FS_AddElement
    <3> QED
      BY <2>1, <3>1, <3>2
  <2>3. /\ Cardinality(FromIp(b)) <= active_connections_per_ip[b]
        /\ active_connections_per_ip[b] <= per_ip_limit
    BY DEF IInv, IpLimitHolds
  <2>4. /\ active_connections_per_ip \in [Addrs -> Nat] /\ per_ip_limit \in Nat
        /\ active_connections_per_ip[a] + 1 <= per_ip_limit
        /\ active_connections_per_ip' = [active_connections_per_ip EXCEPT ![a] = @ + 1]
    BY <1>7, ProxyAssumption DEF IInv, TypeOK, CountIp, IpAdmits
  <2>5. Cardinality(FromIp(b)) \in Nat
    BY ConnFinite
  <2> QED
    BY <2>2, <2>3, <2>4, <2>5
<1>11. AppLimitHolds'
  <2> SUFFICES ASSUME NEW x \in Apps
               PROVE  /\ active_connections_per_app'[x] = Cardinality(OfApp(x)')
                      /\ active_connections_per_app'[x] <= per_app_limit[x]
    BY DEF AppLimitHolds
  <2>1. OfApp(x)' = (IF x = app THEN OfApp(x) \cup {c} ELSE OfApp(x)) /\ c \notin OfApp(x)
    BY <1>1, <1>3, <1>6 DEF OfApp, Counted
  <2>2. Cardinality(OfApp(x)') = Cardinality(OfApp(x)) + (IF x = app THEN 1 ELSE 0)
    <3>1. IsFiniteSet(OfApp(x)) /\ Cardinality(OfApp(x)) \in Nat
      BY ConnFinite
    <3>2. Cardinality(OfApp(x) \cup {c}) = Cardinality(OfApp(x)) + 1
      BY <2>1, <3>1, FS_AddElement
    <3> QED
      BY <2>1, <3>1, <3>2
  <2>3. /\ active_connections_per_app[x] = Cardinality(OfApp(x))
        /\ active_connections_per_app[x] <= per_app_limit[x]
    BY DEF IInv, AppLimitHolds
  <2>4. /\ active_connections_per_app \in [Apps -> Nat] /\ per_app_limit \in [Apps -> Nat]
        /\ app \in Apps => active_connections_per_app[app] + 1 <= per_app_limit[app]
    BY <1>7, ProxyAssumption DEF IInv, TypeOK, AppAdmits
  <2> QED
    BY <1>7, <2>2, <2>3, <2>4
<1>12. DeliveryInv'
  BY <1>4, <1>6 DEF IInv, DeliveryInv
<1> QED
  BY <1>8, <1>9, <1>10, <1>11, <1>12 DEF IInv

LEMMA releaseStep ==
    ASSUME IInv, NEW c \in Clients, release(c)
    PROVE  IInv'
<1> DEFINE o == conn[c]
           r == [o EXCEPT !.pc = "permit"]
<1>1. o \in ConnRecord /\ Delivery(o) /\ o.pc = "closing" /\ conn \in [Clients -> ConnRecord]
  BY DEF IInv, TypeOK, DeliveryInv, release, Step
<1>2. r \in ConnRecord
  BY <1>1 DEF ConnRecord, Counted
<1>3. /\ r.pc = "permit" /\ r.addr = o.addr /\ r.app = o.app
      /\ r.got = o.got /\ r.start = o.start
  BY <1>1 DEF ConnRecord
<1>4. Delivery(r)
  BY <1>1, <1>3 DEF Delivery
<1>5. conn' = [conn EXCEPT ![c] = r] /\ UNCHANGED <<semaphore, tail>>
  BY DEF release, Step
<1>6. \A d \in Clients : conn'[d] = IF d = c THEN r ELSE conn[d]
  BY <1>1, <1>5
<1>7. /\ per_ip_limit > 0 =>
           active_connections_per_ip' =
             [active_connections_per_ip EXCEPT ![o.addr] = Decrement(@)]
      /\ ~(per_ip_limit > 0) => UNCHANGED active_connections_per_ip
      /\ o.app \in Apps =>
           active_connections_per_app' =
             [active_connections_per_app EXCEPT ![o.app] = Decrement(@)]
      /\ o.app \notin Apps => UNCHANGED active_connections_per_app
  BY DEF release
<1>8. /\ active_connections_per_ip \in [Addrs -> Nat]
      /\ active_connections_per_app \in [Apps -> Nat]
      /\ \A n \in Nat : Decrement(n) \in Nat
  BY DEF IInv, TypeOK, Decrement
<1> HIDE DEF r
<1>9. TypeOK'
  <2>1. active_connections_per_ip' \in [Addrs -> Nat]
    BY <1>7, <1>8
  <2>2. active_connections_per_app' \in [Apps -> Nat]
    BY <1>7, <1>8
  <2> QED
    BY <1>2, <1>5, <2>1, <2>2 DEF IInv, TypeOK
<1>10. PermitsAreConserved'
  <2>1. Holding' = Holding
    BY <1>1, <1>3, <1>6 DEF Holding
  <2> QED
    BY <1>5, <2>1 DEF IInv, PermitsAreConserved
<1>11. IpLimitHolds'
  <2> SUFFICES ASSUME per_ip_limit > 0, NEW b \in Addrs
               PROVE  /\ Cardinality(FromIp(b)') <= active_connections_per_ip'[b]
                      /\ active_connections_per_ip'[b] <= per_ip_limit
    BY DEF IpLimitHolds
  <2>1. /\ Cardinality(FromIp(b)) <= active_connections_per_ip[b]
        /\ active_connections_per_ip[b] <= per_ip_limit
    BY DEF IInv, IpLimitHolds
  <2>2. IsFiniteSet(FromIp(b)) /\ Cardinality(FromIp(b)) \in Nat /\ per_ip_limit \in Nat
    BY ConnFinite, ProxyAssumption
  <2>3. CASE b = o.addr
    <3>1. FromIp(b)' = FromIp(b) \ {c} /\ c \in FromIp(b)
      BY <1>1, <1>3, <1>6, <2>3 DEF FromIp, Counted
    <3>2. IsFiniteSet(FromIp(b)') /\ Cardinality(FromIp(b)') = Cardinality(FromIp(b)) - 1
      BY <2>2, <3>1, FS_RemoveElement
    <3>3. Cardinality(FromIp(b)') \in Nat
      BY <3>2, FS_CardinalityType
    <3>4. active_connections_per_ip'[b] = Decrement(active_connections_per_ip[b])
      BY <1>7, <1>8, <2>3
    <3>5. active_connections_per_ip[b] \in Nat
      BY <1>8
    <3> QED
      BY <2>1, <2>2, <3>2, <3>3, <3>4, <3>5 DEF Decrement
  <2>4. CASE b # o.addr
    <3>1. FromIp(b)' = FromIp(b)
      BY <1>1, <1>3, <1>6, <2>4 DEF FromIp, Counted
    <3>2. active_connections_per_ip'[b] = active_connections_per_ip[b]
      BY <1>7, <1>8, <2>4
    <3> QED
      BY <2>1, <3>1, <3>2
  <2> QED
    BY <2>3, <2>4
<1>12. AppLimitHolds'
  <2> SUFFICES ASSUME NEW x \in Apps
               PROVE  /\ active_connections_per_app'[x] = Cardinality(OfApp(x)')
                      /\ active_connections_per_app'[x] <= per_app_limit[x]
    BY DEF AppLimitHolds
  <2>1. /\ active_connections_per_app[x] = Cardinality(OfApp(x))
        /\ active_connections_per_app[x] <= per_app_limit[x]
    BY DEF IInv, AppLimitHolds
  <2>2. IsFiniteSet(OfApp(x)) /\ Cardinality(OfApp(x)) \in Nat /\ per_app_limit[x] \in Nat
    BY ConnFinite, ProxyAssumption
  <2>3. CASE x = o.app
    <3>1. OfApp(x)' = OfApp(x) \ {c} /\ c \in OfApp(x)
      BY <1>1, <1>3, <1>6, <2>3 DEF OfApp, Counted
    <3>2. IsFiniteSet(OfApp(x)') /\ Cardinality(OfApp(x)') = Cardinality(OfApp(x)) - 1
      BY <2>2, <3>1, FS_RemoveElement
    <3>3. Cardinality(OfApp(x)') \in Nat
      BY <3>2, FS_CardinalityType
    <3>4. active_connections_per_app'[x] = Decrement(active_connections_per_app[x])
      BY <1>7, <1>8, <2>3
    <3> QED
      BY <2>1, <2>2, <3>2, <3>3, <3>4 DEF Decrement
  <2>4. CASE x # o.app
    <3>1. OfApp(x)' = OfApp(x)
      BY <1>1, <1>3, <1>6, <2>4 DEF OfApp, Counted
    <3>2. active_connections_per_app'[x] = active_connections_per_app[x]
      BY <1>7, <1>8, <2>4
    <3> QED
      BY <2>1, <3>1, <3>2
  <2> QED
    BY <2>3, <2>4
<1>13. DeliveryInv'
  BY <1>4, <1>6 DEF IInv, DeliveryInv
<1> QED
  BY <1>9, <1>10, <1>11, <1>12, <1>13 DEF IInv

LEMMA DropPermitStep ==
    ASSUME IInv, NEW c \in Clients, DropPermit(c)
    PROVE  IInv'
<1>1. conn \in [Clients -> ConnRecord] /\ conn[c].pc = "permit"
  BY DEF IInv, TypeOK, DropPermit
<1>2. \A d \in Clients : conn'[d] = IF d = c THEN NoConnection ELSE conn[d]
  BY <1>1 DEF DropPermit
<1>3. NoConnection.pc = "none"
  BY DEF NoConnection
<1>4. TypeOK'
  BY NoConnectionFacts DEF IInv, TypeOK, DropPermit
<1>5. PermitsAreConserved'
  <2>1. Holding' = Holding \ {c} /\ c \in Holding
    BY <1>1, <1>2, <1>3 DEF Holding
  <2>2. Cardinality(Holding') = Cardinality(Holding) - 1
    BY <2>1, ConnFinite, FS_RemoveElement
  <2>3. semaphore' = semaphore + 1
    BY DEF DropPermit
  <2> QED
    BY <2>2, <2>3, ConnFinite DEF IInv, TypeOK, PermitsAreConserved
<1>6. /\ \A a \in Addrs : FromIp(a)' = FromIp(a)
      /\ \A x \in Apps : OfApp(x)' = OfApp(x)
  BY <1>1, <1>2, <1>3 DEF FromIp, OfApp, Counted
<1>7. IpLimitHolds' /\ AppLimitHolds'
  BY <1>6 DEF IInv, IpLimitHolds, AppLimitHolds, DropPermit
<1>8. DeliveryInv'
  BY <1>2, NoConnectionFacts DEF IInv, DeliveryInv
<1> QED
  BY <1>4, <1>5, <1>7, <1>8 DEF IInv

LEMMA BroadcastStep ==
    ASSUME IInv, Broadcast
    PROVE  IInv'
<1>1. TypeOK'
  BY DEF IInv, TypeOK, Broadcast, limits
<1>2. /\ Holding' = Holding
      /\ \A a \in Addrs : FromIp(a)' = FromIp(a)
      /\ \A x \in Apps : OfApp(x)' = OfApp(x)
  BY DEF Broadcast, Holding, FromIp, OfApp
<1>3. PermitsAreConserved' /\ IpLimitHolds' /\ AppLimitHolds'
  BY <1>2, KeepsLimits DEF IInv, Broadcast
<1>4. DeliveryInv'
  BY DEF IInv, DeliveryInv, Broadcast
<1> QED
  BY <1>1, <1>3, <1>4 DEF IInv
-----------------------------------------------------------------------------
LEMMA StutterStep ==
    ASSUME IInv, UNCHANGED vars
    PROVE  IInv'
  BY DEF vars, IInv, TypeOK, PermitsAreConserved, IpLimitHolds, AppLimitHolds,
         DeliveryInv, Holding, FromIp, OfApp

LEMMA InitIInv == Init => IInv
<1> SUFFICES ASSUME Init PROVE IInv
  OBVIOUS
<1>1. TypeOK
  BY NoConnectionFacts, ProxyAssumption DEF Init, TypeOK
<1>2. \A c \in Clients : conn[c] = NoConnection /\ conn[c].pc = "none"
  BY DEF Init, NoConnection
<1>3. /\ Holding = {}
      /\ \A a \in Addrs : FromIp(a) = {}
      /\ \A x \in Apps : OfApp(x) = {}
  BY <1>2 DEF Holding, FromIp, OfApp, Counted
<1>4. Cardinality({}) = 0
  BY FS_EmptySet
<1>5. PermitsAreConserved
  BY <1>3, <1>4, ProxyAssumption DEF Init, PermitsAreConserved
<1>6. IpLimitHolds
  <2>1. \A a \in Addrs : active_connections_per_ip[a] = 0 /\ Cardinality(FromIp(a)) = 0
    BY <1>3, <1>4 DEF Init
  <2>2. per_ip_limit \in Nat
    BY ProxyAssumption
  <2> QED
    BY <2>1, <2>2 DEF IpLimitHolds
<1>7. AppLimitHolds
  <2>1. \A x \in Apps : active_connections_per_app[x] = 0 /\ Cardinality(OfApp(x)) = 0
    BY <1>3, <1>4 DEF Init
  <2>2. \A x \in Apps : per_app_limit[x] \in Nat
    BY ProxyAssumption
  <2> QED
    BY <2>1, <2>2 DEF AppLimitHolds
<1>8. DeliveryInv
  BY <1>2, NoConnectionFacts DEF DeliveryInv
<1> QED
  BY <1>1, <1>5, <1>6, <1>7, <1>8 DEF IInv

\* The handler only counts addresses, never what a header failed to parse to.
LEMMA ExtractedAddr ==
    ASSUME NEW header, NEW peer \in Addrs
    PROVE  extract_addr(header, peer) \in Addrs
  BY DEF extract_addr

LEMMA NextIInv ==
    ASSUME IInv, [Next]_vars
    PROVE  IInv'
<1>1. CASE UNCHANGED vars
  BY <1>1, StutterStep
<1>2. CASE Broadcast
  BY <1>2, BroadcastStep
<1>3. ASSUME NEW c \in Clients, websocket_handler(c)
      PROVE  IInv'
  <2>1. PICK app \in Apps \cup {NoApp},
             a \in {extract_addr(header, peer) : header \in Headers, peer \in Addrs} :
               Refuse(c, app, a) \/ RefuseApp(c, app, a) \/ Admit(c, app, a)
    BY <1>3 DEF websocket_handler
  <2>2. a \in Addrs
    BY ExtractedAddr
  <2>3. CASE Refuse(c, app, a)
    BY <2>3, StutterStep DEF Refuse
  <2>4. CASE RefuseApp(c, app, a)
    BY <2>2, <2>4, RefuseAppStep
  <2>5. CASE Admit(c, app, a)
    BY <2>2, <2>5, AdmitStep
  <2> QED
    BY <2>1, <2>3, <2>4, <2>5
<1>4. ASSUME NEW c \in Clients, Task(c) \/ ReaderSignals(c)
      PROVE  IInv'
  BY <1>4, SubscriptionSteps, SendOkStep, releaseStep, DropPermitStep DEF Task
<1> QED
  BY <1>1, <1>2, <1>3, <1>4 DEF Next

LEMMA InvariantHolds == Spec => []IInv
  BY InitIInv, NextIInv, PTL DEF Spec

\* The semaphore and the counters stay natural numbers and the connections
\* well formed: neither try_acquire nor release goes below zero.
THEOREM TypeCorrect == Spec => []TypeOK
<1>1. IInv => TypeOK
  BY DEF IInv
<1> QED
  BY <1>1, InvariantHolds, PTL

\* For every limit and any number of clients, permits are neither lost nor
\* duplicated by refusals, failed upgrades and disconnections.
THEOREM PermitsConserved == Spec => []PermitsAreConserved
<1>1. IInv => PermitsAreConserved
  BY DEF IInv
<1> QED
  BY <1>1, InvariantHolds, PTL

\* instance_limit, per_ip_limit and the applications' limits bound the connections,
\* and no connection is left uncounted.
THEOREM Limits == Spec => []LimitsHold
<1>1. IInv => LimitsHold
  BY ConnFinite, ProxyAssumption DEF IInv, TypeOK, PermitsAreConserved, LimitsHold
<1> QED
  BY <1>1, InvariantHolds, PTL

\* Whatever the size of the channel's buffer and however slow a client is,
\* what it has received has no gap.
THEOREM NoGaps == Spec => []NoClientSeesAGap
<1>1. IInv => NoClientSeesAGap
  BY DEF IInv, DeliveryInv, Delivery, NoClientSeesAGap
<1> QED
  BY <1>1, InvariantHolds, PTL
=============================================================================
