--------------------------- MODULE BuilderRecovery ---------------------------
(***************************************************************************)
(* The engine server, the health check loop and the consensus node around  *)
(* one outage of the builder, in Enabled mode and with an l2 client that   *)
(* never fails.  The consensus node builds block after block: an FCU with  *)
(* attributes, getPayload, newPayload.  The loop writes the health probe   *)
(* between any two of these steps: nothing relates its period to theirs.   *)
(* Other callers use the proxy layer, and a load balancer the probe layer  *)
(* (crates/rollup-boost/src/probe.rs) outside of it.                       *)
(***************************************************************************)
EXTENDS RollupBoostServer, ProxyLayer

VARIABLES
    outage,     \* the builder is down
    phase       \* the consensus node's next call

recoveryVars == <<vars, proxyVars, outage, phase>>

RecoveryInit ==
    /\ Init
    /\ ProxyInit
    /\ execution_mode = "Enabled"
    /\ outage = TRUE
    /\ phase = "fcu"

Idle ==
    /\ \A f \in FcuTasks : fcu[f].pc = "done"
    /\ \A g \in GetTasks : get[g].pc = "done"
    /\ \A n \in NewTasks : new[n].pc = "done"

\* op-node: one call at a time
ConsensusNode ==
    /\ Idle
    /\ \/ /\ phase = "fcu" /\ phase' = "get"
          /\ \E f \in FcuTasks, p \in PayloadIds : FcuReceive(f, p, TRUE)
       \/ /\ phase = "get" /\ phase' = "new"
          /\ \E g \in GetTasks, f \in FcuTasks : GetReceive(g, fcu[f].id)
       \/ /\ phase = "new" /\ phase' = "fcu"
          /\ \E n \in NewTasks, f \in FcuTasks : NewReceive(n, ParentOf[fcu[f].id])
    /\ UNCHANGED <<proxyVars, outage>>

\* Steps of the tasks, with an l2 client that answers and validates ...
L2Answers ==
    \/ \E f \in FcuTasks : FcuL2Answer(f, "id")
    \/ \E g \in GetTasks : GetL2Answer(g, "ok") \/ GetValidate(g, "valid")

\* ... a builder that answers unless it is down ...
BuilderAnswers ==
    \/ outage /\ \E f \in FcuTasks : FcuBuilderErr(f)
    \/ outage /\ \E g \in GetTasks : GetBuilderErr(g)
    \/ ~outage /\ \E f \in FcuTasks : FcuBuilderOk(f, TRUE)
    \/ ~outage /\ \E g \in GetTasks : GetBuilderBlock(g)

\* ... and what the server does by itself.
ServerStep ==
    \/ \E f \in FcuTasks : FcuRoute(f) \/ FcuJoin(f) \/ StoreTrace(f) \/ StoreIndex(f)
    \/ \E g \in GetTasks :
        \/ GetLookup(g)
        \/ GetJoin(g)
        \/ GetSelect(g, "builder")
        \/ GetNoBuilderBlock(g)
        \/ GetPartial(g)
    \/ \E n \in NewTasks : NewTask(n)

Tasks == (L2Answers \/ BuilderAnswers \/ ServerStep) /\ UNCHANGED <<proxyVars, outage, phase>>

\* The loop with a recent l2 block: PartialContent while the builder's block
\* cannot be had, Healthy once it can.
HealthLoop ==
    /\ set_health(IF outage THEN "PartialContent" ELSE "Healthy")
    /\ UNCHANGED <<proxyVars, outage, phase>>

EndOutage ==
    /\ outage
    /\ outage' = FALSE
    /\ UNCHANGED <<vars, proxyVars, phase>>

\* Calls that are not for the engine server, by one caller: they reach the l2 client,
\* and the builder while it is up.
ProxyStep ==
    \E r \in Calls :
        \/ /\ \A q \in 1 .. r - 1 : answer[q] # "none"
           /\ callFails(r) \/ \E m \in {"forwarded", "other"} : call(r, m)
        \/ forwardOk(r)
        \/ forwardErr(r)
        \/ Execute("l2", r)
        \/ ~outage /\ Execute("builder", r)
        \/ Lose("builder", r)
Proxy == ProxyStep /\ UNCHANGED <<vars, outage, phase>>

\* Mutant: the statuses of two conditions are swapped.
Response_Swapped(h) ==
    CASE h = "Healthy" -> 206
      [] h = "PartialContent" -> 200
      [] h = "ServiceUnavailable" -> 503

\* Status of the probe layer's answer to a load balancer.
Response(h) ==
    CASE h = "Healthy" -> 200
      [] h = "PartialContent" -> 206
      [] h = "ServiceUnavailable" -> 503
probe(path) == IF path = "/healthz" THEN Response(health) ELSE 200

RecoveryNext == ConsensusNode \/ Tasks \/ HealthLoop \/ EndOutage \/ Proxy

RecoveryFairness ==
    /\ WF_recoveryVars(ConsensusNode)
    /\ WF_recoveryVars(Tasks)
    /\ WF_recoveryVars(HealthLoop)
    /\ WF_recoveryVars(EndOutage)

RecoverySpec == RecoveryInit /\ [][RecoveryNext]_recoveryVars /\ RecoveryFairness
-----------------------------------------------------------------------------
\* "When builder health is restored, normal request forwarding and payload
\* selection behavior will resume": once the builder is back, its blocks are
\* returned again.
BuilderResumes ==
    ~outage ~> \E g \in GetTasks : get[g].result = "builder"

\* Once the builder is back, /healthz answers 200 again, and for good: a getPayload
\* for a payload that the builder was not asked for in time may still report
\* PartialContent after the loop has reported Healthy (server.rs 356-361, health.rs).
HealthzRecovers == ~outage ~> [](probe("/healthz") = 200)
=============================================================================
