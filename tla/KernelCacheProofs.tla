-------------------------- MODULE KernelCacheProofs --------------------------
(****************************************************************************)
(* Withdrawn authority leaves the caches of the mounted views, for any      *)
(* number of threads, mounts and nodes.                                     *)
(*                                                                          *)
(* An answer passes through three places: its request holds the shared      *)
(* guard, then the answer is on its way, then the operating system has it.  *)
(* Under the guard its authority is active; in the other two places it is   *)
(* clear of a revoked capability, or marked as overtaken by it, from the    *)
(* time an observer has invalidated its node.                               *)
(****************************************************************************)
EXTENDS CapabilityKernelProofs

\* No answer about node n that mount m has cached or is sending rests on c,
\* but those that the withdrawal of c overtook.
Untouched(m, n, c) ==
  /\ \A a \in caches[m] : a.node = n /\ c \in Chain(a.capability) => c \in a.overtaken
  /\ \A u \in Threads, k \in CapIds :
       pc[u] = "replying" /\ request[u].mount = m /\ request[u].node = n
         /\ request[u].capability = k /\ c \in Chain(k) => c \in overtaken[u]

PropagationTyped ==
  /\ revocation_observers \subseteq Mounts
  /\ nodes \in [Mounts -> [Nodes -> NodeStatus]]
  /\ caches \in [Mounts -> SUBSET Answers]
  /\ todo \in [Threads -> SUBSET Mounts]
  /\ flushing \in [Threads -> Mounts \cup {NoMount}]
  /\ stale \in [Threads -> SUBSET Nodes]
  /\ withdrawn \in [Threads -> SUBSET CapIds]
  /\ overtaken \in [Threads -> SUBSET CapIds]

\* The authority of a request under the shared guard is active.
GuardedActive ==
  \A u \in Threads, k \in CapIds : pc[u] \in Guarded /\ request[u].capability = k =>
    k \in issued_ids /\ Chain(k) \cap revoked = {}

\* Answers are given under issued capabilities.
AnswersIssued ==
  /\ \A m \in Mounts : \A a \in caches[m] : a.capability \in issued_ids
  /\ \A u \in Threads : pc[u] = "replying" => request[u].capability \in issued_ids

\* The positions of a request whose node has been recorded for its answer.
Holding == {"inspecting", "Committed", "replying"}

\* The node table of a mount knows every node that an answer is about.
AnswersLive ==
  /\ \A m \in Mounts : \A a \in caches[m] : nodes[m][a.node] = "live"
  /\ \A u \in Threads, m \in Mounts, n \in Nodes :
       pc[u] \in Holding /\ request[u].mount = m /\ request[u].node = n => nodes[m][n] = "live"

\* What a call withdrew is revoked, before and after it is confirmed.
WithdrawnRevoked == confirmed \subseteq revoked /\ \A t \in Threads : withdrawn[t] \subseteq revoked

\* A mount whose observer is not registered serves nothing.
UnregisteredEmpty ==
  \A m \in Mounts \ revocation_observers :
    caches[m] = {} /\ \A u \in Threads : pc[u] \in InFlight => request[u].mount # m

\* A mount that the propagation of t is done with is clear of what it withdrew.
DoneUntouched(t) ==
  \A m \in Mounts \ fatal, n \in Nodes, c \in withdrawn[t] :
    pc[t] = "discarding" /\ m \notin todo[t] => Untouched(m, n, c)

\* So is a node that its running observer has passed.
PassedUntouched(t) ==
  \A m \in Mounts : flushing[t] = m =>
    /\ pc[t] = "discarding"
    /\ \A n \in Nodes \ stale[t], c \in withdrawn[t] : Untouched(m, n, c)

ConfirmedUntouched ==
  \A m \in Mounts \ fatal, n \in Nodes, c \in confirmed : Untouched(m, n, c)

CacheInv ==
  /\ PropagationTyped /\ GuardedActive /\ AnswersIssued /\ AnswersLive
  /\ WithdrawnRevoked /\ UnregisteredEmpty /\ ConfirmedUntouched
  /\ \A t \in Threads : DoneUntouched(t) /\ PassedUntouched(t)

----------------------------------------------------------------------------
(* How answers move in one step.                                            *)

\* A cache gains only an answer on its way to it, an answer is sent only after
\* the guard was held, and the guard is taken only under active authority.
AnswersFlow ==
  /\ \A m \in Mounts : \A a \in caches'[m] :
       \/ a \in caches[m]
       \/ \E u \in Threads :
            /\ pc[u] = "replying" /\ request[u].mount = m /\ request[u].node = a.node
            /\ request[u].capability = a.capability /\ overtaken[u] = a.overtaken
  /\ \A u \in Threads : pc'[u] = "replying" =>
       /\ request'[u] = request[u]
       /\ \/ pc[u] \in Guarded
          \/ pc[u] = "replying" /\ overtaken[u] \subseteq overtaken'[u]
  /\ \A u \in Threads : pc'[u] \in Guarded =>
       /\ request'[u] = request[u]
       /\ \/ pc[u] \in Guarded
          \/ /\ pc[u] = "submitted" /\ request[u].capability \in issued_ids
             /\ Chain(request[u].capability) \cap revoked = {}
  /\ \A u \in Threads : pc'[u] = "submitted" =>
       \/ pc[u] = "submitted" /\ request'[u] = request[u]
       \/ request'[u].mount \in revocation_observers \cup {NoMount}
  /\ revocation_observers \subseteq revocation_observers'
  /\ fatal \subseteq fatal'

\* A node is recorded before its answer is given, and is dropped from the table
\* only with every answer about it.
NodesFlow ==
  /\ \A u \in Threads, m \in Mounts, n \in Nodes :
       pc'[u] \in Holding /\ request'[u].mount = m /\ request'[u].node = n =>
         \/ nodes'[m][n] = "live"
         \/ pc[u] \in Holding /\ request'[u] = request[u]
  /\ \A m \in Mounts, n \in Nodes : nodes[m][n] = "live" =>
       \/ nodes'[m][n] = "live"
       \/ /\ \A a \in caches'[m] : a.node # n
          /\ \A u \in Threads : pc'[u] \in InFlight /\ request'[u].mount = m => request'[u].node # n

\* A step in which answers flow rests no answer anew on a revoked capability.
LEMMA FlowKeepsUntouched ==
  ASSUME AnswersFlow, CallsTyped, GuardedActive, AnswersIssued, ParentsIssued, CapabilitiesKept,
         NEW m \in Mounts, NEW n \in Nodes, NEW c \in revoked, Untouched(m, n, c)
  PROVE  Untouched(m, n, c)'
<1>1. \A k \in issued_ids : Chain(k)' = Chain(k)
  BY Zenon, ChainStable
<1>2. \A u \in Threads : pc[u] = "replying" => request[u].capability \in CapIds
  BY Zenon DEF CallsTyped, InFlight, Requests
<1>3. ASSUME NEW a \in caches'[m], a.node = n, c \in Chain(a.capability)'
      PROVE  c \in a.overtaken
  <2>1. CASE a \in caches[m]
    <3>1. a.capability \in issued_ids
      BY Zenon, <2>1 DEF AnswersIssued
    <3> QED BY Zenon, <1>1, <1>3, <2>1, <3>1 DEF Untouched
  <2>2. CASE a \notin caches[m]
    <3> PICK u \in Threads :
          /\ pc[u] = "replying" /\ request[u].mount = m /\ request[u].node = a.node
          /\ request[u].capability = a.capability /\ overtaken[u] = a.overtaken
      BY <1>3, <2>2 DEF AnswersFlow
    <3>0. request[u].capability \in issued_ids /\ request[u].capability \in CapIds
      BY Zenon, <1>2 DEF AnswersIssued
    <3>1. a.capability \in issued_ids /\ a.capability \in CapIds
      BY Zenon, <3>0
    <3>2. c \in Chain(a.capability)
      BY Zenon, <1>1, <1>3, <3>1
    <3>3. c \in overtaken[u]
      BY Zenon, <1>3, <3>1, <3>2 DEF Untouched
    <3> QED BY Zenon, <3>3
  <2> QED BY Zenon, <2>1, <2>2
<1>4. ASSUME NEW u \in Threads, NEW k \in CapIds, pc'[u] = "replying", request'[u].mount = m,
             request'[u].node = n, request'[u].capability = k, c \in Chain(k)'
      PROVE  c \in overtaken'[u]
  <2>1. /\ request'[u] = request[u]
        /\ \/ pc[u] \in Guarded
           \/ pc[u] = "replying" /\ overtaken[u] \subseteq overtaken'[u]
    BY Zenon, <1>4 DEF AnswersFlow
  <2>2. request[u].mount = m /\ request[u].node = n /\ request[u].capability = k
    BY Zenon, <1>4, <2>1
  <2>3. CASE pc[u] \in Guarded
    <3>1. k \in issued_ids /\ Chain(k) \cap revoked = {}
      BY Zenon, <2>2, <2>3 DEF GuardedActive
    <3> QED BY Zenon, <1>1, <1>4, <3>1
  <2>4. CASE pc[u] = "replying" /\ overtaken[u] \subseteq overtaken'[u]
    <3>1. k \in issued_ids
      BY Zenon, <2>2, <2>4 DEF AnswersIssued
    <3>2. c \in Chain(k)
      BY Zenon, <1>1, <1>4, <3>1
    <3>3. c \in overtaken[u]
      BY Zenon, <2>2, <2>4, <3>2 DEF Untouched
    <3> QED BY Zenon, <2>4, <3>3
  <2> QED BY Zenon, <2>1, <2>3, <2>4
<1> QED BY Zenon, <1>3, <1>4 DEF Untouched

\* Recording a node makes it live and retires none.
LEMMA RememberRecords ==
  ASSUME CallsTyped, PropagationTyped, NEW t \in Threads, pc[t] \in InFlight, remember_lookup(t)
  PROVE  /\ \A m \in Mounts, n \in Nodes :
              request[t].mount = m /\ request[t].node = n => nodes'[m][n] = "live"
         /\ \A m \in Mounts, n \in Nodes : nodes[m][n] = "live" => nodes'[m][n] = "live"
<1>1. request[t].mount \in Mounts \cup {NoMount} /\ request[t].node \in Nodes
  BY Zenon DEF CallsTyped, Requests
<1>2. CASE request[t].mount = NoMount
  BY Zenon, <1>2, KernelAssumption DEF remember_lookup
<1>3. CASE request[t].mount # NoMount
  <2> DEFINE x == request[t].mount
             y == request[t].node
  <2>1. x \in Mounts /\ y \in Nodes /\ nodes' = [nodes EXCEPT ![x][y] = "live"]
    BY Zenon, <1>1, <1>3 DEF remember_lookup
  <2> HIDE DEF x, y
  <2>2. /\ nodes'[x][y] = "live"
        /\ \A m \in Mounts, n \in Nodes : nodes[m][n] = "live" => nodes'[m][n] = "live"
    BY <2>1 DEF PropagationTyped
  <2> QED BY Zenon, <2>2 DEF x, y
<1> QED BY Zenon, <1>2, <1>3

\* A thread that returns answers nothing more.
LEMMA ReturnFlows ==
  ASSUME CallsTyped, NEW t \in Threads, Return(t), UNCHANGED <<revocation_observers, fatal, nodes>>,
         PropagationTyped,
         \A m \in Mounts : \A a \in caches'[m] :
           \/ a \in caches[m]
           \/ /\ pc[t] = "replying" /\ request[t].mount = m /\ request[t].node = a.node
              /\ request[t].capability = a.capability /\ overtaken[t] = a.overtaken
  PROVE  AnswersFlow /\ NodesFlow
<1>1. /\ pc'[t] = "idle"
      /\ \A u \in Threads \ {t} :
           pc'[u] = pc[u] /\ request'[u] = request[u] /\ overtaken'[u] = overtaken[u]
  BY Zenon DEF CallsTyped, PropagationTyped, Return, Goto
<1>2. "idle" \notin Guarded \cup Holding \cup {"submitted", "replying"}
  BY Zenon DEF Guarded, Executing, EffectExecution, Holding
<1>3. NodesFlow
  BY Zenon, <1>1, <1>2 DEF NodesFlow
<1>4. AnswersFlow
  BY ZenonT(60), <1>1, <1>2 DEF AnswersFlow
<1> QED BY Zenon, <1>3, <1>4

\* A thread that goes on without passing a check answers what it did before.
LEMMA GotoFlows ==
  ASSUME CallsTyped, NEW t \in Threads, NEW l, Goto(t, l), l \notin {"inspecting", "Committed"},
         UNCHANGED <<cacheVars, overtaken>>, \A u \in Threads \ {t} : request'[u] = request[u],
         l \in Guarded => pc[t] \in Guarded /\ request'[t] = request[t],
         l = "replying" => pc[t] \in {"inspecting", "Committed"} /\ request'[t] = request[t],
         l = "submitted" => request'[t].mount \in revocation_observers \cup {NoMount}
  PROVE  AnswersFlow /\ NodesFlow
<1>1. pc'[t] = l /\ \A u \in Threads \ {t} : pc'[u] = pc[u]
  BY Zenon DEF CallsTyped, Goto
<1>2. {"inspecting", "Committed"} \subseteq Guarded
  BY Zenon DEF Guarded, Executing, EffectExecution
<1>3. NodesFlow
  BY Zenon, <1>1 DEF NodesFlow, cacheVars, Holding
<1>4. AnswersFlow
  BY ZenonT(60), <1>1, <1>2 DEF AnswersFlow, cacheVars
<1> QED BY Zenon, <1>3, <1>4

\* A thread that takes or keeps the shared guard gives no answer yet.
LEMMA GuardFlows ==
  ASSUME CallsTyped, PropagationTyped, NEW t \in Threads, NEW l \in Guarded, Goto(t, l),
         pc[t] \in InFlight,
         UNCHANGED <<request, overtaken, revocation_observers, caches, fatal>>,
         \/ remember_lookup(t)
         \/ UNCHANGED nodes /\ l \notin Holding,
         \/ pc[t] \in Guarded
         \/ /\ pc[t] = "submitted" /\ request[t].capability \in issued_ids
            /\ Chain(request[t].capability) \cap revoked = {}
  PROVE  AnswersFlow /\ NodesFlow
<1>1. pc'[t] = l /\ \A u \in Threads \ {t} : pc'[u] = pc[u]
  BY Zenon DEF CallsTyped, Goto
<1>2. l \notin {"submitted", "replying"}
  BY Zenon DEF Guarded, Executing, EffectExecution
<1>3. NodesFlow
  <2>1. CASE remember_lookup(t)
    BY Zenon, <1>1, <2>1, RememberRecords DEF NodesFlow
  <2>2. CASE UNCHANGED nodes /\ l \notin Holding
    BY Zenon, <1>1, <2>2 DEF NodesFlow
  <2> QED BY Zenon, <2>1, <2>2
<1>4. AnswersFlow
  BY ZenonT(60), <1>1, <1>2 DEF AnswersFlow
<1> QED BY Zenon, <1>3, <1>4

\* Every step of the kernel moves answers in this way.
LEMMA StepFlows ==
  ASSUME CallsTyped, PropagationTyped, [KernelNext]_kernelVars
  PROVE  AnswersFlow /\ NodesFlow
<1>0. /\ \A l \in {"idle", "submitted", "replying", "revoking", "closing", "propagating", "discarding"} :
           l \notin Guarded /\ l \notin {"inspecting", "Committed"}
      /\ \A l \in {"inspecting", "executing"} \cup EffectExecution : l \in Guarded /\ l \in InFlight
      /\ "submitted" \in InFlight
      /\ "executing" \notin Holding
      /\ \A l \in {"CommitUnknown", "FailedBeforeCommit"} : l \notin Holding
  BY Zenon DEF Guarded, Executing, Holding, InFlight, EffectExecution
<1>1. ASSUME UNCHANGED <<pc, request, nodes>>, \A u \in Threads : overtaken[u] \subseteq overtaken'[u],
             \A m \in Mounts : caches'[m] \subseteq caches[m],
             revocation_observers \subseteq revocation_observers', fatal \subseteq fatal'
      PROVE  AnswersFlow /\ NodesFlow
  <2>1. NodesFlow
    BY Zenon, <1>1 DEF NodesFlow
  <2>2. AnswersFlow
    BY Zenon, <1>1 DEF AnswersFlow
  <2> QED BY Zenon, <2>1, <2>2
<1>2. ASSUME NEW t \in Threads, with_active_capability(t) PROVE AnswersFlow /\ NodesFlow
  <2>1. CASE /\ active_capability(request[t].caller, request[t].capability, request[t].time)
             /\ Goto(t, "inspecting") /\ remember_lookup(t) /\ UNCHANGED <<request, flightVars>>
    <3>1. request[t].capability \in issued_ids /\ Chain(request[t].capability) \cap revoked = {}
      BY Zenon, <2>1 DEF active_capability, is_effectively_active
    <3>2. pc[t] = "submitted" /\ UNCHANGED <<overtaken, revocation_observers, caches, fatal>>
      BY Zenon, <1>2, <2>1 DEF with_active_capability, flightVars
    <3> QED BY ZenonT(60), <1>0, <2>1, <3>1, <3>2, GuardFlows
  <2>2. CASE Return(t) /\ UNCHANGED nodes
    BY Zenon, <1>2, <2>2, ReturnFlows DEF with_active_capability
  <2> QED BY Zenon, <1>2, <2>1, <2>2 DEF with_active_capability
<1>3. ASSUME NEW t \in Threads, end_inspection(t) PROVE AnswersFlow /\ NodesFlow
  BY Zenon, <1>0, <1>3, GotoFlows DEF end_inspection, flightVars
<1>4. ASSUME NEW t \in Threads, authorize(t) PROVE AnswersFlow /\ NodesFlow
  <2>1. CASE Authorized(request[t]) /\ Goto(t, "executing") /\ UNCHANGED <<request, flightVars>>
    <3>1. active_capability(request[t].caller, request[t].capability, request[t].time)
      BY Zenon, <1>4, <2>1 DEF authorize, Authorized, authorizes
    <3>2. request[t].capability \in issued_ids /\ Chain(request[t].capability) \cap revoked = {}
      BY Zenon, <3>1 DEF active_capability, is_effectively_active
    <3>3. pc[t] = "submitted" /\ UNCHANGED <<overtaken, revocation_observers, caches, fatal, nodes>>
      BY Zenon, <1>4, <2>1 DEF authorize, flightVars, cacheVars
    <3> QED BY ZenonT(60), <1>0, <2>1, <3>2, <3>3, GuardFlows
  <2>2. CASE Return(t)
    BY Zenon, <1>4, <2>2, ReturnFlows DEF authorize, cacheVars
  <2> QED BY Zenon, <1>4, <2>1, <2>2 DEF authorize
<1>5. ASSUME NEW t \in Threads, commit_to_linearization(t) PROVE AnswersFlow /\ NodesFlow
  <2>1. PICK l \in EffectExecution :
          /\ Goto(t, l)
          /\ \/ remember_lookup(t)
             \/ UNCHANGED nodes /\ l \in {"CommitUnknown", "FailedBeforeCommit"}
    <3>1. CASE Goto(t, "Committed") /\ remember_lookup(t)
      BY Zenon, <3>1 DEF EffectExecution
    <3>2. CASE Goto(t, "CommitUnknown") /\ UNCHANGED nodes
      BY Zenon, <3>2 DEF EffectExecution
    <3>3. CASE Goto(t, "FailedBeforeCommit") /\ UNCHANGED nodes
      BY Zenon, <3>3 DEF EffectExecution
    <3> QED BY Zenon, <1>5, <3>1, <3>2, <3>3 DEF commit_to_linearization
  <2>2. pc[t] = "executing" /\ UNCHANGED <<request, overtaken, revocation_observers, caches, fatal>>
    BY Zenon, <1>5 DEF commit_to_linearization, flightVars
  <2> QED BY ZenonT(60), <1>0, <2>1, <2>2, GuardFlows
<1>6. ASSUME NEW t \in Threads, finish_attempt(t) PROVE AnswersFlow /\ NodesFlow
  <2>1. CASE Return(t)
    BY Zenon, <1>6, <2>1, ReturnFlows DEF finish_attempt, cacheVars
  <2>2. CASE pc[t] = "Committed" /\ Answer(t)
    BY Zenon, <1>0, <1>6, <2>2, GotoFlows DEF finish_attempt, Answer, flightVars
  <2> QED BY Zenon, <1>6, <2>1, <2>2 DEF finish_attempt
<1>7. ASSUME NEW t \in Threads, reply(t) PROVE AnswersFlow /\ NodesFlow
  <2> DEFINE b == [node |-> request[t].node, capability |-> request[t].capability,
                   overtaken |-> overtaken[t]]
  <2>1. request[t].mount \in Mounts \cup {NoMount} /\ pc[t] = "replying"
    BY Zenon, <1>7 DEF reply, CallsTyped, Requests, InFlight
  <2>2. b.node = request[t].node /\ b.capability = request[t].capability /\ b.overtaken = overtaken[t]
    BY Zenon
  <2>3. ASSUME NEW m \in Mounts, NEW a \in caches'[m], a \notin caches[m]
        PROVE  a = b /\ request[t].mount = m
    <3>1. /\ request[t].mount # NoMount
          /\ caches' = [caches EXCEPT ![request[t].mount] = @ \cup {b}]
      BY Zenon, <1>7, <2>3 DEF reply
    <3> HIDE DEF b
    <3> QED BY Zenon, <2>1, <2>3, <3>1 DEF PropagationTyped
  <2> HIDE DEF b
  <2>4. \A m \in Mounts : \A a \in caches'[m] :
           \/ a \in caches[m]
           \/ /\ pc[t] = "replying" /\ request[t].mount = m /\ request[t].node = a.node
              /\ request[t].capability = a.capability /\ overtaken[t] = a.overtaken
    BY Zenon, <2>1, <2>2, <2>3
  <2>5. Return(t) /\ UNCHANGED <<revocation_observers, fatal, nodes>>
    BY Zenon, <1>7 DEF reply
  <2> QED BY ZenonT(60), <2>4, <2>5, ReturnFlows
<1>8. ASSUME NEW t \in Threads, revoke_held_by_call(t) PROVE AnswersFlow /\ NodesFlow
  <2>1. CASE Return(t)
    BY Zenon, <1>8, <2>1, ReturnFlows DEF revoke_held_by_call, cacheVars
  <2>2. CASE Goto(t, "propagating") /\ UNCHANGED <<request, flightVars>>
    BY Zenon, <1>0, <1>8, <2>2, GotoFlows DEF revoke_held_by_call, flightVars
  <2> QED BY Zenon, <1>8, <2>1, <2>2 DEF revoke_held_by_call, Committed, Refused
<1>9. ASSUME NEW t \in Threads, begin_subject_close_call(t) PROVE AnswersFlow /\ NodesFlow
  <2>1. CASE Return(t)
    BY Zenon, <1>9, <2>1, ReturnFlows DEF begin_subject_close_call, cacheVars
  <2>2. CASE Goto(t, "propagating") /\ UNCHANGED <<request, flightVars>>
    BY Zenon, <1>0, <1>9, <2>2, GotoFlows DEF begin_subject_close_call, flightVars
  <2> QED BY Zenon, <1>9, <2>1, <2>2 DEF begin_subject_close_call, Committed, Refused
<1>10. ASSUME NEW t \in Threads, clone_observers(t) PROVE AnswersFlow /\ NodesFlow
  BY Zenon, <1>0, <1>10, GotoFlows DEF clone_observers, flightVars
<1>11. ASSUME NEW t \in Threads, NEW m \in Mounts, discard_cached_decisions(t, m)
       PROVE  AnswersFlow /\ NodesFlow
  BY Zenon, <1>1, <1>11 DEF discard_cached_decisions, fail, flightVars
<1>12. ASSUME NEW t \in Threads, inval_inode(t) PROVE AnswersFlow /\ NodesFlow
  <2>1. UNCHANGED <<pc, request, nodes, revocation_observers>> /\ fatal \subseteq fatal'
    BY Zenon, <1>12 DEF inval_inode, fail
  <2>2. \A m \in Mounts : caches'[m] \subseteq caches[m]
    <3>1. CASE UNCHANGED caches
      BY Zenon, <3>1
    <3>2. CASE \E n \in stale[t] : caches' = [caches EXCEPT ![flushing[t]] = {a \in @ : a.node # n}]
      BY Zenon, <3>2 DEF PropagationTyped
    <3> QED BY Zenon, <1>12, <3>1, <3>2 DEF inval_inode, fail
  <2>3. \A u \in Threads : overtaken[u] \subseteq overtaken'[u]
    BY Zenon, <1>12 DEF inval_inode, fail, flightVars
  <2> QED BY Zenon, <1>1, <2>1, <2>2, <2>3
<1>13. ASSUME NEW t \in Threads, end_discard(t) PROVE AnswersFlow /\ NodesFlow
  BY Zenon, <1>1, <1>13 DEF end_discard, callVars, flightVars, cacheVars
<1>14. ASSUME NEW t \in Threads, end_propagation(t) PROVE AnswersFlow /\ NodesFlow
  BY Zenon, <1>14, ReturnFlows DEF end_propagation, cacheVars
<1>15. ASSUME NEW t \in Threads, NEW r \in Requests, submit(t, r) PROVE AnswersFlow /\ NodesFlow
  <2>1. \A u \in Threads \ {t} : request'[u] = request[u]
    BY Zenon, <1>15 DEF submit, CallsTyped
  <2>2. request'[t].mount \in revocation_observers \cup {NoMount}
    BY Zenon, <1>15 DEF submit, CallsTyped
  <2> QED BY Zenon, <1>0, <1>15, <2>1, <2>2, GotoFlows DEF submit, flightVars
<1>16. ASSUME NEW t \in Threads, NEW r \in Targets, request_write(t, r) PROVE AnswersFlow /\ NodesFlow
  <2>1. \A u \in Threads \ {t} : request'[u] = request[u]
    BY Zenon, <1>16 DEF request_write, CallsTyped
  <2>2. PICK l \in {"revoking", "closing"} : Goto(t, l)
    BY Zenon, <1>16 DEF request_write
  <2> QED BY Zenon, <1>0, <1>16, <2>1, <2>2, GotoFlows DEF request_write, flightVars
<1>17. ASSUME NEW t \in Threads, with_state_mut(t) PROVE AnswersFlow /\ NodesFlow
  BY Zenon, <1>1, <1>17 DEF with_state_mut, callVars, flightVars, cacheVars
<1>18. ASSUME NEW m \in Mounts, register_revocation_observer(m) PROVE AnswersFlow /\ NodesFlow
  BY Zenon, <1>1, <1>18 DEF register_revocation_observer, callVars, flightVars
<1>19. ASSUME NEW m \in Mounts, NEW n \in Nodes, forget(m, n) PROVE AnswersFlow /\ NodesFlow
  <2>1. /\ UNCHANGED <<pc, request, overtaken, revocation_observers, fatal>>
        /\ \A u \in Threads : pc[u] \in InFlight /\ request[u].mount = m => request[u].node # n
        /\ nodes' = [nodes EXCEPT ![m][n] = "retired"]
    BY Zenon, <1>19 DEF forget, callVars, flightVars
  <2>2. /\ \A x \in Mounts : caches'[x] \subseteq caches[x]
        /\ \A a \in caches'[m] : a.node # n
    BY Zenon, <1>19 DEF forget, PropagationTyped
  <2>3. AnswersFlow
    BY Zenon, <2>1, <2>2 DEF AnswersFlow
  <2>4. \A x \in Mounts, y \in Nodes : x # m \/ y # n => nodes'[x][y] = nodes[x][y]
    BY <1>19, <2>1 DEF PropagationTyped
  <2>5. NodesFlow
    BY Zenon, <2>1, <2>2, <2>4 DEF NodesFlow
  <2> QED BY Zenon, <2>3, <2>5
<1>20. CASE UNCHANGED kernelVars
  BY Zenon, <1>1, <1>20 DEF kernelVars, callVars, flightVars, cacheVars
<1> QED
  BY ZenonT(60), <1>2, <1>3, <1>4, <1>5, <1>6, <1>7, <1>8, <1>9, <1>10, <1>11, <1>12, <1>13, <1>14,
     <1>15, <1>16, <1>17, <1>18, <1>19, <1>20 DEF KernelNext, Step

----------------------------------------------------------------------------
(* What the observers have reached.                                         *)

\* The propagation of u, if one is running, is where it was.
ReachKept(u) ==
  /\ pc'[u] = "discarding" <=> pc[u] = "discarding"
  /\ pc[u] = "discarding" => todo'[u] = todo[u] /\ withdrawn'[u] = withdrawn[u]
  /\ flushing'[u] = flushing[u] /\ stale'[u] = stale[u]

\* A step outside the propagations leaves them alone.
PropagationQuiet ==
  /\ UNCHANGED confirmed
  /\ \A u \in Threads : ReachKept(u) /\ withdrawn'[u] \subseteq withdrawn[u] \cup revoked'

\* The steps that are not those of a propagation are quiet.
LEMMA QuietSteps ==
  ASSUME CallsTyped, PropagationTyped, [KernelNext]_kernelVars
  PROVE  \/ PropagationQuiet
         \/ \E t \in Threads : \/ clone_observers(t)
                               \/ \E m \in Mounts : discard_cached_decisions(t, m)
                               \/ inval_inode(t)
                               \/ end_discard(t)
                               \/ end_propagation(t)
<1> USE DEF ReachKept
<1>1. ASSUME NEW t \in Threads, Return(t), pc[t] # "discarding",
             UNCHANGED <<flushing, stale, confirmed, todo, withdrawn>>
      PROVE  PropagationQuiet
  BY Zenon, <1>1 DEF Return, Goto, CallsTyped, PropagationQuiet
<1>2. ASSUME NEW t \in Threads, NEW l, Goto(t, l), pc[t] # "discarding", l # "discarding",
             UNCHANGED <<flushing, stale, confirmed, todo, withdrawn>>
      PROVE  PropagationQuiet
  BY Zenon, <1>2 DEF Goto, CallsTyped, PropagationQuiet
<1>3. ASSUME UNCHANGED <<pc, flushing, stale, confirmed, todo, withdrawn>>
      PROVE  PropagationQuiet
  BY Zenon, <1>3 DEF PropagationQuiet
<1>4. ASSUME NEW t \in Threads, NEW c \in SUBSET revoked', Committed(t, c), pc[t] # "discarding",
             UNCHANGED <<flushing, stale, confirmed, todo>>
      PROVE  PropagationQuiet
  BY Zenon, <1>4 DEF Committed, Goto, CallsTyped, PropagationTyped, PropagationQuiet
<1>5. ASSUME NEW t \in Threads, with_active_capability(t) PROVE PropagationQuiet
  BY Zenon, <1>1, <1>2, <1>5 DEF with_active_capability, propagationVars
<1>6. ASSUME NEW t \in Threads, end_inspection(t) PROVE PropagationQuiet
  BY Zenon, <1>2, <1>6 DEF end_inspection, propagationVars
<1>7. ASSUME NEW t \in Threads, authorize(t) PROVE PropagationQuiet
  BY Zenon, <1>1, <1>2, <1>7 DEF authorize, propagationVars
<1>8. ASSUME NEW t \in Threads, commit_to_linearization(t) PROVE PropagationQuiet
  BY Zenon, <1>2, <1>8 DEF commit_to_linearization, propagationVars
<1>9. ASSUME NEW t \in Threads, finish_attempt(t) PROVE PropagationQuiet
  BY Zenon, <1>1, <1>2, <1>9 DEF finish_attempt, Answer, propagationVars, EffectExecution
<1>10. ASSUME NEW t \in Threads, reply(t) PROVE PropagationQuiet
  BY Zenon, <1>1, <1>10 DEF reply, propagationVars
<1>11. ASSUME NEW t \in Threads, revoke_held_by_call(t) PROVE PropagationQuiet
  <2> DEFINE c == request[t].capability
  <2>1. CASE revoke_held_by(request[t].caller, c) /\ Committed(t, {c})
    <3>1. {c} \in SUBSET revoked'
      BY Zenon, <2>1 DEF revoke_held_by, revoke_existing
    <3>2. PropagationQuiet
      BY Zenon, <1>4, <1>11, <2>1, <3>1 DEF revoke_held_by_call
    <3> QED BY Zenon, <3>2
  <2>2. CASE Refused(t)
    BY Zenon, <1>1, <1>11, <2>2 DEF revoke_held_by_call, Refused
  <2> QED BY Zenon, <1>11, <2>1, <2>2 DEF revoke_held_by_call
<1>12. ASSUME NEW t \in Threads, begin_subject_close_call(t) PROVE PropagationQuiet
  <2> DEFINE s == request[t].caller
  <2>1. CASE begin_subject_close(s) /\ Committed(t, held[s])
    <3>1. held[s] \in SUBSET revoked'
      BY Zenon, <2>1 DEF begin_subject_close
    <3>2. PropagationQuiet
      BY Zenon, <1>4, <1>12, <2>1, <3>1 DEF begin_subject_close_call
    <3> QED BY Zenon, <3>2
  <2>2. CASE Refused(t)
    BY Zenon, <1>1, <1>12, <2>2 DEF begin_subject_close_call, Refused
  <2> QED BY Zenon, <1>12, <2>1, <2>2 DEF begin_subject_close_call
<1>13. ASSUME NEW t \in Threads, NEW r \in Requests, submit(t, r) PROVE PropagationQuiet
  BY Zenon, <1>2, <1>13 DEF submit, propagationVars
<1>14. ASSUME NEW t \in Threads, NEW r \in Targets, request_write(t, r) PROVE PropagationQuiet
  BY Zenon, <1>2, <1>14 DEF request_write, propagationVars
<1>15. ASSUME NEW t \in Threads, with_state_mut(t) PROVE PropagationQuiet
  BY Zenon, <1>3, <1>15 DEF with_state_mut, callVars, propagationVars
<1>16. ASSUME NEW m \in Mounts, register_revocation_observer(m) PROVE PropagationQuiet
  BY Zenon, <1>3, <1>16 DEF register_revocation_observer, callVars, propagationVars
<1>17. ASSUME NEW m \in Mounts, NEW n \in Nodes, forget(m, n) PROVE PropagationQuiet
  BY Zenon, <1>3, <1>17 DEF forget, callVars, propagationVars
<1>18. CASE UNCHANGED kernelVars
  BY Zenon, <1>3, <1>18 DEF kernelVars, callVars, propagationVars
<1> QED
  BY ZenonT(60), <1>5, <1>6, <1>7, <1>8, <1>9, <1>10, <1>11, <1>12, <1>13, <1>14, <1>15, <1>16,
     <1>17, <1>18 DEF KernelNext, Step

\* What an answer records is typed.
LEMMA AnswerTyped ==
  ASSUME CallsTyped, PropagationTyped, NEW t \in Threads, reply(t)
  PROVE  caches' \in [Mounts -> SUBSET Answers]
<1> DEFINE b == [node |-> request[t].node, capability |-> request[t].capability,
                 overtaken |-> overtaken[t]]
           x == request[t].mount
<1>1. x \in Mounts \cup {NoMount} /\ request[t].node \in Nodes /\ request[t].capability \in CapIds
  BY Zenon DEF reply, CallsTyped, InFlight, Requests
<1>2. b \in Answers
  BY Zenon, <1>1 DEF Answers, PropagationTyped
<1>3. UNCHANGED caches \/ (x # NoMount /\ caches' = [caches EXCEPT ![x] = @ \cup {b}])
  BY Zenon DEF reply
<1> HIDE DEF b, x
<1>4. CASE UNCHANGED caches
  BY Zenon, <1>4 DEF PropagationTyped
<1>5. CASE x # NoMount /\ caches' = [caches EXCEPT ![x] = @ \cup {b}]
  <2>1. x \in Mounts /\ {b} \subseteq Answers
    BY Zenon, <1>1, <1>2, <1>5
  <2> QED BY Zenon, <1>5, <2>1 DEF PropagationTyped
<1> QED BY Zenon, <1>3, <1>4, <1>5

\* The observers' bookkeeping stays well typed.
LEMMA PropagationStaysTyped ==
  ASSUME CallsTyped, TypeOK, PropagationTyped, [KernelNext]_kernelVars
  PROVE  PropagationTyped'
<1> USE DEF PropagationTyped
<1>1. ASSUME NEW t \in Threads, Return(t),
             UNCHANGED <<todo, flushing, stale, withdrawn, revocation_observers, nodes>>,
             caches' \in [Mounts -> SUBSET Answers]
      PROVE  PropagationTyped'
  BY Zenon, <1>1 DEF Return
<1>2. ASSUME UNCHANGED <<todo, flushing, stale, withdrawn, overtaken, caches, nodes>>,
             revocation_observers' \subseteq Mounts
      PROVE  PropagationTyped'
  BY Zenon, <1>2
<1>3. ASSUME NEW t \in Threads, NEW c \in SUBSET CapIds, Committed(t, c),
             UNCHANGED <<todo, flushing, stale, cacheVars>>
      PROVE  PropagationTyped'
  BY Zenon, <1>3 DEF Committed, cacheVars, flightVars
<1>4. ASSUME NEW t \in Threads, pc[t] \in InFlight, remember_lookup(t),
             UNCHANGED <<todo, flushing, stale, withdrawn, overtaken, caches, revocation_observers>>
      PROVE  PropagationTyped'
  <2>1. request[t].mount \in Mounts \cup {NoMount} /\ request[t].node \in Nodes
    BY Zenon, <1>4 DEF CallsTyped, Requests
  <2>2. nodes' \in [Mounts -> [Nodes -> NodeStatus]]
    <3>1. CASE request[t].mount = NoMount
      BY Zenon, <1>4, <3>1 DEF remember_lookup
    <3>2. CASE request[t].mount # NoMount
      <4> DEFINE x == request[t].mount
                 y == request[t].node
      <4>1. x \in Mounts /\ y \in Nodes /\ nodes' = [nodes EXCEPT ![x][y] = "live"]
        BY Zenon, <1>4, <2>1, <3>2 DEF remember_lookup
      <4> HIDE DEF x, y
      <4> QED BY <4>1 DEF NodeStatus
    <3> QED BY Zenon, <3>1, <3>2
  <2> QED BY Zenon, <1>4, <2>2
<1>5. ASSUME NEW t \in Threads, with_active_capability(t) PROVE PropagationTyped'
  BY Zenon, <1>1, <1>4, <1>5 DEF with_active_capability, propagationVars, flightVars, InFlight
<1>6. ASSUME NEW t \in Threads, authorize(t) PROVE PropagationTyped'
  BY Zenon, <1>1, <1>2, <1>6 DEF authorize, cacheVars, propagationVars, flightVars
<1>7. ASSUME NEW t \in Threads, commit_to_linearization(t) PROVE PropagationTyped'
  BY Zenon, <1>2, <1>4, <1>7 DEF commit_to_linearization, propagationVars, flightVars, InFlight
<1>8. ASSUME NEW t \in Threads, finish_attempt(t) PROVE PropagationTyped'
  BY Zenon, <1>1, <1>2, <1>8 DEF finish_attempt, Answer, cacheVars, propagationVars, flightVars
<1>9. ASSUME NEW t \in Threads, reply(t) PROVE PropagationTyped'
  BY Zenon, <1>1, <1>9, AnswerTyped DEF reply, propagationVars
<1>10. ASSUME NEW t \in Threads, revoke_held_by_call(t) PROVE PropagationTyped'
  <2>1. {request[t].capability} \in SUBSET CapIds
    BY Zenon, <1>10 DEF revoke_held_by_call, CallsTyped
  <2> QED BY Zenon, <1>1, <1>3, <1>10, <2>1 DEF revoke_held_by_call, Refused, cacheVars
<1>11. ASSUME NEW t \in Threads, begin_subject_close_call(t) PROVE PropagationTyped'
  <2>1. CASE begin_subject_close(request[t].caller) /\ Committed(t, held[request[t].caller])
    <3>1. held[request[t].caller] \in SUBSET CapIds
      BY Zenon, <2>1 DEF begin_subject_close, SubjectRunning, TypeOK, issued_ids
    <3> QED BY Zenon, <1>3, <1>11, <2>1, <3>1 DEF begin_subject_close_call
  <2>2. CASE Refused(t)
    BY Zenon, <1>1, <1>11, <2>2 DEF begin_subject_close_call, Refused, cacheVars
  <2> QED BY Zenon, <1>11, <2>1, <2>2 DEF begin_subject_close_call
<1>12. ASSUME NEW t \in Threads, clone_observers(t) PROVE PropagationTyped'
  BY Zenon, <1>12 DEF clone_observers, cacheVars, flightVars
<1>13. ASSUME NEW t \in Threads, NEW m \in Mounts, ObserverReturns(t, m),
              UNCHANGED <<withdrawn, overtaken, caches, nodes, revocation_observers>>
       PROVE  PropagationTyped'
  BY Zenon, <1>13 DEF ObserverReturns
<1>14. ASSUME NEW t \in Threads, NEW m \in Mounts, discard_cached_decisions(t, m)
       PROVE  PropagationTyped'
  <2>1. CASE fail(t, m)
    BY Zenon, <1>13, <1>14, <2>1 DEF discard_cached_decisions, fail, flightVars
  <2>2. CASE ~fail(t, m)
    BY Zenon, <1>14, <2>2 DEF discard_cached_decisions, live_nodes
  <2> QED BY Zenon, <2>1, <2>2
<1>15. ASSUME NEW t \in Threads, inval_inode(t) PROVE PropagationTyped'
  <2>0. flushing[t] \in Mounts
    BY Zenon, <1>15 DEF inval_inode
  <2>1. CASE fail(t, flushing[t])
    BY Zenon, <1>13, <1>15, <2>0, <2>1 DEF inval_inode, fail, flightVars
  <2>2. CASE ~fail(t, flushing[t])
    <3> PICK n \in stale[t] :
          /\ caches' = [caches EXCEPT ![flushing[t]] = {a \in @ : a.node # n}]
          /\ stale' = [stale EXCEPT ![t] = @ \ {n}]
          /\ overtaken' = [u \in Threads |-> IF u \in Unanswered(flushing[t], n)
                                              THEN overtaken[u] \cup withdrawn[t] ELSE overtaken[u]]
      BY Zenon, <1>15, <2>2 DEF inval_inode
    <3>1. UNCHANGED <<nodes, todo, flushing, withdrawn, revocation_observers>>
      BY Zenon, <1>15, <2>2 DEF inval_inode
    <3>2. caches' \in [Mounts -> SUBSET Answers] /\ stale' \in [Threads -> SUBSET Nodes]
      BY Zenon, <2>0
    <3>3. overtaken' \in [Threads -> SUBSET CapIds]
      BY Zenon
    <3> QED BY Zenon, <3>1, <3>2, <3>3
  <2> QED BY Zenon, <2>1, <2>2
<1>16. ASSUME NEW t \in Threads, end_discard(t) PROVE PropagationTyped'
  BY Zenon, <1>13, <1>16 DEF end_discard, callVars, flightVars, cacheVars
<1>17. ASSUME NEW t \in Threads, end_propagation(t) PROVE PropagationTyped'
  BY Zenon, <1>17 DEF end_propagation, Return, cacheVars
<1>18. ASSUME NEW m \in Mounts, NEW n \in Nodes, forget(m, n) PROVE PropagationTyped'
  <2>1. UNCHANGED <<todo, flushing, stale, withdrawn, overtaken, revocation_observers>>
    BY Zenon, <1>18 DEF forget, callVars, flightVars, propagationVars
  <2>2. caches' \in [Mounts -> SUBSET Answers]
    BY Zenon, <1>18 DEF forget
  <2>3. nodes' \in [Mounts -> [Nodes -> NodeStatus]]
    BY <1>18 DEF forget, NodeStatus
  <2> QED BY Zenon, <2>1, <2>2, <2>3
<1> QED
  BY ZenonT(60), <1>2, <1>5, <1>6, <1>7, <1>8, <1>9, <1>10, <1>11, <1>12, <1>14, <1>15, <1>16, <1>17, <1>18
     DEF KernelNext, Step, kernelVars, callVars, flightVars, cacheVars, propagationVars,
         end_inspection, submit, request_write, with_state_mut, register_revocation_observer

\* What holds of answers and nodes after a step, whoever took it.
LEMMA FlowFacts ==
  ASSUME CacheInv, CallsTyped, AnswersFlow, NodesFlow, PropagationTyped', CapabilitiesKept
  PROVE  AnswersIssued' /\ AnswersLive' /\ UnregisteredEmpty'
<1>0. issued_ids \subseteq issued_ids'
  BY Zenon DEF CapabilitiesKept
<1>1. \A u \in Threads : pc[u] \in Guarded => request[u].capability \in issued_ids
  <2>1. \A u \in Threads : pc[u] \in Guarded => request[u].capability \in CapIds
    BY Zenon DEF CallsTyped, Requests, InFlight, Guarded, Executing
  <2> QED BY Zenon, <2>1 DEF CacheInv, GuardedActive
<1>2. AnswersIssued'
  <2>1. ASSUME NEW m \in Mounts, NEW a \in caches'[m] PROVE a.capability \in issued_ids'
    <3>1. CASE a \in caches[m]
      BY Zenon, <1>0, <3>1 DEF CacheInv, AnswersIssued
    <3>2. CASE a \notin caches[m]
      <4> PICK u \in Threads : pc[u] = "replying" /\ request[u].capability = a.capability
        BY <2>1, <3>2 DEF AnswersFlow
      <4>1. request[u].capability \in issued_ids
        BY Zenon DEF CacheInv, AnswersIssued
      <4> QED BY Zenon, <1>0, <4>1
    <3> QED BY Zenon, <3>1, <3>2
  <2>2. ASSUME NEW u \in Threads, pc'[u] = "replying" PROVE request'[u].capability \in issued_ids'
    <3>1. request'[u] = request[u] /\ (pc[u] \in Guarded \/ pc[u] = "replying")
      BY Zenon, <2>2 DEF AnswersFlow
    <3>2. request[u].capability \in issued_ids
      BY Zenon, <1>1, <3>1 DEF CacheInv, AnswersIssued
    <3> QED BY Zenon, <1>0, <3>1, <3>2
  <2> QED BY Zenon, <2>1, <2>2 DEF AnswersIssued
<1>3. AnswersLive'
  <2>1. ASSUME NEW m \in Mounts, NEW a \in caches'[m] PROVE nodes'[m][a.node] = "live"
    <3>1. a.node \in Nodes
      <4>1. caches'[m] \subseteq Answers
        BY Zenon DEF PropagationTyped
      <4>2. a \in Answers
        BY Zenon, <2>1, <4>1
      <4> QED BY Zenon, <4>2 DEF Answers
    <3>2. nodes[m][a.node] = "live"
      <4>1. CASE a \in caches[m]
        BY Zenon, <4>1 DEF CacheInv, AnswersLive
      <4>2. CASE a \notin caches[m]
        <5> PICK u \in Threads : pc[u] = "replying" /\ request[u].mount = m /\ request[u].node = a.node
          BY <2>1, <4>2 DEF AnswersFlow
        <5> QED BY Zenon, <3>1 DEF CacheInv, AnswersLive, Holding
      <4> QED BY Zenon, <4>1, <4>2
    <3> QED BY Zenon, <2>1, <3>1, <3>2 DEF NodesFlow
  <2>2. ASSUME NEW u \in Threads, NEW m \in Mounts, NEW n \in Nodes, pc'[u] \in Holding,
               request'[u].mount = m, request'[u].node = n
        PROVE  nodes'[m][n] = "live"
    <3>1. pc'[u] \in InFlight
      BY Zenon, <2>2 DEF Holding, InFlight, EffectExecution
    <3>2. CASE pc[u] \in Holding /\ request'[u] = request[u]
      <4>1. nodes[m][n] = "live"
        BY Zenon, <2>2, <3>2 DEF CacheInv, AnswersLive
      <4> QED BY Zenon, <2>2, <3>1, <4>1 DEF NodesFlow
    <3> QED BY Zenon, <2>2, <3>2 DEF NodesFlow
  <2> QED BY Zenon, <2>1, <2>2 DEF AnswersLive
<1>4. UnregisteredEmpty'
  <2> SUFFICES ASSUME NEW m \in Mounts, m \notin revocation_observers'
               PROVE  caches'[m] = {} /\ \A u \in Threads : pc'[u] \in InFlight => request'[u].mount # m
    BY Zenon DEF UnregisteredEmpty
  <2>1. m \notin revocation_observers /\ m # NoMount
    BY Zenon, KernelAssumption DEF AnswersFlow
  <2>2. caches[m] = {} /\ \A u \in Threads : pc[u] \in InFlight => request[u].mount # m
    BY Zenon, <2>1 DEF CacheInv, UnregisteredEmpty
  <2>3. caches'[m] = {}
    <3>1. ASSUME NEW a \in caches'[m] PROVE FALSE
      <4> PICK u \in Threads : pc[u] = "replying" /\ request[u].mount = m
        BY <2>2, <3>1 DEF AnswersFlow
      <4> QED BY Zenon, <2>2 DEF InFlight
    <3> QED BY Zenon, <3>1
  <2>4. ASSUME NEW u \in Threads, pc'[u] \in InFlight PROVE request'[u].mount # m
    <3>0. pc'[u] = "submitted" \/ pc'[u] = "replying" \/ pc'[u] \in Guarded
      BY Zenon, <2>4 DEF InFlight, Guarded, Executing
    <3>1. CASE request'[u] = request[u] /\ (pc[u] = "submitted" \/ pc[u] = "replying" \/ pc[u] \in Guarded)
      BY Zenon, <2>2, <3>1 DEF InFlight, Guarded, Executing
    <3>2. CASE request'[u].mount \in revocation_observers \cup {NoMount}
      BY Zenon, <2>1, <3>2
    <3> QED BY Zenon, <3>0, <3>1, <3>2 DEF AnswersFlow
  <2> QED BY Zenon, <2>3, <2>4
<1> QED BY Zenon, <1>2, <1>3, <1>4

\* Authority checked under the guard stays active while the guard is held.
LEMMA GuardKeepsActive ==
  ASSUME GuardedActive, KInv, AnswersFlow, ParentsIssued, CapabilitiesKept, [KernelNext]_kernelVars
  PROVE  GuardedActive'
<1> SUFFICES ASSUME NEW u \in Threads, NEW k \in CapIds, pc'[u] \in Guarded, request'[u].capability = k
             PROVE  k \in issued_ids' /\ Chain(k)' \cap revoked' = {}
  BY Zenon DEF GuardedActive
<1>1. /\ request'[u] = request[u]
      /\ \/ pc[u] \in Guarded
         \/ /\ pc[u] = "submitted" /\ request[u].capability \in issued_ids
            /\ Chain(request[u].capability) \cap revoked = {}
  BY Zenon DEF AnswersFlow
<1>2. k \in issued_ids /\ Chain(k) \cap revoked = {}
  <2>1. request[u].capability = k
    BY Zenon, <1>1
  <2> QED BY Zenon, <1>1, <2>1 DEF GuardedActive
<1>3. UNCHANGED stateVars
  <2>1. CASE pc[u] \in Guarded
    BY Zenon, <2>1, GuardFreezesState
  <2>2. CASE pc[u] = "submitted"
    <3>1. pc'[u] # pc[u]
      BY Zenon, <2>2 DEF Guarded, Executing, EffectExecution
    <3>2. ASSUME NEW t \in Threads, Step(t), pc'[u] # pc[u], t # u PROVE FALSE
      BY Zenon, <3>2 DEF Step, with_active_capability, end_inspection, authorize,
         commit_to_linearization, finish_attempt, Answer, reply, revoke_held_by_call,
         begin_subject_close_call, Committed, Refused, clone_observers, discard_cached_decisions,
         inval_inode, end_discard, end_propagation, callVars, Return, Goto, KInv, CallsTyped
    <3>3. CASE Step(u)
      BY ZenonT(60), <2>2, <3>3 DEF Step, with_active_capability, end_inspection, authorize,
         commit_to_linearization, finish_attempt, reply, revoke_held_by_call,
         begin_subject_close_call, clone_observers, discard_cached_decisions,
         inval_inode, end_discard, end_propagation, EffectExecution
    <3> QED
      BY Zenon, <3>1, <3>2, <3>3 DEF KernelNext, kernelVars, submit, request_write,
         register_revocation_observer, forget, with_state_mut, callVars
  <2> QED BY Zenon, <1>1, <2>1, <2>2
<1>4. Chain(k)' = Chain(k)
  BY Zenon, <1>2, ChainStable
<1> QED BY Zenon, <1>2, <1>3, <1>4 DEF stateVars, issued_ids

\* A propagation that stays where it was loses nothing that it had reached.
LEMMA KeptThread ==
  ASSUME CacheInv, CallsTyped, AnswersFlow, ParentsIssued, CapabilitiesKept,
         NEW u \in Threads, ReachKept(u)
  PROVE  DoneUntouched(u)' /\ PassedUntouched(u)'
<1>1. \A m \in Mounts, n \in Nodes, c \in revoked : Untouched(m, n, c) => Untouched(m, n, c)'
  BY Zenon, FlowKeepsUntouched DEF CacheInv
<1>2. withdrawn[u] \subseteq revoked /\ fatal \subseteq fatal'
  BY Zenon DEF CacheInv, WithdrawnRevoked, AnswersFlow
<1>3. DoneUntouched(u)'
  <2> SUFFICES ASSUME NEW m \in Mounts \ fatal', NEW n \in Nodes, NEW c \in withdrawn'[u],
                      pc'[u] = "discarding", m \notin todo'[u]
               PROVE  Untouched(m, n, c)'
    BY Zenon DEF DoneUntouched
  <2>1. pc[u] = "discarding" /\ m \notin todo[u] /\ c \in withdrawn[u] /\ m \in Mounts \ fatal
    BY Zenon, <1>2 DEF ReachKept
  <2>2. Untouched(m, n, c)
    BY Zenon, <2>1 DEF CacheInv, DoneUntouched
  <2> QED BY Zenon, <1>1, <1>2, <2>1, <2>2
<1>4. PassedUntouched(u)'
  <2> SUFFICES ASSUME NEW m \in Mounts, flushing'[u] = m
               PROVE  /\ pc'[u] = "discarding"
                      /\ \A n \in Nodes \ stale'[u], c \in withdrawn'[u] : Untouched(m, n, c)'
    BY Zenon DEF PassedUntouched
  <2>1. /\ pc[u] = "discarding"
        /\ \A n \in Nodes \ stale[u], c \in withdrawn[u] : Untouched(m, n, c)
    BY Zenon DEF CacheInv, PassedUntouched, ReachKept
  <2>2. pc'[u] = "discarding" /\ withdrawn'[u] = withdrawn[u] /\ stale'[u] = stale[u]
    BY Zenon, <2>1 DEF ReachKept
  <2> QED BY Zenon, <1>1, <1>2, <2>1, <2>2
<1> QED BY Zenon, <1>3, <1>4

\* What has been confirmed stays clear while nothing new is confirmed.
LEMMA KeptConfirmed ==
  ASSUME CacheInv, CallsTyped, AnswersFlow, ParentsIssued, CapabilitiesKept, UNCHANGED confirmed
  PROVE  ConfirmedUntouched'
<1>1. \A m \in Mounts, n \in Nodes, c \in revoked : Untouched(m, n, c) => Untouched(m, n, c)'
  BY Zenon, FlowKeepsUntouched DEF CacheInv
<1>2. confirmed \subseteq revoked /\ fatal \subseteq fatal'
  BY Zenon DEF CacheInv, WithdrawnRevoked, AnswersFlow
<1> QED BY Zenon, <1>1, <1>2 DEF CacheInv, ConfirmedUntouched

\* What the confirmed revocations and the running ones have reached.
Reached ==
  /\ ConfirmedUntouched
  /\ \A t \in Threads : DoneUntouched(t) /\ PassedUntouched(t)

\* A cloned list of observers omits only mounts that serve nothing yet.
LEMMA CloneKeepsReached ==
  ASSUME CacheInv, CallsTyped, AnswersFlow, ParentsIssued, CapabilitiesKept,
         NEW t \in Threads, clone_observers(t)
  PROVE  WithdrawnRevoked' /\ Reached'
<1>1. /\ pc[t] = "propagating" /\ pc'[t] = "discarding" /\ todo'[t] = revocation_observers
      /\ \A u \in Threads \ {t} : pc'[u] = pc[u] /\ todo'[u] = todo[u]
      /\ UNCHANGED <<fatal, flushing, stale, withdrawn, confirmed, revoked>>
  BY Zenon DEF clone_observers, Goto, CallsTyped, CacheInv, PropagationTyped, cacheVars, stateVars
<1>2. WithdrawnRevoked' /\ ConfirmedUntouched'
  BY Zenon, <1>1, KeptConfirmed DEF CacheInv, WithdrawnRevoked
<1>3. \A u \in Threads \ {t} : DoneUntouched(u)' /\ PassedUntouched(u)'
  BY Zenon, <1>1, KeptThread DEF ReachKept
<1>4. DoneUntouched(t)'
  <2> SUFFICES ASSUME NEW m \in Mounts \ fatal', NEW n \in Nodes, NEW c \in withdrawn'[t], m \notin todo'[t]
               PROVE  Untouched(m, n, c)'
    BY Zenon DEF DoneUntouched
  <2>1. m \in Mounts \ revocation_observers /\ c \in revoked
    BY Zenon, <1>1 DEF CacheInv, WithdrawnRevoked
  <2>2. Untouched(m, n, c)
    BY Zenon, <2>1 DEF CacheInv, UnregisteredEmpty, Untouched, InFlight
  <2> QED BY Zenon, <2>1, <2>2, FlowKeepsUntouched DEF CacheInv
<1>5. PassedUntouched(t)'
  <2>1. \A m \in Mounts : flushing[t] # m
    BY Zenon, <1>1 DEF CacheInv, PassedUntouched
  <2> QED BY Zenon, <1>1, <2>1 DEF PassedUntouched
<1> QED BY Zenon, <1>2, <1>3, <1>4, <1>5 DEF Reached

\* An observer that fails has marked its mount.
LEMMA FailKeepsReached ==
  ASSUME CacheInv, CallsTyped, AnswersFlow, ParentsIssued, CapabilitiesKept,
         NEW t \in Threads, NEW x \in Mounts, fail(t, x),
         UNCHANGED <<stateVars, pc, withdrawn, confirmed>>
  PROVE  WithdrawnRevoked' /\ Reached'
<1>1. /\ x \in fatal' /\ fatal \subseteq fatal'
      /\ todo'[t] = todo[t] \ {x} /\ flushing'[t] = NoMount
      /\ \A u \in Threads \ {t} : /\ todo'[u] = todo[u] /\ flushing'[u] = flushing[u]
                                  /\ stale'[u] = stale[u]
  BY Zenon DEF fail, ObserverReturns, CacheInv, PropagationTyped
<1>2. WithdrawnRevoked' /\ ConfirmedUntouched'
  BY Zenon, KeptConfirmed DEF CacheInv, WithdrawnRevoked, stateVars
<1>3. \A u \in Threads \ {t} : DoneUntouched(u)' /\ PassedUntouched(u)'
  BY Zenon, <1>1, KeptThread DEF ReachKept
<1>4. DoneUntouched(t)'
  <2> SUFFICES ASSUME NEW m \in Mounts \ fatal', NEW n \in Nodes, NEW c \in withdrawn'[t],
                      pc'[t] = "discarding", m \notin todo'[t]
               PROVE  Untouched(m, n, c)'
    BY Zenon DEF DoneUntouched
  <2>1. pc[t] = "discarding" /\ m \notin todo[t] /\ c \in withdrawn[t] /\ m \in Mounts \ fatal
    BY Zenon, <1>1
  <2>2. Untouched(m, n, c) /\ c \in revoked
    BY Zenon, <2>1 DEF CacheInv, DoneUntouched, WithdrawnRevoked
  <2> QED BY Zenon, <2>2, FlowKeepsUntouched DEF CacheInv
<1>5. PassedUntouched(t)'
  BY Zenon, <1>1, KernelAssumption DEF PassedUntouched
<1> QED BY Zenon, <1>2, <1>3, <1>4, <1>5 DEF Reached

\* An observer that starts has to invalidate every node that an answer is about.
LEMMA DiscardKeepsReached ==
  ASSUME CacheInv, CallsTyped, AnswersFlow, ParentsIssued, CapabilitiesKept,
         NEW t \in Threads, NEW x \in Mounts, discard_cached_decisions(t, x)
  PROVE  WithdrawnRevoked' /\ Reached'
<1>0. CASE fail(t, x)
  BY Zenon, <1>0, FailKeepsReached DEF discard_cached_decisions
<1>1. CASE ~fail(t, x)
  <2>1. /\ pc[t] = "discarding" /\ flushing'[t] = x /\ stale'[t] = live_nodes(x)
        /\ \A u \in Threads \ {t} : flushing'[u] = flushing[u] /\ stale'[u] = stale[u]
        /\ UNCHANGED <<pc, fatal, todo, withdrawn, confirmed, revoked>>
    BY Zenon, <1>1 DEF discard_cached_decisions, CacheInv, PropagationTyped, stateVars
  <2>2. WithdrawnRevoked' /\ ConfirmedUntouched'
    BY Zenon, <2>1, KeptConfirmed DEF CacheInv, WithdrawnRevoked
  <2>3. \A u \in Threads \ {t} : DoneUntouched(u)' /\ PassedUntouched(u)'
    BY Zenon, <2>1, KeptThread DEF ReachKept
  <2>4. DoneUntouched(t)'
    <3> SUFFICES ASSUME NEW m \in Mounts \ fatal, NEW n \in Nodes, NEW c \in withdrawn[t], m \notin todo[t]
                 PROVE  Untouched(m, n, c)'
      BY Zenon, <2>1 DEF DoneUntouched
    <3>1. Untouched(m, n, c) /\ c \in revoked
      BY Zenon, <2>1 DEF CacheInv, DoneUntouched, WithdrawnRevoked
    <3> QED BY Zenon, <3>1, FlowKeepsUntouched DEF CacheInv
  <2>5. PassedUntouched(t)'
    <3> SUFFICES ASSUME NEW n \in Nodes, n \notin live_nodes(x), NEW c \in withdrawn[t]
                 PROVE  Untouched(x, n, c)'
      BY Zenon, <2>1 DEF PassedUntouched
    <3>1. nodes[x][n] # "live" /\ c \in revoked
      BY Zenon DEF live_nodes, CacheInv, WithdrawnRevoked
    <3>2. Untouched(x, n, c)
      BY Zenon, <3>1 DEF CacheInv, AnswersLive, Holding, Untouched
    <3> QED BY Zenon, <3>1, <3>2, FlowKeepsUntouched DEF CacheInv
  <2> QED BY Zenon, <2>2, <2>3, <2>4, <2>5 DEF Reached
<1> QED BY Zenon, <1>0, <1>1

\* A node that an observer has invalidated has no cached answer, and the answers
\* that were on their way are marked.
LEMMA InvalKeepsReached ==
  ASSUME CacheInv, CallsTyped, AnswersFlow, ParentsIssued, CapabilitiesKept,
         NEW t \in Threads, inval_inode(t)
  PROVE  WithdrawnRevoked' /\ Reached'
<1>0. flushing[t] \in Mounts
  BY Zenon DEF inval_inode, CacheInv, PropagationTyped
<1>1. CASE fail(t, flushing[t])
  BY Zenon, <1>0, <1>1, FailKeepsReached DEF inval_inode
<1>2. ASSUME NEW x \in Mounts, x = flushing[t], ~fail(t, flushing[t]) PROVE WithdrawnRevoked' /\ Reached'
  <2> PICK y \in stale[t] :
        /\ caches' = [caches EXCEPT ![x] = {a \in @ : a.node # y}]
        /\ stale' = [stale EXCEPT ![t] = @ \ {y}]
        /\ overtaken' = [u \in Threads |-> IF u \in Unanswered(x, y)
                                            THEN overtaken[u] \cup withdrawn[t] ELSE overtaken[u]]
    BY Zenon, <1>2 DEF inval_inode
  <2>1. /\ stale'[t] = stale[t] \ {y}
        /\ \A u \in Threads \ {t} : stale'[u] = stale[u]
        /\ UNCHANGED <<pc, request, fatal, todo, flushing, withdrawn, confirmed, revoked>>
    BY Zenon, <1>2 DEF inval_inode, CacheInv, PropagationTyped, stateVars
  <2>2. WithdrawnRevoked' /\ ConfirmedUntouched'
    BY Zenon, <2>1, KeptConfirmed DEF CacheInv, WithdrawnRevoked
  <2>3. \A u \in Threads \ {t} : DoneUntouched(u)' /\ PassedUntouched(u)'
    BY Zenon, <2>1, KeptThread DEF ReachKept
  <2>4. pc[t] = "discarding" /\ \A n \in Nodes \ stale[t], c \in withdrawn[t] : Untouched(x, n, c)
    BY Zenon, <1>2 DEF CacheInv, PassedUntouched
  <2>5. DoneUntouched(t)'
    <3> SUFFICES ASSUME NEW m \in Mounts \ fatal, NEW n \in Nodes, NEW c \in withdrawn[t], m \notin todo[t]
                 PROVE  Untouched(m, n, c)'
      BY Zenon, <2>1 DEF DoneUntouched
    <3>1. Untouched(m, n, c) /\ c \in revoked
      BY Zenon, <2>4 DEF CacheInv, DoneUntouched, WithdrawnRevoked
    <3> QED BY Zenon, <3>1, FlowKeepsUntouched DEF CacheInv
  <2>6. ASSUME NEW n \in Nodes \ stale'[t], NEW c \in withdrawn[t] PROVE Untouched(x, n, c)'
    <3>1. CASE n = y
      <4>1. \A a \in caches'[x] : a.node # n
        BY Zenon, <3>1 DEF CacheInv, PropagationTyped
      <4>2. ASSUME NEW u \in Threads, pc'[u] = "replying", request'[u].mount = x, request'[u].node = n
            PROVE  c \in overtaken'[u]
        BY Zenon, <2>1, <3>1, <4>2 DEF Unanswered
      <4> QED BY Zenon, <4>1, <4>2 DEF Untouched
    <3>2. CASE n # y
      <4>1. n \in Nodes \ stale[t] /\ c \in revoked
        BY Zenon, <2>1, <3>2 DEF CacheInv, WithdrawnRevoked
      <4>2. Untouched(x, n, c)
        BY Zenon, <2>4, <4>1
      <4> QED BY Zenon, <4>1, <4>2, FlowKeepsUntouched DEF CacheInv
    <3> QED BY Zenon, <3>1, <3>2
  <2>7. PassedUntouched(t)'
    BY Zenon, <1>2, <2>1, <2>4, <2>6 DEF PassedUntouched
  <2> QED BY Zenon, <2>2, <2>3, <2>5, <2>7 DEF Reached
<1> QED BY Zenon, <1>0, <1>1, <1>2

\* An observer that is through has passed every node of its mount.
LEMMA EndDiscardKeepsReached ==
  ASSUME CacheInv, CallsTyped, AnswersFlow, ParentsIssued, CapabilitiesKept,
         NEW t \in Threads, end_discard(t)
  PROVE  WithdrawnRevoked' /\ Reached'
<1>0. flushing[t] \in Mounts
  BY Zenon DEF end_discard, CacheInv, PropagationTyped
<1>1. ASSUME NEW x \in Mounts, x = flushing[t] PROVE WithdrawnRevoked' /\ Reached'
  <2>1. /\ stale[t] = {} /\ todo'[t] = todo[t] \ {x} /\ flushing'[t] = NoMount
        /\ \A u \in Threads \ {t} : /\ todo'[u] = todo[u] /\ flushing'[u] = flushing[u]
                                    /\ stale'[u] = stale[u]
        /\ UNCHANGED <<pc, fatal, withdrawn, confirmed, revoked>>
    BY Zenon, <1>1 DEF end_discard, ObserverReturns, CacheInv, PropagationTyped, callVars, cacheVars, stateVars
  <2>2. WithdrawnRevoked' /\ ConfirmedUntouched'
    BY Zenon, <2>1, KeptConfirmed DEF CacheInv, WithdrawnRevoked
  <2>3. \A u \in Threads \ {t} : DoneUntouched(u)' /\ PassedUntouched(u)'
    BY Zenon, <2>1, KeptThread DEF ReachKept
  <2>4. pc[t] = "discarding" /\ \A n \in Nodes, c \in withdrawn[t] : Untouched(x, n, c)
    BY Zenon, <1>1, <2>1 DEF CacheInv, PassedUntouched
  <2>5. DoneUntouched(t)'
    <3> SUFFICES ASSUME NEW m \in Mounts \ fatal, NEW n \in Nodes, NEW c \in withdrawn[t],
                        m = x \/ m \notin todo[t]
                 PROVE  Untouched(m, n, c)'
      BY Zenon, <2>1 DEF DoneUntouched
    <3>1. Untouched(m, n, c) /\ c \in revoked
      BY Zenon, <2>4 DEF CacheInv, DoneUntouched, WithdrawnRevoked
    <3> QED BY Zenon, <3>1, FlowKeepsUntouched DEF CacheInv
  <2>6. PassedUntouched(t)'
    BY Zenon, <2>1, KernelAssumption DEF PassedUntouched
  <2> QED BY Zenon, <2>2, <2>3, <2>5, <2>6 DEF Reached
<1> QED BY Zenon, <1>0, <1>1

\* A call that reports Ok has been to every mount that still serves.
LEMMA EndPropagationKeepsReached ==
  ASSUME CacheInv, CallsTyped, AnswersFlow, ParentsIssued, CapabilitiesKept,
         NEW t \in Threads, end_propagation(t)
  PROVE  WithdrawnRevoked' /\ Reached'
<1>1. /\ pc[t] = "discarding" /\ pc'[t] = "idle" /\ flushing[t] = NoMount /\ todo[t] = {}
      /\ confirmed' \subseteq confirmed \cup withdrawn[t]
      /\ \A u \in Threads \ {t} : pc'[u] = pc[u] /\ withdrawn'[u] = withdrawn[u]
      /\ withdrawn'[t] = {}
      /\ UNCHANGED <<fatal, todo, flushing, stale, revoked>>
  BY Zenon DEF end_propagation, Return, Goto, CallsTyped, CacheInv, PropagationTyped, cacheVars, stateVars
<1>2. WithdrawnRevoked'
  BY Zenon, <1>1 DEF CacheInv, WithdrawnRevoked
<1>3. ConfirmedUntouched'
  <2> SUFFICES ASSUME NEW m \in Mounts \ fatal, NEW n \in Nodes, NEW c \in confirmed'
               PROVE  Untouched(m, n, c)'
    BY Zenon, <1>1 DEF ConfirmedUntouched
  <2>1. c \in confirmed \/ c \in withdrawn[t]
    BY Zenon, <1>1
  <2>2. Untouched(m, n, c) /\ c \in revoked
    BY Zenon, <1>1, <2>1 DEF CacheInv, ConfirmedUntouched, DoneUntouched, WithdrawnRevoked
  <2> QED BY Zenon, <2>2, FlowKeepsUntouched DEF CacheInv
<1>4. \A u \in Threads \ {t} : DoneUntouched(u)' /\ PassedUntouched(u)'
  BY Zenon, <1>1, KeptThread DEF ReachKept
<1>5. DoneUntouched(t)' /\ PassedUntouched(t)'
  BY Zenon, <1>1, KernelAssumption DEF DoneUntouched, PassedUntouched
<1> QED BY Zenon, <1>2, <1>3, <1>4, <1>5 DEF Reached

\* Caches, answers on their way and propagations fit together in every state.
LEMMA CacheInvariant == KernelSpec => []CacheInv
<1>1. KernelInit => CacheInv
  <2> SUFFICES ASSUME KernelInit PROVE CacheInv
    BY Zenon
  <2>1. \A u \in Threads : pc[u] = "idle" /\ pc[u] \notin InFlight \cup Guarded \cup Holding
    BY Zenon DEF KernelInit, InFlight, Guarded, Executing, Holding, EffectExecution
  <2>2. PropagationTyped /\ WithdrawnRevoked
    BY Zenon DEF KernelInit, PropagationTyped, NodeStatus, WithdrawnRevoked
  <2>3. GuardedActive /\ AnswersIssued /\ AnswersLive /\ UnregisteredEmpty
    BY Zenon, <2>1 DEF KernelInit, GuardedActive, AnswersIssued, AnswersLive, UnregisteredEmpty
  <2>4. ConfirmedUntouched /\ \A t \in Threads : DoneUntouched(t) /\ PassedUntouched(t)
    BY Zenon, <2>1, KernelAssumption DEF KernelInit, ConfirmedUntouched, DoneUntouched, PassedUntouched
  <2> QED BY Zenon, <2>2, <2>3, <2>4 DEF CacheInv
<1>2. CacheInv /\ KInv /\ IInv /\ [KernelNext]_kernelVars => CacheInv'
  <2> SUFFICES ASSUME CacheInv, KInv, IInv, [KernelNext]_kernelVars PROVE CacheInv'
    BY Zenon
  <2>1. TypeOK /\ ParentsIssued /\ CallsTyped /\ PropagationTyped /\ [Next]_stateVars
    BY Zenon, KernelStepIsStateStep DEF IInv, KInv, CacheInv
  <2>2. CapabilitiesKept /\ revoked \subseteq revoked'
    BY Zenon, <2>1, StepKeepsCapabilities, RevokedGrows
  <2>3. AnswersFlow /\ NodesFlow /\ PropagationTyped'
    BY Zenon, <2>1, StepFlows, PropagationStaysTyped
  <2>4. GuardedActive' /\ AnswersIssued' /\ AnswersLive' /\ UnregisteredEmpty'
    BY Zenon, <2>1, <2>2, <2>3, FlowFacts, GuardKeepsActive DEF CacheInv
  <2>5. CASE PropagationQuiet
    <3>1. WithdrawnRevoked'
      BY Zenon, <2>2, <2>5 DEF CacheInv, WithdrawnRevoked, PropagationQuiet
    <3>2. ConfirmedUntouched'
      BY Zenon, <2>1, <2>2, <2>3, <2>5, KeptConfirmed DEF PropagationQuiet
    <3>3. \A t \in Threads : DoneUntouched(t)' /\ PassedUntouched(t)'
      BY Zenon, <2>1, <2>2, <2>3, <2>5, KeptThread DEF PropagationQuiet
    <3> QED BY Zenon, <2>3, <2>4, <3>1, <3>2, <3>3 DEF CacheInv
  <2>6. CASE \E t \in Threads : \/ clone_observers(t)
                                \/ \E m \in Mounts : discard_cached_decisions(t, m)
                                \/ inval_inode(t)
                                \/ end_discard(t)
                                \/ end_propagation(t)
    <3>1. WithdrawnRevoked' /\ Reached'
      BY Zenon, <2>1, <2>2, <2>3, <2>6, CloneKeepsReached, DiscardKeepsReached, InvalKeepsReached,
         EndDiscardKeepsReached, EndPropagationKeepsReached
    <3> QED BY Zenon, <2>3, <2>4, <3>1 DEF CacheInv, Reached
  <2> QED BY Zenon, <2>1, <2>5, <2>6, QuietSteps
<1>3. KernelSpec => []IInv
  BY KernelImplementsState, InductiveInvariant, PTL
<1> QED BY <1>1, <1>2, <1>3, KernelInvariant, PTL DEF KernelSpec

\* A revocation that reported Ok has reached every cache: a mount that still
\* serves keeps no answer that rests on a capability which some revoking call
\* withdrew and confirmed, but one that was past its check before the revocation
\* and still to be sent when its node was invalidated.  This holds for any number
\* of threads, mounts and nodes, whatever the operating system forgets or refuses
\* meanwhile, and without its waiting for the requests in flight.
THEOREM NothingWithdrawnCached == KernelSpec => []WithdrawnNotCached
<1>1. CacheInv => WithdrawnNotCached
  <2> SUFFICES ASSUME CacheInv, NEW m \in Mounts \ fatal, NEW a \in caches[m],
                      NEW c \in Chain(a.capability) \cap confirmed
               PROVE  c \in a.overtaken
    BY Zenon DEF WithdrawnNotCached
  <2>1. caches[m] \subseteq Answers
    BY Zenon DEF CacheInv, PropagationTyped
  <2>2. a.node \in Nodes
    BY Zenon, <2>1 DEF Answers
  <2>3. Untouched(m, a.node, c)
    BY Zenon, <2>2 DEF CacheInv, ConfirmedUntouched
  <2> QED BY Zenon, <2>3 DEF Untouched
<1> QED BY <1>1, CacheInvariant, PTL

=============================================================================
