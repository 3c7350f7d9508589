----------------------- MODULE SessionOrchestratorProofs -----------------------
(****************************************************************************)
(* Proofs about SessionOrchestrator for every set of identities.            *)
(*                                                                          *)
(* None of the safety properties is inductive: that Ready and Closed mean   *)
(* that nothing is left follows from what CleanupProgress says about the    *)
(* backends (Accounted), from how far a start or a cleanup pass has come    *)
(* (Started, Tried), and from which calls run in which state (Phases).      *)
(****************************************************************************)
EXTENDS SessionOrchestrator, TLAPS

StageOf(r) ==
  CASE r = "capability" -> "CapabilityRevoke"
    [] r \in {"vm", "workload"} -> "VmKill"
    [] r = "broker" -> "BrokerClose"
    [] r = "workspace" -> "WorkspaceIsolation"

StartPCs == {"clone", "broker", "vm", "capability", "check", "release"}

\* A resource that a backend holds is the session's and still to be cleaned up.
Accounted ==
  \A x \in live : x[2] = session.identity /\ StageOf(x[1]) \notin session.cleanup

\* A session at hand has an identity that is reserved and not retired.
IdentityBound ==
  /\ retired \subseteq ledger
  /\ pc \in StartPCs \cup CleanupStage \cup {"settle"} \/ active =>
       session.identity \in ledger \ retired

\* Which calls run in which lifecycle state, and when a session is retained.
Phases ==
  /\ active <=> state \in {"Running", "Stopping"}
  /\ state = "Running" => pc = "idle"
  /\ pc = "idle" => state \in {"Ready", "Closed", "Running", "Stopping"}
  /\ pc = "dropped" => state \in {"Ready", "Closed"}
  /\ pc = "aborted" => state = "Stopping"
  /\ pc \in StartPCs => ~active
  /\ pc \in CleanupStage \cup {"settle"} =>
       (state = "Stopping" <=> pass \in {"stop", "drop"})
  /\ pc \in {"idle", "clone", "dropped"} /\ state \in {"Ready", "Closed"} => live = {}
  /\ pc = "clone" => state \in {"Ready", "Closed"}

\* What the stages of start_session that are over have acquired.
Started ==
  /\ pc \in StartPCs => "WorkspaceIsolation" \notin session.cleanup
  /\ pc \in StartPCs \ {"clone"} => Resource("workspace") \in live
  /\ pc \in StartPCs \ {"clone", "broker"} => Resource("broker") \in live
  /\ pc \in {"capability", "check", "release"} => Resource("vm") \in live
  /\ pc \in {"check", "release"} => Resource("capability") \in live
  /\ state = "Running" => {Resource("capability"), Resource("broker")} \subseteq live

\* The stages a cleanup pass is past are done, or have failed in it.
Tried ==
  LET tried == session.cleanup \cup failures
  IN  /\ pc \in {"VmKill", "BrokerClose", "WorkspaceIsolation", "settle"} =>
           "CapabilityRevoke" \in tried
      /\ pc \in {"BrokerClose", "WorkspaceIsolation", "settle"} => "VmKill" \in tried
      /\ pc \in {"WorkspaceIsolation", "settle"} => "BrokerClose" \in tried
      /\ pc = "settle" /\ failures = {} => "WorkspaceIsolation" \in session.cleanup

\* The VM holds the workload and the workspace holds them all.
Nested ==
  /\ WorkspaceOutlivesUsers
  /\ Resource("workload") \in live => Resource("vm") \in live

\* The inductive invariant.
IInv ==
  TypeOK /\ Accounted /\ IdentityBound /\ Phases /\ Started /\ Tried /\ Nested

\* What a stage releases is what is accounted to it.
LEMMA ReleasesStage ==
  ASSUME NEW stage \in CleanupStage, NEW r \in Resources
  PROVE  r \in Releases(stage) <=> StageOf(r) = stage
BY DEF Releases, StageOf, CleanupStage, Resources

\* The invariant holds initially.
LEMMA InitIInv ==
  ASSUME Init
  PROVE  IInv
<1>1. session \in ActiveSession
  BY DEF Init, pending, ActiveSession, CleanupStage, Resources
<1>2. TypeOK
  BY Zenon, <1>1 DEF Init, TypeOK, LifecycleState, ShutdownReason, PCs
<1>3. Accounted /\ IdentityBound /\ Nested
  BY DEF Init, Accounted, IdentityBound, Nested, WorkspaceOutlivesUsers, StartPCs, CleanupStage
<1>4. Phases /\ Started /\ Tried
  BY DEF Init, Phases, Started, Tried, StartPCs, CleanupStage
<1> QED BY <1>2, <1>3, <1>4 DEF IInv

\* A refused or a new start preserves the invariant.
LEMMA BeginStart ==
  ASSUME IInv, start_refused \/ \E id \in Identities : start(id) \/ start_ledger_failed(id)
  PROVE  IInv'
<1>1. CASE start_refused
  BY <1>1 DEF start_refused, ForgetReason, RollbackReason, callVars, backendVars, identityVars,
     IInv, TypeOK, Accounted, IdentityBound, Phases, Started, Tried, Nested,
     WorkspaceOutlivesUsers, Resource, ShutdownReason
<1>2. ASSUME NEW id \in Identities, start(id)
      PROVE  IInv'
  <2>1. live = {} /\ ~active /\ id \notin retired
    BY <1>2 DEF start, MayStart, IInv, Phases, IdentityBound
  <2>2. TypeOK'
    BY <1>2 DEF start, ForgetReason, backendVars, IInv, TypeOK, pending, ActiveSession,
       CleanupStage, Resources, PCs, ShutdownReason
  <2> QED
    BY <1>2, <2>1, <2>2 DEF start, MayStart, backendVars, IInv, TypeOK, Accounted,
       IdentityBound, Phases, Started, Tried, Nested, WorkspaceOutlivesUsers, Resource,
       pending, CleanupStage, StartPCs
<1>3. ASSUME NEW id \in Identities, start_ledger_failed(id)
      PROVE  IInv'
  BY <1>3 DEF start_ledger_failed, ForgetReason, callVars, backendVars,
     IInv, TypeOK, Accounted, IdentityBound, Phases, Started, Tried, Nested,
     WorkspaceOutlivesUsers, Resource, ShutdownReason
<1> QED BY <1>1, <1>2, <1>3

\* The facts that the stages of start_session have in common.
LEMMA AtStartPC ==
  ASSUME IInv, pc \in StartPCs
  PROVE  /\ session.identity \in Identities
         /\ session.identity \in ledger \ retired
         /\ ~active /\ state \notin {"Running", "Stopping"}
         /\ "WorkspaceIsolation" \notin session.cleanup
BY DEF IInv, TypeOK, IdentityBound, Phases, Started

\* A backend makes one more resource for the session at hand, and the session
\* records the stage that will release it.
LEMMA Acquired ==
  ASSUME IInv, pc \in StartPCs, NEW r \in Resources,
         live' = live \cup {Resource(r)},
         session'.identity = session.identity,
         session'.cleanup \subseteq session.cleanup, StageOf(r) \notin session'.cleanup,
         r # "workspace" => Resource("workspace") \in live,
         r = "workload" => Resource("vm") \in live
  PROVE  live' \subseteq Resources \X Identities /\ Accounted' /\ Nested'
<1>1. session.identity \in Identities
  BY AtStartPC
<1>2. live \subseteq Resources \X Identities /\ Accounted /\ Nested
  BY DEF IInv, TypeOK
<1>3. Resource(r) \in Resources \X Identities
  BY <1>1 DEF Resource
<1>4. live' \subseteq Resources \X Identities
  BY <1>2, <1>3
<1>5. Accounted'
  BY <1>2 DEF Accounted, Resource
<1>6. Nested'
  BY <1>2 DEF Nested, WorkspaceOutlivesUsers, Resource
<1> QED BY <1>4, <1>5, <1>6

\* clone_workspace preserves the invariant.
LEMMA CloneKeeps ==
  ASSUME IInv, clone_workspace
  PROVE  IInv'
<1>0. pc \in StartPCs
  BY DEF clone_workspace, StartPCs
<1>1. /\ session.identity \in ledger \ retired /\ session.identity \in Identities
      /\ ~active /\ "WorkspaceIsolation" \notin session.cleanup
  BY <1>0, AtStartPC
<1>2. live = {} /\ state \in {"Ready", "Closed"}
  BY DEF clone_workspace, IInv, Phases
<1>3. CASE live' = live \cup {Resource("workspace")} /\ UNCHANGED session
           /\ (Advance("WorkspaceCloned", "broker") \/ Rollback)
  <2>0. live' \subseteq Resources \X Identities /\ Accounted' /\ Nested'
    BY <1>0, <1>1, <1>3, Acquired DEF StageOf, Resources
  <2>1. TypeOK'
    BY Zenon, <1>3, <2>0 DEF clone_workspace, Advance, Rollback, ownerVars, identityVars,
       IInv, TypeOK, LifecycleState, PCs, CleanupStage
  <2>2. IdentityBound'
    BY <1>1, <1>3 DEF Advance, Rollback, ownerVars, identityVars, IInv, IdentityBound
  <2>3. Phases' /\ Started' /\ Tried'
    BY <1>1, <1>2, <1>3 DEF Advance, Rollback, Resource, ownerVars, identityVars,
       IInv, Phases, Started, Tried, StartPCs, CleanupStage
  <2> QED BY <2>0, <2>1, <2>2, <2>3 DEF IInv
<1>4. CASE /\ pc' = "idle"
           /\ retired' = retired \cup {session.identity}
           /\ session' = pending(NoIdentity)
           /\ UNCHANGED <<pass, failures, ownerVars, live, ledger>>
  <2>1. TypeOK'
    BY <1>1, <1>4 DEF clone_workspace, ownerVars, IInv, TypeOK, pending, ActiveSession,
       Resources, PCs, CleanupStage
  <2>2. Accounted' /\ IdentityBound' /\ Nested'
    BY <1>1, <1>2, <1>4 DEF ownerVars,
       IInv, Accounted, IdentityBound, Nested, WorkspaceOutlivesUsers, StartPCs, CleanupStage
  <2>3. Phases' /\ Started' /\ Tried'
    BY <1>1, <1>2, <1>4 DEF ownerVars, IInv, Phases, Started, Tried, StartPCs, CleanupStage
  <2> QED BY <2>1, <2>2, <2>3 DEF IInv
<1> QED BY <1>3, <1>4 DEF clone_workspace

\* A later stage of start_session that fails hands the session to cleanup_active.
LEMMA RollbackKeeps ==
  ASSUME IInv, pc \in StartPCs, Rollback, session' \in ActiveSession,
         session'.identity = session.identity, broker_running' \in BOOLEAN,
         live' \subseteq Resources \X Identities, Accounted', Nested'
  PROVE  IInv'
<1>1. /\ session.identity \in ledger \ retired
      /\ ~active /\ state \notin {"Running", "Stopping"}
  BY AtStartPC
<1>2. TypeOK'
  BY DEF Rollback, ownerVars, identityVars, IInv, TypeOK, PCs, CleanupStage
<1>3. IdentityBound'
  BY <1>1 DEF Rollback, ownerVars, identityVars, IInv, IdentityBound
<1>4. Phases' /\ Started' /\ Tried'
  BY <1>1 DEF Rollback, ownerVars, identityVars, IInv, Phases, Started, Tried, StartPCs,
     CleanupStage
<1> QED BY <1>2, <1>3, <1>4 DEF IInv

\* A stage of start_session that goes through leads to the next one.
LEMMA AdvanceKeeps ==
  ASSUME IInv, pc \in StartPCs, NEW s \in LifecycleState \ {"Running", "Stopping"},
         NEW next \in StartPCs \ {"clone"}, Advance(s, next), session' \in ActiveSession,
         session'.identity = session.identity, broker_running' \in BOOLEAN,
         live' \subseteq Resources \X Identities, Accounted', Nested', Started'
  PROVE  IInv'
<1>1. session.identity \in ledger \ retired /\ ~active
  BY AtStartPC
<1>2. TypeOK'
  BY DEF Advance, identityVars, IInv, TypeOK, PCs, StartPCs
<1>3. IdentityBound'
  BY <1>1 DEF Advance, identityVars, IInv, IdentityBound
<1>4. Phases' /\ Tried'
  BY <1>1 DEF Advance, identityVars, IInv, Phases, Tried, StartPCs, CleanupStage
<1> QED BY <1>2, <1>3, <1>4 DEF IInv

\* establish_broker_session preserves the invariant.
LEMMA BrokerKeeps ==
  ASSUME IInv, establish_broker_session
  PROVE  IInv'
<1>0. pc \in StartPCs /\ pc = "broker"
  BY DEF establish_broker_session, StartPCs
<1>1. TypeOK /\ Accounted /\ Nested /\ session \in ActiveSession
      /\ Resource("workspace") \in live /\ "WorkspaceIsolation" \notin session.cleanup
  BY <1>0 DEF IInv, TypeOK, Started, StartPCs
<1>2. CASE Acquire("broker", "BrokerClose") /\ broker_running' = TRUE
           /\ (Advance("BrokerEstablished", "vm") \/ Rollback)
  <2>1. session' \in ActiveSession /\ session'.identity = session.identity
        /\ session'.cleanup = session.cleanup \ {"BrokerClose"}
    BY Zenon, <1>1, <1>2 DEF Acquire, ActiveSession, Resources
  <2>2. live' \subseteq Resources \X Identities /\ Accounted' /\ Nested'
    BY <1>0, <1>1, <1>2, <2>1, Acquired DEF Acquire, StageOf, Resources
  <2>3. CASE Rollback
    BY <1>0, <1>2, <2>1, <2>2, <2>3, RollbackKeeps
  <2>4. CASE Advance("BrokerEstablished", "vm")
    <3>1. Started'
      BY <1>1, <1>2, <2>1, <2>4 DEF Acquire, Advance, Started, Resource, StartPCs
    <3> QED BY <1>0, <1>2, <2>1, <2>2, <2>4, <3>1, AdvanceKeeps DEF LifecycleState, StartPCs
  <2> QED BY <1>2, <2>3, <2>4
<1>3. CASE Rollback /\ UNCHANGED <<session, backendVars>>
  <2>1. live' \subseteq Resources \X Identities /\ Accounted' /\ Nested'
    BY <1>1, <1>3 DEF backendVars, TypeOK, Accounted, Nested, WorkspaceOutlivesUsers, Resource
  <2> QED BY <1>0, <1>1, <1>3, <2>1, RollbackKeeps DEF backendVars, TypeOK
<1> QED BY Zenon, <1>2, <1>3 DEF establish_broker_session

\* start_vm preserves the invariant, also when it fails half-way.
LEMMA VmKeeps ==
  ASSUME IInv, start_vm
  PROVE  IInv'
<1>0. pc \in StartPCs /\ pc = "vm"
  BY DEF start_vm, StartPCs
<1>1. TypeOK /\ Accounted /\ Nested /\ session \in ActiveSession
      /\ Resource("workspace") \in live /\ "WorkspaceIsolation" \notin session.cleanup
      /\ Resource("broker") \in live
  BY <1>0 DEF IInv, TypeOK, Started, StartPCs
<1>2. session' \in ActiveSession /\ session'.identity = session.identity
      /\ session'.cleanup = session.cleanup \ {"VmKill"} /\ broker_running' \in BOOLEAN
  <2>1. session' = [session EXCEPT !.leases = @ \cup {"vm"}, !.vm_start_attempted = TRUE,
                                   !.cleanup = @ \ {"VmKill"}]
        \/ session' = [session EXCEPT !.vm_start_attempted = TRUE, !.cleanup = @ \ {"VmKill"}]
    BY DEF start_vm
  <2>2. session' \in ActiveSession /\ session'.identity = session.identity
        /\ session'.cleanup = session.cleanup \ {"VmKill"}
    BY ZenonT(60), <1>1, <2>1 DEF ActiveSession, Resources
  <2> QED BY <1>1, <2>2 DEF start_vm, TypeOK
<1>3. CASE live' = live \cup {Resource("vm")} /\ (Advance("VmStarted", "capability") \/ Rollback)
  <2>1. live' \subseteq Resources \X Identities /\ Accounted' /\ Nested'
    BY <1>0, <1>1, <1>2, <1>3, Acquired DEF StageOf, Resources
  <2>2. CASE Rollback
    BY <1>0, <1>2, <2>1, <2>2, RollbackKeeps
  <2>3. CASE Advance("VmStarted", "capability")
    <3>1. Started'
      BY <1>1, <1>2, <1>3, <2>3 DEF Advance, Started, Resource, StartPCs
    <3> QED BY <1>0, <1>2, <2>1, <2>3, <3>1, AdvanceKeeps DEF LifecycleState, StartPCs
  <2> QED BY <1>3, <2>2, <2>3
<1>4. CASE live' = live /\ Rollback
  <2>1. live' \subseteq Resources \X Identities /\ Accounted' /\ Nested'
    BY <1>1, <1>2, <1>4 DEF TypeOK, Accounted, Nested, WorkspaceOutlivesUsers, Resource
  <2> QED BY <1>0, <1>2, <1>4, <2>1, RollbackKeeps
<1> QED BY <1>3, <1>4 DEF start_vm

\* inject_root_capability preserves the invariant.
LEMMA CapabilityKeeps ==
  ASSUME IInv, inject_root_capability
  PROVE  IInv'
<1>0. pc \in StartPCs /\ pc = "capability"
  BY DEF inject_root_capability, StartPCs
<1>1. TypeOK /\ Accounted /\ Nested /\ session \in ActiveSession
      /\ Resource("workspace") \in live /\ "WorkspaceIsolation" \notin session.cleanup
      /\ Resource("broker") \in live /\ Resource("vm") \in live
  BY <1>0 DEF IInv, TypeOK, Started, StartPCs
<1>b. broker_running' \in BOOLEAN
  BY <1>1 DEF inject_root_capability, TypeOK
<1>2. CASE Acquire("capability", "CapabilityRevoke")
           /\ (Advance("RootCapabilityInjected", "check") \/ Rollback)
  <2>1. session' \in ActiveSession /\ session'.identity = session.identity
        /\ session'.cleanup = session.cleanup \ {"CapabilityRevoke"}
    BY Zenon, <1>1, <1>2 DEF Acquire, ActiveSession, Resources
  <2>2. live' \subseteq Resources \X Identities /\ Accounted' /\ Nested'
    BY <1>0, <1>1, <1>2, <2>1, Acquired DEF Acquire, StageOf, Resources
  <2>3. CASE Rollback
    BY <1>0, <1>b, <2>1, <2>2, <2>3, RollbackKeeps
  <2>4. CASE Advance("RootCapabilityInjected", "check")
    <3>1. Started'
      BY <1>1, <1>2, <2>1, <2>4 DEF Acquire, Advance, Started, Resource, StartPCs
    <3> QED BY <1>0, <1>b, <2>1, <2>2, <2>4, <3>1, AdvanceKeeps DEF LifecycleState, StartPCs
  <2> QED BY <1>2, <2>3, <2>4
<1>3. CASE Rollback /\ UNCHANGED <<session, live>>
  <2>1. live' \subseteq Resources \X Identities /\ Accounted' /\ Nested'
    BY <1>1, <1>3 DEF TypeOK, Accounted, Nested, WorkspaceOutlivesUsers, Resource
  <2> QED BY <1>0, <1>1, <1>b, <1>3, <2>1, RollbackKeeps
<1> QED BY <1>2, <1>3 DEF inject_root_capability

\* The last check and the release of the workload preserve the invariant.
LEMMA ReleaseKeeps ==
  ASSUME IInv, ensure_broker_session_running \/ release_workload
  PROVE  IInv'
<1>0. pc \in StartPCs /\ pc \in {"check", "release"}
  BY DEF ensure_broker_session_running, release_workload, StartPCs
<1>1. TypeOK /\ Accounted /\ Nested /\ session \in ActiveSession
      /\ Resource("workspace") \in live /\ Resource("broker") \in live
      /\ Resource("vm") \in live /\ Resource("capability") \in live
      /\ "WorkspaceIsolation" \notin session.cleanup
  BY <1>0 DEF IInv, TypeOK, Started, StartPCs
<1>2. "VmKill" \notin session.cleanup
  BY <1>1 DEF Accounted, Resource, StageOf
<1>3. /\ session' = session /\ broker_running' = broker_running
      /\ session.identity \in ledger \ retired
      /\ state \notin {"Running", "Stopping"}
  <2>1. state \notin {"Running", "Stopping"} /\ session.identity \in ledger \ retired
    BY <1>0, AtStartPC
  <2> QED BY <1>0, <2>1 DEF ensure_broker_session_running, release_workload, backendVars, IInv, Phases
<1>4. CASE live' = live /\ Rollback
  <2>1. live' \subseteq Resources \X Identities /\ Accounted' /\ Nested'
    BY <1>1, <1>3, <1>4 DEF TypeOK, Accounted, Nested, WorkspaceOutlivesUsers, Resource
  <2> QED BY <1>0, <1>1, <1>3, <1>4, <2>1, RollbackKeeps DEF TypeOK
<1>5. CASE live' = live /\ Advance(state, "release")
  <2>1. live' \subseteq Resources \X Identities /\ Accounted' /\ Nested'
    BY <1>1, <1>3, <1>5 DEF TypeOK, Accounted, Nested, WorkspaceOutlivesUsers, Resource
  <2>2. Started'
    BY <1>1, <1>3, <1>5 DEF Advance, Started, Resource, StartPCs
  <2> QED BY <1>0, <1>1, <1>3, <1>5, <2>1, <2>2, AdvanceKeeps DEF TypeOK, StartPCs
<1>6. ASSUME live' = live \cup {Resource("workload")}
      PROVE  live' \subseteq Resources \X Identities /\ Accounted' /\ Nested'
  BY <1>0, <1>1, <1>2, <1>3, <1>6, Acquired DEF StageOf, Resources
<1>7. CASE live' = live \cup {Resource("workload")} /\ Rollback
  BY <1>0, <1>1, <1>3, <1>6, <1>7, RollbackKeeps DEF TypeOK
<1>8. CASE /\ live' = live \cup {Resource("workload")}
           /\ state' = "Running" /\ active' = TRUE /\ pc' = "idle"
           /\ UNCHANGED <<pass, failures, shutdown_reason, identityVars>>
  <2>1. TypeOK'
    BY <1>1, <1>3, <1>6, <1>8 DEF identityVars, TypeOK, LifecycleState, PCs
  <2>2. IdentityBound'
    BY <1>3, <1>8 DEF identityVars, IInv, IdentityBound
  <2>3. Phases' /\ Started' /\ Tried'
    BY <1>1, <1>3, <1>8 DEF Phases, Started, Tried, Resource, StartPCs, CleanupStage
  <2> QED BY <1>6, <1>8, <2>1, <2>2, <2>3 DEF IInv
<1> QED
  BY Zenon, <1>4, <1>5, <1>7, <1>8 DEF ensure_broker_session_running, release_workload, backendVars

\* What is left after a stage has released its resources.
LEMMA ReleasedFacts ==
  ASSUME IInv, NEW stage \in CleanupStage,
         stage = "WorkspaceIsolation" => {"VmKill", "BrokerClose"} \subseteq session.cleanup,
         session'.identity = session.identity,
         session'.cleanup \subseteq session.cleanup \cup {stage},
         live' = Released(stage)
  PROVE  /\ live' \subseteq Resources \X Identities /\ Accounted'
         /\ WorkspaceOutlivesUsers' /\ Nested'
<1>1. TypeOK /\ Accounted /\ Nested
  BY DEF IInv
<1>2. live' \subseteq live
  BY DEF Released
<1>3. \A x \in live' : x[1] \in Resources /\ x = Resource(x[1]) /\ StageOf(x[1]) # stage
  <2> SUFFICES ASSUME NEW x \in live'
               PROVE  x[1] \in Resources /\ x = Resource(x[1]) /\ StageOf(x[1]) # stage
    OBVIOUS
  <2>1. x \in Resources \X Identities /\ x[2] = session.identity
    BY <1>1, <1>2 DEF TypeOK, Accounted
  <2>2. x[1] \in Resources /\ x = Resource(x[1])
    BY <2>1 DEF Resource
  <2>3. x[1] \notin Releases(stage)
    BY <2>2 DEF Released
  <2> QED BY <2>2, <2>3, ReleasesStage
<1>4. Accounted'
  BY <1>1, <1>2, <1>3 DEF Accounted
<1>5. \A r \in Resources : Resource(r) \in live /\ StageOf(r) # stage => Resource(r) \in live'
  BY ReleasesStage DEF Released, Resource
<1>6. \A r \in {"vm", "workload", "broker"} : Resource(r) \in live' => stage # "WorkspaceIsolation"
  BY <1>1, <1>2 DEF Accounted, Resource, StageOf
<1>7. Nested'
  <2>1. \A r \in Resources : Resource(r)' = Resource(r)
    BY DEF Resource
  <2>2. WorkspaceOutlivesUsers'
    BY <1>1, <1>2, <1>5, <1>6, <2>1 DEF Nested, WorkspaceOutlivesUsers, StageOf, Resources, Resource
  <2>3. Resource("workload") \in live' => Resource("vm") \in live'
    BY <1>1, <1>2, <1>3, <1>5 DEF Nested, StageOf, Resources, Resource
  <2> QED BY <2>1, <2>2, <2>3 DEF Nested, Resources
<1> QED BY <1>1, <1>2, <1>4, <1>7 DEF TypeOK, Nested

\* One stage of cleanup_active preserves the invariant, whatever its outcome.
LEMMA CleanupKeeps ==
  ASSUME IInv, NEW stage \in CleanupStage,
         cleanup_skipped(stage) \/ cleanup_done(stage) \/ cleanup_failed(stage)
  PROVE  IInv'
<1>0. pc = stage /\ pc' = NextStage(stage) /\ pc' \in CleanupStage \cup {"settle"}
      /\ UNCHANGED <<pass, ownerVars, identityVars>>
  BY DEF cleanup_skipped, cleanup_done, cleanup_failed, AtStage, NextStage, CleanupStage
<1>1. TypeOK /\ Accounted /\ Nested /\ session \in ActiveSession
      /\ session.identity \in ledger \ retired /\ state # "Running"
  BY <1>0 DEF IInv, TypeOK, IdentityBound, Phases, CleanupStage
<1>2. /\ session' \in ActiveSession /\ session'.identity = session.identity
      /\ session'.cleanup \subseteq session.cleanup \cup {stage}
      /\ session.cleanup \subseteq session'.cleanup
      /\ failures' \subseteq CleanupStage /\ failures \subseteq failures'
      /\ broker_running' \in BOOLEAN
  <2>1. session' = session \/ session' = [session EXCEPT !.cleanup = @ \cup {stage}]
    BY DEF cleanup_skipped, cleanup_done, cleanup_failed
  <2>2. /\ session' \in ActiveSession /\ session'.identity = session.identity
        /\ session'.cleanup \subseteq session.cleanup \cup {stage}
        /\ session.cleanup \subseteq session'.cleanup
    BY <1>1, <2>1 DEF ActiveSession
  <2>3. failures' \subseteq CleanupStage /\ failures \subseteq failures'
    BY <1>1 DEF cleanup_skipped, cleanup_done, cleanup_failed, TypeOK
  <2>4. broker_running' \in BOOLEAN
    BY Zenon, <1>1 DEF cleanup_skipped, cleanup_done, cleanup_failed, Hold, backendVars, TypeOK
  <2> QED BY <2>2, <2>3, <2>4
<1>3. live' \subseteq Resources \X Identities /\ Accounted' /\ Nested'
  <2>1. CASE live' = Released(stage) /\ ~cleanup_skipped(stage)
    <3>1. stage = "WorkspaceIsolation" => {"VmKill", "BrokerClose"} \subseteq session.cleanup
      BY <2>1 DEF cleanup_done, cleanup_failed, Callable, Skipped
    <3> QED BY <1>2, <2>1, <3>1, ReleasedFacts
  <2>2. CASE live' = live /\ session' = session
    BY <1>1, <2>2 DEF TypeOK, Accounted, Nested, WorkspaceOutlivesUsers, Resource
  <2> QED BY <2>1, <2>2 DEF cleanup_skipped, cleanup_done, cleanup_failed, Hold, backendVars
<1>4. TypeOK'
  BY <1>0, <1>1, <1>2, <1>3 DEF TypeOK, ownerVars, identityVars, PCs
<1>5. IdentityBound'
  BY <1>0, <1>1, <1>2 DEF IInv, IdentityBound, ownerVars, identityVars
<1>6. Phases' /\ Started'
  BY <1>0, <1>1 DEF IInv, Phases, Started, StartPCs, CleanupStage, ownerVars
<1>7. Tried'
  <2>1. stage \in session'.cleanup \cup failures'
        \/ (stage = "WorkspaceIsolation" /\ ~({"VmKill", "BrokerClose"} \subseteq session.cleanup)
            /\ failures' = failures)
    BY <1>1 DEF cleanup_skipped, cleanup_done, cleanup_failed, Skipped, Callable, ActiveSession
  <2> QED BY <1>0, <1>2, <2>1 DEF IInv, Tried, NextStage, CleanupStage
<1> QED BY <1>3, <1>4, <1>5, <1>6, <1>7 DEF IInv

\* A session all of whose stages are done has left nothing behind.
LEMMA CompleteIsEmpty ==
  ASSUME IInv, cleanup_complete
  PROVE  live = {}
<1>1. \A x \in live : StageOf(x[1]) \in CleanupStage
  BY DEF IInv, TypeOK, Resources, StageOf, CleanupStage
<1> QED BY <1>1 DEF IInv, Accounted, cleanup_complete

\* The end of a cleanup pass preserves the invariant.
LEMMA SettleKeeps ==
  ASSUME IInv, finish_failed_start \/ finish_stop
  PROVE  IInv'
<1>0. pc = "settle" /\ session.identity \in ledger \ retired /\ TypeOK /\ Accounted /\ Nested
      /\ UNCHANGED <<pass, failures, backendVars, ledger>>
  BY DEF finish_failed_start, finish_stop, IInv, IdentityBound
<1>1. ASSUME NEW s \in {"Ready", "Closed"}, Forget(s), cleanup_complete,
             pc' \in {"idle", "dropped"}, shutdown_reason' = shutdown_reason
      PROVE  IInv'
  <2>1. live = {} /\ live' = {}
    BY <1>0, <1>1, CompleteIsEmpty DEF backendVars
  <2>2. pending(NoIdentity) \in ActiveSession
    BY DEF pending, ActiveSession, Resources, CleanupStage
  <2>3. TypeOK'
    BY Zenon, <1>0, <1>1, <2>1, <2>2 DEF Forget, TypeOK, PCs, LifecycleState, backendVars
  <2>4. Accounted' /\ IdentityBound' /\ Nested'
    BY <1>0, <1>1, <2>1 DEF Forget, IInv, Accounted, IdentityBound, Nested,
       WorkspaceOutlivesUsers, StartPCs, CleanupStage
  <2>5. Phases' /\ Started' /\ Tried'
    BY <1>1, <2>1 DEF Forget, Phases, Started, Tried, StartPCs, CleanupStage
  <2> QED BY <2>3, <2>4, <2>5 DEF IInv
<1>2. ASSUME state' = "Stopping", active', active' \in BOOLEAN, UNCHANGED <<session, retired>>,
             pc' \in {"idle", "aborted"}, shutdown_reason' \in ShutdownReason
      PROVE  IInv'
  <2>1. TypeOK'
    BY <1>0, <1>2 DEF TypeOK, PCs, LifecycleState, backendVars
  <2>2. Accounted' /\ IdentityBound' /\ Nested'
    BY <1>0, <1>2 DEF IInv, Accounted, IdentityBound, Nested, WorkspaceOutlivesUsers, Resource,
       backendVars
  <2>3. Phases' /\ Started' /\ Tried'
    BY <1>2 DEF Phases, Started, Tried, StartPCs, CleanupStage
  <2> QED BY <2>1, <2>2, <2>3 DEF IInv
<1>3. CASE finish_failed_start
  <2>1. CASE failures = {} /\ Forget("Ready") /\ UNCHANGED shutdown_reason
    <3>1. cleanup_complete
      BY <1>0, <2>1 DEF IInv, Tried, TypeOK, ActiveSession, cleanup_complete, CleanupStage
    <3> QED BY <1>1, <1>3, <2>1, <3>1 DEF finish_failed_start
  <2>2. CASE failures # {} /\ state' = "Stopping" /\ active' = TRUE /\ RollbackReason
             /\ UNCHANGED <<session, retired>>
    BY <1>0, <1>2, <1>3, <2>2 DEF finish_failed_start, RollbackReason, ShutdownReason, TypeOK
  <2> QED BY Zenon, <1>3, <2>1, <2>2 DEF finish_failed_start
<1>4. CASE finish_stop
  <2>1. state = "Stopping" /\ active
    BY <1>0, <1>4 DEF finish_stop, IInv, Phases
  <2>2. CASE cleanup_complete /\ Forget("Closed")
             /\ pc' = IF pass = "drop" THEN "dropped" ELSE "idle"
    BY <1>1, <1>4, <2>2 DEF finish_stop
  <2>3. CASE UNCHANGED <<state, active, session, retired>>
             /\ pc' = IF pass = "drop" THEN "aborted" ELSE "idle"
    BY <1>0, <1>2, <1>4, <2>1, <2>3 DEF finish_stop, TypeOK
  <2> QED BY <1>4, <2>2, <2>3 DEF finish_stop
<1> QED BY <1>3, <1>4

\* Polls, Drop and the exit of the Broker worker preserve the invariant.
LEMMA OwnerKeeps ==
  ASSUME IInv, poll_running \/ poll_stopping \/ drop \/ broker_exit
  PROVE  IInv'
<1>0. TypeOK /\ Accounted /\ Nested
  BY DEF IInv
<1>1. ASSUME NEW p \in {"stop", "drop"}, pc = "idle", stop_session(p),
             shutdown_reason' \in ShutdownReason
      PROVE  IInv'
  <2>1. TypeOK'
    BY <1>0, <1>1 DEF stop_session, TypeOK, PCs, CleanupStage, LifecycleState, backendVars,
       identityVars
  <2>2. Accounted' /\ IdentityBound' /\ Nested'
    BY <1>0, <1>1 DEF stop_session, IInv, Accounted, IdentityBound, Nested,
       WorkspaceOutlivesUsers, Resource, backendVars, identityVars
  <2>3. Phases' /\ Started' /\ Tried'
    BY <1>1 DEF stop_session, IInv, Phases, Started, Tried, StartPCs, CleanupStage
  <2> QED BY <2>1, <2>2, <2>3 DEF IInv
<1>2. CASE poll_running \/ poll_stopping
  <2>1. pc = "idle" /\ stop_session("stop") /\ shutdown_reason' \in ShutdownReason
    BY <1>0, <1>2 DEF poll_running, poll_stopping, RollbackReason, ShutdownReason, TypeOK
  <2> QED BY <1>1, <2>1
<1>3. CASE drop
  <2>1. CASE stop_session("drop")
    BY <1>0, <1>1, <1>3, <2>1 DEF drop, TypeOK
  <2>2. CASE /\ state \in {"Ready", "Closed"}
             /\ pc' = "dropped"
             /\ UNCHANGED <<pass, failures, state, active, session, backendVars, identityVars>>
    <3>1. TypeOK'
      BY <1>0, <1>3, <2>2 DEF drop, TypeOK, PCs, backendVars, identityVars
    <3>2. Accounted' /\ IdentityBound' /\ Nested'
      BY <1>0, <2>2 DEF IInv, Accounted, IdentityBound, Nested, WorkspaceOutlivesUsers, Resource,
         backendVars, identityVars, StartPCs, CleanupStage
    <3>3. Phases' /\ Started' /\ Tried'
      BY <1>3, <2>2 DEF drop, IInv, Phases, Started, Tried, StartPCs, CleanupStage, backendVars
    <3> QED BY <3>1, <3>2, <3>3 DEF IInv
  <2> QED BY <1>3, <2>1, <2>2 DEF drop
<1>4. CASE broker_exit
  <2>1. broker_running' = FALSE
        /\ UNCHANGED <<pc, pass, failures, state, active, shutdown_reason, session, live,
                      ledger, retired>>
    BY <1>4 DEF broker_exit, callVars, ownerVars, identityVars
  <2>2. TypeOK'
    BY Zenon, <1>0, <2>1 DEF TypeOK
  <2>3. Accounted' /\ IdentityBound' /\ Nested'
    BY <1>0, <2>1 DEF IInv, Accounted, IdentityBound, Nested, WorkspaceOutlivesUsers, Resource
  <2>4. Phases' /\ Started' /\ Tried'
    BY <2>1 DEF IInv, Phases, Started, Tried, Resource
  <2> QED BY <2>2, <2>3, <2>4 DEF IInv
<1> QED BY <1>2, <1>3, <1>4

\* Every step preserves the invariant.
LEMMA StepKeeps ==
  ASSUME IInv, [Next]_vars
  PROVE  IInv'
<1>1. CASE UNCHANGED vars
  BY <1>1 DEF vars, callVars, ownerVars, backendVars, identityVars, IInv, TypeOK, Accounted,
     IdentityBound, Phases, Started, Tried, Nested, WorkspaceOutlivesUsers, Resource
<1>2. CASE StartStep
  BY <1>2, CloneKeeps, BrokerKeeps, VmKeeps, CapabilityKeeps, ReleaseKeeps DEF StartStep
<1>3. CASE CleanupStep
  BY <1>3, CleanupKeeps, SettleKeeps DEF CleanupStep
<1> QED BY <1>1, <1>2, <1>3, BeginStart, OwnerKeeps DEF Next, CallStep

\* The inductive invariant holds of every behaviour.
LEMMA InductiveInvariant == Spec => []IInv
<1>1. Init => IInv
  BY InitIInv
<1>2. IInv /\ [Next]_vars => IInv'
  BY StepKeeps
<1> QED BY <1>1, <1>2, PTL DEF Spec

\* The variables keep their types.
THEOREM TypeCorrect == Spec => []TypeOK
<1>1. IInv => TypeOK
  BY DEF IInv
<1> QED BY <1>1, InductiveInvariant, PTL

\* No session leaves a resource behind: whichever stage of a start failed,
\* whichever cleanup calls failed and were retried, Ready, Closed and a clean
\* Drop mean that the backends hold nothing.
THEOREM NoLeak == Spec => []NothingLeaked
<1>1. IInv => NothingLeaked
  BY DEF IInv, Phases, NothingLeaked
<1> QED BY <1>1, InductiveInvariant, PTL

\* The backends hold resources of at most one session, under an identity that
\* the ledger reserved for it and no ended session used.
THEOREM SessionsDisjoint == Spec => []OneSession
<1>1. ASSUME IInv PROVE OneSession
  <2>1. ASSUME NEW x \in live PROVE x[2] = session.identity /\ x[2] \in ledger \ retired
    <3>1. x[2] = session.identity /\ live # {}
      BY <1>1, <2>1 DEF IInv, Accounted
    <3>2. pc \in StartPCs \cup CleanupStage \cup {"settle"} \/ active
      BY <1>1, <3>1 DEF IInv, TypeOK, Phases, PCs, StartPCs
    <3> QED BY <1>1, <3>1, <3>2 DEF IInv, IdentityBound
  <2> QED BY <2>1 DEF OneSession
<1> QED BY <1>1, InductiveInvariant, PTL

\* The workspace is isolated only when no VM, workload or Broker session uses it.
THEOREM WorkspaceLast == Spec => []WorkspaceOutlivesUsers
<1>1. IInv => WorkspaceOutlivesUsers
  BY DEF IInv, Nested
<1> QED BY <1>1, InductiveInvariant, PTL

\* A running workload has its VM, its root capability and its Broker session.
THEOREM WorkloadStaysBound == Spec => []WorkloadBound
<1>1. IInv => WorkloadBound
  BY DEF IInv, Nested, Started, WorkloadBound
<1> QED BY <1>1, InductiveInvariant, PTL

\* cleanup_active takes the VM and the Broker away only after the capability is
\* revoked, or after it tried to revoke it in the same pass.
THEOREM RevokesFirst == Spec => AuthorityWithdrawnFirst
<1>1. ASSUME IInv, [Next]_vars
      PROVE  [\A r \in {"vm", "broker"} :
                Resource(r) \in live /\ Resource(r) \notin live' =>
                  Resource("capability") \notin live \/ "CapabilityRevoke" \in failures]_vars
  <2> SUFFICES ASSUME NEW r \in {"vm", "broker"}, Resource(r) \in live, Resource(r) \notin live'
               PROVE  Resource("capability") \notin live \/ "CapabilityRevoke" \in failures
    OBVIOUS
  <2>1. \E stage \in CleanupStage :
          pc = stage /\ Resource(r) \in {Resource(q) : q \in Releases(stage)}
    BY <1>1 DEF Next, vars, CallStep, StartStep, CleanupStep, start_refused, start,
       start_ledger_failed, clone_workspace, establish_broker_session, start_vm,
       inject_root_capability, ensure_broker_session_running, release_workload, Acquire,
       cleanup_skipped, cleanup_done, cleanup_failed, AtStage, Hold, Released,
       finish_failed_start, finish_stop, poll_running, poll_stopping, drop, stop_session,
       broker_exit, backendVars, callVars
  <2>2. pc \in {"VmKill", "BrokerClose"}
    BY <2>1 DEF Releases, Resource, CleanupStage
  <2>3. "CapabilityRevoke" \in session.cleanup \cup failures
    BY <1>1, <2>2 DEF IInv, Tried
  <2> QED BY <1>1, <2>3 DEF IInv, Accounted, Resource, StageOf
<1> QED BY <1>1, InductiveInvariant, PTL DEF Spec, AuthorityWithdrawnFirst

\* A session in Stopping that the owner can poll, or that a poll is cleaning up,
\* has a reason.
ReasonKnown ==
  /\ state = "Stopping"
  /\ pc = "idle" \/ (pc \in CleanupStage \cup {"settle"} /\ pass = "stop")
  => shutdown_reason # "None"

\* Every step keeps the reason known.
LEMMA ReasonStaysKnown ==
  ASSUME IInv, ReasonKnown, [Next]_vars
  PROVE  ReasonKnown'
<1> USE DEF ReasonKnown
<1>1. CASE UNCHANGED vars
  BY <1>1 DEF vars, callVars, ownerVars
<1>2. CASE start_refused \/ \E id \in Identities : start(id) \/ start_ledger_failed(id)
  BY <1>2 DEF start_refused, start, start_ledger_failed, ForgetReason, RollbackReason, MayStart,
     callVars, CleanupStage
<1>3. CASE StartStep
  <2>1. pc \in StartPCs
    BY <1>3 DEF StartStep, clone_workspace, establish_broker_session, start_vm,
       inject_root_capability, ensure_broker_session_running, release_workload, StartPCs
  <2>2. state # "Stopping"
    BY <2>1, AtStartPC
  <2>3. state' # "Stopping"
    BY <1>3, <2>2 DEF StartStep, clone_workspace, establish_broker_session, start_vm,
       inject_root_capability, ensure_broker_session_running, release_workload, Advance,
       Rollback, ownerVars
  <2> QED BY <2>3
<1>4. CASE \E stage \in CleanupStage :
             cleanup_skipped(stage) \/ cleanup_done(stage) \/ cleanup_failed(stage)
  BY <1>4 DEF cleanup_skipped, cleanup_done, cleanup_failed, AtStage, NextStage, CleanupStage,
     ownerVars
<1>5. CASE finish_failed_start
  BY <1>5 DEF finish_failed_start, Forget, RollbackReason
<1>6. CASE finish_stop
  BY <1>6 DEF finish_stop, Forget, CleanupStage
<1>7. CASE poll_running \/ poll_stopping
  BY <1>7 DEF poll_running, poll_stopping, RollbackReason, stop_session
<1>8. CASE drop
  BY <1>8 DEF drop, stop_session, CleanupStage
<1>9. CASE broker_exit
  BY <1>9 DEF broker_exit, callVars, ownerVars
<1> QED
  BY <1>1, <1>2, <1>3, <1>4, <1>5, <1>6, <1>7, <1>8, <1>9 DEF Next, CallStep, CleanupStep

\* The reason of a shutdown survives every retry and every refused start.
THEOREM ReasonRetained == Spec => ReasonStable
<1>1. Init => ReasonKnown
  BY DEF Init, ReasonKnown
<1>2. IInv /\ ReasonKnown /\ [Next]_vars => ReasonKnown'
  BY ReasonStaysKnown
<1>3. ASSUME IInv, ReasonKnown, [Next]_vars
      PROVE  [state = "Stopping" /\ pc = "idle" => shutdown_reason' = shutdown_reason]_vars
  <2> SUFFICES ASSUME state = "Stopping", pc = "idle"
               PROVE  shutdown_reason' = shutdown_reason
    OBVIOUS
  <2>1. shutdown_reason # "None"
    BY <1>3 DEF ReasonKnown
  <2>2. ~StartStep
    BY DEF StartStep, clone_workspace, establish_broker_session, start_vm,
       inject_root_capability, ensure_broker_session_running, release_workload
  <2>3. ~CleanupStep
    BY DEF CleanupStep, cleanup_skipped, cleanup_done, cleanup_failed, AtStage, CleanupStage,
       finish_failed_start, finish_stop
  <2>4. ~poll_running /\ ~(\E id \in Identities : start(id) \/ start_ledger_failed(id))
    BY DEF poll_running, start, start_ledger_failed, MayStart
  <2>5. CASE start_refused \/ poll_stopping \/ drop \/ broker_exit \/ UNCHANGED vars
    BY <2>1, <2>5 DEF start_refused, RollbackReason, poll_stopping, drop, broker_exit, vars,
       ownerVars
  <2> QED BY <1>3, <2>2, <2>3, <2>4, <2>5 DEF Next, CallStep
<1> QED BY <1>1, <1>2, <1>3, InductiveInvariant, PTL DEF Spec, ReasonStable

==============================================================================
