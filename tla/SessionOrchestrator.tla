-------------------------- MODULE SessionOrchestrator --------------------------
(****************************************************************************)
(* The lifecycle of one session on the host                                 *)
(* (crates/session-orchestrator/src/lib.rs, session_owner.rs).              *)
(*                                                                          *)
(* SessionOwner holds the orchestrator and the five backends and drives     *)
(* them synchronously; a call is a sequence of backend calls, one action    *)
(* each, between which the Broker worker may exit on its own.  The backends *)
(* are external: `live` is what they really hold, as pairs of a resource    *)
(* and the identity it was created for.  A backend that answers Ok has made *)
(* the resource, whether or not its lease is bound to the right identity; a *)
(* failed start_vm or release_workload may have made it; a failed cleanup   *)
(* call may or may not have released it.                                    *)
(****************************************************************************)
EXTENDS FiniteSets

CONSTANTS
  Identities,                    \* the batches of identities entropy can draw
  NoIdentity

ASSUME OrchestratorAssumption == NoIdentity \notin Identities

Resources == {"workspace", "broker", "vm", "capability", "workload"}

CleanupStage == {"CapabilityRevoke", "VmKill", "BrokerClose", "WorkspaceIsolation"}

LifecycleState == {"Ready", "WorkspaceCloned", "BrokerEstablished", "VmStarted",
                   "RootCapabilityInjected", "WorkloadReleased", "Running",
                   "Stopping", "Closed"}

ShutdownReason == {"None", "ExternalRequest", "BrokerExited", "BrokerStatusUnavailable",
                   "StartupRollback"}

PCs == {"idle", "clone", "broker", "vm", "capability", "check", "release", "settle",
        "dropped", "aborted"} \cup CleanupStage

VARIABLES
  pc,                            \* the backend call the owner's call is at
  pass,                          \* the caller of cleanup_active: start, stop or drop
  state,                         \* SessionOrchestrator.state
  active,                        \* SessionOrchestrator.active is Some
  session,                       \* the ActiveSession of the call or of active
  failures,                      \* stages that failed in this cleanup pass
  shutdown_reason,               \* SessionOwner.shutdown_reason
  ledger,                        \* identities the ledger has reserved
  live,                          \* what the backends really hold
  broker_running,                \* whether the Broker worker is alive
  retired                        \* identities of the sessions that ended

callVars == <<pc, pass, failures>>
ownerVars == <<state, active, shutdown_reason>>
backendVars == <<live, broker_running>>
identityVars == <<ledger, retired>>

vars == <<callVars, ownerVars, session, backendVars, identityVars>>

\* ActiveSession: the leases it holds and CleanupProgress, as the set of stages done.
ActiveSession ==
  [identity : Identities \cup {NoIdentity}, leases : SUBSET Resources,
   vm_start_attempted : BOOLEAN, cleanup : SUBSET CleanupStage]

\* Mutant: the session is not bound to its identity.
pending_unbound(id) ==
  [identity |-> NoIdentity, leases |-> {"workspace"}, vm_start_attempted |-> FALSE,
   cleanup |-> CleanupStage \ {"WorkspaceIsolation"}]

\* ActiveSession::pending with only the workspace lease.
pending(id) ==
  [identity |-> id, leases |-> {"workspace"}, vm_start_attempted |-> FALSE,
   cleanup |-> CleanupStage \ {"WorkspaceIsolation"}]

\* Mutant: only the last stage is looked at.
isolation_complete == "WorkspaceIsolation" \in session.cleanup

cleanup_complete == session.cleanup = CleanupStage

Resource(r) == <<r, session.identity>>

----------------------------------------------------------------------------
Init ==
  /\ pc = "idle" /\ pass = "stop" /\ failures = {}
  /\ state = "Ready" /\ active = FALSE /\ shutdown_reason = "None"
  /\ session = pending(NoIdentity)
  /\ ledger = {} /\ retired = {}
  /\ live = {} /\ broker_running = FALSE

----------------------------------------------------------------------------
(* start_session.                                                           *)

\* Mutant: a session that is being stopped does not hold up the next one.
MayStartUnlessRunning == state # "Running"

MayStart == ~active /\ state \in {"Ready", "Closed"}

\* SessionOwner::start forgets the reason of an earlier shutdown only when no
\* session is left to clean up.
ForgetReason ==
  shutdown_reason' = IF state \in {"Ready", "Closed"} THEN "None" ELSE shutdown_reason

\* A session that is left in Stopping without a reason was rolled back.
RollbackReason ==
  shutdown_reason' = IF shutdown_reason = "None" THEN "StartupRollback" ELSE shutdown_reason

\* Mutant: the reason is forgotten although cleanup is unfinished.
start_refused_forgetting ==
  /\ pc = "idle"
  /\ shutdown_reason' = "None"
  /\ UNCHANGED <<callVars, state, active, session, backendVars, identityVars>>

\* A start that is refused before it has any effect: a session is retained, the
\* snapshot carries an identity, or entropy fails.
start_refused ==
  /\ pc = "idle"
  /\ IF state = "Stopping" THEN RollbackReason ELSE ForgetReason
  /\ UNCHANGED <<callVars, state, active, session, backendVars, identityVars>>

\* allocate_session_identity: the ledger reserves the batch before any resource
\* exists.
start(id) ==
  /\ pc = "idle" /\ MayStart
  /\ id \notin ledger
  /\ ForgetReason
  /\ ledger' = ledger \cup {id}
  /\ session' = pending(id)
  /\ pc' = "clone"
  /\ UNCHANGED <<pass, failures, state, active, backendVars, retired>>

\* LedgerError other than Duplicate: the batch may have reached the disk.
start_ledger_failed(id) ==
  /\ pc = "idle" /\ MayStart
  /\ id \notin ledger
  /\ ForgetReason
  /\ ledger' = ledger \cup {id}
  /\ UNCHANGED <<callVars, state, active, session, backendVars, retired>>

\* The resource exists and its lease is recorded for cleanup by `stages`.
Acquire(r, stage) ==
  /\ live' = live \cup {Resource(r)}
  /\ session' = [session EXCEPT !.leases = @ \cup {r}, !.cleanup = @ \ {stage}]

\* The stage went through; the next one begins.
Advance(s, next) ==
  /\ state' = s /\ pc' = next
  /\ UNCHANGED <<pass, failures, active, shutdown_reason, identityVars>>

\* The stage failed: cleanup_active over what has been acquired.
Rollback ==
  /\ pc' = "CapabilityRevoke" /\ pass' = "start" /\ failures' = {}
  /\ UNCHANGED <<ownerVars, identityVars>>

\* An error is returned with nothing to roll back.
clone_workspace ==
  /\ pc = "clone"
  /\ UNCHANGED broker_running
  /\ \/ /\ live' = live \cup {Resource("workspace")}
        /\ UNCHANGED session
        /\ Advance("WorkspaceCloned", "broker") \/ Rollback
     \/ /\ pc' = "idle"
        /\ retired' = retired \cup {session.identity}
        /\ session' = pending(NoIdentity)
        /\ UNCHANGED <<pass, failures, ownerVars, live, ledger>>

establish_broker_session ==
  /\ pc = "broker"
  /\ \/ /\ Acquire("broker", "BrokerClose")
        /\ broker_running' = TRUE
        /\ Advance("BrokerEstablished", "vm") \/ Rollback
     \/ Rollback /\ UNCHANGED <<session, backendVars>>

\* The attempt is recorded before the call, so that a start that fails half-way
\* is cleaned up without a lease.
start_vm ==
  /\ pc = "vm"
  /\ UNCHANGED broker_running
  /\ \/ /\ live' = live \cup {Resource("vm")}
        /\ session' = [session EXCEPT !.leases = @ \cup {"vm"}, !.vm_start_attempted = TRUE,
                                      !.cleanup = @ \ {"VmKill"}]
        /\ Advance("VmStarted", "capability") \/ Rollback
     \/ /\ live' \in {live, live \cup {Resource("vm")}}
        /\ session' = [session EXCEPT !.vm_start_attempted = TRUE, !.cleanup = @ \ {"VmKill"}]
        /\ Rollback

inject_root_capability ==
  /\ pc = "capability"
  /\ UNCHANGED broker_running
  /\ \/ /\ Acquire("capability", "CapabilityRevoke")
        /\ Advance("RootCapabilityInjected", "check") \/ Rollback
     \/ Rollback /\ UNCHANGED <<session, live>>

ensure_broker_session_running ==
  /\ pc = "check"
  /\ UNCHANGED <<session, backendVars>>
  /\ (broker_running /\ Advance(state, "release")) \/ Rollback

\* WorkloadReleased, and Running with the session retained.
release_workload ==
  /\ pc = "release"
  /\ UNCHANGED <<session, broker_running>>
  /\ \/ /\ live' = live \cup {Resource("workload")}
        /\ state' = "Running" /\ active' = TRUE /\ pc' = "idle"
        /\ UNCHANGED <<pass, failures, shutdown_reason, identityVars>>
     \/ /\ live' \in {live, live \cup {Resource("workload")}}
        /\ Rollback

----------------------------------------------------------------------------
(* cleanup_active.                                                          *)

NextStage(stage) ==
  CASE stage = "CapabilityRevoke" -> "VmKill"
    [] stage = "VmKill" -> "BrokerClose"
    [] stage = "BrokerClose" -> "WorkspaceIsolation"
    [] stage = "WorkspaceIsolation" -> "settle"

Releases(stage) ==
  CASE stage = "CapabilityRevoke" -> {"capability"}
    [] stage = "VmKill" -> {"vm", "workload"}
    [] stage = "BrokerClose" -> {"broker"}
    [] stage = "WorkspaceIsolation" -> {"workspace"}

\* Mutant: the workspace does not wait for its users.
CallableAtOnce(stage) ==
  /\ stage \notin session.cleanup
  /\ stage = "CapabilityRevoke" => "capability" \in session.leases
  /\ stage = "VmKill" => "vm" \in session.leases \/ session.vm_start_attempted
  /\ stage = "BrokerClose" => "broker" \in session.leases

\* The stage's backend call is made: kill_vm and cleanup_failed_start both count
\* as VmKill; the workspace waits for the VM and the Broker.
Callable(stage) ==
  /\ stage \notin session.cleanup
  /\ stage = "CapabilityRevoke" => "capability" \in session.leases
  /\ stage = "VmKill" => "vm" \in session.leases \/ session.vm_start_attempted
  /\ stage = "BrokerClose" => "broker" \in session.leases
  /\ stage = "WorkspaceIsolation" => {"VmKill", "BrokerClose"} \subseteq session.cleanup

Skipped(stage) ==
  \/ stage \in session.cleanup
  \/ stage = "WorkspaceIsolation" /\ ~Callable(stage)

Released(stage) == live \ {Resource(r) : r \in Releases(stage)}

\* The backends are left with l; the Broker worker is gone when its session is.
Hold(l) ==
  /\ live' = l
  /\ broker_running' = (broker_running /\ Resource("broker") \in l)

AtStage(stage) ==
  /\ pc = stage
  /\ pc' = NextStage(stage)
  /\ UNCHANGED <<pass, ownerVars, identityVars>>

cleanup_skipped(stage) ==
  /\ AtStage(stage) /\ Skipped(stage)
  /\ UNCHANGED <<session, failures, backendVars>>

\* Mutant: the completed stage is not recorded.
cleanup_unrecorded(stage) ==
  /\ AtStage(stage) /\ Callable(stage)
  /\ Hold(Released(stage))
  /\ UNCHANGED <<session, failures>>

cleanup_done(stage) ==
  /\ AtStage(stage) /\ Callable(stage)
  /\ Hold(Released(stage))
  /\ session' = [session EXCEPT !.cleanup = @ \cup {stage}]
  /\ UNCHANGED failures

\* Also the arms for a stage that is pending without a lease.
cleanup_failed(stage) ==
  /\ AtStage(stage) /\ ~Skipped(stage)
  /\ Hold(live) \/ Hold(Released(stage))
  /\ failures' = failures \cup {stage}
  /\ UNCHANGED session

\* The session is over and the orchestrator forgets it.
Forget(s) ==
  /\ state' = s /\ active' = FALSE
  /\ retired' = retired \cup {session.identity}
  /\ session' = pending(NoIdentity)

\* finish_failed_start, and SessionOwner::start on the error it returns.
finish_failed_start ==
  /\ pc = "settle" /\ pass = "start"
  /\ pc' = "idle"
  /\ \/ failures = {} /\ Forget("Ready") /\ UNCHANGED shutdown_reason
     \/ /\ failures # {}
        /\ state' = "Stopping" /\ active' = TRUE
        /\ RollbackReason
        /\ UNCHANGED <<session, retired>>
  /\ UNCHANGED <<pass, failures, backendVars, ledger>>

\* The end of stop_session; Drop aborts the process when it left anything.
finish_stop ==
  /\ pc = "settle" /\ pass \in {"stop", "drop"}
  /\ \/ /\ cleanup_complete /\ Forget("Closed")
        /\ pc' = IF pass = "drop" THEN "dropped" ELSE "idle"
     \/ /\ ~cleanup_complete
        /\ pc' = IF pass = "drop" THEN "aborted" ELSE "idle"
        /\ UNCHANGED <<state, active, session, retired>>
  /\ UNCHANGED <<pass, failures, shutdown_reason, backendVars, ledger>>

----------------------------------------------------------------------------
(* SessionOwner.                                                            *)

\* Mutant: the state changes only after the cleanup.
stop_session_late(p) ==
  /\ active /\ state \in {"Running", "Stopping"}
  /\ pc' = "CapabilityRevoke" /\ pass' = p /\ failures' = {}
  /\ UNCHANGED <<state, active, session, backendVars, identityVars>>

\* Mutant: the VM is killed before the authority is withdrawn.
stop_session_kill_first(p) ==
  /\ active /\ state \in {"Running", "Stopping"}
  /\ state' = "Stopping"
  /\ pc' = "VmKill" /\ pass' = p /\ failures' = {}
  /\ UNCHANGED <<active, session, backendVars, identityVars>>

stop_session(p) ==
  /\ active /\ state \in {"Running", "Stopping"}
  /\ state' = "Stopping"
  /\ pc' = "CapabilityRevoke" /\ pass' = p /\ failures' = {}
  /\ UNCHANGED <<active, session, backendVars, identityVars>>

\* poll in Running; a poll that finds the Broker running changes nothing.
poll_running ==
  /\ pc = "idle" /\ state = "Running"
  /\ \/ shutdown_reason' \in {"ExternalRequest", "BrokerStatusUnavailable"}
     \/ ~broker_running /\ shutdown_reason' = "BrokerExited"
  /\ stop_session("stop")

\* poll or stop in Stopping retries what is unfinished, for the retained reason.
poll_stopping ==
  /\ pc = "idle" /\ state = "Stopping"
  /\ RollbackReason
  /\ stop_session("stop")

drop ==
  /\ pc = "idle"
  /\ UNCHANGED shutdown_reason
  /\ \/ /\ state \in {"Ready", "Closed"}
        /\ pc' = "dropped"
        /\ UNCHANGED <<pass, failures, state, active, session, backendVars, identityVars>>
     \/ stop_session("drop")

broker_exit ==
  /\ broker_running
  /\ broker_running' = FALSE
  /\ UNCHANGED <<callVars, ownerVars, session, live, identityVars>>

StartStep ==
  \/ clone_workspace \/ establish_broker_session \/ start_vm \/ inject_root_capability
  \/ ensure_broker_session_running \/ release_workload

CleanupStep ==
  \/ \E stage \in CleanupStage :
       cleanup_skipped(stage) \/ cleanup_done(stage) \/ cleanup_failed(stage)
  \/ finish_failed_start \/ finish_stop

CallStep == StartStep \/ CleanupStep

Next ==
  \/ start_refused
  \/ \E id \in Identities : start(id) \/ start_ledger_failed(id)
  \/ CallStep \/ poll_running \/ poll_stopping \/ drop \/ broker_exit

Spec == Init /\ [][Next]_vars

\* A call in progress goes on.  run_session_loop polls while the session runs, so
\* it sees a Broker that exited, and drain_stop retries a cleanup until its
\* deadline, after which the owner is dropped (drop: one more pass, and an abort
\* unless that completes the cleanup).  A drop may come at any time and never has
\* to; as long as it does not, a cleanup stage that is tried again and again
\* succeeds at last.
Fairness ==
  /\ WF_vars(CallStep)
  /\ WF_vars(poll_stopping) /\ WF_vars(~broker_running /\ poll_running)
  /\ \A stage \in CleanupStage : SF_vars(cleanup_done(stage))

FairSpec == Spec /\ Fairness

----------------------------------------------------------------------------
(* Properties.                                                              *)

\* The variables keep their types.
TypeOK ==
  /\ pc \in PCs /\ pass \in {"start", "stop", "drop"} /\ failures \subseteq CleanupStage
  /\ state \in LifecycleState /\ active \in BOOLEAN /\ shutdown_reason \in ShutdownReason
  /\ session \in ActiveSession
  /\ ledger \subseteq Identities /\ retired \subseteq Identities
  /\ live \subseteq Resources \X Identities /\ broker_running \in BOOLEAN

\* Whenever the owner reports Ready or Closed, or was dropped without aborting, no
\* backend holds a resource of any session: rollback and stop lose no lease,
\* whichever stage failed, and however often cleanup had to be retried.
NothingLeaked ==
  (pc = "idle" /\ state \in {"Ready", "Closed"}) \/ pc = "dropped" => live = {}

\* What the backends hold belongs to one session, the one the orchestrator has at
\* hand, under an identity that the ledger reserved and no ended session had.
OneSession ==
  \A x \in live : x[2] = session.identity /\ x[2] \in ledger \ retired

\* The workspace is released last: while a VM, a workload or a Broker session
\* exists, the workspace it was started on has not been isolated.
WorkspaceOutlivesUsers ==
  \A r \in {"vm", "workload", "broker"} :
    Resource(r) \in live => Resource("workspace") \in live

\* A workload runs only inside its VM; while the session is Running, its root
\* capability is in force and its Broker session has not been closed.  Whether the
\* Broker's worker still runs is for the next poll to find out.
WorkloadBound ==
  Resource("workload") \in live =>
    /\ Resource("vm") \in live
    /\ state = "Running" => {Resource("capability"), Resource("broker")} \subseteq live

\* The VM is killed and the Broker session closed only after the authority was
\* withdrawn, or after this pass tried to withdraw it and failed (cleanup_active
\* tries revocation first and goes on after a failure).
AuthorityWithdrawnFirst ==
  [][\A r \in {"vm", "broker"} :
       Resource(r) \in live /\ Resource(r) \notin live' =>
         Resource("capability") \notin live \/ "CapabilityRevoke" \in failures]_vars

\* The reason of a shutdown survives every retry and every refused start, until
\* the session is closed.
ReasonStable ==
  [][state = "Stopping" /\ pc = "idle" => shutdown_reason' = shutdown_reason]_vars

\* A session being stopped, or running with a dead Broker worker, is closed at
\* last, unless the owner aborts the process.
ShutdownCompletes ==
  state = "Stopping" \/ (state = "Running" /\ ~broker_running)
    ~> state = "Closed" \/ pc = "aborted"

==============================================================================
