--------------------------- MODULE CapabilityKernel ---------------------------
(****************************************************************************)
(* The thread-safe authorization and commit boundary                        *)
(* (crates/authority-core/src/kernel.rs, with the in-memory half of         *)
(* audit.rs and the cache observer of crates/capfs/src/read_only.rs).       *)
(*                                                                          *)
(* Threads call the kernel concurrently.  An authorization call holds a     *)
(* shared guard of the state lock from the final check until the executor   *)
(* has returned and the audit outcome is written.  Every state transition   *)
(* takes the exclusive guard for one step.  A transition that withdraws     *)
(* authority then runs the registered revocation observers with no lock     *)
(* held: each takes a snapshot of the nodes its mount has handed out and    *)
(* has the operating system drop what it cached for them, node by node.     *)
(*                                                                          *)
(* The answer to a request is sent after the shared guard is released, and  *)
(* nothing makes an observer wait for it.  What the operating system does   *)
(* with an answer (keep it, forget a node, hold up a notification) is       *)
(* external.                                                                *)
(****************************************************************************)
EXTENDS CapabilityState, Sequences

CONSTANTS
  Threads,
  Mounts,                        \* one RevocationObserver per mounted view
  NoMount,                       \* a request that no mount serves
  Nodes,                         \* the node identities that a mount can hand out
  NoCall,                        \* the arguments of a thread outside the kernel
  MAX_ATTEMPTS                   \* bound on the audit journal of the instance

ASSUME KernelAssumption == NoMount \notin Mounts

VARIABLES
  pc,                            \* thread -> where its call is
  request,                       \* thread -> arguments of its call
  readers,                       \* threads that hold the shared state guard
  attempts,                      \* AttemptJournal: the records in start order
  attempt,                       \* thread -> position of the attempt it started
  landed,                        \* attempts whose external effect happened
  revocation_observers,          \* mounts whose observer is registered
  nodes,                         \* mount -> node -> its status in the mount's NodeTable
  caches,                        \* mount -> answers the operating system has cached
  fatal,                         \* mounts that failed closed
  todo,                          \* thread -> observers its propagation has still to run
  flushing,                      \* thread -> mount whose observer it is running
  stale,                         \* thread -> nodes its observer has still to invalidate
  draining,                      \* thread -> requests that may hold up its notification
  failed,                        \* thread -> whether some observer failed
  withdrawn,                     \* thread -> what its revoking call disabled
  confirmed,                     \* what some revoking call disabled and reported with Ok
  overtaken                      \* thread -> what was withdrawn, with the request's node
                                 \* invalidated, before its answer was sent

flightVars == <<draining, overtaken>>
callVars == <<pc, request, attempt, flightVars>>
auditVars == <<attempts, landed>>
cacheVars == <<revocation_observers, nodes, caches, fatal>>
propagationVars == <<todo, flushing, stale, failed, withdrawn, confirmed>>

kernelVars == <<stateVars, callVars, auditVars, cacheVars, propagationVars, readers>>

Requests == [caller : SubjectIds, capability : CapIds, rights : SUBSET Rights,
             time : Times, mount : Mounts \cup {NoMount}, node : Nodes]

\* The arguments of revoke_held_by; begin_subject_close names no capability.
Targets == [caller : SubjectIds, capability : CapIds \cup {NoId}]

\* A node of a NodeTable: not handed out yet, handed out, or forgotten for good.
NodeStatus == {"fresh", "live", "retired"}

\* What a cached answer rests on, and what had overtaken it when it was sent.  It
\* stands for the attributes and the contents of the node, which inval_inode drops;
\* it stays cached until then (the code's ATTRIBUTE_TTL ends it sooner).
Answers == [node : Nodes, capability : CapIds, overtaken : SUBSET CapIds]

\* EffectExecution: what the executor reports about the external effect.
EffectExecution == {"Committed", "FailedBeforeCommit", "CommitUnknown"}

AttemptOutcome == {"Started", "Denied"} \cup EffectExecution

AttemptRecord == [caller : SubjectIds, capability : CapIds,
                  epoch : 0 .. MAX_EPOCH, outcome : AttemptOutcome]

PCs == {"idle", "submitted", "inspecting", "executing", "replying",
        "revoking", "closing", "propagating", "discarding"} \cup EffectExecution

----------------------------------------------------------------------------
(* The state lock.                                                          *)

\* Mutant: the exclusive guard is kept while the observers run.
ReadLockableAfterPropagation ==
  \A u \in Threads : pc[u] \notin {"revoking", "closing", "propagating", "discarding"}

\* std::sync::RwLock on Linux: a reader is not admitted while a writer waits.
ReadLockable == \A u \in Threads : pc[u] \notin {"revoking", "closing"}

\* Mutant: a transition does not wait for the requests under the shared guard.
WriteLockableAlways == TRUE

\* The exclusive guard needs every shared guard released.
WriteLockable == readers = {}

Goto(t, label) == pc' = [pc EXCEPT ![t] = label]

\* The call returns.  It no longer holds up a notification.
Return(t) ==
  /\ Goto(t, "idle")
  /\ request' = [request EXCEPT ![t] = NoCall]
  /\ attempt' = [attempt EXCEPT ![t] = 0]
  /\ draining' = [u \in Threads |-> draining[u] \ {t}]
  /\ overtaken' = [overtaken EXCEPT ![t] = {}]

InFlight == {"submitted", "inspecting", "executing", "replying"} \cup EffectExecution

----------------------------------------------------------------------------
(* Authorization calls.                                                     *)

KernelInit ==
  /\ Init
  /\ pc = [t \in Threads |-> "idle"]
  /\ request = [t \in Threads |-> NoCall]
  /\ readers = {}
  /\ attempts = << >>
  /\ attempt = [t \in Threads |-> 0]
  /\ landed = {}
  /\ revocation_observers = {}
  /\ nodes = [m \in Mounts |-> [n \in Nodes |-> "fresh"]]
  /\ caches = [m \in Mounts |-> {}]
  /\ fatal = {}
  /\ todo = [t \in Threads |-> {}]
  /\ flushing = [t \in Threads |-> NoMount]
  /\ stale = [t \in Threads |-> {}]
  /\ draining = [t \in Threads |-> {}]
  /\ overtaken = [t \in Threads |-> {}]
  /\ failed = [t \in Threads |-> FALSE]
  /\ withdrawn = [t \in Threads |-> {}]
  /\ confirmed = {}

\* A caller fixes its arguments, the time included, before it waits for the
\* lock.  A mount serves requests once its observer is registered and until it
\* fails closed.  The operating system names no node it has forgotten.  An
\* inspection names no right.
submit(t, r) ==
  /\ pc[t] = "idle"
  /\ r.mount # NoMount =>
       /\ r.mount \in revocation_observers \ fatal
       /\ nodes[r.mount][r.node] # "retired"
  /\ request' = [request EXCEPT ![t] = r]
  /\ Goto(t, "submitted")
  /\ UNCHANGED <<stateVars, attempt, flightVars, auditVars, cacheVars, propagationVars, readers>>

\* NodeTable::remember_lookup of the node that the answer is about.
remember_lookup(t) ==
  nodes' = IF request[t].mount = NoMount THEN nodes
           ELSE [nodes EXCEPT ![request[t].mount][request[t].node] = "live"]

\* with_active_capability: check and inspect under one shared guard, under which
\* the node of the answer is recorded.
with_active_capability(t) ==
  /\ pc[t] = "submitted"
  /\ request[t].rights = {}
  /\ ReadLockable
  /\ \/ /\ active_capability(request[t].caller, request[t].capability, request[t].time)
        /\ readers' = readers \cup {t}
        /\ Goto(t, "inspecting")
        /\ remember_lookup(t)
        /\ UNCHANGED <<request, attempt, flightVars>>
     \/ /\ ~active_capability(request[t].caller, request[t].capability, request[t].time)
        /\ Return(t)
        /\ UNCHANGED <<nodes, readers>>
  /\ UNCHANGED <<stateVars, auditVars, revocation_observers, caches, fatal, propagationVars>>

end_inspection(t) ==
  /\ pc[t] = "inspecting"
  /\ readers' = readers \ {t}
  /\ Goto(t, "replying")
  /\ UNCHANGED <<stateVars, request, attempt, flightVars, auditVars, cacheVars, propagationVars>>

\* The final check of a whole request set.
Authorized(r) == \A right \in r.rights : authorizes(r.caller, r.capability, right, r.time)

\* start_request_set: the attempt records the epoch read under the guard.
start_request_set(t, outcome) ==
  /\ Len(attempts) < MAX_ATTEMPTS
  /\ attempts' = Append(attempts, [caller |-> request[t].caller,
                                   capability |-> request[t].capability,
                                   epoch |-> authorization_epoch,
                                   outcome |-> outcome])

\* authorize_all_and_commit_inner up to the executor.  A failed durable begin
\* leaves no attempt; a failed durable deny leaves the attempt Started.
authorize(t) ==
  /\ pc[t] = "submitted"
  /\ request[t].rights # {}
  /\ ReadLockable
  /\ \/ /\ Authorized(request[t])
        /\ start_request_set(t, "Started")
        /\ attempt' = [attempt EXCEPT ![t] = Len(attempts')]
        /\ readers' = readers \cup {t}
        /\ Goto(t, "executing")
        /\ UNCHANGED <<request, flightVars>>
     \/ /\ ~Authorized(request[t])
        /\ start_request_set(t, "Started") \/ start_request_set(t, "Denied")
        /\ Return(t)
        /\ UNCHANGED readers
     \/ /\ Return(t)
        /\ UNCHANGED <<attempts, readers>>
  /\ UNCHANGED <<stateVars, landed, cacheVars, propagationVars>>

\* commit_to_linearization: the executor classifies the outcome truthfully,
\* which for CommitUnknown excludes nothing.  The executor of a mount records the
\* node of its answer, and takes the record back when it has none to give.
commit_to_linearization(t) ==
  /\ pc[t] = "executing"
  /\ \/ landed' = landed \cup {attempt[t]} /\ Goto(t, "Committed") /\ remember_lookup(t)
     \/ landed' = landed \cup {attempt[t]} /\ Goto(t, "CommitUnknown") /\ UNCHANGED nodes
     \/ /\ Goto(t, "FailedBeforeCommit") \/ Goto(t, "CommitUnknown")
        /\ UNCHANGED <<landed, nodes>>
  /\ UNCHANGED <<stateVars, request, attempt, flightVars, attempts, revocation_observers, caches,
                 fatal, propagationVars, readers>>

\* The answer is on its way, or an error is, which leaves nothing to be cached.
Answer(t) == Goto(t, "replying") /\ UNCHANGED <<request, attempt, flightVars>>

\* Mutant: the latest attempt is finished instead of the thread's own.
finish_latest(t) ==
  /\ pc[t] \in EffectExecution
  /\ attempts' = [attempts EXCEPT ![Len(attempts)].outcome = pc[t]]
  /\ IF pc[t] = "Committed" THEN Answer(t) ELSE Return(t)
  /\ readers' = readers \ {t}
  /\ UNCHANGED <<stateVars, landed, cacheVars, propagationVars>>

\* The terminal audit record, then the guard is dropped.  The record stays
\* Started when the durable write fails or the unknown evidence is invalid.  Only
\* a recorded commit is answered with more than an error.
finish_attempt(t) ==
  /\ pc[t] \in EffectExecution
  /\ \/ /\ attempts' = [attempts EXCEPT ![attempt[t]].outcome = pc[t]]
        /\ IF pc[t] = "Committed" THEN Answer(t) ELSE Return(t)
     \/ UNCHANGED attempts /\ Return(t)
  /\ readers' = readers \ {t}
  /\ UNCHANGED <<stateVars, landed, cacheVars, propagationVars>>

\* Mutant: answering marks a finished attempt unknown.
reply_unfinishing(t) ==
  /\ pc[t] = "replying"
  /\ attempts' = [i \in DOMAIN attempts |->
                    IF i = attempt[t] THEN [attempts[i] EXCEPT !.outcome = "CommitUnknown"]
                    ELSE attempts[i]]
  /\ Return(t)
  /\ UNCHANGED <<stateVars, landed, cacheVars, propagationVars, readers>>

\* The adapter answers after the guard is released.  The operating system may
\* cache the answer.
reply(t) ==
  /\ pc[t] = "replying"
  /\ \/ /\ request[t].mount # NoMount
        /\ caches' = [caches EXCEPT ![request[t].mount] =
                        @ \cup {[node |-> request[t].node, capability |-> request[t].capability,
                                 overtaken |-> overtaken[t]]}]
     \/ UNCHANGED caches
  /\ Return(t)
  /\ UNCHANGED <<stateVars, auditVars, revocation_observers, nodes, fatal, propagationVars, readers>>

\* The operating system drops a node that no request of it is about, and says so
\* with FORGET.  The identity is not handed out again.
forget(m, n) ==
  /\ nodes[m][n] = "live"
  /\ \A u \in Threads : pc[u] \in InFlight /\ request[u].mount = m => request[u].node # n
  /\ nodes' = [nodes EXCEPT ![m][n] = "retired"]
  /\ caches' = [caches EXCEPT ![m] = {a \in @ : a.node # n}]
  /\ UNCHANGED <<stateVars, callVars, auditVars, revocation_observers, fatal, propagationVars,
                 readers>>

----------------------------------------------------------------------------
(* State transitions and their propagation.                                 *)

\* with_state_mut for the operations that withdraw nothing.
Transition ==
  \/ \E s \in SubjectIds, p \in SubjectIds \cup {NoId}, e \in Bodies : register_subject(s, p, e)
  \/ \E h \in HandleIds, s \in SubjectIds : register_open_handle(h, s)
  \/ \E h \in HandleIds, s \in SubjectIds : close_handle(s, h)
  \/ \E g \in CapabilityGrant : issue_root(g)
  \/ \E id \in CapIds, g \in CapabilityGrant : issue_root_with_id(id, g)
  \/ \E s \in SubjectIds, p \in CapIds, g \in CapabilityGrant, now \in Times : derive(s, p, g, now)
  \/ \E s \in SubjectIds : finish_subject_close(s)

with_state_mut(t) ==
  /\ pc[t] = "idle"
  /\ WriteLockable
  /\ Transition
  /\ UNCHANGED <<callVars, auditVars, cacheVars, propagationVars, readers>>

register_revocation_observer(m) ==
  /\ m \notin revocation_observers
  /\ revocation_observers' = revocation_observers \cup {m}
  /\ UNCHANGED <<stateVars, callVars, auditVars, nodes, caches, fatal, propagationVars, readers>>

\* A revoking call starts to wait for the exclusive guard.
request_write(t, r) ==
  /\ pc[t] = "idle"
  /\ request' = [request EXCEPT ![t] = r]
  /\ Goto(t, IF r.capability = NoId THEN "closing" ELSE "revoking")
  /\ UNCHANGED <<stateVars, attempt, flightVars, auditVars, cacheVars, propagationVars, readers>>

\* The transition committed and the guard is released: c was withdrawn.
Committed(t, c) ==
  /\ withdrawn' = [withdrawn EXCEPT ![t] = c]
  /\ Goto(t, "propagating")
  /\ UNCHANGED <<request, attempt, flightVars>>

\* AlreadyRevoked, AlreadyClosing, AlreadyClosed or an error: nothing changed
\* and no observer runs.
Refused(t) ==
  /\ Return(t)
  /\ UNCHANGED <<stateVars, withdrawn>>

revoke_held_by_call(t) ==
  LET s == request[t].caller
      c == request[t].capability
  IN  /\ pc[t] = "revoking"
      /\ WriteLockable
      /\ \/ revoke_held_by(s, c) /\ Committed(t, {c})
         \/ /\ ~(is_held_by(s, c) /\ c \notin revoked /\ authorization_epoch < MAX_EPOCH)
            /\ Refused(t)
      /\ UNCHANGED <<auditVars, cacheVars, todo, flushing, stale, failed, confirmed, readers>>

begin_subject_close_call(t) ==
  LET s == request[t].caller
  IN  /\ pc[t] = "closing"
      /\ WriteLockable
      /\ \/ begin_subject_close(s) /\ Committed(t, held[s])
         \/ /\ ~(SubjectRunning(s) /\ authorization_epoch < MAX_EPOCH)
            /\ Refused(t)
      /\ UNCHANGED <<auditVars, cacheVars, todo, flushing, stale, failed, confirmed, readers>>

\* propagate_revocation clones the observer list.
clone_observers(t) ==
  /\ pc[t] = "propagating"
  /\ todo' = [todo EXCEPT ![t] = revocation_observers]
  /\ Goto(t, "discarding")
  /\ UNCHANGED <<stateVars, request, attempt, flightVars, auditVars, cacheVars, flushing, stale,
                 failed, withdrawn, confirmed, readers>>

\* The observer of m returns.
ObserverReturns(t, m) ==
  /\ todo' = [todo EXCEPT ![t] = @ \ {m}]
  /\ flushing' = [flushing EXCEPT ![t] = NoMount]
  /\ stale' = [stale EXCEPT ![t] = {}]

\* MountCacheInvalidator::fail: the mount is marked fatal and the error reported;
\* propagate_revocation goes on with the next observer.
fail(t, m) ==
  /\ fatal' = fatal \cup {m}
  /\ failed' = [failed EXCEPT ![t] = TRUE]
  /\ ObserverReturns(t, m)
  /\ UNCHANGED <<nodes, caches, flightVars>>

\* A notification is issued.  The operating system can hold it up for a request
\* that is in flight on the mount at that time.
Notify(t, m) ==
  draining' = [draining EXCEPT ![t] =
                 {u \in Threads \ {t} : pc[u] \in InFlight /\ request[u].mount = m}]

\* Mutant: only the nodes that have been answered for are invalidated.
live_nodes_answered(m) == {a.node : a \in caches[m]}

\* NodeTable::live_nodes.
live_nodes(m) == {n \in Nodes : nodes[m][n] = "live"}

\* discard_cached_decisions up to its loop: the notifier may be missing and the
\* node table unreadable; otherwise the live nodes are collected.
discard_cached_decisions(t, m) ==
  /\ pc[t] = "discarding"
  /\ flushing[t] = NoMount
  /\ m \in todo[t]
  /\ \/ fail(t, m)
     \/ /\ flushing' = [flushing EXCEPT ![t] = m]
        /\ stale' = [stale EXCEPT ![t] = live_nodes(m)]
        /\ Notify(t, m)
        /\ UNCHANGED <<nodes, caches, overtaken, fatal, todo, failed>>
  /\ UNCHANGED <<stateVars, pc, request, attempt, auditVars, revocation_observers, withdrawn,
                 confirmed, readers>>

\* The requests whose answer about node n of m is on its way.
Unanswered(m, n) ==
  {u \in Threads : pc[u] = "replying" /\ request[u].mount = m /\ request[u].node = n}

\* One turn of the loop: the operating system has dropped what it had cached for
\* the node (nothing, when it answers NotFound), or refuses and the loop ends.
\* An answer that is still to be sent is not affected.
inval_inode(t) ==
  LET m == flushing[t]
  IN  /\ m # NoMount
      /\ \E n \in stale[t] :
           \/ fail(t, m)
           \/ /\ caches' = [caches EXCEPT ![m] = {a \in @ : a.node # n}]
              /\ stale' = [stale EXCEPT ![t] = @ \ {n}]
              /\ Notify(t, m)
              /\ overtaken' = [u \in Threads |-> IF u \in Unanswered(m, n)
                                                  THEN overtaken[u] \cup withdrawn[t]
                                                  ELSE overtaken[u]]
              /\ UNCHANGED <<nodes, fatal, todo, flushing, failed>>
      /\ UNCHANGED <<stateVars, pc, request, attempt, auditVars, revocation_observers, withdrawn,
                     confirmed, readers>>

\* Mutant: the loop ends although nodes are left.
end_discard_early(t) ==
  /\ flushing[t] # NoMount
  /\ ObserverReturns(t, flushing[t])
  /\ UNCHANGED <<stateVars, callVars, auditVars, cacheVars, failed, withdrawn, confirmed, readers>>

\* The loop is through.
end_discard(t) ==
  /\ flushing[t] # NoMount
  /\ stale[t] = {}
  /\ ObserverReturns(t, flushing[t])
  /\ UNCHANGED <<stateVars, callVars, auditVars, cacheVars, failed, withdrawn, confirmed, readers>>

\* The revoking call returns Ok, or RevocationNotPropagated after a failure.
end_propagation(t) ==
  /\ pc[t] = "discarding"
  /\ flushing[t] = NoMount
  /\ todo[t] = {}
  /\ confirmed' = IF failed[t] THEN confirmed ELSE confirmed \cup withdrawn[t]
  /\ failed' = [failed EXCEPT ![t] = FALSE]
  /\ withdrawn' = [withdrawn EXCEPT ![t] = {}]
  /\ Return(t)
  /\ UNCHANGED <<stateVars, auditVars, cacheVars, todo, flushing, stale, readers>>

\* The steps that a thread inside the kernel takes without being asked.
Step(t) ==
  \/ with_active_capability(t)
  \/ end_inspection(t)
  \/ authorize(t)
  \/ commit_to_linearization(t)
  \/ finish_attempt(t)
  \/ reply(t)
  \/ revoke_held_by_call(t)
  \/ begin_subject_close_call(t)
  \/ clone_observers(t)
  \/ \E m \in Mounts : discard_cached_decisions(t, m)
  \/ inval_inode(t)
  \/ end_discard(t)
  \/ end_propagation(t)

KernelNext ==
  \/ \E t \in Threads : Step(t)
  \/ \E t \in Threads, r \in Requests : submit(t, r)
  \/ \E t \in Threads, r \in Targets : request_write(t, r)
  \/ \E t \in Threads : with_state_mut(t)
  \/ \E m \in Mounts : register_revocation_observer(m)
  \/ \E m \in Mounts, n \in Nodes : forget(m, n)

KernelSpec == KernelInit /\ [][KernelNext]_kernelVars

----------------------------------------------------------------------------
(* Properties.                                                              *)

\* The type invariant; it also ties the arguments of a call to its position.
KernelTypeOK ==
  /\ TypeOK
  /\ pc \in [Threads -> PCs]
  /\ request \in [Threads -> Requests \cup Targets \cup {NoCall}]
  /\ \A t \in Threads :
       /\ pc[t] \in InFlight => request[t] \in Requests
       /\ pc[t] \in {"revoking", "closing"} => request[t] \in Targets
  /\ readers \in SUBSET Threads
  /\ attempts \in Seq(AttemptRecord)
  /\ attempt \in [Threads -> 0 .. Len(attempts)]
  /\ landed \in SUBSET DOMAIN attempts
  /\ revocation_observers \in SUBSET Mounts
  /\ nodes \in [Mounts -> [Nodes -> NodeStatus]]
  /\ caches \in [Mounts -> SUBSET Answers]
  /\ fatal \in SUBSET Mounts
  /\ todo \in [Threads -> SUBSET Mounts]
  /\ flushing \in [Threads -> Mounts \cup {NoMount}]
  /\ stale \in [Threads -> SUBSET Nodes]
  /\ draining \in [Threads -> SUBSET Threads]
  /\ failed \in [Threads -> BOOLEAN]
  /\ withdrawn \in [Threads -> SUBSET CapIds]
  /\ confirmed \in SUBSET CapIds
  /\ overtaken \in [Threads -> SUBSET CapIds]

\* The effect boundary: from the final check until the audit outcome is written
\* every requested right stays authorized, and the epoch recorded with the
\* attempt stays the current one, whatever revocations, closes, derivations and
\* registrations other threads are trying to apply meanwhile.
EffectsUnderAuthority ==
  \A t \in Threads :
    pc[t] \in {"executing"} \cup EffectExecution =>
      /\ Authorized(request[t])
      /\ attempts[attempt[t]].epoch = authorization_epoch

\* The audit journal never lies about the outside world: a Committed record has
\* its effect, a Denied or FailedBeforeCommit record has none, and an effect
\* that landed is never recorded as anything but Started, CommitUnknown or
\* Committed, even when threads interleave and audit writes fail.
AuditTruthful ==
  \A i \in DOMAIN attempts :
    /\ attempts[i].outcome = "Committed" => i \in landed
    /\ attempts[i].outcome \in {"Denied", "FailedBeforeCommit"} => i \notin landed

\* Once a revoking call that withdrew authority has returned Ok, an answer that
\* a serving mount has cached under the withdrawn capabilities, or under anything
\* derived from them, can only be one that the revocation overtook: its request
\* had passed the check before the revocation committed, and was still to be
\* answered when the observer invalidated its node.  Every answer sent before
\* that invalidation is gone, and no later request adds one.
WithdrawnNotCached ==
  \A m \in Mounts \ fatal : \A a \in caches[m] :
    Chain(a.capability) \cap confirmed \subseteq a.overtaken

\* What docs/capfs/read-only-fuse.md says of every revoke_held_by call: the
\* registered observers run before it returns, so no answer cached under the
\* capability is left once it has returned Ok.  Stated for every caller that is
\* told the capability is revoked, AlreadyRevoked included, and leaving out the
\* answers that were in flight (docs/design/capfs.md).
RevokeReturnsDiscarded ==
  [][\A t \in Threads :
       LET s == request[t].caller
           c == request[t].capability
       IN  (/\ pc[t] \in {"revoking", "discarding"} /\ pc'[t] = "idle"
            /\ ~failed[t] /\ c # NoId /\ is_held_by(s, c) /\ c \in revoked)
             => \A m \in Mounts \ fatal : \A a \in caches'[m] :
                  c \in Chain(a.capability) => c \in a.overtaken]_kernelVars

\* A terminal audit outcome is final: no later step of any thread rewrites it.
OutcomesFinal ==
  [][\A i \in DOMAIN attempts :
       attempts[i].outcome # "Started" => attempts'[i] = attempts[i]]_kernelVars

\* Every call returns, and so does every revocation: observers never wait for a
\* request that waits for them.
CallsReturn == \A t \in Threads : pc[t] # "idle" ~> pc[t] = "idle"

\* The operating system may hold up a notification as long as a request that was
\* in flight when it was issued is not answered.
HeldUp(t) == flushing[t] # NoMount /\ draining[t] # {}

\* Executors return, the lock serves its waiters, and the operating system
\* answers a notification that nothing holds up.
Fairness == \A t \in Threads : WF_kernelVars(~HeldUp(t) /\ Step(t))

=============================================================================
