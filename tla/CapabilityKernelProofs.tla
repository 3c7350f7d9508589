------------------------ MODULE CapabilityKernelProofs ------------------------
(****************************************************************************)
(* Proofs about the concurrent kernel, for any number of threads, mounts    *)
(* and attempts.  The kernel is first shown to implement the sequential     *)
(* machine, so that every theorem of CapabilityStateProofs holds of it; the *)
(* effect boundary is then an invariant of the shared guard.                *)
(****************************************************************************)
EXTENDS CapabilityKernel, CapabilityStateProofs

\* The arguments of a call match its position.
CallsTyped ==
  /\ pc \in [Threads -> PCs]
  /\ request \in [Threads -> Requests \cup Targets \cup {NoCall}]
  /\ \A t \in Threads :
       /\ pc[t] \in InFlight => request[t] \in Requests
       /\ pc[t] = "revoking" => request[t] \in [caller : SubjectIds, capability : CapIds]
       /\ pc[t] = "closing" => request[t] \in [caller : SubjectIds, capability : {NoId}]

\* Every step keeps the arguments of every call in step with its position.
LEMMA CallsStayTyped == KernelSpec => []CallsTyped
<1>1. KernelInit => CallsTyped
  BY Zenon DEF KernelInit, CallsTyped, PCs, InFlight, EffectExecution
<1>2. CallsTyped /\ [KernelNext]_kernelVars => CallsTyped'
  <2> SUFFICES ASSUME CallsTyped, [KernelNext]_kernelVars PROVE CallsTyped'
    BY Zenon
  <2> USE DEF CallsTyped
  <2>1. ASSUME NEW t \in Threads, Return(t)
        PROVE  CallsTyped'
    BY Zenon, <2>1 DEF Return, Goto, PCs, InFlight, EffectExecution
  <2>2. ASSUME NEW t \in Threads, NEW l \in InFlight, pc[t] \in InFlight,
               Goto(t, l), UNCHANGED request
        PROVE  CallsTyped'
    BY Zenon, <2>2 DEF Goto, PCs, InFlight, EffectExecution
  <2>3. ASSUME NEW t \in Threads, NEW l \in {"propagating", "discarding"},
               Goto(t, l), UNCHANGED request
        PROVE  CallsTyped'
    BY Zenon, <2>3 DEF Goto, PCs, InFlight, EffectExecution
  <2>4. ASSUME NEW t \in Threads, Step(t) PROVE CallsTyped'
    <3>1. CASE with_active_capability(t)
      BY Zenon, <3>1, <2>1, <2>2 DEF with_active_capability, InFlight
    <3>2. CASE end_inspection(t)
      BY Zenon, <3>2, <2>2 DEF end_inspection, InFlight
    <3>3. CASE authorize(t)
      BY Zenon, <3>3, <2>1, <2>2 DEF authorize, InFlight
    <3>4. CASE commit_to_linearization(t)
      BY Zenon, <3>4, <2>2 DEF commit_to_linearization, InFlight, EffectExecution
    <3>5. CASE finish_attempt(t)
      BY Zenon, <3>5, <2>1, <2>2 DEF finish_attempt, Answer, InFlight
    <3>6. CASE reply(t)
      BY Zenon, <3>6, <2>1 DEF reply
    <3>7. CASE revoke_held_by_call(t)
      BY Zenon, <3>7, <2>1, <2>3 DEF revoke_held_by_call, Committed, Refused
    <3>8. CASE begin_subject_close_call(t)
      BY Zenon, <3>8, <2>1, <2>3 DEF begin_subject_close_call, Committed, Refused
    <3>9. CASE clone_observers(t)
      BY Zenon, <3>9, <2>3 DEF clone_observers
    <3>10. CASE \E m \in Mounts : discard_cached_decisions(t, m)
      BY Zenon, <3>10 DEF discard_cached_decisions
    <3>11. CASE inval_inode(t)
      BY Zenon, <3>11 DEF inval_inode
    <3>12. CASE end_discard(t)
      BY Zenon, <3>12 DEF end_discard, callVars
    <3>13. CASE end_propagation(t)
      BY Zenon, <3>13, <2>1 DEF end_propagation
    <3> QED
      BY ZenonT(60), <2>4, <3>1, <3>2, <3>3, <3>4, <3>5, <3>6, <3>7, <3>8, <3>9, <3>10, <3>11, <3>12,
         <3>13 DEF Step
  <2>5. ASSUME NEW t \in Threads, NEW r \in Requests, submit(t, r) PROVE CallsTyped'
    BY Zenon, <2>5 DEF submit, Goto, PCs, InFlight, EffectExecution
  <2>6. ASSUME NEW t \in Threads, NEW r \in Targets, request_write(t, r) PROVE CallsTyped'
    <3>1. CASE r.capability = NoId
      <4>1. r \in [caller : SubjectIds, capability : {NoId}]
        BY Zenon, <3>1 DEF Targets
      <4> QED BY Zenon, <2>6, <3>1, <4>1 DEF request_write, Goto, PCs, InFlight, EffectExecution
    <3>2. CASE r.capability # NoId
      <4>1. r \in [caller : SubjectIds, capability : CapIds]
        BY Zenon, <3>2 DEF Targets
      <4> QED BY Zenon, <2>6, <3>2, <4>1 DEF request_write, Goto, PCs, InFlight, EffectExecution
    <3> QED BY Zenon, <3>1, <3>2
  <2>7. ASSUME NEW t \in Threads, with_state_mut(t) PROVE CallsTyped'
    BY Zenon, <2>7 DEF with_state_mut, callVars
  <2>8. ASSUME NEW m \in Mounts, register_revocation_observer(m) PROVE CallsTyped'
    BY Zenon, <2>8 DEF register_revocation_observer, callVars
  <2>9. ASSUME NEW m \in Mounts, NEW n \in Nodes, forget(m, n) PROVE CallsTyped'
    BY Zenon, <2>9 DEF forget, callVars
  <2>10. CASE UNCHANGED kernelVars
    BY Zenon, <2>10 DEF kernelVars, callVars
  <2> QED BY Zenon, <2>4, <2>5, <2>6, <2>7, <2>8, <2>9, <2>10 DEF KernelNext
<1> QED BY <1>1, <1>2, PTL DEF KernelSpec

----------------------------------------------------------------------------
(* The kernel implements the sequential machine.                            *)

\* A step of the kernel is a step of CapabilityState or leaves the state alone.
LEMMA KernelStepIsStateStep ==
  ASSUME CallsTyped, [KernelNext]_kernelVars
  PROVE  [Next]_stateVars
<1>1. ASSUME NEW t \in Threads, revoke_held_by_call(t) PROVE [Next]_stateVars
  <2>1. request[t].caller \in SubjectIds /\ request[t].capability \in CapIds
    BY Zenon, <1>1 DEF revoke_held_by_call, CallsTyped
  <2> QED BY Zenon, <1>1, <2>1 DEF revoke_held_by_call, Refused, Next
<1>2. ASSUME NEW t \in Threads, begin_subject_close_call(t) PROVE [Next]_stateVars
  <2>1. request[t].caller \in SubjectIds
    BY Zenon, <1>2 DEF begin_subject_close_call, CallsTyped
  <2> QED BY Zenon, <1>2, <2>1 DEF begin_subject_close_call, Refused, Next
<1>3. ASSUME NEW t \in Threads, Step(t) PROVE [Next]_stateVars
  BY Zenon, <1>1, <1>2, <1>3
     DEF Step, with_active_capability, end_inspection, authorize, commit_to_linearization,
         finish_attempt, reply, clone_observers, discard_cached_decisions, inval_inode,
         end_discard, end_propagation
<1>4. ASSUME NEW t \in Threads, with_state_mut(t) PROVE [Next]_stateVars
  BY Zenon, <1>4 DEF with_state_mut, Transition, Next
<1>5. CASE UNCHANGED kernelVars
  BY Zenon, <1>5 DEF kernelVars
<1> QED
  BY Zenon, <1>3, <1>4, <1>5
     DEF KernelNext, submit, request_write, register_revocation_observer, forget

\* What is proved of the sequential machine holds of the kernel.
LEMMA KernelImplementsState == KernelSpec => Spec
<1>1. KernelInit => Init
  BY Zenon DEF KernelInit
<1>2. CallsTyped /\ [KernelNext]_kernelVars => [Next]_stateVars
  BY Zenon, KernelStepIsStateStep
<1> QED BY <1>1, <1>2, CallsStayTyped, PTL DEF KernelSpec, Spec

----------------------------------------------------------------------------
(* The effect boundary.                                                     *)

Executing == {"executing"} \cup EffectExecution

Guarded == {"inspecting"} \cup Executing

\* The shared guard is held exactly from the check to the audit outcome.
GuardHeld == readers = {t \in Threads : pc[t] \in Guarded}

\* Every thread past the check owns one Started attempt, and the position of the
\* thread tells whether the effect landed.
AttemptsOwned ==
  /\ attempts \in Seq(AttemptRecord)
  /\ landed \in SUBSET DOMAIN attempts
  /\ attempt \in [Threads -> Nat]
  /\ \A t \in Threads : pc[t] \in Executing =>
       /\ attempt[t] \in DOMAIN attempts
       /\ attempts[attempt[t]].outcome = "Started"
       /\ pc[t] = "Committed" => attempt[t] \in landed
       /\ pc[t] \in {"executing", "FailedBeforeCommit"} => attempt[t] \notin landed
  /\ \A t, u \in Threads :
       pc[t] \in Executing /\ pc[u] \in Executing /\ t # u => attempt[t] # attempt[u]

KInv == CallsTyped /\ GuardHeld /\ AttemptsOwned /\ AuditTruthful /\ EffectsUnderAuthority

\* No step changes the capability state while a shared guard is held.
LEMMA GuardFreezesState ==
  ASSUME KInv, [KernelNext]_kernelVars, NEW t \in Threads, pc[t] \in Guarded
  PROVE  UNCHANGED stateVars
<1>1. ~WriteLockable
  BY Zenon DEF KInv, GuardHeld, WriteLockable
<1>2. ASSUME NEW u \in Threads, Step(u) PROVE UNCHANGED stateVars
  BY Zenon, <1>1, <1>2
     DEF Step, with_active_capability, end_inspection, authorize, commit_to_linearization,
         finish_attempt, reply, revoke_held_by_call, begin_subject_close_call, clone_observers,
         discard_cached_decisions, inval_inode, end_discard, end_propagation
<1> QED
  BY Zenon, <1>1, <1>2
     DEF KernelNext, kernelVars, submit, request_write, register_revocation_observer, forget,
         with_state_mut

\* A frozen state decides a request as before.
LEMMA SameAuthorization ==
  ASSUME UNCHANGED stateVars, NEW r
  PROVE  Authorized(r)' <=> Authorized(r)
<1>1. \A c : Chain(c)' = Chain(c)
  BY Zenon DEF stateVars, Chain, ParentClosed, issued_ids
<1>2. \A c, now : is_effectively_active(c, now)' <=> is_effectively_active(c, now)
  BY Zenon, <1>1 DEF stateVars, is_effectively_active, issued_ids, WindowContains
<1>3. \A x, c, right, now : authorizes(x, c, right, now)' <=> authorizes(x, c, right, now)
  BY <1>2 DEF stateVars, authorizes, active_capability, SubjectRunning, is_held_by, issued_ids
<1> QED BY Zenon, <1>3 DEF Authorized

\* The epoch and the subjects of a new record are typed.
LEMMA NewAttempt ==
  ASSUME KInv, TypeOK, NEW t \in Threads, pc[t] = "submitted",
         NEW o \in AttemptOutcome, start_request_set(t, o)
  PROVE  /\ attempts' \in Seq(AttemptRecord)
         /\ Len(attempts') = Len(attempts) + 1
         /\ DOMAIN attempts' = DOMAIN attempts \cup {Len(attempts')}
         /\ Len(attempts') \notin DOMAIN attempts
         /\ \A i \in DOMAIN attempts : attempts'[i] = attempts[i]
         /\ attempts'[Len(attempts')].outcome = o
         /\ attempts'[Len(attempts')].epoch = authorization_epoch
<1>1. request[t] \in Requests
  BY Zenon DEF KInv, CallsTyped, InFlight
<1>2. [caller |-> request[t].caller, capability |-> request[t].capability,
       epoch |-> authorization_epoch, outcome |-> o] \in AttemptRecord
  BY Zenon, <1>1 DEF Requests, AttemptRecord, TypeOK
<1>3. attempts \in Seq(AttemptRecord)
  BY Zenon DEF KInv, AttemptsOwned
<1> QED BY <1>2, <1>3 DEF start_request_set

\* A step that leaves the audit journal alone, starts no execution and keeps the
\* arguments of executing threads preserves the ownership of attempts.
LEMMA QuietKeepsAttempts ==
  ASSUME KInv, [KernelNext]_kernelVars, UNCHANGED <<attempts, landed>>,
         attempt' \in [Threads -> Nat],
         \A t \in Threads : pc'[t] \in Executing =>
           pc[t] = pc'[t] /\ attempt'[t] = attempt[t] /\ request'[t] = request[t]
  PROVE  AttemptsOwned' /\ AuditTruthful' /\ EffectsUnderAuthority'
<1>1. AttemptsOwned'
  BY Zenon DEF KInv, AttemptsOwned
<1>2. AuditTruthful'
  BY Zenon DEF KInv, AuditTruthful
<1>3. ASSUME NEW t \in Threads, pc'[t] \in Executing
      PROVE  Authorized(request[t])' /\ attempts'[attempt'[t]].epoch = authorization_epoch'
  <2>1. UNCHANGED stateVars
    BY Zenon, <1>3, GuardFreezesState DEF Guarded
  <2>2. Authorized(request[t])
    BY Zenon, <1>3 DEF KInv, EffectsUnderAuthority, Executing
  <2>3. attempts[attempt[t]].epoch = authorization_epoch
    BY Zenon, <1>3 DEF KInv, EffectsUnderAuthority, Executing
  <2>4. \A r : Authorized(r)' <=> Authorized(r)
    BY Zenon, <2>1, SameAuthorization
  <2>5. Authorized(request[t])'
    BY Zenon, <1>3, <2>2, <2>4 DEF Authorized
  <2> QED BY Zenon, <1>3, <2>1, <2>3, <2>5 DEF stateVars
<1>4. EffectsUnderAuthority'
  BY Zenon, <1>3 DEF EffectsUnderAuthority, Executing
<1> QED BY Zenon, <1>1, <1>2, <1>4

\* The shared guard, the ownership of attempts, the truth of the journal and the
\* effect boundary are inductive together.
LEMMA KernelInvariant == KernelSpec => []KInv
<1>1. KernelInit => KInv
  <2> SUFFICES ASSUME KernelInit PROVE KInv
    BY Zenon
  <2>1. CallsTyped
    BY Zenon DEF KernelInit, CallsTyped, PCs, InFlight, EffectExecution
  <2>2. \A t \in Threads : pc[t] \notin Guarded
    BY Zenon DEF KernelInit, Guarded, Executing, EffectExecution
  <2>3. attempts \in Seq(AttemptRecord) /\ DOMAIN attempts = {}
    BY DEF KernelInit
  <2> QED
    BY Zenon, <2>1, <2>2, <2>3
       DEF KernelInit, KInv, GuardHeld, AttemptsOwned, AuditTruthful, EffectsUnderAuthority,
           Guarded, Executing
<1>2. KInv /\ TypeOK /\ CallsTyped' /\ [KernelNext]_kernelVars => KInv'
  <2> SUFFICES ASSUME KInv, TypeOK, CallsTyped', [KernelNext]_kernelVars
               PROVE  GuardHeld' /\ AttemptsOwned' /\ AuditTruthful' /\ EffectsUnderAuthority'
    BY Zenon DEF KInv
  <2>0. /\ pc \in [Threads -> PCs] /\ attempt \in [Threads -> Nat]
        /\ readers = {u \in Threads : pc[u] \in Guarded}
    BY Zenon DEF KInv, CallsTyped, GuardHeld, AttemptsOwned
  <2>1. ASSUME NEW t \in Threads, NEW l \in PCs \ Guarded, Goto(t, l),
               readers' = readers \ {t}, UNCHANGED <<attempts, landed>>,
               attempt' \in [Threads -> Nat],
               \A u \in Threads \ {t} : attempt'[u] = attempt[u] /\ request'[u] = request[u]
        PROVE  GuardHeld' /\ AttemptsOwned' /\ AuditTruthful' /\ EffectsUnderAuthority'
    <3>1. GuardHeld'
      BY Zenon, <2>0, <2>1 DEF GuardHeld, Goto
    <3>2. \A u \in Threads : pc'[u] \in Executing =>
            pc[u] = pc'[u] /\ attempt'[u] = attempt[u] /\ request'[u] = request[u]
      BY Zenon, <2>0, <2>1 DEF Goto, Guarded
    <3> QED BY Zenon, <2>1, <3>1, <3>2, QuietKeepsAttempts
  <2>2. ASSUME NEW t \in Threads, pc[t] \notin Guarded, Return(t),
               UNCHANGED <<readers, attempts, landed>>
        PROVE  GuardHeld' /\ AttemptsOwned' /\ AuditTruthful' /\ EffectsUnderAuthority'
    <3>1. /\ attempt' \in [Threads -> Nat] /\ readers' = readers \ {t}
          /\ \A u \in Threads \ {t} : attempt'[u] = attempt[u] /\ request'[u] = request[u]
      BY Zenon, <2>0, <2>2 DEF Return, KInv, CallsTyped
    <3>2. Goto(t, "idle") /\ "idle" \in PCs \ Guarded
      BY Zenon, <2>2 DEF Return, PCs, Guarded, Executing, EffectExecution
    <3> QED BY Zenon, <2>1, <2>2, <3>1, <3>2
  <2>3. ASSUME UNCHANGED <<pc, request, attempt, readers, attempts, landed>>
        PROVE  GuardHeld' /\ AttemptsOwned' /\ AuditTruthful' /\ EffectsUnderAuthority'
    BY Zenon, <2>0, <2>3, QuietKeepsAttempts DEF GuardHeld
  <2>4. ASSUME NEW t \in Threads, pc[t] \notin Guarded, NEW l \in PCs \ Guarded, Goto(t, l),
               UNCHANGED <<attempt, readers, attempts, landed>>,
               \A u \in Threads \ {t} : request'[u] = request[u]
        PROVE  GuardHeld' /\ AttemptsOwned' /\ AuditTruthful' /\ EffectsUnderAuthority'
    <3>1. readers' = readers \ {t}
      BY Zenon, <2>0, <2>4
    <3> QED BY Zenon, <2>0, <2>1, <2>4, <3>1
  <2>5. ASSUME NEW t \in Threads, with_active_capability(t)
        PROVE  GuardHeld' /\ AttemptsOwned' /\ AuditTruthful' /\ EffectsUnderAuthority'
    <3>0. pc[t] \notin Guarded
      BY Zenon, <2>5 DEF with_active_capability, Guarded, Executing, EffectExecution
    <3>1. CASE readers' = readers \cup {t} /\ Goto(t, "inspecting")
               /\ UNCHANGED <<request, attempt, flightVars>>
      <4>1. UNCHANGED <<attempts, landed>>
        BY Zenon, <2>5 DEF with_active_capability, auditVars
      <4>2. \A u \in Threads : pc'[u] \in Executing => pc[u] = pc'[u]
        BY Zenon, <2>0, <3>1 DEF Goto, Executing, EffectExecution
      <4>3. GuardHeld'
        BY Zenon, <2>0, <3>1 DEF GuardHeld, Goto, Guarded
      <4> QED BY Zenon, <2>0, <3>1, <4>1, <4>2, <4>3, QuietKeepsAttempts
    <3>2. CASE Return(t) /\ UNCHANGED readers
      BY Zenon, <2>2, <2>5, <3>0, <3>2 DEF with_active_capability, auditVars
    <3> QED BY Zenon, <2>5, <3>1, <3>2 DEF with_active_capability
  <2>6. ASSUME NEW t \in Threads, end_inspection(t)
        PROVE  GuardHeld' /\ AttemptsOwned' /\ AuditTruthful' /\ EffectsUnderAuthority'
    <3>1. "replying" \in PCs \ Guarded
      BY Zenon DEF PCs, Guarded, Executing, EffectExecution
    <3>2. /\ Goto(t, "replying") /\ readers' = readers \ {t}
          /\ UNCHANGED <<request, attempt, attempts, landed>>
      BY Zenon, <2>6 DEF end_inspection, auditVars
    <3> QED BY Zenon, <2>0, <2>1, <3>1, <3>2
  <2>7. ASSUME NEW t \in Threads, authorize(t)
        PROVE  GuardHeld' /\ AttemptsOwned' /\ AuditTruthful' /\ EffectsUnderAuthority'
    <3>0. pc[t] = "submitted" /\ pc[t] \notin Guarded
      BY Zenon, <2>7 DEF authorize, Guarded, Executing, EffectExecution
    <3>1. UNCHANGED stateVars /\ UNCHANGED landed
      BY Zenon, <2>7 DEF authorize
    <3>2. ASSUME NEW o \in {"Started", "Denied"}, start_request_set(t, o)
          PROVE  /\ AuditTruthful'
                 /\ \A u \in Threads \ {t} : pc[u] \in Executing =>
                      /\ attempts'[attempt[u]] = attempts[attempt[u]]
                      /\ attempt[u] \in DOMAIN attempts'
      <4>1. /\ DOMAIN attempts' = DOMAIN attempts \cup {Len(attempts')}
            /\ Len(attempts') \notin DOMAIN attempts
            /\ \A i \in DOMAIN attempts : attempts'[i] = attempts[i]
            /\ attempts'[Len(attempts')].outcome = o
        BY Zenon, <3>0, <3>2, NewAttempt DEF AttemptOutcome
      <4>2. landed \subseteq DOMAIN attempts
        BY Zenon DEF KInv, AttemptsOwned
      <4>3. AuditTruthful'
        BY Zenon, <3>1, <4>1, <4>2 DEF KInv, AuditTruthful
      <4> QED BY ZenonT(60), <4>1, <4>3 DEF KInv, AttemptsOwned
    <3>3. CASE /\ Authorized(request[t]) /\ start_request_set(t, "Started")
               /\ attempt' = [attempt EXCEPT ![t] = Len(attempts')]
               /\ readers' = readers \cup {t} /\ Goto(t, "executing") /\ UNCHANGED request
      <4>1. GuardHeld'
        BY Zenon, <2>0, <3>3 DEF GuardHeld, Goto, Guarded, Executing
      <4>2. /\ attempts' \in Seq(AttemptRecord)
            /\ DOMAIN attempts' = DOMAIN attempts \cup {Len(attempts')}
            /\ Len(attempts') \notin DOMAIN attempts
            /\ attempts'[Len(attempts')].outcome = "Started"
            /\ attempts'[Len(attempts')].epoch = authorization_epoch
        BY ZenonT(60), <3>0, <3>3, NewAttempt DEF AttemptOutcome
      <4>3. /\ attempt'[t] = Len(attempts') /\ pc'[t] = "executing"
            /\ \A u \in Threads \ {t} : attempt'[u] = attempt[u] /\ pc'[u] = pc[u]
            /\ attempt' \in [Threads -> Nat]
        <5>1. Len(attempts') \in Nat
          BY <4>2
        <5> QED BY Zenon, <2>0, <3>3, <5>1 DEF Goto
      <4>4. AuditTruthful' /\ \A u \in Threads \ {t} : pc[u] \in Executing =>
              attempts'[attempt[u]] = attempts[attempt[u]] /\ attempt[u] \in DOMAIN attempts'
        BY Zenon, <3>2, <3>3
      <4>5. AttemptsOwned'
        <5>1. landed' \in SUBSET DOMAIN attempts' /\ Len(attempts') \notin landed'
          BY ZenonT(60), <3>1, <4>2 DEF KInv, AttemptsOwned
        <5>2. \A u \in Threads \ {t} : pc'[u] \in Executing => attempt'[u] # Len(attempts')
          BY ZenonT(60), <4>2, <4>3 DEF KInv, AttemptsOwned
        <5>3. ASSUME NEW u \in Threads, pc'[u] \in Executing
              PROVE  /\ attempt'[u] \in DOMAIN attempts'
                     /\ attempts'[attempt'[u]].outcome = "Started"
                     /\ pc'[u] = "Committed" => attempt'[u] \in landed'
                     /\ pc'[u] \in {"executing", "FailedBeforeCommit"} => attempt'[u] \notin landed'
          <6>1. CASE u = t
            BY ZenonT(60), <4>2, <4>3, <5>1, <6>1
          <6>2. CASE u # t
            BY <3>1, <4>3, <4>4, <5>3, <6>2 DEF KInv, AttemptsOwned
          <6> QED BY Zenon, <6>1, <6>2
        <5>4. \A u, v \in Threads :
                pc'[u] \in Executing /\ pc'[v] \in Executing /\ u # v => attempt'[u] # attempt'[v]
          BY ZenonT(60), <4>3, <5>2 DEF KInv, AttemptsOwned
        <5> QED BY ZenonT(60), <4>2, <4>3, <5>1, <5>3, <5>4 DEF AttemptsOwned
      <4>6. \A r : Authorized(r)' <=> Authorized(r)
        BY Zenon, <3>1, SameAuthorization
      <4>7. \A u \in Threads : pc'[u] \in Executing => Authorized(request[u])
        BY Zenon, <3>3, <4>3 DEF KInv, EffectsUnderAuthority, Executing
      <4>8. ASSUME NEW u \in Threads, pc'[u] \in Executing
            PROVE  Authorized(request[u])' /\ attempts'[attempt'[u]].epoch = authorization_epoch'
        <5>1. Authorized(request[u])'
          BY Zenon, <3>3, <4>6, <4>7, <4>8 DEF Authorized
        <5>2. authorization_epoch' = authorization_epoch
          BY Zenon, <3>1 DEF stateVars
        <5>3. CASE u = t
          BY ZenonT(60), <4>2, <4>3, <5>1, <5>2, <5>3
        <5>4. CASE u # t
          BY ZenonT(60), <4>3, <4>4, <4>8, <5>1, <5>2, <5>4 DEF KInv, EffectsUnderAuthority, Executing
        <5> QED BY Zenon, <5>3, <5>4
      <4>9. EffectsUnderAuthority'
        BY Zenon, <4>8 DEF EffectsUnderAuthority, Executing
      <4> QED BY Zenon, <4>1, <4>4, <4>5, <4>9
    <3>4. ASSUME NEW o \in {"Started", "Denied"}, start_request_set(t, o), Return(t),
                 UNCHANGED readers
          PROVE  GuardHeld' /\ AttemptsOwned' /\ AuditTruthful' /\ EffectsUnderAuthority'
      <4>1. /\ pc'[t] = "idle" /\ attempt' \in [Threads -> Nat]
            /\ \A u \in Threads \ {t} :
                 attempt'[u] = attempt[u] /\ pc'[u] = pc[u] /\ request'[u] = request[u]
        BY ZenonT(60), <2>0, <3>4 DEF Return, Goto, KInv, CallsTyped
      <4>2. \A u \in Threads : pc'[u] \in Guarded => u # t
        BY Zenon, <4>1 DEF Guarded, Executing, EffectExecution
      <4>3. GuardHeld'
        BY Zenon, <2>0, <3>0, <3>4, <4>1, <4>2 DEF GuardHeld
      <4>4. AuditTruthful' /\ \A u \in Threads \ {t} : pc[u] \in Executing =>
              attempts'[attempt[u]] = attempts[attempt[u]] /\ attempt[u] \in DOMAIN attempts'
        BY Zenon, <3>2, <3>4
      <4>5. attempts' \in Seq(AttemptRecord) /\ DOMAIN attempts \subseteq DOMAIN attempts'
        BY Zenon, <3>0, <3>4, NewAttempt DEF AttemptOutcome
      <4>6. AttemptsOwned'
        <5>1. \A u \in Threads : pc'[u] \in Executing =>
                u # t /\ pc'[u] = pc[u] /\ attempt'[u] = attempt[u]
          BY Zenon, <4>1, <4>2 DEF Guarded
        <5>2. landed' \in SUBSET DOMAIN attempts'
          BY Zenon, <3>1, <4>5 DEF KInv, AttemptsOwned
        <5>3. ASSUME NEW u \in Threads, pc'[u] \in Executing
              PROVE  /\ attempt'[u] \in DOMAIN attempts'
                     /\ attempts'[attempt'[u]].outcome = "Started"
                     /\ pc'[u] = "Committed" => attempt'[u] \in landed'
                     /\ pc'[u] \in {"executing", "FailedBeforeCommit"} => attempt'[u] \notin landed'
          <6>1. u \in Threads \ {t} /\ pc'[u] = pc[u] /\ attempt'[u] = attempt[u] /\ pc[u] \in Executing
            BY Zenon, <5>1, <5>3
          <6>2. attempts'[attempt[u]] = attempts[attempt[u]] /\ attempt[u] \in DOMAIN attempts'
            BY Zenon, <4>4, <6>1
          <6>3. /\ attempts[attempt[u]].outcome = "Started"
                /\ pc[u] = "Committed" => attempt[u] \in landed
                /\ pc[u] \in {"executing", "FailedBeforeCommit"} => attempt[u] \notin landed
            BY Zenon, <6>1 DEF KInv, AttemptsOwned
          <6> QED BY ZenonT(60), <3>1, <6>1, <6>2, <6>3
        <5>4. \A u, v \in Threads :
                pc'[u] \in Executing /\ pc'[v] \in Executing /\ u # v => attempt'[u] # attempt'[v]
          BY Zenon, <5>1 DEF KInv, AttemptsOwned
        <5> QED BY Zenon, <4>1, <4>5, <5>2, <5>3, <5>4 DEF AttemptsOwned
      <4>7. \A r : Authorized(r)' <=> Authorized(r)
        BY Zenon, <3>1, SameAuthorization
      <4>8. ASSUME NEW u \in Threads, pc'[u] \in Executing
            PROVE  Authorized(request[u])' /\ attempts'[attempt'[u]].epoch = authorization_epoch'
        <5>1. u # t /\ pc[u] \in Executing /\ request'[u] = request[u]
          BY Zenon, <4>1, <4>2, <4>8 DEF Guarded
        <5>2. Authorized(request[u]) /\ attempts[attempt[u]].epoch = authorization_epoch
          BY Zenon, <5>1 DEF KInv, EffectsUnderAuthority, Executing
        <5>3. Authorized(request[u])'
          BY Zenon, <4>7, <5>1, <5>2 DEF Authorized
        <5> QED BY Zenon, <3>1, <4>1, <4>4, <5>1, <5>2, <5>3 DEF stateVars
      <4>9. EffectsUnderAuthority'
        BY Zenon, <4>8 DEF EffectsUnderAuthority, Executing
      <4> QED BY Zenon, <4>3, <4>4, <4>6, <4>9
    <3>5. CASE Return(t) /\ UNCHANGED <<attempts, readers>>
      BY Zenon, <2>2, <3>0, <3>1, <3>5
    <3> QED BY Zenon, <2>7, <3>3, <3>4, <3>5 DEF authorize
  <2>8. ASSUME NEW t \in Threads, commit_to_linearization(t)
        PROVE  GuardHeld' /\ AttemptsOwned' /\ AuditTruthful' /\ EffectsUnderAuthority'
    <3>1. PICK l \in EffectExecution : Goto(t, l)
      BY Zenon, <2>8 DEF commit_to_linearization, EffectExecution
    <3>2. /\ pc[t] = "executing" /\ pc'[t] = l
          /\ \A u \in Threads \ {t} : pc'[u] = pc[u]
          /\ UNCHANGED <<request, attempt, attempts, readers>> /\ UNCHANGED stateVars
      BY Zenon, <2>0, <2>8, <3>1 DEF commit_to_linearization, Goto
    <3>3. \/ landed' = landed \cup {attempt[t]} /\ l \in {"Committed", "CommitUnknown"}
          \/ landed' = landed /\ l \in {"FailedBeforeCommit", "CommitUnknown"}
      BY Zenon, <2>0, <2>8, <3>2 DEF commit_to_linearization, Goto
    <3>4. \A u \in Threads : pc'[u] \in Executing <=> pc[u] \in Executing
      BY Zenon, <3>2 DEF Executing
    <3>5. GuardHeld'
      BY Zenon, <2>0, <3>2, <3>4 DEF GuardHeld, Guarded, Executing, EffectExecution
    <3>6. attempt[t] \in DOMAIN attempts /\ attempts[attempt[t]].outcome = "Started"
      BY Zenon, <3>2 DEF KInv, AttemptsOwned, Executing
    <3>7. AttemptsOwned'
      BY Zenon, <3>2, <3>3, <3>4, <3>6 DEF KInv, AttemptsOwned, Executing, EffectExecution
    <3>8. AuditTruthful'
      BY ZenonT(60), <3>2, <3>3, <3>6 DEF KInv, AuditTruthful
    <3>9. \A r : Authorized(r)' <=> Authorized(r)
      BY Zenon, <3>2, SameAuthorization
    <3>10. ASSUME NEW u \in Threads, pc'[u] \in Executing
           PROVE  Authorized(request[u])' /\ attempts'[attempt'[u]].epoch = authorization_epoch'
      <4>1. Authorized(request[u]) /\ attempts[attempt[u]].epoch = authorization_epoch
        BY Zenon, <3>4, <3>10 DEF KInv, EffectsUnderAuthority, Executing
      <4>2. Authorized(request[u])'
        BY Zenon, <3>2, <3>9, <4>1 DEF Authorized
      <4> QED BY Zenon, <3>2, <4>1, <4>2 DEF stateVars
    <3>11. EffectsUnderAuthority'
      BY Zenon, <3>10 DEF EffectsUnderAuthority, Executing
    <3> QED BY Zenon, <3>5, <3>7, <3>8, <3>11
  <2>9. ASSUME NEW t \in Threads, finish_attempt(t)
        PROVE  GuardHeld' /\ AttemptsOwned' /\ AuditTruthful' /\ EffectsUnderAuthority'
    <3>0. Answer(t) \/ Return(t)
      BY Zenon, <2>9 DEF finish_attempt
    <3>1. /\ pc[t] \in EffectExecution /\ pc'[t] \in {"replying", "idle"}
          /\ \A u \in Threads \ {t} :
               pc'[u] = pc[u] /\ request'[u] = request[u] /\ attempt'[u] = attempt[u]
          /\ attempt' \in [Threads -> Nat]
          /\ UNCHANGED landed /\ UNCHANGED stateVars /\ readers' = readers \ {t}
      <4>1. /\ pc[t] \in EffectExecution
            /\ UNCHANGED landed /\ UNCHANGED stateVars /\ readers' = readers \ {t}
        BY Zenon, <2>9 DEF finish_attempt
      <4>2. CASE Answer(t)
        BY Zenon, <2>0, <4>1, <4>2 DEF Answer, Goto
      <4>3. CASE Return(t)
        BY Zenon, <2>0, <4>1, <4>3 DEF Return, Goto, KInv, CallsTyped
      <4> QED BY Zenon, <3>0, <4>2, <4>3
    <3>2. /\ attempt[t] \in DOMAIN attempts /\ attempts[attempt[t]].outcome = "Started"
          /\ pc[t] = "Committed" => attempt[t] \in landed
          /\ pc[t] = "FailedBeforeCommit" => attempt[t] \notin landed
      BY Zenon, <3>1 DEF KInv, AttemptsOwned, Executing
    <3>3. /\ attempts' \in Seq(AttemptRecord) /\ DOMAIN attempts' = DOMAIN attempts
          /\ \A i \in DOMAIN attempts : i # attempt[t] => attempts'[i] = attempts[i]
          /\ attempts'[attempt[t]].outcome \in {"Started", pc[t]}
      <4>1. attempts \in Seq(AttemptRecord) /\ pc[t] \in AttemptOutcome
        BY Zenon, <3>1 DEF KInv, AttemptsOwned, AttemptOutcome
      <4>2. CASE attempts' = [attempts EXCEPT ![attempt[t]].outcome = pc[t]]
        <5> DEFINE r == [attempts[attempt[t]] EXCEPT !.outcome = pc[t]]
        <5>1. attempts[attempt[t]] \in AttemptRecord
          BY <3>2, <4>1
        <5>2. r \in AttemptRecord /\ r.outcome = pc[t]
          BY Zenon, <4>1, <5>1 DEF AttemptRecord
        <5>3. attempts' = [attempts EXCEPT ![attempt[t]] = r]
          BY Zenon, <4>2
        <5> HIDE DEF r
        <5> QED BY <3>2, <4>1, <5>2, <5>3
      <4>3. CASE UNCHANGED attempts
        BY Zenon, <3>2, <4>1, <4>3
      <4> QED BY Zenon, <2>9, <4>2, <4>3 DEF finish_attempt
    <3>4. \A u \in Threads : pc'[u] \in Guarded => u # t /\ pc[u] \in Guarded
      BY Zenon, <3>1 DEF Guarded, Executing, EffectExecution
    <3>5. GuardHeld'
      BY Zenon, <2>0, <3>1, <3>4 DEF GuardHeld
    <3>6. \A u \in Threads : pc'[u] \in Executing =>
            u # t /\ pc[u] \in Executing /\ attempts'[attempt[u]] = attempts[attempt[u]]
      BY ZenonT(60), <3>1, <3>3, <3>4 DEF KInv, AttemptsOwned, Guarded, Executing
    <3>7. AttemptsOwned'
      <4>1. \A u \in Threads : pc'[u] \in Executing =>
              /\ pc[u] \in Executing /\ pc'[u] = pc[u] /\ attempt'[u] = attempt[u]
              /\ attempts'[attempt[u]] = attempts[attempt[u]]
        BY Zenon, <3>1, <3>6
      <4>2. attempts' \in Seq(AttemptRecord) /\ landed' \in SUBSET DOMAIN attempts'
        BY Zenon, <3>1, <3>3 DEF KInv, AttemptsOwned
      <4>3. ASSUME NEW u \in Threads, pc'[u] \in Executing
            PROVE  /\ attempt'[u] \in DOMAIN attempts'
                   /\ attempts'[attempt'[u]].outcome = "Started"
                   /\ pc'[u] = "Committed" => attempt'[u] \in landed'
                   /\ pc'[u] \in {"executing", "FailedBeforeCommit"} => attempt'[u] \notin landed'
        <5>1. /\ attempt[u] \in DOMAIN attempts
              /\ attempts[attempt[u]].outcome = "Started"
              /\ pc[u] = "Committed" => attempt[u] \in landed
              /\ pc[u] \in {"executing", "FailedBeforeCommit"} => attempt[u] \notin landed
          BY Zenon, <4>1, <4>3 DEF KInv, AttemptsOwned
        <5> QED BY Zenon, <3>1, <3>3, <4>1, <4>3, <5>1
      <4>4. \A u, v \in Threads :
              pc'[u] \in Executing /\ pc'[v] \in Executing /\ u # v => attempt'[u] # attempt'[v]
        BY Zenon, <4>1 DEF KInv, AttemptsOwned
      <4> QED BY Zenon, <3>1, <4>2, <4>3, <4>4 DEF AttemptsOwned
    <3>8. AuditTruthful'
      BY ZenonT(60), <3>1, <3>2, <3>3 DEF KInv, AuditTruthful, EffectExecution
    <3>9. \A r : Authorized(r)' <=> Authorized(r)
      BY Zenon, <3>1, SameAuthorization
    <3>10. ASSUME NEW u \in Threads, pc'[u] \in Executing
           PROVE  Authorized(request[u])' /\ attempts'[attempt'[u]].epoch = authorization_epoch'
      <4>1. Authorized(request[u]) /\ attempts[attempt[u]].epoch = authorization_epoch
        BY Zenon, <3>6, <3>10 DEF KInv, EffectsUnderAuthority, Executing
      <4>2. u # t /\ request'[u] = request[u] /\ attempt'[u] = attempt[u]
        BY Zenon, <3>1, <3>6, <3>10
      <4>3. Authorized(request[u])'
        BY ZenonT(60), <3>9, <4>1, <4>2 DEF Authorized
      <4> QED BY Zenon, <3>1, <3>6, <3>10, <4>1, <4>2, <4>3 DEF stateVars
    <3>11. EffectsUnderAuthority'
      BY Zenon, <3>10 DEF EffectsUnderAuthority, Executing
    <3> QED BY Zenon, <3>5, <3>7, <3>8, <3>11
  <2>10. ASSUME NEW t \in Threads, Step(t)
         PROVE  GuardHeld' /\ AttemptsOwned' /\ AuditTruthful' /\ EffectsUnderAuthority'
    <3>1. {"idle", "propagating", "discarding", "revoking", "closing", "submitted"}
            \subseteq PCs \ Guarded
      BY Zenon DEF PCs, Guarded, Executing, EffectExecution
    <3>2. {"replying", "revoking", "closing", "propagating", "discarding"} \cap Guarded = {}
      BY Zenon DEF Guarded, Executing, EffectExecution
    <3>3. CASE reply(t)
      BY ZenonT(60), <2>2, <3>2, <3>3 DEF reply, auditVars
    <3>4. ASSUME pc[t] \notin Guarded, NEW c, Committed(t, c), UNCHANGED <<readers, auditVars>>
          PROVE  GuardHeld' /\ AttemptsOwned' /\ AuditTruthful' /\ EffectsUnderAuthority'
      BY ZenonT(60), <2>4, <3>1, <3>4 DEF Committed, auditVars
    <3>5. CASE revoke_held_by_call(t)
      BY ZenonT(60), <2>2, <3>2, <3>4, <3>5 DEF revoke_held_by_call, Refused, auditVars
    <3>6. CASE begin_subject_close_call(t)
      BY Zenon, <2>2, <3>2, <3>4, <3>6 DEF begin_subject_close_call, Refused, auditVars
    <3>7. CASE clone_observers(t)
      BY ZenonT(60), <2>4, <3>1, <3>2, <3>7 DEF clone_observers, auditVars
    <3>8. CASE \E m \in Mounts : discard_cached_decisions(t, m)
      BY ZenonT(60), <2>3, <3>8 DEF discard_cached_decisions, auditVars
    <3>9. CASE inval_inode(t)
      BY ZenonT(60), <2>3, <3>9 DEF inval_inode, auditVars
    <3>10. CASE end_discard(t)
      BY Zenon, <2>3, <3>10 DEF end_discard, callVars, auditVars
    <3>11. CASE end_propagation(t)
      BY ZenonT(60), <2>2, <3>2, <3>11 DEF end_propagation, auditVars
    <3> QED
      BY ZenonT(60), <2>5, <2>6, <2>7, <2>8, <2>9, <2>10, <3>3, <3>5, <3>6, <3>7, <3>8, <3>9, <3>10,
         <3>11 DEF Step
  <2>11. ASSUME NEW t \in Threads, NEW r, pc[t] = "idle", NEW l \in {"submitted", "revoking", "closing"},
                Goto(t, l), request' = [request EXCEPT ![t] = r],
                UNCHANGED <<attempt, auditVars, readers>>
         PROVE  GuardHeld' /\ AttemptsOwned' /\ AuditTruthful' /\ EffectsUnderAuthority'
    <3>1. pc[t] \notin Guarded /\ l \in PCs \ Guarded
      BY Zenon, <2>11 DEF PCs, Guarded, Executing, EffectExecution
    <3>2. \A u \in Threads \ {t} : request'[u] = request[u]
      BY ZenonT(60), <2>11 DEF KInv, CallsTyped
    <3> QED BY Zenon, <2>4, <2>11, <3>1, <3>2 DEF auditVars
  <2>12. ASSUME NEW t \in Threads, NEW r \in Requests, submit(t, r)
         PROVE  GuardHeld' /\ AttemptsOwned' /\ AuditTruthful' /\ EffectsUnderAuthority'
    BY Zenon, <2>11, <2>12 DEF submit
  <2>13. ASSUME NEW t \in Threads, NEW r \in Targets, request_write(t, r)
         PROVE  GuardHeld' /\ AttemptsOwned' /\ AuditTruthful' /\ EffectsUnderAuthority'
    BY Zenon, <2>11, <2>13 DEF request_write
  <2>14. ASSUME NEW t \in Threads, with_state_mut(t)
         PROVE  GuardHeld' /\ AttemptsOwned' /\ AuditTruthful' /\ EffectsUnderAuthority'
    BY Zenon, <2>3, <2>14 DEF with_state_mut, callVars, auditVars
  <2>15. ASSUME NEW m \in Mounts, register_revocation_observer(m)
         PROVE  GuardHeld' /\ AttemptsOwned' /\ AuditTruthful' /\ EffectsUnderAuthority'
    BY Zenon, <2>3, <2>15 DEF register_revocation_observer, callVars, auditVars
  <2>16. ASSUME NEW m \in Mounts, NEW n \in Nodes, forget(m, n)
         PROVE  GuardHeld' /\ AttemptsOwned' /\ AuditTruthful' /\ EffectsUnderAuthority'
    BY Zenon, <2>3, <2>16 DEF forget, callVars, auditVars
  <2>17. CASE UNCHANGED kernelVars
    BY Zenon, <2>3, <2>17 DEF kernelVars, callVars, auditVars
  <2> QED BY Zenon, <2>10, <2>12, <2>13, <2>14, <2>15, <2>16, <2>17 DEF KernelNext
<1>3. KernelSpec => []TypeOK
  BY KernelImplementsState, TypeCorrect, PTL
<1> QED BY <1>1, <1>2, <1>3, CallsStayTyped, PTL DEF KernelSpec

\* The effect boundary of the kernel: between the final check and the audit
\* outcome the authority of an executing effect is never withdrawn and the epoch
\* recorded for it is the current one, for any number of threads.
THEOREM EffectBoundary == KernelSpec => []EffectsUnderAuthority
<1>1. KInv => EffectsUnderAuthority
  BY Zenon DEF KInv
<1> QED BY <1>1, KernelInvariant, PTL

\* The audit journal never contradicts the outside world.
THEOREM AuditNeverLies == KernelSpec => []AuditTruthful
<1>1. KInv => AuditTruthful
  BY Zenon DEF KInv
<1> QED BY <1>1, KernelInvariant, PTL

\* No thread rewrites a terminal outcome, its own or another's.
THEOREM OutcomesNeverRewritten == KernelSpec => OutcomesFinal
<1>1. KInv /\ TypeOK /\ [KernelNext]_kernelVars =>
        \A i \in DOMAIN attempts : attempts[i].outcome # "Started" => attempts'[i] = attempts[i]
  <2> SUFFICES ASSUME KInv, TypeOK, [KernelNext]_kernelVars, NEW i \in DOMAIN attempts,
                      attempts[i].outcome # "Started"
               PROVE  attempts'[i] = attempts[i]
    BY Zenon
  <2>1. ASSUME NEW t \in Threads, authorize(t) PROVE attempts'[i] = attempts[i]
    <3>1. ASSUME NEW o \in {"Started", "Denied"}, start_request_set(t, o)
          PROVE  attempts'[i] = attempts[i]
      BY Zenon, <2>1, <3>1, NewAttempt DEF authorize, AttemptOutcome
    <3> QED BY ZenonT(60), <2>1, <3>1 DEF authorize
  <2>2. ASSUME NEW t \in Threads, finish_attempt(t) PROVE attempts'[i] = attempts[i]
    <3>1. i # attempt[t]
      BY Zenon, <2>2 DEF finish_attempt, KInv, AttemptsOwned, Executing
    <3> QED BY Zenon, <2>2, <3>1 DEF finish_attempt, KInv, AttemptsOwned
  <2>3. ASSUME NEW t \in Threads, Step(t) PROVE attempts'[i] = attempts[i]
    BY ZenonT(60), <2>1, <2>2, <2>3
       DEF Step, with_active_capability, end_inspection, commit_to_linearization, reply,
           revoke_held_by_call, begin_subject_close_call, clone_observers,
           discard_cached_decisions, inval_inode, end_discard, end_propagation, auditVars
  <2> QED
    BY Zenon, <2>3 DEF KernelNext, kernelVars, submit, request_write, with_state_mut,
                register_revocation_observer, forget, auditVars
<1>2. KernelSpec => []TypeOK
  BY KernelImplementsState, TypeCorrect, PTL
<1> QED BY <1>1, <1>2, KernelInvariant, PTL DEF KernelSpec, OutcomesFinal

=============================================================================
