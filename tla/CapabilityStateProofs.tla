------------------------ MODULE CapabilityStateProofs ------------------------
(****************************************************************************)
(* Theorems about CapabilityState, for every choice of subjects, rights,    *)
(* bodies and limits.                                                       *)
(****************************************************************************)
EXTENDS CapabilityState, FiniteSetTheorems, TLAPS

\* Insert adds one binding to a map and leaves every other binding alone.
LEMMA InsertFacts ==
  ASSUME NEW f, NEW k, NEW v
  PROVE  /\ DOMAIN Insert(f, k, v) = DOMAIN f \cup {k}
         /\ Insert(f, k, v)[k] = v
         /\ \A x \in DOMAIN f : x # k => Insert(f, k, v)[x] = f[x]
BY DEF Insert

\* Insert keeps a map of known keys to known values one.
LEMMA InsertType ==
  ASSUME NEW D, NEW S, NEW f \in [D -> S], NEW k, NEW v \in S
  PROVE  Insert(f, k, v) \in [D \cup {k} -> S]
BY DEF Insert

\* Issuing a capability under an unused name to a running subject keeps the types.
LEMMA IssueKeepsTypes ==
  ASSUME TypeOK, NEW g \in CapabilityGrant, NEW p \in issued_ids \cup {NoId},
         NEW id \in CapIds \ issued_ids, SubjectRunning(g.subject),
         issue_with_id(g, p, id), next_capability_sequence' \in 0 .. MAX_SEQUENCE + 1
  PROVE  TypeOK'
<1> DEFINE cap == [subject |-> g.subject, delegable |-> g.delegable,
                   body |-> g.body, parent |-> p]
<1>1. g.subject \in DOMAIN subjects
  BY DEF TypeOK, SubjectRunning
<1>2. cap \in Capability
  BY DEF TypeOK, CapabilityGrant, Capability, issued_ids
<1>3. capabilities' = Insert(capabilities, id, cap) /\ issued_ids' = issued_ids \cup {id}
  BY Zenon, InsertFacts DEF issue_with_id, issued_ids
<1>4. capabilities' \in [issued_ids' -> Capability]
  BY Zenon, <1>2, <1>3, InsertType DEF TypeOK
<1>5. held' \in [DOMAIN subjects -> SUBSET issued_ids']
  <2>1. held \in [DOMAIN subjects -> SUBSET issued_ids']
    BY <1>3 DEF TypeOK
  <2>2. held[g.subject] \cup {id} \in SUBSET issued_ids'
    BY <1>1, <1>3 DEF TypeOK
  <2>3. held' \in [DOMAIN subjects \cup {g.subject} -> SUBSET issued_ids']
    BY Zenon, <2>1, <2>2, InsertType DEF issue_with_id
  <2> QED BY <1>1, <2>3
<1> QED
  BY Zenon, <1>3, <1>4, <1>5 DEF TypeOK, issue_with_id

\* Each of the ways a capability is issued (issue_root, issue_root_with_id,
\* derive) keeps the types.
LEMMA IssueTypes ==
  ASSUME TypeOK, NEW g \in CapabilityGrant, NEW p \in issued_ids \cup {NoId},
         SubjectRunning(g.subject), issue(g, p) \/ issue_exhausted
  PROVE  TypeOK'
<1>1. CASE issue(g, p)
  <2>1. PICK id \in UnusedSequences :
          next_capability_sequence' = id + 1 /\ issue_with_id(g, p, id)
    BY <1>1 DEF issue
  <2>2. id \in CapIds \ issued_ids /\ next_capability_sequence' \in 0 .. MAX_SEQUENCE + 1
    BY <2>1, ConstantsAssumption DEF UnusedSequences, CapIds, TypeOK
  <2> QED BY <2>1, <2>2, IssueKeepsTypes
<1>2. CASE issue_exhausted
  BY <1>2, ConstantsAssumption DEF issue_exhausted, TypeOK, issued_ids
<1> QED BY <1>1, <1>2

\* The state maps keep their types and their shared keys: every operation of
\* state.rs preserves them.
THEOREM TypeCorrect == Spec => []TypeOK
<1>1. Init => TypeOK
  BY ConstantsAssumption DEF Init, TypeOK, issued_ids
<1>2. TypeOK /\ [Next]_stateVars => TypeOK'
  <2> SUFFICES ASSUME TypeOK, [Next]_stateVars PROVE TypeOK'
    OBVIOUS
  <2>1. ASSUME NEW s \in SubjectIds, NEW p \in SubjectIds \cup {NoId}, NEW e \in Bodies,
               register_subject(s, p, e)
        PROVE  TypeOK'
    <3>1. DOMAIN subjects' = DOMAIN subjects \cup {s}
      BY <2>1, InsertFacts DEF register_subject
    <3>2. subjects' \in [DOMAIN subjects \cup {s} -> Bodies]
      BY Zenon, <2>1, InsertType DEF register_subject, TypeOK
    <3>3. subject_statuses' \in [DOMAIN subjects \cup {s} -> SubjectStatus]
      BY Zenon, <2>1, InsertType DEF register_subject, TypeOK, SubjectStatus
    <3>4. held' \in [DOMAIN subjects \cup {s} -> SUBSET issued_ids]
      BY Zenon, <2>1, InsertType DEF register_subject, TypeOK
    <3>5. issued_handle_owners' \in [DOMAIN issued_handle_owners' -> DOMAIN subjects']
      BY <2>1, <3>1 DEF register_subject, TypeOK
    <3> QED BY <2>1, <3>1, <3>2, <3>3, <3>4, <3>5 DEF register_subject, TypeOK, issued_ids
  <2>2. ASSUME NEW h \in HandleIds, NEW s \in SubjectIds, register_open_handle(h, s)
        PROVE  TypeOK'
    <3>1. s \in DOMAIN subjects
      BY <2>2 DEF register_open_handle, SubjectRunning, TypeOK
    <3>2. issued_handle_owners' \in [DOMAIN issued_handle_owners \cup {h} -> DOMAIN subjects]
      BY Zenon, <2>2, <3>1, InsertType DEF register_open_handle, TypeOK
    <3> QED BY <2>2, <3>2 DEF register_open_handle, TypeOK, issued_ids
  <2>3. ASSUME NEW h \in HandleIds, NEW s \in SubjectIds, close_handle(s, h)
        PROVE  TypeOK'
    BY <2>3 DEF close_handle, TypeOK, issued_ids
  <2>4. ASSUME NEW g \in CapabilityGrant, issue_root(g)
        PROVE  TypeOK'
    BY <2>4, IssueTypes DEF issue_root, validate_envelope
  <2>5. ASSUME NEW id \in CapIds, NEW g \in CapabilityGrant, issue_root_with_id(id, g)
        PROVE  TypeOK'
    <3>1. next_capability_sequence' \in 0 .. MAX_SEQUENCE + 1
      BY <2>5 DEF issue_root_with_id, TypeOK
    <3> QED BY <2>5, <3>1, IssueKeepsTypes DEF issue_root_with_id, validate_envelope
  <2>6. ASSUME NEW s \in SubjectIds, NEW p \in CapIds, NEW g \in CapabilityGrant,
               NEW now \in Times, derive(s, p, g, now)
        PROVE  TypeOK'
    BY <2>6, IssueTypes DEF derive, may_derive, validate_envelope
  <2>7. ASSUME NEW c \in CapIds, c \in issued_ids, revoke_existing(c)
        PROVE  TypeOK'
    BY <2>7, ConstantsAssumption DEF revoke_existing, next_authorization_epoch, TypeOK, issued_ids
  <2>8. ASSUME NEW s \in SubjectIds, begin_subject_close(s)
        PROVE  TypeOK'
    <3>1. revoked' \in SUBSET issued_ids
      BY <2>8 DEF begin_subject_close, TypeOK, SubjectRunning
    <3>2. subject_statuses' \in [DOMAIN subjects -> SubjectStatus]
      BY Zenon, <2>8 DEF begin_subject_close, TypeOK, SubjectStatus
    <3>3. authorization_epoch' \in 0 .. MAX_EPOCH
      BY <2>8, ConstantsAssumption DEF begin_subject_close, next_authorization_epoch, TypeOK
    <3> QED BY <2>8, <3>1, <3>2, <3>3 DEF begin_subject_close, TypeOK, issued_ids
  <2>9. ASSUME NEW s \in SubjectIds, finish_subject_close(s)
        PROVE  TypeOK'
    BY <2>9 DEF finish_subject_close, TypeOK, SubjectStatus, issued_ids
  <2>10. CASE UNCHANGED stateVars
    BY <2>10 DEF stateVars, TypeOK, issued_ids
  <2> QED
    BY <2>1, <2>2, <2>3, <2>4, <2>5, <2>6, <2>7, <2>8, <2>9, <2>10
       DEF Next, revoke, revoke_held_by
<1> QED BY <1>1, <1>2, PTL DEF Spec

----------------------------------------------------------------------------
(* The ancestry of a capability.                                            *)

\* Parents of issued capabilities are issued.
ParentsIssued ==
  \A c \in issued_ids : capabilities[c].parent # NoId => capabilities[c].parent \in issued_ids

\* What every step of the machine does to the capability table: it only grows.
CapabilitiesKept ==
  \A c \in issued_ids : c \in issued_ids' /\ capabilities'[c] = capabilities[c]

\* A capability belongs to its own ancestry.
LEMMA ChainSelf ==
  ASSUME NEW c \in issued_ids
  PROVE  c \in Chain(c)
BY DEF Chain

\* The ancestry is the smallest set that holds the capability and is closed
\* under parents.
LEMMA ChainMinimal ==
  ASSUME NEW c, NEW A \in SUBSET issued_ids, c \in A, ParentClosed(A)
  PROVE  Chain(c) \subseteq A
BY DEF Chain

\* The ancestry is closed under parents.
LEMMA ChainClosed ==
  ASSUME ParentsIssued, NEW c
  PROVE  ParentClosed(Chain(c))
<1> SUFFICES ASSUME NEW d \in Chain(c), capabilities[d].parent # NoId
             PROVE  capabilities[d].parent \in Chain(c)
  BY DEF ParentClosed
<1>1. d \in issued_ids /\ capabilities[d].parent \in issued_ids
  BY DEF Chain, ParentsIssued
<1>2. ASSUME NEW A \in SUBSET issued_ids, c \in A, ParentClosed(A)
      PROVE  capabilities[d].parent \in A
  <2>1. d \in A
    BY <1>2 DEF Chain
  <2> QED BY <1>2, <2>1 DEF ParentClosed
<1> QED BY <1>1, <1>2 DEF Chain

\* The ancestry of an issued capability never changes.
LEMMA ChainStable ==
  ASSUME ParentsIssued, CapabilitiesKept, NEW c \in issued_ids
  PROVE  Chain(c)' = Chain(c)
<1>1. ASSUME NEW d \in Chain(c)' PROVE d \in Chain(c)
  <2>1. Chain(c) \in SUBSET issued_ids' /\ c \in Chain(c)
    BY ChainSelf DEF Chain, CapabilitiesKept
  <2>2. ParentClosed(Chain(c))
    BY ChainClosed
  <2>3. \A e \in Chain(c) : capabilities'[e].parent # NoId => capabilities'[e].parent \in Chain(c)
    BY <2>2 DEF ParentClosed, CapabilitiesKept, Chain
  <2>4. \A A \in SUBSET issued_ids' :
          c \in A /\ (\A e \in A : capabilities'[e].parent # NoId => capabilities'[e].parent \in A)
            => d \in A
    BY <1>1 DEF Chain, ParentClosed
  <2> QED BY <2>1, <2>3, <2>4
<1>2. ASSUME NEW d \in Chain(c) PROVE d \in Chain(c)'
  <2>1. d \in issued_ids'
    BY <1>2 DEF Chain, CapabilitiesKept
  <2>2. ASSUME NEW A \in SUBSET issued_ids', c \in A,
               \A e \in A : capabilities'[e].parent # NoId => capabilities'[e].parent \in A
        PROVE  d \in A
    <3> DEFINE B == A \cap issued_ids
    <3>1. B \in SUBSET issued_ids /\ c \in B
      BY <2>2
    <3>2. ParentClosed(B)
      BY <2>2 DEF ParentClosed, CapabilitiesKept, ParentsIssued
    <3> QED BY <3>1, <3>2, <1>2, ChainMinimal
  <2> QED BY <2>1, <2>2 DEF Chain, ParentClosed
<1> QED BY <1>1, <1>2

\* The ancestry of a capability just issued under parent p.
LEMMA ChainOfNew ==
  ASSUME ParentsIssued, NEW p \in issued_ids \cup {NoId}, NEW id, id \notin issued_ids,
         CapabilitiesKept, issued_ids' = issued_ids \cup {id}, capabilities'[id].parent = p,
         NoId \notin issued_ids'
  PROVE  Chain(id)' = {id} \cup (IF p = NoId THEN {} ELSE Chain(p))
<1> DEFINE S == {id} \cup (IF p = NoId THEN {} ELSE Chain(p))
<1>1. S \in SUBSET issued_ids' /\ id \in S
  BY DEF Chain
<1>2. \A e \in S : capabilities'[e].parent # NoId => capabilities'[e].parent \in S
  <2>1. CASE p = NoId
    BY <2>1
  <2>2. CASE p # NoId
    <3>1. p \in Chain(p) /\ ParentClosed(Chain(p)) /\ Chain(p) \subseteq issued_ids
      BY <2>2, ChainSelf, ChainClosed DEF Chain
    <3> QED BY <2>2, <3>1 DEF ParentClosed, CapabilitiesKept
  <2> QED BY <2>1, <2>2
<1>3. ASSUME NEW d \in Chain(id)' PROVE d \in S
  <2>1. \A A \in SUBSET issued_ids' :
          id \in A /\ (\A e \in A : capabilities'[e].parent # NoId => capabilities'[e].parent \in A)
            => d \in A
    BY <1>3 DEF Chain, ParentClosed
  <2> QED BY Zenon, <1>1, <1>2, <2>1
<1>4. ASSUME NEW d \in S PROVE d \in Chain(id)'
  <2>1. ASSUME NEW A \in SUBSET issued_ids', id \in A,
               \A e \in A : capabilities'[e].parent # NoId => capabilities'[e].parent \in A
        PROVE  d \in A
    <3>1. CASE d = id
      BY <3>1, <2>1
    <3>2. CASE d # id
      <4>1. p # NoId /\ d \in Chain(p)
        BY <3>2
      <4> DEFINE B == A \cap issued_ids
      <4>2. p \in B /\ B \in SUBSET issued_ids
        BY <4>1, <2>1
      <4>3. ParentClosed(B)
        BY <2>1 DEF ParentClosed, CapabilitiesKept, ParentsIssued
      <4> QED BY <4>1, <4>2, <4>3, ChainMinimal
    <3> QED BY <3>1, <3>2
  <2> QED BY <1>1, <2>1 DEF Chain, ParentClosed
<1> QED BY <1>3, <1>4

----------------------------------------------------------------------------
(* What a step does to the capability table.                                *)

\* A step that issues a capability: the common effect of issue_root,
\* issue_root_with_id and derive, with the checks that guard it.
IssueStep(g, p, id) ==
  /\ SubjectRunning(g.subject)
  /\ BodyBelow(g.body, subjects[g.subject])
  /\ p # NoId => BodyBelow(g.body, capabilities[p].body) /\ delegation_depth(p) < MAX_DELEGATION_DEPTH
  /\ issue_with_id(g, p, id)

\* An issuing operation is issue_with_id under a fresh name, with an envelope
\* validated against its parent.
LEMMA IssueCases ==
  ASSUME TypeOK, NEW g \in CapabilityGrant, NEW p \in issued_ids \cup {NoId},
         issue(g, p) \/ issue_exhausted
  PROVE  \/ \E id \in CapIds \ issued_ids : issue_with_id(g, p, id)
         \/ UNCHANGED <<subjects, subject_statuses, capabilities, held, revoked,
                        authorization_epoch, open_handles, issued_handle_owners>>
<1>1. CASE issue(g, p)
  <2>1. PICK id \in UnusedSequences : issue_with_id(g, p, id)
    BY <1>1 DEF issue
  <2>2. id \in CapIds \ issued_ids
    BY <2>1, ConstantsAssumption DEF UnusedSequences, CapIds, TypeOK
  <2> QED BY <2>1, <2>2
<1>2. CASE issue_exhausted
  BY <1>2 DEF issue_exhausted
<1> QED BY <1>1, <1>2

\* Every step either issues one capability or leaves the table alone.
LEMMA StepCases ==
  ASSUME TypeOK, [Next]_stateVars
  PROVE  \/ \E g \in CapabilityGrant, p \in issued_ids \cup {NoId}, id \in CapIds \ issued_ids :
              IssueStep(g, p, id)
         \/ \E s \in SubjectIds, p \in SubjectIds \cup {NoId}, e \in Bodies :
              register_subject(s, p, e)
         \/ \E c \in issued_ids : revoke_existing(c)
         \/ \E s \in SubjectIds : begin_subject_close(s)
         \/ \E s \in SubjectIds : finish_subject_close(s)
         \/ UNCHANGED <<subjects, subject_statuses, capabilities, held, revoked,
                        authorization_epoch>>
<1>1. ASSUME NEW g \in CapabilityGrant, issue_root(g)
      PROVE  \/ \E id \in CapIds \ issued_ids : IssueStep(g, NoId, id)
             \/ UNCHANGED <<subjects, subject_statuses, capabilities, held, revoked,
                            authorization_epoch>>
  BY <1>1, IssueCases DEF issue_root, validate_envelope, IssueStep
<1>2. ASSUME NEW id \in CapIds, NEW g \in CapabilityGrant, issue_root_with_id(id, g)
      PROVE  id \in CapIds \ issued_ids /\ IssueStep(g, NoId, id)
  BY <1>2 DEF issue_root_with_id, validate_envelope, IssueStep
<1>3. ASSUME NEW s \in SubjectIds, NEW p \in CapIds, NEW g \in CapabilityGrant,
             NEW now \in Times, derive(s, p, g, now)
      PROVE  \/ p \in issued_ids /\ \E id \in CapIds \ issued_ids : IssueStep(g, p, id)
             \/ UNCHANGED <<subjects, subject_statuses, capabilities, held, revoked,
                            authorization_epoch>>
  <2>1. p \in issued_ids /\ validate_envelope(g) /\ (issue(g, p) \/ issue_exhausted)
    BY <1>3 DEF derive, may_derive
  <2>2. BodyBelow(g.body, capabilities[p].body) /\ delegation_depth(p) < MAX_DELEGATION_DEPTH
    BY <1>3 DEF derive, may_derive
  <2> QED BY <2>1, <2>2, IssueCases DEF validate_envelope, IssueStep
<1>4. ASSUME NEW h \in HandleIds, NEW s \in SubjectIds,
             register_open_handle(h, s) \/ close_handle(s, h)
      PROVE  UNCHANGED <<subjects, subject_statuses, capabilities, held, revoked,
                         authorization_epoch>>
  BY <1>4 DEF register_open_handle, close_handle
<1>5. CASE UNCHANGED stateVars
  BY <1>5 DEF stateVars
<1> QED
  BY <1>1, <1>2, <1>3, <1>4, <1>5 DEF Next, revoke, revoke_held_by

\* What issuing leaves behind: the table grows by exactly the new entry.
LEMMA IssueFacts ==
  ASSUME TypeOK, NEW g \in CapabilityGrant, NEW p \in issued_ids \cup {NoId},
         NEW id \in CapIds \ issued_ids, IssueStep(g, p, id)
  PROVE  /\ issued_ids' = issued_ids \cup {id}
         /\ CapabilitiesKept
         /\ capabilities'[id].subject = g.subject
         /\ capabilities'[id].body = g.body
         /\ capabilities'[id].parent = p
         /\ g.subject \in DOMAIN subjects
         /\ DOMAIN held' = DOMAIN held
         /\ held'[g.subject] = held[g.subject] \cup {id}
         /\ \A s \in DOMAIN held : s # g.subject => held'[s] = held[s]
         /\ UNCHANGED <<subjects, subject_statuses, revoked, authorization_epoch>>
<1>1. g.subject \in DOMAIN subjects /\ DOMAIN held = DOMAIN subjects
  BY DEF TypeOK, IssueStep, SubjectRunning
<1>2. held' = Insert(held, g.subject, held[g.subject] \cup {id})
  BY DEF IssueStep, issue_with_id
<1>3. capabilities' = Insert(capabilities, id,
                        [subject |-> g.subject, delegable |-> g.delegable,
                         body |-> g.body, parent |-> p])
  BY DEF IssueStep, issue_with_id
<1>4. /\ issued_ids' = issued_ids \cup {id}
      /\ CapabilitiesKept
      /\ capabilities'[id].subject = g.subject
      /\ capabilities'[id].body = g.body
      /\ capabilities'[id].parent = p
  BY <1>3 DEF Insert, issued_ids, CapabilitiesKept
<1>5. /\ DOMAIN held' = DOMAIN held
      /\ held'[g.subject] = held[g.subject] \cup {id}
      /\ \A s \in DOMAIN held : s # g.subject => held'[s] = held[s]
  BY <1>1, <1>2 DEF Insert
<1> QED
  BY <1>1, <1>4, <1>5 DEF IssueStep, issue_with_id

\* No step removes or rewrites an issued capability.
LEMMA StepKeepsCapabilities ==
  ASSUME TypeOK, [Next]_stateVars
  PROVE  CapabilitiesKept
<1>1. ASSUME NEW g \in CapabilityGrant, NEW p \in issued_ids \cup {NoId},
             NEW id \in CapIds \ issued_ids, IssueStep(g, p, id)
      PROVE  CapabilitiesKept
  BY <1>1, IssueFacts
<1>2. CASE capabilities' = capabilities
  BY <1>2 DEF CapabilitiesKept, issued_ids
<1> QED
  BY <1>1, <1>2, StepCases
     DEF register_subject, revoke_existing, begin_subject_close, finish_subject_close

----------------------------------------------------------------------------
(* The inductive invariant: one-step forms of the properties.               *)

\* Every issued capability is in the held set of its registered subject.
HeldBySubject ==
  \A c \in issued_ids :
    capabilities[c].subject \in DOMAIN subjects /\ c \in held[capabilities[c].subject]

\* A capability is below its parent and below the envelope of its subject.
StepAttenuates ==
  \A c \in issued_ids :
    /\ capabilities[c].parent # NoId =>
         BodyBelow(capabilities[c].body, capabilities[capabilities[c].parent].body)
    /\ BodyBelow(capabilities[c].body, subjects[capabilities[c].subject])

\* What a subject that left Running holds is revoked.
ClosingRevokes ==
  \A s \in DOMAIN subjects : subject_statuses[s] # "Running" => held[s] \subseteq revoked

IInv == TypeOK /\ ParentsIssued /\ HeldBySubject /\ StepAttenuates /\ ClosingRevokes

\* Issuing a validated capability keeps the inductive invariant.
LEMMA IssueKeepsIInv ==
  ASSUME IInv, TypeOK', NEW g \in CapabilityGrant, NEW p \in issued_ids \cup {NoId},
         NEW id \in CapIds \ issued_ids, IssueStep(g, p, id)
  PROVE  IInv'
<1>0. TypeOK
  BY DEF IInv
<1>1. /\ issued_ids' = issued_ids \cup {id}
      /\ CapabilitiesKept
      /\ capabilities'[id].subject = g.subject
      /\ capabilities'[id].body = g.body
      /\ capabilities'[id].parent = p
      /\ g.subject \in DOMAIN subjects
      /\ DOMAIN held' = DOMAIN held
      /\ held'[g.subject] = held[g.subject] \cup {id}
      /\ \A s \in DOMAIN held : s # g.subject => held'[s] = held[s]
      /\ UNCHANGED <<subjects, subject_statuses, revoked, authorization_epoch>>
  BY <1>0, IssueFacts
<1>2. DOMAIN held = DOMAIN subjects /\ SubjectRunning(g.subject)
  BY DEF IInv, TypeOK, IssueStep
<1>3. ParentsIssued'
  BY <1>1 DEF IInv, ParentsIssued, CapabilitiesKept
<1>4. HeldBySubject'
  <2> SUFFICES ASSUME NEW c \in issued_ids'
               PROVE  /\ capabilities'[c].subject \in DOMAIN subjects
                      /\ c \in held'[capabilities'[c].subject]
    BY <1>1 DEF HeldBySubject
  <2>1. CASE c = id
    BY <2>1, <1>1
  <2>2. CASE c \in issued_ids
    BY <2>2, <1>1, <1>2 DEF IInv, HeldBySubject, CapabilitiesKept
  <2> QED BY <2>1, <2>2, <1>1
<1>5. StepAttenuates'
  <2> SUFFICES ASSUME NEW c \in issued_ids'
               PROVE  /\ capabilities'[c].parent # NoId =>
                           BodyBelow(capabilities'[c].body,
                                     capabilities'[capabilities'[c].parent].body)
                      /\ BodyBelow(capabilities'[c].body, subjects[capabilities'[c].subject])
    BY <1>1 DEF StepAttenuates, BodyBelow
  <2>1. CASE c = id
    BY <2>1, <1>1 DEF IssueStep, CapabilitiesKept
  <2>2. CASE c \in issued_ids
    BY <2>2, <1>1 DEF IInv, StepAttenuates, CapabilitiesKept, ParentsIssued
  <2> QED BY <2>1, <2>2, <1>1
<1>6. ClosingRevokes'
  BY <1>1, <1>2 DEF IInv, ClosingRevokes, SubjectRunning
<1> QED BY <1>3, <1>4, <1>5, <1>6 DEF IInv

\* The inductive invariant holds in every reachable state.
LEMMA InductiveInvariant == Spec => []IInv
<1>1. Init => IInv
  <2>1. Init => TypeOK
    BY ConstantsAssumption DEF Init, TypeOK, issued_ids
  <2>2. Init => issued_ids = {} /\ DOMAIN subjects = {}
    BY DEF Init, issued_ids
  <2> QED BY <2>1, <2>2 DEF IInv, ParentsIssued, HeldBySubject, StepAttenuates, ClosingRevokes
<1>2. IInv /\ TypeOK' /\ [Next]_stateVars => IInv'
  <2> SUFFICES ASSUME IInv, TypeOK', [Next]_stateVars PROVE IInv'
    OBVIOUS
  <2>1. ASSUME NEW g \in CapabilityGrant, NEW p \in issued_ids \cup {NoId},
               NEW id \in CapIds \ issued_ids, IssueStep(g, p, id)
        PROVE  IInv'
    BY <2>1, IssueKeepsIInv
  <2>2. ASSUME NEW s \in SubjectIds, NEW p \in SubjectIds \cup {NoId}, NEW e \in Bodies,
               register_subject(s, p, e)
        PROVE  IInv'
    <3>1. /\ s \notin DOMAIN subjects
          /\ DOMAIN subjects' = DOMAIN subjects \cup {s}
          /\ \A x \in DOMAIN subjects : subjects'[x] = subjects[x]
          /\ capabilities' = capabilities /\ revoked' = revoked /\ issued_ids' = issued_ids
      BY <2>2 DEF register_subject, Insert, issued_ids
    <3>2. /\ \A x \in DOMAIN subjects : subject_statuses'[x] = subject_statuses[x]
          /\ subject_statuses'[s] = "Running"
          /\ \A x \in DOMAIN subjects : held'[x] = held[x]
      BY <2>2 DEF register_subject, Insert, IInv, TypeOK
    <3> QED
      BY <3>1, <3>2 DEF IInv, ParentsIssued, HeldBySubject, StepAttenuates, ClosingRevokes, BodyBelow
  <2>3. ASSUME NEW c \in issued_ids, revoke_existing(c)
        PROVE  IInv'
    BY <2>3 DEF revoke_existing, IInv, ParentsIssued, HeldBySubject, StepAttenuates,
                ClosingRevokes, BodyBelow, issued_ids
  <2>4. ASSUME NEW s \in SubjectIds, begin_subject_close(s)
        PROVE  IInv'
    <3>1. /\ UNCHANGED <<subjects, capabilities, held>> /\ issued_ids' = issued_ids
          /\ revoked' = revoked \cup held[s]
          /\ \A x \in DOMAIN subjects : x # s => subject_statuses'[x] = subject_statuses[x]
      BY <2>4 DEF begin_subject_close, issued_ids, IInv, TypeOK
    <3> QED BY <3>1 DEF IInv, ParentsIssued, HeldBySubject, StepAttenuates, ClosingRevokes, BodyBelow
  <2>5. ASSUME NEW s \in SubjectIds, finish_subject_close(s)
        PROVE  IInv'
    <3>1. /\ UNCHANGED <<subjects, capabilities, held, revoked>> /\ issued_ids' = issued_ids
          /\ \A x \in DOMAIN subjects : x # s => subject_statuses'[x] = subject_statuses[x]
          /\ s \in DOMAIN subjects /\ subject_statuses[s] # "Running"
      BY <2>5 DEF finish_subject_close, issued_ids, IInv, TypeOK
    <3> QED BY Zenon, <3>1 DEF IInv, ParentsIssued, HeldBySubject, StepAttenuates, ClosingRevokes, BodyBelow
  <2>6. CASE UNCHANGED <<subjects, subject_statuses, capabilities, held, revoked,
                         authorization_epoch>>
    BY <2>6 DEF IInv, ParentsIssued, HeldBySubject, StepAttenuates, ClosingRevokes,
                BodyBelow, issued_ids
  <2> QED
    BY <2>1, <2>2, <2>3, <2>4, <2>5, <2>6, StepCases DEF IInv
<1> QED BY <1>1, <1>2, TypeCorrect, PTL DEF Spec

----------------------------------------------------------------------------
(* The theorems.                                                            *)

\* Attenuation composes: below a body that is below a third is below the third.
LEMMA BodyBelowTransitive ==
  ASSUME NEW a \in Bodies, NEW b \in Bodies, NEW c \in Bodies, BodyBelow(a, b), BodyBelow(b, c)
  PROVE  BodyBelow(a, c)
<1>1. \A x \in Bodies : x.validity[1] \in Int /\ x.validity[2] \in Int
  BY Zenon, ConstantsAssumption DEF Windows
<1> QED BY <1>1 DEF BodyBelow

\* A capability's body is below itself.
LEMMA BodyBelowReflexive ==
  ASSUME NEW a \in Bodies
  PROVE  BodyBelow(a, a)
<1>1. a.validity[1] \in Int /\ a.validity[2] \in Int
  BY Zenon, ConstantsAssumption DEF Windows
<1> QED BY <1>1 DEF BodyBelow

\* Delegation only attenuates along whole chains: derive compares a grant with
\* its direct parent only, and that is enough for every ancestor.
THEOREM Attenuation == Spec => []DelegationAttenuates
<1>1. IInv => DelegationAttenuates
  <2> SUFFICES ASSUME IInv, NEW c \in issued_ids
               PROVE  /\ \A d \in Chain(c) : BodyBelow(capabilities[c].body, capabilities[d].body)
                      /\ BodyBelow(capabilities[c].body, subjects[capabilities[c].subject])
    BY DEF DelegationAttenuates
  <2>1. \A d \in issued_ids : capabilities[d].body \in Bodies
    BY DEF IInv, TypeOK, Capability
  <2> DEFINE A == {d \in issued_ids : BodyBelow(capabilities[c].body, capabilities[d].body)}
  <2>2. c \in A
    BY <2>1, BodyBelowReflexive
  <2>3. ParentClosed(A)
    <3> SUFFICES ASSUME NEW d \in A, capabilities[d].parent # NoId
                 PROVE  capabilities[d].parent \in A
      BY DEF ParentClosed
    <3>1. capabilities[d].parent \in issued_ids
      BY DEF IInv, ParentsIssued
    <3>2. BodyBelow(capabilities[d].body, capabilities[capabilities[d].parent].body)
      BY DEF IInv, StepAttenuates
    <3> QED BY <2>1, <3>1, <3>2, BodyBelowTransitive
  <2>4. Chain(c) \subseteq A
    BY <2>2, <2>3, ChainMinimal
  <2> QED BY <2>4 DEF IInv, StepAttenuates
<1> QED BY <1>1, InductiveInvariant, PTL

\* Closing a subject disables everything delegated below what it held.
THEOREM ClosingDisablesSubtree == Spec => []ClosedSubjectDisablesSubtree
<1>1. IInv => ClosedSubjectDisablesSubtree
  <2> SUFFICES ASSUME IInv, NEW c \in issued_ids, NEW now \in Times,
                      NEW d \in Chain(c), ~SubjectRunning(capabilities[d].subject)
               PROVE  ~is_effectively_active(c, now)
    BY DEF ClosedSubjectDisablesSubtree
  <2>1. d \in issued_ids
    BY DEF Chain
  <2>2. d \in revoked
    BY <2>1 DEF IInv, HeldBySubject, ClosingRevokes, SubjectRunning, TypeOK
  <2> QED BY <2>2 DEF is_effectively_active
<1> QED BY <1>1, InductiveInvariant, PTL

\* The set of revoked capabilities only grows.
LEMMA RevokedGrows ==
  ASSUME TypeOK, [Next]_stateVars
  PROVE  revoked \subseteq revoked'
<1>1. ASSUME NEW g \in CapabilityGrant, NEW p \in issued_ids \cup {NoId},
             NEW id \in CapIds \ issued_ids, IssueStep(g, p, id)
      PROVE  revoked' = revoked
  BY <1>1 DEF IssueStep, issue_with_id
<1> QED
  BY <1>1, StepCases
     DEF register_subject, revoke_existing, begin_subject_close, finish_subject_close

\* Authority is never resurrected: revocation and expiry are final for every
\* capability, whichever operations follow.
THEOREM NeverResurrected == Spec => InactiveStaysInactive
<1>1. IInv /\ [Next]_stateVars =>
        \A c \in issued_ids, t \in Times :
          ~is_effectively_active(c, t) => ~is_effectively_active(c, t)'
  <2> SUFFICES ASSUME IInv, [Next]_stateVars, NEW c \in issued_ids, NEW t \in Times,
                      is_effectively_active(c, t)'
               PROVE  is_effectively_active(c, t)
    OBVIOUS
  <2>1. TypeOK /\ ParentsIssued
    BY DEF IInv
  <2>2. CapabilitiesKept /\ revoked \subseteq revoked'
    BY <2>1, StepKeepsCapabilities, RevokedGrows
  <2>3. Chain(c)' = Chain(c) /\ Chain(c) \subseteq issued_ids
    BY <2>1, <2>2, ChainStable DEF Chain
  <2>4. \A d \in Chain(c) :
          d \notin revoked' /\ WindowContains(capabilities'[d].body.validity, t)
    BY <2>3 DEF is_effectively_active, WindowContains
  <2> QED BY <2>2, <2>3, <2>4 DEF is_effectively_active, CapabilitiesKept
<1> QED BY <1>1, InductiveInvariant, PTL DEF Spec, InactiveStaysInactive

\* Steps that leave the epoch alone leave every decision alone.
LEMMA SameDecision ==
  ASSUME IInv, CapabilitiesKept, revoked' = revoked,
         NEW s \in DOMAIN subjects, NEW c \in issued_ids, NEW t \in Times,
         SubjectRunning(s)' <=> SubjectRunning(s),
         is_held_by(s, c)' <=> is_held_by(s, c)
  PROVE  active_capability(s, c, t)' <=> active_capability(s, c, t)
<1>1. Chain(c)' = Chain(c) /\ Chain(c) \subseteq issued_ids
  BY ChainStable DEF Chain, IInv
<1>2. c \in issued_ids' /\ capabilities'[c].subject = capabilities[c].subject
  BY DEF CapabilitiesKept
<1>3. is_effectively_active(c, t)' <=> is_effectively_active(c, t)
  BY <1>1, <1>2 DEF is_effectively_active, CapabilitiesKept, WindowContains
<1> QED BY <1>2, <1>3 DEF active_capability

\* A decision changes only with the epoch, so an authorization recorded with an
\* epoch can be compared with the current one.
THEOREM EpochCoversDecisions == Spec => EpochGuardsDecisions
<1>1. IInv /\ [Next]_stateVars =>
        \A s \in DOMAIN subjects, c \in issued_ids, t \in Times :
          active_capability(s, c, t) # active_capability(s, c, t)'
            => authorization_epoch' = authorization_epoch + 1
  <2> SUFFICES ASSUME IInv, [Next]_stateVars,
                      NEW s \in DOMAIN subjects, NEW c \in issued_ids, NEW t \in Times,
                      ~(active_capability(s, c, t)' <=> active_capability(s, c, t))
               PROVE  authorization_epoch' = authorization_epoch + 1
    BY DEF active_capability
  <2>0. TypeOK /\ CapabilitiesKept
    BY StepKeepsCapabilities DEF IInv
  <2>1. ASSUME NEW g \in CapabilityGrant, NEW p \in issued_ids \cup {NoId},
               NEW id \in CapIds \ issued_ids, IssueStep(g, p, id)
        PROVE  FALSE
    <3>1. /\ DOMAIN held' = DOMAIN held
          /\ held'[g.subject] = held[g.subject] \cup {id}
          /\ \A x \in DOMAIN held : x # g.subject => held'[x] = held[x]
          /\ UNCHANGED <<subject_statuses, revoked>>
      BY <2>0, <2>1, IssueFacts
    <3>2. is_held_by(s, c)' <=> is_held_by(s, c)
      BY <3>1 DEF is_held_by
    <3>3. SubjectRunning(s)' <=> SubjectRunning(s)
      BY <3>1 DEF SubjectRunning
    <3> QED BY <2>0, <3>1, <3>2, <3>3, SameDecision
  <2>2. ASSUME NEW x \in SubjectIds, NEW p \in SubjectIds \cup {NoId}, NEW e \in Bodies,
               register_subject(x, p, e)
        PROVE  FALSE
    <3>1. s # x /\ DOMAIN held = DOMAIN subjects /\ DOMAIN subject_statuses = DOMAIN subjects
      BY <2>2 DEF register_subject, IInv, TypeOK
    <3>2. is_held_by(s, c)' <=> is_held_by(s, c)
      BY <2>2, <3>1 DEF register_subject, is_held_by, Insert
    <3>3. SubjectRunning(s)' <=> SubjectRunning(s)
      BY Zenon, <2>2, <3>1 DEF register_subject, SubjectRunning, Insert
    <3>4. revoked' = revoked
      BY Zenon, <2>2 DEF register_subject
    <3> QED BY <2>0, <3>2, <3>3, <3>4, SameDecision
  <2>3. ASSUME NEW x \in issued_ids, revoke_existing(x)
        PROVE  authorization_epoch' = authorization_epoch + 1
    BY <2>3 DEF revoke_existing, next_authorization_epoch
  <2>4. ASSUME NEW x \in SubjectIds, begin_subject_close(x)
        PROVE  authorization_epoch' = authorization_epoch + 1
    BY <2>4 DEF begin_subject_close, next_authorization_epoch
  <2>5. ASSUME NEW x \in SubjectIds, finish_subject_close(x)
        PROVE  FALSE
    <3>1. is_held_by(s, c)' <=> is_held_by(s, c)
      BY <2>5 DEF finish_subject_close, is_held_by
    <3>2. SubjectRunning(s)' <=> SubjectRunning(s)
      BY <2>5 DEF finish_subject_close, SubjectRunning
    <3>3. revoked' = revoked
      BY <2>5 DEF finish_subject_close
    <3> QED BY <2>0, <3>1, <3>2, <3>3, SameDecision
  <2>6. CASE UNCHANGED <<subjects, subject_statuses, capabilities, held, revoked,
                         authorization_epoch>>
    <3>1. is_held_by(s, c)' <=> is_held_by(s, c)
      BY <2>6 DEF is_held_by
    <3>2. SubjectRunning(s)' <=> SubjectRunning(s)
      BY <2>6 DEF SubjectRunning
    <3> QED BY <2>0, <2>6, <3>1, <3>2, SameDecision
  <2> QED BY <2>0, <2>1, <2>2, <2>3, <2>4, <2>5, <2>6, StepCases
<1> QED BY <1>1, InductiveInvariant, PTL DEF Spec, EpochGuardsDecisions

\* allocate_capability_id leaves no hole behind: the sequence can only be
\* exhausted once every number of it is issued.
THEOREM NoSequenceHoles == Spec => []SequencePrefixIssued
<1>1. Init => SequencePrefixIssued
  BY DEF Init, SequencePrefixIssued
<1>2. TypeOK /\ SequencePrefixIssued /\ [Next]_stateVars => SequencePrefixIssued'
  <2> SUFFICES ASSUME TypeOK, SequencePrefixIssued, [Next]_stateVars
               PROVE  SequencePrefixIssued'
    OBVIOUS
  <2>1. issued_ids \subseteq issued_ids'
    BY StepKeepsCapabilities DEF CapabilitiesKept
  <2>2. CASE next_capability_sequence' = next_capability_sequence
    BY <2>1, <2>2 DEF SequencePrefixIssued
  <2>3. ASSUME NEW g, NEW p, issue(g, p)
        PROVE  SequencePrefixIssued'
    <3>1. PICK id \in UnusedSequences :
            /\ \A n \in UnusedSequences : id <= n
            /\ next_capability_sequence' = id + 1
            /\ issue_with_id(g, p, id)
      BY <2>3 DEF issue
    <3>2. id \in issued_ids'
      BY Zenon, <3>1 DEF issue_with_id, issued_ids, Insert
    <3>3. \A n \in 0 .. id : n \in issued_ids \/ n = id
      BY <3>1, ConstantsAssumption DEF UnusedSequences, SequencePrefixIssued, TypeOK
    <3> QED
      BY <2>1, <3>1, <3>2, <3>3, ConstantsAssumption DEF SequencePrefixIssued, UnusedSequences, TypeOK
  <2>4. CASE issue_exhausted
    BY <2>1, <2>4, ConstantsAssumption
       DEF issue_exhausted, SequencePrefixIssued, UnusedSequences, TypeOK
  <2> QED
    BY Zenon, <2>2, <2>3, <2>4
       DEF Next, stateVars, register_subject, register_open_handle, close_handle, issue_root,
           issue_root_with_id, derive, revoke, revoke_held_by, revoke_existing,
           begin_subject_close, finish_subject_close
<1> QED BY <1>1, <1>2, TypeCorrect, PTL DEF Spec

\* Every ancestry is finite, ends at a root and respects MAX_DELEGATION_DEPTH:
\* derive counts the ancestry of the parent, and the child adds one node.
ChainBounded(c) ==
  /\ \E r \in Chain(c) : capabilities[r].parent = NoId
  /\ IsFiniteSet(Chain(c))
  /\ Cardinality(Chain(c)) <= MAX_DELEGATION_DEPTH

\* A bound on an existing chain survives the issue of another capability.
LEMMA ChainBoundedStable ==
  ASSUME ParentsIssued, CapabilitiesKept, NEW c \in issued_ids, ChainBounded(c)
  PROVE  ChainBounded(c)'
<1>1. Chain(c)' = Chain(c) /\ Chain(c) \subseteq issued_ids
  BY ChainStable DEF Chain
<1> QED BY <1>1 DEF ChainBounded, CapabilitiesKept

\* A capability issued under a chain below the limit ends a chain within it.
LEMMA ChainBoundedNew ==
  ASSUME IInv, \A c \in issued_ids : ChainBounded(c),
         NEW g \in CapabilityGrant, NEW p \in issued_ids \cup {NoId},
         NEW id \in CapIds \ issued_ids, IssueStep(g, p, id)
  PROVE  ChainBounded(id)'
<1>1. TypeOK /\ ParentsIssued
  BY DEF IInv
<1>2. issued_ids' = issued_ids \cup {id} /\ CapabilitiesKept /\ capabilities'[id].parent = p
  BY <1>1, IssueFacts
<1>3. NoId \notin issued_ids'
  BY <1>1, <1>2, ConstantsAssumption DEF TypeOK
<1>4. Chain(id)' = {id} \cup (IF p = NoId THEN {} ELSE Chain(p))
  BY <1>1, <1>2, <1>3, ChainOfNew
<1>5. CASE p = NoId
  <2>1. Chain(id)' = {id}
    BY <1>4, <1>5
  <2>2. IsFiniteSet({id}) /\ Cardinality({id}) = 1
    BY Zenon, FS_Singleton
  <2> QED BY <1>2, <1>5, <2>1, <2>2, ConstantsAssumption DEF ChainBounded
<1>6. CASE p # NoId
  <2>1. p \in issued_ids /\ ChainBounded(p) /\ Cardinality(Chain(p)) < MAX_DELEGATION_DEPTH
    BY <1>6 DEF IssueStep, delegation_depth
  <2>2. Chain(id)' = Chain(p) \cup {id} /\ id \notin Chain(p) /\ Chain(p) \subseteq issued_ids
    BY <1>4, <1>6 DEF Chain
  <2>3. IsFiniteSet(Chain(p) \cup {id}) /\ Cardinality(Chain(p) \cup {id}) = Cardinality(Chain(p)) + 1
    BY <2>1, <2>2, FS_AddElement DEF ChainBounded
  <2>4. Cardinality(Chain(p)) \in Nat
    BY <2>1, FS_CardinalityType DEF ChainBounded
  <2>5. \E r \in Chain(id)' : capabilities'[r].parent = NoId
    BY <1>2, <2>1, <2>2 DEF ChainBounded, CapabilitiesKept
  <2> QED BY <2>1, <2>2, <2>3, <2>4, <2>5, ConstantsAssumption DEF ChainBounded
<1> QED BY <1>5, <1>6

\* The cycle guards of the ancestry walks never fire, and no chain exceeds the
\* documented depth.
THEOREM ChainsBounded == Spec => []ChainsEndAtRoot
<1> DEFINE B == \A c \in issued_ids : ChainBounded(c)
<1>1. Init => B
  BY DEF Init, issued_ids
<1>2. IInv /\ B /\ [Next]_stateVars => B'
  <2> SUFFICES ASSUME IInv, B, [Next]_stateVars PROVE B'
    OBVIOUS
  <2>1. TypeOK /\ ParentsIssued /\ CapabilitiesKept
    BY StepKeepsCapabilities DEF IInv
  <2>2. \A c \in issued_ids : ChainBounded(c)'
    BY <2>1, ChainBoundedStable
  <2>3. ASSUME NEW g \in CapabilityGrant, NEW p \in issued_ids \cup {NoId},
               NEW id \in CapIds \ issued_ids, IssueStep(g, p, id)
        PROVE  B'
    <3>1. ChainBounded(id)' /\ issued_ids' = issued_ids \cup {id}
      BY <2>1, <2>3, ChainBoundedNew, IssueFacts
    <3> QED BY <2>2, <3>1
  <2>4. CASE capabilities' = capabilities
    BY <2>2, <2>4 DEF issued_ids
  <2> QED
    BY <2>1, <2>3, <2>4, StepCases
       DEF register_subject, revoke_existing, begin_subject_close, finish_subject_close
<1>3. B => ChainsEndAtRoot
  BY DEF ChainsEndAtRoot, ChainBounded, delegation_depth
<1> QED BY <1>1, <1>2, <1>3, InductiveInvariant, PTL DEF Spec

\* Capability and handle identities are bound once.
THEOREM IdentitiesBoundOnce == Spec => IdentitiesNeverRebound
<1> DEFINE P == /\ \A c \in issued_ids : c \in issued_ids' /\ capabilities'[c] = capabilities[c]
                /\ \A s \in DOMAIN held : held[s] \subseteq held'[s]
                /\ \A h \in DOMAIN issued_handle_owners \ open_handles : h \notin open_handles'
<1>1. TypeOK /\ [Next]_stateVars => P
  <2> SUFFICES ASSUME TypeOK, [Next]_stateVars PROVE P
    OBVIOUS
  <2>1. \A c \in issued_ids : c \in issued_ids' /\ capabilities'[c] = capabilities[c]
    BY StepKeepsCapabilities DEF CapabilitiesKept
  <2>2. \A s \in DOMAIN held : held[s] \subseteq held'[s]
    <3>1. ASSUME NEW g \in CapabilityGrant, NEW p \in issued_ids \cup {NoId},
                 NEW id \in CapIds \ issued_ids, IssueStep(g, p, id)
          PROVE  \A s \in DOMAIN held : held[s] \subseteq held'[s]
      BY <3>1, IssueFacts
    <3>2. ASSUME NEW s \in SubjectIds, NEW p \in SubjectIds \cup {NoId}, NEW e \in Bodies,
                 register_subject(s, p, e)
          PROVE  \A x \in DOMAIN held : held[x] \subseteq held'[x]
      BY <3>2 DEF register_subject, Insert, TypeOK
    <3> QED BY <3>1, <3>2, StepCases
            DEF revoke_existing, begin_subject_close, finish_subject_close
  <2>3. \A h \in DOMAIN issued_handle_owners \ open_handles : h \notin open_handles'
    <3>1. ASSUME NEW h \in HandleIds, NEW s \in SubjectIds,
                 register_open_handle(h, s) \/ close_handle(s, h)
          PROVE  \A x \in DOMAIN issued_handle_owners \ open_handles : x \notin open_handles'
      BY <3>1 DEF register_open_handle, close_handle
    <3>2. CASE open_handles' = open_handles
      BY <3>2
    <3> QED
      BY Zenon, <3>1, <3>2
         DEF Next, stateVars, register_subject, issue_root, issue_root_with_id, derive, issue,
             issue_exhausted, issue_with_id, revoke, revoke_held_by, revoke_existing,
             begin_subject_close, finish_subject_close
  <2> QED BY <2>1, <2>2, <2>3
<1> QED BY <1>1, TypeCorrect, PTL DEF Spec, IdentitiesNeverRebound

\* finish_subject_close never closes a subject over an open handle, and no
\* handle is opened for a subject that has left Running.
THEOREM ClosedWithoutHandles == Spec => []ClosedSubjectHasNoHandles
<1>1. Init => ClosedSubjectHasNoHandles
  BY DEF Init, ClosedSubjectHasNoHandles
<1>2. TypeOK /\ ClosedSubjectHasNoHandles /\ [Next]_stateVars => ClosedSubjectHasNoHandles'
  <2> SUFFICES ASSUME TypeOK, ClosedSubjectHasNoHandles, [Next]_stateVars
               PROVE  ClosedSubjectHasNoHandles'
    OBVIOUS
  <2>1. ASSUME NEW s \in SubjectIds, NEW p \in SubjectIds \cup {NoId}, NEW e \in Bodies,
               register_subject(s, p, e)
        PROVE  ClosedSubjectHasNoHandles'
    BY <2>1 DEF register_subject, Insert, ClosedSubjectHasNoHandles, TypeOK
  <2>2. ASSUME NEW h \in HandleIds, NEW s \in SubjectIds, register_open_handle(h, s)
        PROVE  ClosedSubjectHasNoHandles'
    BY <2>2 DEF register_open_handle, SubjectRunning, Insert, ClosedSubjectHasNoHandles, TypeOK
  <2>3. ASSUME NEW h \in HandleIds, NEW s \in SubjectIds, close_handle(s, h)
        PROVE  ClosedSubjectHasNoHandles'
    BY <2>3 DEF close_handle, ClosedSubjectHasNoHandles
  <2>4. ASSUME NEW s \in SubjectIds, begin_subject_close(s)
        PROVE  ClosedSubjectHasNoHandles'
    BY <2>4 DEF begin_subject_close, ClosedSubjectHasNoHandles, TypeOK
  <2>5. ASSUME NEW s \in SubjectIds, finish_subject_close(s)
        PROVE  ClosedSubjectHasNoHandles'
    <3> DEFINE H == {h \in open_handles : issued_handle_owners[h] = s}
    <3>1. IsFiniteSet(H)
      BY ConstantsAssumption, FS_Subset DEF TypeOK
    <3>2. H = {}
      BY <2>5, <3>1, FS_EmptySet DEF finish_subject_close, subject_open_handle_count
    <3> QED BY <2>5, <3>2 DEF finish_subject_close, ClosedSubjectHasNoHandles, TypeOK
  <2>6. CASE UNCHANGED <<open_handles, issued_handle_owners, subject_statuses>>
    BY <2>6 DEF ClosedSubjectHasNoHandles
  <2> QED
    BY Zenon, <2>1, <2>2, <2>3, <2>4, <2>5, <2>6
       DEF Next, stateVars, issue_root, issue_root_with_id, derive, issue, issue_exhausted,
           issue_with_id, revoke, revoke_held_by, revoke_existing
<1> QED BY <1>1, <1>2, TypeCorrect, PTL DEF Spec
=============================================================================
