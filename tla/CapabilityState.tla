---------------------------- MODULE CapabilityState ----------------------------
(****************************************************************************)
(* The sequential capability state machine of the authority core            *)
(* (crates/authority-core/src/state.rs, capability.rs, time.rs).            *)
(*                                                                          *)
(* A session state registers subjects with an authority ceiling (their      *)
(* envelope), issues root capabilities, derives narrower ones from held     *)
(* ones, revokes, tracks open handles, and closes subjects.  Every          *)
(* operation of the code is one action; a call the code refuses with an     *)
(* error and no state change is a stuttering step.                          *)
(*                                                                          *)
(* Data is abstracted to what the transitions compare: an authority body    *)
(* is the set of rights (requests) it permits, so authority_body_below is   *)
(* inclusion; a time window is its pair of bounds; a capability identity    *)
(* is either a sequence number, standing for the string issuer:n, or an     *)
(* externally allocated name.                                               *)
(****************************************************************************)
EXTENDS Integers, FiniteSets

CONSTANTS
  SubjectIds, HandleIds, Rights,
  ExternalIds,                   \* capability names no sequence number spells
  NoId,                          \* Option::None for a parent
  Bodies,                        \* the [validity, authority] pairs of the instance
  Times,                         \* MonotonicTime values of the instance
  MAX_SUBJECTS_PER_SESSION, MAX_CAPABILITIES_PER_SESSION,
  MAX_HANDLES_PER_SESSION, MAX_DELEGATION_DEPTH,
  MAX_SEQUENCE,                  \* u64::MAX of the capability sequence
  MAX_EPOCH                      \* u64::MAX of the authorization epoch

CapIds == (0 .. MAX_SEQUENCE) \cup ExternalIds

Windows == {w \in Times \X Times : w[1] < w[2]}

ASSUME ConstantsAssumption ==
  /\ Times \subseteq Int
  /\ Bodies \subseteq [validity : Windows, authority : SUBSET Rights]
  /\ MAX_SEQUENCE \in Nat
  /\ MAX_EPOCH \in Nat
  /\ MAX_DELEGATION_DEPTH \in Nat \ {0}
  /\ ExternalIds \cap Int = {}
  /\ IsFiniteSet(HandleIds)
  /\ NoId \notin SubjectIds \cup CapIds

VARIABLES
  next_capability_sequence,      \* MAX_SEQUENCE + 1 stands for None (exhausted)
  subjects,                      \* registered subject -> envelope; the parent link is only
                                 \* read while registering
  subject_statuses,
  capabilities,                  \* issued id -> capability; its domain is issued_ids
  held,
  revoked,
  authorization_epoch,
  open_handles,
  issued_handle_owners

stateVars == <<next_capability_sequence, subjects, subject_statuses, capabilities,
               held, revoked, authorization_epoch, open_handles, issued_handle_owners>>

----------------------------------------------------------------------------
(* Types.                                                                   *)

SubjectStatus == {"Running", "Closing", "Closed"}

CapabilityGrant == [subject : SubjectIds, delegable : BOOLEAN, body : Bodies]

Capability == [subject : SubjectIds, delegable : BOOLEAN, body : Bodies,
               parent : CapIds \cup {NoId}]

\* The map f with key k bound to v (BTreeMap::insert).
Insert(f, k, v) == [x \in DOMAIN f \cup {k} |-> IF x = k THEN v ELSE f[x]]

\* TimeWindow::contains: the half-open interval.
WindowContains(w, t) == w[1] <= t /\ t < w[2]

\* TimeWindow::is_subset_of together with authority_body_below.
BodyBelow(child, parent) ==
  /\ parent.validity[1] <= child.validity[1]
  /\ child.validity[2] <= parent.validity[2]
  /\ child.authority \subseteq parent.authority

----------------------------------------------------------------------------
(* The delegation ancestry.                                                 *)

issued_ids == DOMAIN capabilities

ParentClosed(A) ==
  \A d \in A : capabilities[d].parent # NoId => capabilities[d].parent \in A

\* The capabilities the `while let Some(current)` walk visits: the least set
\* that holds c and the parent of each of its members.
Chain(c) ==
  {d \in issued_ids : \A A \in SUBSET issued_ids : c \in A /\ ParentClosed(A) => d \in A}

is_held_by(s, c) == s \in DOMAIN held /\ c \in held[s]

\* Mutant: only the capability itself is looked at, not its ancestors.
active_without_ancestors(c, now) ==
  /\ c \in issued_ids
  /\ c \notin revoked
  /\ WindowContains(capabilities[c].body.validity, now)

is_effectively_active(c, now) ==
  /\ c \in issued_ids
  /\ \A d \in Chain(c) : d \notin revoked /\ WindowContains(capabilities[d].body.validity, now)

delegation_depth(c) == Cardinality(Chain(c))

SubjectRunning(s) == s \in DOMAIN subject_statuses /\ subject_statuses[s] = "Running"

active_capability(s, c, now) ==
  /\ SubjectRunning(s)
  /\ c \in issued_ids
  /\ capabilities[c].subject = s
  /\ is_held_by(s, c)
  /\ is_effectively_active(c, now)

authorizes(s, c, right, now) ==
  /\ active_capability(s, c, now)
  /\ WindowContains(capabilities[c].body.validity, now)
  /\ right \in capabilities[c].body.authority

subject_open_handle_count(s) ==
  Cardinality({h \in open_handles : issued_handle_owners[h] = s})

----------------------------------------------------------------------------
(* Operations.                                                              *)

Init ==
  /\ next_capability_sequence = 0
  /\ subjects = << >>
  /\ subject_statuses = << >>
  /\ capabilities = << >>
  /\ held = << >>
  /\ revoked = {}
  /\ authorization_epoch = 0
  /\ open_handles = {}
  /\ issued_handle_owners = << >>

\* Mutant: the new subject gets no set of held capabilities.
register_subject_unheld(s, parent, envelope) ==
  /\ s \notin DOMAIN subjects
  /\ parent # NoId => SubjectRunning(parent)
  /\ Cardinality(DOMAIN subjects) < MAX_SUBJECTS_PER_SESSION
  /\ subject_statuses' = Insert(subject_statuses, s, "Running")
  /\ subjects' = Insert(subjects, s, envelope)
  /\ UNCHANGED <<next_capability_sequence, capabilities, held, revoked, authorization_epoch,
                 open_handles, issued_handle_owners>>

register_subject(s, parent, envelope) ==
  /\ s \notin DOMAIN subjects
  /\ parent # NoId => SubjectRunning(parent)
  /\ Cardinality(DOMAIN subjects) < MAX_SUBJECTS_PER_SESSION
  /\ held' = Insert(held, s, {})
  /\ subject_statuses' = Insert(subject_statuses, s, "Running")
  /\ subjects' = Insert(subjects, s, envelope)
  /\ UNCHANGED <<next_capability_sequence, capabilities, revoked, authorization_epoch,
                 open_handles, issued_handle_owners>>

register_open_handle(h, s) ==
  /\ SubjectRunning(s)
  /\ h \notin DOMAIN issued_handle_owners
  /\ Cardinality(DOMAIN issued_handle_owners) < MAX_HANDLES_PER_SESSION
  /\ issued_handle_owners' = Insert(issued_handle_owners, h, s)
  /\ open_handles' = open_handles \cup {h}
  /\ UNCHANGED <<next_capability_sequence, subjects, subject_statuses, capabilities,
                 held, revoked, authorization_epoch>>

close_handle(caller, h) ==
  /\ h \in DOMAIN issued_handle_owners
  /\ issued_handle_owners[h] = caller
  /\ open_handles' = open_handles \ {h}
  /\ UNCHANGED <<next_capability_sequence, subjects, subject_statuses, capabilities,
                 held, revoked, authorization_epoch, issued_handle_owners>>

\* Mutant: the envelope of the receiving subject is not consulted.
validate_status_only(g) == SubjectRunning(g.subject)

\* Mutant: a subject that is closing may still receive capabilities.
validate_body_only(g) ==
  g.subject \in DOMAIN subjects /\ BodyBelow(g.body, subjects[g.subject])

validate_envelope(g) ==
  /\ SubjectRunning(g.subject)
  /\ BodyBelow(g.body, subjects[g.subject])

ensure_capability_capacity == Cardinality(issued_ids) < MAX_CAPABILITIES_PER_SESSION

issue_with_id(g, parent, id) ==
  /\ held' = Insert(held, g.subject, held[g.subject] \cup {id})
  /\ capabilities' = Insert(capabilities, id,
                       [subject |-> g.subject, delegable |-> g.delegable,
                        body |-> g.body, parent |-> parent])
  /\ UNCHANGED <<subjects, subject_statuses, revoked, authorization_epoch,
                 open_handles, issued_handle_owners>>

\* Mutant: the probe starts one past the next number.
UnusedSequencesLate ==
  {n \in next_capability_sequence + 1 .. MAX_SEQUENCE : n \notin issued_ids}

\* The sequence numbers allocate_capability_id still finds unused as it probes
\* forward past names an external caller already took.
UnusedSequences ==
  {n \in next_capability_sequence .. MAX_SEQUENCE : n \notin issued_ids}

\* issue: a full table refuses; otherwise the first unused sequence number
\* becomes the identity.
issue(g, parent) ==
  /\ ensure_capability_capacity
  /\ \E id \in UnusedSequences :
       /\ \A n \in UnusedSequences : id <= n
       /\ next_capability_sequence' = id + 1
       /\ issue_with_id(g, parent, id)

\* issue when the probe runs off the numeric space: the call fails and leaves
\* the sequence permanently exhausted.
issue_exhausted ==
  /\ ensure_capability_capacity
  /\ next_capability_sequence <= MAX_SEQUENCE
  /\ UnusedSequences = {}
  /\ next_capability_sequence' = MAX_SEQUENCE + 1
  /\ UNCHANGED <<subjects, subject_statuses, capabilities, held, revoked,
                 authorization_epoch, open_handles, issued_handle_owners>>

issue_root(g) ==
  /\ validate_envelope(g)
  /\ issue(g, NoId) \/ issue_exhausted

\* Mutant: an identity in use is not refused.
issue_root_reusing_id(id, g) ==
  /\ validate_envelope(g)
  /\ ensure_capability_capacity
  /\ issue_with_id(g, NoId, id)
  /\ UNCHANGED next_capability_sequence

issue_root_with_id(id, g) ==
  /\ validate_envelope(g)
  /\ id \notin issued_ids
  /\ ensure_capability_capacity
  /\ issue_with_id(g, NoId, id)
  /\ UNCHANGED next_capability_sequence

\* Mutant: off by one in the depth limit.
may_derive_deeper(caller, p, g, now) ==
  /\ active_capability(caller, p, now)
  /\ capabilities[p].delegable
  /\ BodyBelow(g.body, capabilities[p].body)
  /\ delegation_depth(p) <= MAX_DELEGATION_DEPTH

\* The checks of derive that precede validate_envelope and issue.
may_derive(caller, p, g, now) ==
  /\ SubjectRunning(caller)
  /\ p \in issued_ids
  /\ capabilities[p].subject = caller
  /\ is_held_by(caller, p)
  /\ is_effectively_active(p, now)
  /\ capabilities[p].delegable
  /\ BodyBelow(g.body, capabilities[p].body)
  /\ delegation_depth(p) < MAX_DELEGATION_DEPTH

derive(caller, p, g, now) ==
  /\ may_derive(caller, p, g, now)
  /\ validate_envelope(g)
  /\ issue(g, p) \/ issue_exhausted

\* Mutant: off by one at the end of the epochs.
next_epoch_wrapping ==
  /\ authorization_epoch <= MAX_EPOCH
  /\ authorization_epoch' = authorization_epoch + 1

\* next_authorization_epoch: None at u64::MAX fails the caller before any change.
next_authorization_epoch ==
  /\ authorization_epoch < MAX_EPOCH
  /\ authorization_epoch' = authorization_epoch + 1

\* Mutant: a revocation that keeps the epoch.
revoke_same_epoch(c) ==
  /\ c \notin revoked
  /\ revoked' = revoked \cup {c}
  /\ UNCHANGED <<next_capability_sequence, subjects, subject_statuses, capabilities,
                 held, authorization_epoch, open_handles, issued_handle_owners>>

\* The NewlyRevoked branch; AlreadyRevoked changes nothing.
revoke_existing(c) ==
  /\ c \notin revoked
  /\ next_authorization_epoch
  /\ revoked' = revoked \cup {c}
  /\ UNCHANGED <<next_capability_sequence, subjects, subject_statuses, capabilities,
                 held, open_handles, issued_handle_owners>>

revoke(c) == c \in issued_ids /\ revoke_existing(c)

revoke_held_by(caller, c) ==
  /\ c \in issued_ids
  /\ is_held_by(caller, c)
  /\ revoke_existing(c)

begin_subject_close(s) ==
  /\ SubjectRunning(s)
  /\ next_authorization_epoch
  /\ revoked' = revoked \cup held[s]
  /\ subject_statuses' = [subject_statuses EXCEPT ![s] = "Closing"]
  /\ UNCHANGED <<next_capability_sequence, subjects, capabilities, held,
                 open_handles, issued_handle_owners>>

\* Mutant: open handles do not hold up the close.
finish_close_with_handles(s) ==
  /\ s \in DOMAIN subject_statuses
  /\ subject_statuses[s] = "Closing"
  /\ subject_statuses' = [subject_statuses EXCEPT ![s] = "Closed"]
  /\ UNCHANGED <<next_capability_sequence, subjects, capabilities, held, revoked,
                 authorization_epoch, open_handles, issued_handle_owners>>

finish_subject_close(s) ==
  /\ s \in DOMAIN subject_statuses
  /\ subject_statuses[s] = "Closing"
  /\ subject_open_handle_count(s) = 0
  /\ subject_statuses' = [subject_statuses EXCEPT ![s] = "Closed"]
  /\ UNCHANGED <<next_capability_sequence, subjects, capabilities, held, revoked,
                 authorization_epoch, open_handles, issued_handle_owners>>

Next ==
  \/ \E s \in SubjectIds, p \in SubjectIds \cup {NoId}, e \in Bodies : register_subject(s, p, e)
  \/ \E h \in HandleIds, s \in SubjectIds : register_open_handle(h, s)
  \/ \E h \in HandleIds, s \in SubjectIds : close_handle(s, h)
  \/ \E g \in CapabilityGrant : issue_root(g)
  \/ \E id \in CapIds, g \in CapabilityGrant : issue_root_with_id(id, g)
  \/ \E s \in SubjectIds, p \in CapIds, g \in CapabilityGrant, now \in Times : derive(s, p, g, now)
  \/ \E c \in CapIds : revoke(c)
  \/ \E s \in SubjectIds, c \in CapIds : revoke_held_by(s, c)
  \/ \E s \in SubjectIds : begin_subject_close(s)
  \/ \E s \in SubjectIds : finish_subject_close(s)

Spec == Init /\ [][Next]_stateVars

----------------------------------------------------------------------------
(* Properties.                                                              *)

\* The type invariant.  Beyond the ranges it fixes which maps of CapabilityState
\* share their keys: statuses and held sets exist for exactly the registered
\* subjects, and revoked, held and parent identities are all issued ones.
TypeOK ==
  /\ next_capability_sequence \in 0 .. MAX_SEQUENCE + 1
  /\ DOMAIN subjects \in SUBSET SubjectIds
  /\ subjects \in [DOMAIN subjects -> Bodies]
  /\ subject_statuses \in [DOMAIN subjects -> SubjectStatus]
  /\ issued_ids \in SUBSET CapIds
  /\ capabilities \in [issued_ids -> Capability]
  /\ held \in [DOMAIN subjects -> SUBSET issued_ids]
  /\ revoked \in SUBSET issued_ids
  /\ authorization_epoch \in 0 .. MAX_EPOCH
  /\ DOMAIN issued_handle_owners \in SUBSET HandleIds
  /\ issued_handle_owners \in [DOMAIN issued_handle_owners -> DOMAIN subjects]
  /\ open_handles \in SUBSET DOMAIN issued_handle_owners

\* Delegation only attenuates: along the whole ancestry of a capability each
\* ancestor permits at least as much for at least as long, whatever sequence of
\* derive calls built it, and the capability stays within the envelope of the
\* subject that holds it.
DelegationAttenuates ==
  \A c \in issued_ids :
    /\ \A d \in Chain(c) : BodyBelow(capabilities[c].body, capabilities[d].body)
    /\ BodyBelow(capabilities[c].body, subjects[capabilities[c].subject])

\* Every ancestry ends at a root and has at most MAX_DELEGATION_DEPTH nodes, so
\* the cycle guards of is_effectively_active and delegation_depth never fire.
ChainsEndAtRoot ==
  \A c \in issued_ids :
    /\ \E r \in Chain(c) : capabilities[r].parent = NoId
    /\ delegation_depth(c) <= MAX_DELEGATION_DEPTH

\* begin_subject_close disables the whole delegation subtree of the subject: no
\* capability with an ancestor held by a subject that is no longer Running is
\* effectively active at any time, and none can be issued to it afterwards.
ClosedSubjectDisablesSubtree ==
  \A c \in issued_ids, now \in Times :
    (\E d \in Chain(c) : ~SubjectRunning(capabilities[d].subject))
      => ~is_effectively_active(c, now)

\* finish_subject_close waits for the handles: a Closed subject has none open.
ClosedSubjectHasNoHandles ==
  \A h \in open_handles : subject_statuses[issued_handle_owners[h]] # "Closed"

\* allocate_capability_id never leaves a hole behind it: every sequence number
\* below the next one is issued, so the numbers cannot run out while the
\* capability table has room for as many as there are numbers.
SequencePrefixIssued ==
  \A n \in 0 .. next_capability_sequence - 1 : n \in issued_ids

\* No step resurrects authority: a capability that is issued and inactive at a
\* time t (revoked, expired or below such an ancestor) is inactive at t for good.
InactiveStaysInactive ==
  [][\A c \in issued_ids, t \in Times :
       ~is_effectively_active(c, t) => ~is_effectively_active(c, t)']_stateVars

\* A decision taken at an authorization epoch stays the decision of that epoch:
\* if a step changes what active_capability answers for an issued capability,
\* it advances the epoch by one.
EpochGuardsDecisions ==
  [][\A s \in DOMAIN subjects, c \in issued_ids, t \in Times :
       active_capability(s, c, t) # active_capability(s, c, t)'
         => authorization_epoch' = authorization_epoch + 1]_stateVars

\* Identities are bound once: an issued capability is never replaced or moved
\* to another holder, although external and sequential names share one space,
\* and a closed handle identity is never open again.
IdentitiesNeverRebound ==
  [][/\ \A c \in issued_ids : c \in issued_ids' /\ capabilities'[c] = capabilities[c]
     /\ \A s \in DOMAIN held : held[s] \subseteq held'[s]
     /\ \A h \in DOMAIN issued_handle_owners \ open_handles : h \notin open_handles']_stateVars
=============================================================================
