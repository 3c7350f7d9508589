--------------------------- MODULE MCCapabilityKernel ---------------------------
(****************************************************************************)
(* The instances of CapabilityKernel that TLC explores.  MCSpec starts from *)
(* a kernel that wraps an initialized state: subject s1 holds the root 0,   *)
(* from which 1 was derived for subject s2, and one mount is registered.    *)
(* Its callers present capabilities they were given, at time 0.             *)
(****************************************************************************)
EXTENDS CapabilityKernel, TLC

CONSTANTS s1, s2, r1, m1, n1,
          InputRequests, InputTargets  \* the calls that the threads of a run make

MCTimes == 0 .. 1

Body == [validity |-> <<0, 1>>, authority |-> {r1}]

MCBodies == {Body}

Cap(s, p) == [subject |-> s, delegable |-> TRUE, body |-> Body, parent |-> p]

MCInit ==
  /\ next_capability_sequence = 2
  /\ subjects = [s \in {s1, s2} |-> Body]
  /\ subject_statuses = [s \in {s1, s2} |-> "Running"]
  /\ capabilities = [c \in {0, 1} |-> IF c = 0 THEN Cap(s1, NoId) ELSE Cap(s2, 0)]
  /\ held = [s \in {s1, s2} |-> IF s = s1 THEN {0} ELSE {1}]
  /\ revoked = {}
  /\ authorization_epoch = 0
  /\ open_handles = {}
  /\ issued_handle_owners = << >>
  /\ pc = [t \in Threads |-> "idle"]
  /\ request = [t \in Threads |-> NoCall]
  /\ readers = {}
  /\ attempts = << >>
  /\ attempt = [t \in Threads |-> 0]
  /\ landed = {}
  /\ revocation_observers = {m1}
  /\ nodes = [m \in Mounts |-> [n \in Nodes |-> "fresh"]]
  /\ caches = [m \in Mounts |-> {}]
  /\ fatal = {}
  /\ todo = [t \in Threads |-> {}]
  /\ flushing = [t \in Threads |-> NoMount]
  /\ stale = [t \in Threads |-> {}]
  /\ draining = [t \in Threads |-> {}]
  /\ overtaken = [t \in Threads |-> {}]
  /\ failed = [t \in Threads |-> FALSE]
  /\ withdrawn = [t \in Threads |-> {}]
  /\ confirmed = {}

Call(s, c, rights, m, n) ==
  [caller |-> s, capability |-> c, rights |-> rights, time |-> 0, mount |-> m, node |-> n]

Leaf == Call(s2, 1, {r1}, NoMount, n1)
MountedRoot == Call(s1, 0, {r1}, m1, n1)
MountedLeaf == Call(s2, 1, {}, m1, n1)

EffectRequests == {Leaf}

MixedRequests == {MountedRoot, MountedLeaf}
RootRequests == {MountedRoot}
InspectRequests == {Call(s2, 1, {}, m, n1) : m \in Mounts} \cup {Call(s1, 0, {}, m1, n1)}
NodeRequests == {Call(s2, 1, {}, m1, n) : n \in Nodes} \cup {MountedRoot}

RevokeRoot == [caller |-> s1, capability |-> 0]
RevokeLeaf == [caller |-> s2, capability |-> 1]
CloseRoot == [caller |-> s1, capability |-> NoId]
CloseLeaf == [caller |-> s2, capability |-> NoId]

EffectTargets == {RevokeRoot, CloseLeaf}

CacheTargets == {RevokeLeaf, CloseRoot}

AllTargets == {RevokeRoot, RevokeLeaf, CloseRoot}

MCNext ==
  \/ \E t \in Threads : Step(t)
  \/ \E t \in Threads, r \in InputRequests : submit(t, r)
  \/ \E t \in Threads, r \in InputTargets : request_write(t, r)
  \/ \E t \in Threads : with_state_mut(t)
  \/ \E m \in Mounts : register_revocation_observer(m)
  \/ \E m \in Mounts, n \in Nodes : forget(m, n)

MCSpec == MCInit /\ [][MCNext]_kernelVars

EmptySpec == KernelInit /\ [][MCNext]_kernelVars

\* For liveness: a subject that holds authority withdraws it, and callers do
\* not repeat calls that have nothing left to withdraw for ever.
Withdraws(r) ==
  /\ SubjectRunning(r.caller)
  /\ r.capability = NoId \/ r.capability \notin revoked

LiveNext ==
  \/ \E t \in Threads : Step(t)
  \/ \E t \in Threads, r \in InputRequests : submit(t, r)
  \/ \E t \in Threads, r \in InputTargets : Withdraws(r) /\ request_write(t, r)

LiveSpec == MCInit /\ [][LiveNext]_kernelVars /\ Fairness

ThreadSymmetry == Permutations(Threads)
=============================================================================
