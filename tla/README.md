# Airlock verification project

TLA+ models of Airlock, the capability-based agent runtime in `src/`, with TLC
runs on small instances and TLAPS proofs for every value of the constants.

## The system

Airlock runs an agent's workload in a Firecracker VM whose every effect on the
outside is authorized by a capability, checked again at the moment of the effect,
and audited.

| Part | Crate | Role |
| --- | --- | --- |
| Capability state and kernel | `authority-core` | subjects, capabilities, delegation, revocation; the effect boundary; the audit trail and its journal |
| Guest file system | `capfs` | a FUSE mount whose answers are authorized by the kernel and cached by the OS until a revocation |
| Broker | `egress-protocol`, `egress-broker` | network and GitHub operations with sequence numbers, budgets and a durable idempotency journal |
| Supervisor | `supervisor` | subjects, handles and shutdown inside the guest |
| Isolation | `runtime-isolation` | ordered application of namespaces, seccomp, limits |
| VM | `firecracker-runtime` | snapshot, restore, identity injection, shutdown, recovery |
| Session | `session-orchestrator` | startup and cleanup of a whole session, identity ledger, recovery journal, control plane |

A session is started in the order workspace, Broker, VM, capability, workload and
taken down in the order capability, VM, Broker, workspace. While it runs, requests
reach the kernel from many threads; revocations withdraw authority and make the
mounts discard what they cached.

`PROJECT.json` lists every part with its sources and status, the line ranges
behind each definition, the hazards and the theorems.

## Modules

| Module | Models | State and actions |
| --- | --- | --- |
| `CapabilityState` | `state.rs`, parts of `capability.rs`, `time.rs` | the maps of `CapabilityState`; one action per mutator. A body is a validity window and a set of rights; a capability id is a sequence number or an external id. |
| `CapabilityWalk` | the loops of `is_effectively_active`, `delegation_depth` | recursive walks with the code's cycle guards; `WalksComputeChain` compares them with the set definitions that `CapabilityState` and the proofs use |
| `CapabilityKernel` | `kernel.rs`, the observer of `capfs/read_only.rs`, the node identities of `capfs/node.rs` | threads with a program counter, the readers of the state lock, attempts, mounts with node tables and caches, the propagation of a revocation |
| `DurableAudit` | `durable_audit.rs`, the recovery of `audit.rs` | frames on disk, the process's memory of them, guards, effects that landed |
| `SessionOrchestrator` | `SessionOrchestrator` in `lib.rs`, `session_owner.rs`, the loop of `host-sessiond.rs` | the stages of start and cleanup, one backend call per step, what the backends hold |
| `MCCapabilityState`, `MCCapabilityKernel` | | bodies, calls and initial states for TLC |
| `*Proofs` | | the theorems |

How an action corresponds to the code:

- In `CapabilityState` an action is one call of the method with the same name. An
  early return with an error that changes nothing is no step. `issue_exhausted`
  is the allocation that fails.
- In `CapabilityKernel` a step is what a thread does between two points where
  another can interfere. The final check and the start record are one step, as
  nobody sees the state between them; the executor, the outcome record and the
  reply are separate steps. A writer waits for `readers = {}`. The observers
  run after the lock is released, one mount after the other. Each takes a
  snapshot of the nodes its mount has handed out and invalidates them one by one;
  nothing makes it wait for a request whose answer is still to be sent. Such an
  answer is *overtaken*: `overtaken` records, for each request, what was
  withdrawn with the request's node already invalidated, and the cached answer
  carries it along.
- In `DurableAudit` a failed append leaves nothing, a torn frame or the whole
  frame, and seals the writer; a record that is too large or does not fit leaves
  everything as it was. A crash may come between any two steps.
- In `SessionOrchestrator` a backend call may succeed, fail, or, where the code
  provides for it, fail after its effect. A failed clone, Broker session or
  capability call is taken to have no effect, which is what `lib.rs` assumes.

## Runs

| Run | Shows |
| --- | --- |
| `capability_delegation` | two subjects, three capabilities, two bodies, depth 3: attenuation along whole chains, closed subjects, no resurrection, epochs, walks against sets |
| `capability_identities` | limits: external ids, an exhausted sequence, depth 2, two handles of three |
| `kernel_effects` | three threads, two attempts, revocations and closes: the effect boundary and the audit |
| `kernel_caches` | three threads, two mounts: of what was cached under a withdrawn capability only overtaken answers can remain |
| `kernel_nodes` | two threads, two nodes: the same while nodes are handed out and forgotten during the observer's walk |
| `kernel_revoke_returns` | expected violation, see Findings |
| `kernel_calls_return` | liveness of all calls |
| `kernel_from_empty` | the kernel from its empty state, with all transitions: the type invariant |
| `durable_audit` | three processes, three attempts, five frames |
| `session_lifecycle` | three identities: leaks, order, binding, reasons |
| `session_shutdown` | two identities: a stop ends in Closed |

Bounds. Two subjects and three capabilities give a chain whose middle is closed
or revoked; the sequence, epoch, depth, capability and handle limits are small
enough to be reached. Three threads allow two requests and a revocation, or two
revocations and a request, at once. Three processes allow a crash during the
recovery of a crash. Three identities allow a failed start between two sessions.
The runs of the kernel other than `kernel_from_empty` start from a state with one
derived capability, which the empty state reaches.

`CHECK_DEADLOCK FALSE` is used throughout: sessions end, journals fill up and
bounded counters are exhausted, and the models then stop.

Symmetry is used for subjects, handles and threads, in safety runs only.

## Fairness

- Kernel: weak fairness of each thread's steps. Executors return, and the lock
  serves those who wait. The run also assumes that callers do not for ever repeat
  withdrawals that have nothing left to withdraw: the lock prefers writers, and an
  endless stream of refused writers would starve readers. About the operating
  system it is assumed that it answers a notification unless a request that was
  in flight on the mount when the notification was issued is still unanswered
  (`HeldUp`, after the comment at `read_only.rs:2494`). This wait only makes
  `CallsReturn` harder; no safety property relies on it.
- Session: weak fairness of the call in progress and of the polls, since
  `host-sessiond` polls while the session runs and `drain_stop` retries a cleanup;
  strong fairness of each cleanup stage's success, that is, a stage that is tried
  again and again succeeds at last. `drain_stop` gives up at its deadline, and the
  owner is then dropped: `drop` can happen at any time, makes one more pass and
  aborts unless that completes the cleanup, which `ShutdownCompletes` counts as
  an end. The run does not say that a backend succeeds before the deadline.

## Proofs

Assumptions are the named `ASSUME`s: the limits are naturals, the marker values are
not members of the sets they mark.

- `CapabilityStateProofs`: type correctness, attenuation, closed subtrees, no
  resurrection, epochs, bounded chains, identities, handles, the sequence. A chain
  is defined as the least parent-closed set, so that induction over chains is not
  needed: to show that all ancestors have a property, show that the set of those
  that have it is closed under parents. The inductive invariant adds to the types
  that parents are issued (`ParentsIssued`), that a capability is held by its own
  subject (`HeldBySubject`), that each single delegation attenuates
  (`StepAttenuates`) and that a subject no longer Running has only revoked
  capabilities (`ClosingRevokes`); attenuation along the chain then follows since
  `BodyBelow` is transitive.
- `CapabilityKernelProofs`: the lemma `KernelImplementsState` (each kernel step is
  a step of `CapabilityState` or a stutter) lifts the theorems above to the kernel
  and is used for that only. The
  effect boundary needs that a thread that executes is a reader of the lock
  (`GuardHeld`), hence that no state change happens meanwhile
  (`GuardFreezesState`), and that every executing thread has an unfinished attempt
  of its own (`AttemptsOwned`).
- `KernelCacheProofs`: `WithdrawnNotCached`. Under a withdrawn capability an answer
  can be in three places: with a thread that holds the shared guard, on its way to
  the operating system, or in a cache. The first is impossible after the
  transition (`GuardedActive`: a thread under the guard has an active
  capability), so it remains to follow the observer: `AnswersLive` says that the
  node of every answer that is cached or on its way is live, hence in the
  snapshot; `PassedUntouched` says that the nodes the walk has passed,
  `DoneUntouched` that the mounts the propagation has finished, hold no answer
  that was not overtaken. `WithdrawnNotCached` alone is not inductive: it speaks
  only of what was confirmed, and says nothing about answers on their way.
- `SessionOrchestratorProofs`: the invariant says which resources can be live
  at each program counter (`Accounted`, `Phases`, `Started`), that they carry the
  session's identity (`IdentityBound`), which stages a pass has tried (`Tried`),
  and that the order of release nests (`Nested`). `NothingLeaked` alone is not
  inductive: it says nothing while a call is in progress.

Only model-checked: liveness (`CallsReturn`, `ShutdownCompletes`), the recursive
walks (`WalksComputeChain`), `KernelTypeOK` and all of `DurableAudit`. Liveness, induction over data and recursive operators are out of
the prover's reach; the others are in the plan.

## Findings

`kernel_revoke_returns`: `docs/capfs/read-only-fuse.md:188` says that
`revoke_held_by` runs the observers before it returns, so that no read after it is
answered from a cache. `kernel.rs:546` propagates only for the caller that newly
revoked; a concurrent second caller returns `AlreadyRevoked` while the caches are
still being discarded. The property leaves out answers that were in flight, which
`docs/design/capfs.md:193` excludes.

`WithdrawnNotCached` is what does hold, for the call that withdrew and returned
`Ok`: every answer sent before its node was invalidated is gone, and no later
request adds one. An answer that was authorized before the revocation and is sent
after the invalidation (`read_only.rs:1973`) can still be cached, in the code for
up to `ATTRIBUTE_TTL`; the model has this behaviour and the property says exactly
which answers these are.

## Not modelled

Lock poisoning after a panicking executor; a mount that is gone while its observer
is still registered; directory names that the operating system caches, and the
time-out of what it caches (an answer stays until it is invalidated); the outcome
of a failed compensation in the authority backend (a failed `inject_root_capability`
is taken as effect free); byte encodings, checksums and file-system
checks; the concrete authority kinds; system calls, sockets, TLS; the parts in the
plan below. The Lean development under `src/lean` is a separate proof of the
authority algebra and is not repeated here.

## Plan

1. Broker: protocol session (sequence, replay, budget), then dispatch over the
   durable journal with crashes, as an abstract "at most once, settled" promise and
   the detailed module that implements it.
2. Session: recovery journal and identity ledger with crashes; control plane
   admission and worker records; the authority backend composed with the kernel.
3. Supervisor: subject creation, handles and shutdown with partial failure.
4. capfs: namespace mutation, in-doubt quarantine, generations, handle counts.
5. Firecracker: the runtime state machine and staged recovery; isolation apply and
   rollback.
6. Authority matching: path, file, HTTP and GitHub ordering against reference
   definitions.
7. Proofs: `DurableAudit` (`JournalReopens`, `DurableTruth`) and the invariants of
   the new modules.
