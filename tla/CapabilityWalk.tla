----------------------------- MODULE CapabilityWalk ----------------------------
(****************************************************************************)
(* The two loops of state.rs that climb a delegation ancestry, as loops.    *)
(* CapabilityState defines what they compute by the least set closed under  *)
(* parents (Chain), which is the form the proofs use; this module states    *)
(* the loops with their visited sets and early returns, so that TLC can     *)
(* compare the two on every reachable state.                                *)
(****************************************************************************)
EXTENDS CapabilityState

RECURSIVE ActiveWalk(_, _, _)
ActiveWalk(current, visited, now) ==
  \/ current = NoId
  \/ /\ current \notin visited
     /\ current \in issued_ids
     /\ current \notin revoked
     /\ WindowContains(capabilities[current].body.validity, now)
     /\ ActiveWalk(capabilities[current].parent, visited \cup {current}, now)

RECURSIVE DepthWalk(_, _, _)
DepthWalk(current, visited, depth) ==
  CASE current = NoId -> depth
    [] current \in visited -> MAX_DELEGATION_DEPTH + 1
    [] depth + 1 > MAX_DELEGATION_DEPTH -> depth + 1
    [] OTHER -> DepthWalk(capabilities[current].parent, visited \cup {current}, depth + 1)

\* The loops compute the set-based definitions: the walk of
\* is_effectively_active accepts exactly when no member of the ancestry is
\* revoked or out of its window, and the walk of delegation_depth counts the
\* ancestry.
WalksComputeChain ==
  \A c \in issued_ids :
    /\ \A now \in Times : ActiveWalk(c, {}, now) = is_effectively_active(c, now)
    /\ DepthWalk(c, {}, 0) = delegation_depth(c)
=============================================================================
