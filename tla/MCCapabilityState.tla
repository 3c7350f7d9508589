--------------------------- MODULE MCCapabilityState ---------------------------
(****************************************************************************)
(* The instances of CapabilityState that TLC explores: one for delegation   *)
(* chains, one for identities and handles.                                  *)
(****************************************************************************)
EXTENDS CapabilityWalk, TLC

CONSTANTS r1, r2

MCTimes == 0 .. 2

Body(from, until, rights) == [validity |-> <<from, until>>, authority |-> rights]

\* The full body and one narrower in time and in rights.
DelegationBodies == {Body(0, 2, {r1, r2}), Body(0, 1, {r1})}

OneBody == {Body(0, 2, {r1})}

SubjectSymmetry == Permutations(SubjectIds)

IdentitySymmetry == Permutations(SubjectIds) \cup Permutations(HandleIds)
=============================================================================
