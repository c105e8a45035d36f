------------------------------ MODULE MCUserAccess ------------------------------
(***************************************************************************)
(* Instances of UserAccess for TLC.                                        *)
(***************************************************************************)
EXTENDS UserAccess, TLC

CONSTANTS alice, bob, s1

\* The provider claims a name that a local account may have, too.
ClaimsBob == s1 :> bob

Symmetry == Permutations(Requests)

================================================================================
