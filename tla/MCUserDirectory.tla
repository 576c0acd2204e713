---------------------------- MODULE MCUserDirectory ----------------------------
(***************************************************************************)
(* Three requests and two roles.                                           *)
(***************************************************************************)
EXTENDS UserDirectory, TLC

CONSTANTS r1, r2, r3, user, administrator

MCRequests == {r1, r2, r3}
MCRoles == {user, administrator}

Symmetry == Permutations(MCRequests) \cup Permutations(MCRoles)
===============================================================================
