---------------------------- MODULE MCClientCalls ----------------------------
(***************************************************************************)
(* Small instances of ClientCalls.                                         *)
(***************************************************************************)
EXTENDS ClientCalls

CONSTANTS n1, n2

MCNodes == {n1, n2}
MCSeeds == <<n1>>
MCBothSeeds == <<n1, n2>>
MCMembers == <<n1, n2>>
MCLocks == {lock}
MCOwners == {me, rival}
=============================================================================
