--------------------------- MODULE MCProvisioning ---------------------------
(* Small instances of Provisioning. *)
EXTENDS Provisioning, TLC

Accounts == Permutations(Users)

\* A cloned VM, then one created from scratch.
CloneThenCreate == [j \in Jobs |-> IF j = 1 THEN "template" ELSE "create"]

-----------------------------------------------------------------------------
(* Statements the code does not keep: see the README.                      *)

\* Nobody is assigned the VMID of a guest another job has built: the records of a
\* deleted VM go "in the same operation" (CHANGELOG.md:1042).
AccessFollowsGuest ==
    \A v \in Vmids : assign[v] # Nobody /\ v \notin deleting => guest[v] \notin Jobs \ {assign[v]}
=============================================================================
