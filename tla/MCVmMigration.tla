---------------------------- MODULE MCVmMigration ----------------------------
(***************************************************************************)
(* Small instances of VmMigration.                                         *)
(***************************************************************************)
EXTENDS VmMigration, TLC

Hosts == Permutations(Nodes)

-----------------------------------------------------------------------------
(* Statements the code does not keep: see the README.                      *)

\* migrate.ts:712-714, "after that the lazy status check still finalizes whenever it sees
\* the task finished": no migration that Proxmox has finished is on record as failed.
FailedIsFailed == \A i \in Ids : ~(rows[i].status = "error" /\ task[i] = "ok")
=============================================================================
