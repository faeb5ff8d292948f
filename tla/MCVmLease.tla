------------------------------ MODULE MCVmLease ------------------------------
(***************************************************************************)
(* One lease for TLC: the timer's sweep and an admin's.                    *)
(***************************************************************************)
EXTENDS VmLease

=============================================================================
