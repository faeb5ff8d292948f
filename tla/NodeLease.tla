------------------------------ MODULE NodeLease ------------------------------
(***************************************************************************)
(* What the claim column of a hardware power policy promises: the right to *)
(* write to one node passes from holder to holder, every grant is a new    *)
(* one, and it is never taken away from a holder that is writing.          *)
(***************************************************************************)
EXTENDS Naturals

CONSTANT MaxGrants   \* bound: grants in a behaviour

VARIABLES holder,    \* the grant in force, 0 for none
          writers,   \* the grants under which a write is under way
          granted    \* grants given so far

leaseVars == <<holder, writers, granted>>

LeaseInit == holder = 0 /\ writers = {} /\ granted = 0

Grant ==
    /\ holder = 0 /\ writers = {} /\ granted < MaxGrants
    /\ granted' = granted + 1 /\ holder' = granted + 1
    /\ UNCHANGED writers

BeginWrite ==
    /\ holder # 0 /\ writers = {}
    /\ writers' = {holder}
    /\ UNCHANGED <<holder, granted>>

EndWrite ==
    /\ writers = {holder}
    /\ writers' = {}
    /\ UNCHANGED <<holder, granted>>

\* By the holder itself, or because its grant expired.
Release ==
    /\ holder # 0 /\ writers = {}
    /\ holder' = 0
    /\ UNCHANGED <<writers, granted>>

LeaseNext == Grant \/ BeginWrite \/ EndWrite \/ Release

LeaseSpec == LeaseInit /\ [][LeaseNext]_leaseVars

=============================================================================
