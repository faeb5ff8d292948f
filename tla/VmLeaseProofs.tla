---------------------------- MODULE VmLeaseProofs ----------------------------
(***************************************************************************)
(* Theorems about the lease of a VM, for any nodes, sweeps, durations and  *)
(* bounds.                                                                 *)
(***************************************************************************)
EXTENDS VmLease, TLAPS

USE NodesAssumption, DurationsAssumption

-----------------------------------------------------------------------------
(* The inductive invariant.                                                *)

\* With no migration pending, the lease names the node the guest lives on.
LeaseNamesNode == ~pending /\ Leased(row) => row.node = loc

Down(s) == vm # "running" \/ sweep[s].sent \/ sweep[s].started

\* What a sweep knows in its turn: the lock keeps migrations and deletions away, the lease
\* it read has run out unless it was edited since, and the guest is as listed unless it
\* was started since.
TurnIsTrue(s) ==
    /\ Holding(s) => /\ ~pending /\ Leased(row) /\ row.node = sweep[s].got.node
                     /\ RunOut(row) \/ sweep[s].touched
    /\ sweep[s].pc \in {"list", "lock"} /\ sweep[s].seen = "stopped" => Down(s)
    /\ sweep[s].pc = "mark" => Down(s)

TurnsAreTrue == \A s \in Sweeps : TurnIsTrue(s)

IInv == TypeOK /\ ExpiredIsOver /\ LeaseNamesNode /\ TurnsAreTrue

-----------------------------------------------------------------------------
(* The rows the routes compute.                                            *)

LEMMA NoRowType == NoRow \in Rows /\ Idle \in Turns
  BY DEF NoRow, Rows, Unlimited, Idle, Turns

\* An end that lies some days ahead, or none, is an end.
LEMMA LaterType ==
    ASSUME now \in Nat, NEW d \in Durations \cup {0}
    PROVE  Later(d) \in Int
  BY DEF Later, Unlimited

LEMMA CreatedType ==
    ASSUME TypeOK, NEW n \in Nodes, NEW d \in Durations \cup {0}
    PROVE  Created(n, d) \in Rows /\ Leased(Created(n, d))
  <1>1. NoRow \in Rows  BY NoRowType
  <1>2. Later(d) \in Int  BY LaterType DEF TypeOK
  <1>3. row \in Rows /\ row.id + 1 \in Nat  BY DEF TypeOK, Rows
  <1>4. CASE Leased(row)  BY <1>3, <1>4 DEF Created
  <1>5. CASE ~Leased(row)
    <2> DEFINE r == [NoRow EXCEPT !.status = "lease", !.id = row.id + 1, !.node = n,
                                  !.days = d, !.expires = Later(d)]
    <2>1. r \in Rows /\ Leased(r)  BY <1>1, <1>2, <1>3 DEF Rows, Leased
    <2>2. Created(n, d) = r  BY <1>5 DEF Created
    <2> QED  BY <2>1, <2>2
  <1> QED  BY <1>4, <1>5

LEMMA RenewedType ==
    ASSUME TypeOK, NEW d \in Durations \cup {0}
    PROVE  /\ Renewed(d) \in Rows /\ Leased(Renewed(d)) /\ ~Renewed(d).expired
           /\ Renewed(d).node = Created(loc, d).node
  <1> DEFINE r == Created(loc, d)
  <1>1. r \in Rows /\ Leased(r)  BY CreatedType DEF TypeOK
  <1>2. \A x \in Durations \cup {0} : Later(x) \in Int  BY LaterType DEF TypeOK
  <1>3. r.days \in Durations \cup {0}  BY <1>1 DEF Rows
  <1> DEFINE x == IF r.days > 0 THEN r.days ELSE d
  <1>4. Renewed(d) = [r EXCEPT !.days = x, !.expires = Later(x), !.expired = FALSE]
    BY DEF Renewed
  <1> HIDE DEF r
  <1>5. x \in Durations \cup {0} /\ Later(x) \in Int  BY <1>2, <1>3
  <1> HIDE DEF x
  <1>6. /\ Renewed(d) \in Rows /\ Leased(Renewed(d)) /\ ~Renewed(d).expired
        /\ Renewed(d).node = r.node
    BY <1>1, <1>4, <1>5 DEF Rows, Leased
  <1> QED  BY <1>6 DEF r

\* A column is left alone, or the mark goes with it.
LEMMA WithExemptKeeps ==
    ASSUME NEW r \in Rows, Leased(r), NEW x \in {"keep", "on", "off"}
    PROVE  LET q == WithExempt(r, x)
           IN  q \in Rows /\ Leased(q) /\ q.node = r.node /\ (q = r \/ ~q.expired)
  BY DEF WithExempt, Rows, Leased

LEMMA WithDaysKeeps ==
    ASSUME now \in Nat, NEW r \in Rows, Leased(r), NEW d \in Durations \cup {0, Keep}
    PROVE  LET q == WithDays(r, d)
           IN  q \in Rows /\ Leased(q) /\ q.node = r.node /\ (q = r \/ ~q.expired)
  <1>1. d = Keep \/ (d \in Durations \cup {0} /\ Later(d) \in Int)  BY LaterType
  <1> QED  BY <1>1 DEF WithDays, Rows, Leased

LEMMA WithMoreKeeps ==
    ASSUME now \in Nat, NEW r \in Rows, Leased(r), NEW n \in {-1, 0, 1}
    PROVE  LET q == WithMore(r, n)
           IN  q \in Rows /\ Leased(q) /\ q.node = r.node /\ (q = r \/ ~q.expired)
  <1> DEFINE m == (IF r.expires > now THEN r.expires ELSE now) + n
  <1>1. r.expires \in Int  BY DEF Rows
  <1>2. m \in Int  BY <1>1
  <1>3. WithMore(r, n) = IF n = 0 THEN r ELSE [r EXCEPT !.expires = m, !.expired = FALSE]
    BY DEF WithMore
  <1> HIDE DEF m
  <1> QED  BY <1>2, <1>3 DEF Rows, Leased

-----------------------------------------------------------------------------
(* The sweeps.                                                             *)

\* A turn stays true while the guest stays as it is and the lease does not get better.
LEMMA TurnKept ==
    ASSUME TurnsAreTrue, NEW t \in Sweeps, sweep'[t] = sweep[t],
           UNCHANGED <<now, vm, loc, pending>>,
           row' = row \/ row' = [row EXCEPT !.expired = TRUE], row \in Rows
    PROVE  TurnIsTrue(t)'
  <1>1. TurnIsTrue(t)  BY DEF TurnsAreTrue
  <1>2. /\ row'.status = row.status /\ row'.node = row.node /\ row'.exempt = row.exempt
        /\ row'.expires = row.expires
    BY DEF Rows
  <1> QED  BY <1>1, <1>2 DEF TurnIsTrue, Holding, Leased, RunOut, Down

\* A step of one sweep that leaves the lease alone, or marks one that is due.
LEMMA SweepKeeps ==
    ASSUME IInv, NEW s \in Sweeps, NEW x \in Turns, sweep' = [sweep EXCEPT ![s] = x],
           UNCHANGED <<now, vm, loc, pending>>, asked' \in BOOLEAN, events' \in Nat,
           row' = row \/ (Due(row) /\ row' = [row EXCEPT !.expired = TRUE]),
           TurnIsTrue(s)'
    PROVE  IInv'
  <1>1. row' \in Rows /\ row'.node = row.node /\ row'.status = row.status
    BY DEF IInv, TypeOK, Rows
  <1>2. TypeOK'  BY <1>1 DEF IInv, TypeOK
  <1>3. ExpiredIsOver'
    <2>1. CASE row' = row  BY <2>1 DEF IInv, ExpiredIsOver, RunOut, Leased
    <2>2. CASE Due(row) /\ row' = [row EXCEPT !.expired = TRUE]
      BY <2>2 DEF IInv, TypeOK, Rows, ExpiredIsOver, RunOut, Leased, Due
    <2> QED  BY <2>1, <2>2
  <1>4. LeaseNamesNode'  BY <1>1 DEF IInv, LeaseNamesNode, Leased
  <1>5. ASSUME NEW t \in Sweeps  PROVE TurnIsTrue(t)'
    <2>1. CASE t = s  BY <2>1
    <2>2. CASE t # s
      <3>1. sweep'[t] = sweep[t]  BY <2>2 DEF IInv, TypeOK
      <3> QED  BY <3>1, TurnKept DEF IInv, TypeOK
    <2> QED  BY <2>1, <2>2
  <1> QED  BY <1>2, <1>3, <1>4, <1>5 DEF IInv, TurnsAreTrue

\* A sweep that is idle knows nothing.
LEMMA IdleIsTrue ==
    ASSUME NEW s, sweep'[s] = Idle
    PROVE  TurnIsTrue(s)'
  BY DEF TurnIsTrue, Idle, Holding

LEMMA SelectKeeps ==
    ASSUME IInv, NEW s \in Sweeps, Select(s)
    PROVE  IInv'
  <1> DEFINE x == [Idle EXCEPT !.pc = "list", !.got = row, !.seen = vm, !.seenOn = loc]
  <1>1. /\ sweep' = [sweep EXCEPT ![s] = x] /\ UNCHANGED <<now, vm, loc, pending, row, asked, events>>
    BY DEF Select, NoFault, SweepStep
  <1>2. x \in Turns  BY NoRowType DEF IInv, TypeOK, Turns
  <1>3. sweep'[s] = x  BY <1>1 DEF IInv, TypeOK
  <1>4. x.pc = "list" /\ x.seen = vm  BY NoRowType DEF Turns
  <1> HIDE DEF x
  <1>5. TurnIsTrue(s)'  BY <1>1, <1>3, <1>4 DEF TurnIsTrue, Holding, Down
  <1> QED  BY <1>1, <1>2, <1>5, SweepKeeps DEF IInv, TypeOK

LEMMA ListKeeps ==
    ASSUME IInv, NEW s \in Sweeps, List(s)
    PROVE  IInv'
  <1>1. /\ sweep[s].pc = "list" /\ sweep[s] \in Turns /\ sweep \in [Sweeps -> Turns]
        /\ UNCHANGED <<now, vm, loc, pending, row, asked>> /\ events' \in Nat
        /\ asked \in BOOLEAN /\ vm \in {"running", "stopped", "absent"} /\ loc \in Nodes
    BY DEF List, IInv, TypeOK, NoFault, Event, SweepStep
  <1>2. PICK x \in Turns :
          /\ sweep' = [sweep EXCEPT ![s] = x]
          /\ x = Idle \/ (x.pc = "lock" /\ (\/ x.seen = sweep[s].seen /\ x.sent = sweep[s].sent
                                               /\ x.started = sweep[s].started
                                            \/ x.seen = vm \/ x.seen = "absent"))
    <2>1. CASE NoFault /\ Turn(s, "lock")
      <3> DEFINE x == [sweep[s] EXCEPT !.pc = "lock"]
      <3>1. x \in Turns  BY <1>1 DEF Turns
      <3>2. sweep' = [sweep EXCEPT ![s] = x]  BY <2>1, <1>1 DEF Turn
      <3>3. x.pc = "lock" /\ x.seen = sweep[s].seen /\ x.sent = sweep[s].sent
            /\ x.started = sweep[s].started
        BY <1>1 DEF Turns
      <3> QED  BY <3>1, <3>2, <3>3
    <2>2. CASE sweep' = [sweep EXCEPT ![s].pc = "lock", ![s].seen = vm, ![s].seenOn = loc,
                                      ![s].started = FALSE]
      <3> DEFINE x == [sweep[s] EXCEPT !.pc = "lock", !.seen = vm, !.seenOn = loc, !.started = FALSE]
      <3>1. x \in Turns /\ x.pc = "lock" /\ x.seen = vm  BY <1>1 DEF Turns
      <3>2. sweep' = [sweep EXCEPT ![s] = x]  BY <2>2, <1>1 DEF Turns
      <3> QED  BY <3>1, <3>2
    <2>3. CASE sweep' = [sweep EXCEPT ![s].pc = "lock", ![s].seen = "absent"]
      <3> DEFINE x == [sweep[s] EXCEPT !.pc = "lock", !.seen = "absent"]
      <3>1. x \in Turns /\ x.pc = "lock" /\ x.seen = "absent"  BY <1>1 DEF Turns
      <3>2. sweep' = [sweep EXCEPT ![s] = x]  BY <2>3, <1>1 DEF Turns
      <3> QED  BY <3>1, <3>2
    <2>4. CASE sweep' = [sweep EXCEPT ![s] = Idle]  BY <2>4, NoRowType
    <2> QED  BY <2>1, <2>2, <2>3, <2>4 DEF List
  <1>3. sweep'[s] = x  BY <1>1, <1>2
  <1>4. TurnIsTrue(s)'
    <2>1. CASE x = Idle  BY <1>3, <2>1, IdleIsTrue
    <2>2. CASE x # Idle
      <3>1. TurnIsTrue(s)  BY DEF IInv, TurnsAreTrue
      <3> QED  BY <1>1, <1>2, <1>3, <2>2, <3>1 DEF TurnIsTrue, Holding, Down
    <2> QED  BY <2>1, <2>2
  <1> QED  BY <1>1, <1>2, <1>4, SweepKeeps

LEMMA LockKeeps ==
    ASSUME IInv, NEW s \in Sweeps, Lock(s)
    PROVE  IInv'
  <1>1. /\ sweep[s].pc = "lock" /\ sweep[s] \in Turns /\ sweep \in [Sweeps -> Turns]
        /\ UNCHANGED <<now, vm, loc, pending, row, asked>> /\ events' \in Nat
        /\ asked \in BOOLEAN /\ row \in Rows
    BY DEF Lock, IInv, TypeOK, NoFault, Event, SweepStep
  <1>2. CASE sweep' = [sweep EXCEPT ![s] = Idle]
    <2>1. sweep'[s] = Idle  BY <1>1, <1>2
    <2> QED  BY <1>1, <1>2, <2>1, NoRowType, IdleIsTrue, SweepKeeps
  <1>3. CASE sweep' # [sweep EXCEPT ![s] = Idle]
    <2> DEFINE pc == IF ~Listed(s) THEN "probe" ELSE IF sweep[s].seen = "running" THEN "shut" ELSE "mark"
               x == [sweep[s] EXCEPT !.got = row, !.pc = pc]
    <2>1. ~pending /\ Current(s) /\ sweep' = [sweep EXCEPT ![s] = x]  BY <1>1, <1>3 DEF Lock
    <2>2. x \in Turns /\ x.got = row /\ x.pc = pc /\ x.sent = sweep[s].sent
          /\ x.started = sweep[s].started /\ x.touched = sweep[s].touched
      BY <1>1 DEF Turns
    <2>3. sweep'[s] = x  BY <1>1, <2>1
    <2>4. pc = "mark" => sweep[s].seen = "stopped"  BY <1>1 DEF Listed, Turns
    <2>5. pc \in {"probe", "shut", "mark"}  OBVIOUS
    <2> HIDE DEF x, pc
    <2>6. TurnIsTrue(s)  BY DEF IInv, TurnsAreTrue
    <2>7. Leased(row) /\ RunOut(row)  BY <2>1 DEF Current, Due, RunOut
    <2>8. TurnIsTrue(s)'
      BY <1>1, <2>1, <2>2, <2>3, <2>4, <2>5, <2>6, <2>7 DEF TurnIsTrue, Holding, Down, Leased, RunOut
    <2> QED  BY <1>1, <2>1, <2>2, <2>8, SweepKeeps
  <1> QED  BY <1>2, <1>3

LEMMA ProbeKeeps ==
    ASSUME IInv, NEW s \in Sweeps, Probe(s)
    PROVE  IInv'
  <1>1. /\ sweep[s].pc = "probe" /\ sweep[s] \in Turns /\ sweep \in [Sweeps -> Turns]
        /\ UNCHANGED <<now, vm, loc, pending, row, asked>> /\ events' \in Nat
        /\ asked \in BOOLEAN /\ vm \in {"running", "stopped", "absent"}
    BY DEF Probe, ProbeAnswer, IInv, TypeOK, NoFault, Event, SweepStep
  <1>2. CASE sweep' = [sweep EXCEPT ![s] = Idle]
    <2>1. sweep'[s] = Idle  BY <1>1, <1>2
    <2> QED  BY <1>1, <1>2, <2>1, NoRowType, IdleIsTrue, SweepKeeps
  <1>3. CASE sweep' # [sweep EXCEPT ![s] = Idle]
    <2> DEFINE x == [sweep[s] EXCEPT !.pc = "mark"]
    <2>1. ~Here(s) /\ sweep' = [sweep EXCEPT ![s] = x]  BY <1>1, <1>3 DEF Probe, ProbeAnswer
    <2>2. x \in Turns /\ x.pc = "mark" /\ x.got = sweep[s].got /\ x.touched = sweep[s].touched
      BY <1>1 DEF Turns
    <2>3. sweep'[s] = x  BY <1>1, <2>1
    <2> HIDE DEF x
    <2>4. TurnIsTrue(s) /\ LeaseNamesNode  BY DEF IInv, TurnsAreTrue
    <2>5. vm = "absent"
      BY <1>1, <2>1, <2>4 DEF Here, TurnIsTrue, Holding, LeaseNamesNode
    <2>6. TurnIsTrue(s)'
      BY <1>1, <2>2, <2>3, <2>4, <2>5 DEF TurnIsTrue, Holding, Down, Leased, RunOut
    <2> QED  BY <1>1, <2>1, <2>2, <2>6, SweepKeeps
  <1> QED  BY <1>2, <1>3

LEMMA ShutKeeps ==
    ASSUME IInv, NEW s \in Sweeps, Shut(s)
    PROVE  IInv'
  <1>1. /\ sweep[s].pc = "shut" /\ sweep[s] \in Turns /\ sweep \in [Sweeps -> Turns]
        /\ UNCHANGED <<now, vm, loc, pending, row>> /\ events' \in Nat
    BY DEF Shut, IInv, TypeOK, NoFault, Event, SweepStep
  <1>a. asked' \in BOOLEAN
    <2>1. asked \in BOOLEAN /\ (vm = "running") \in BOOLEAN
          /\ (Here(s) /\ vm = "running") \in BOOLEAN
      BY DEF IInv, TypeOK
    <2>2. asked' = (vm = "running") \/ asked' = asked
          \/ asked' \in {asked, Here(s) /\ vm = "running"}
      BY Zenon DEF Shut
    <2> QED  BY <2>1, <2>2, Zenon
  <1>2. CASE sweep' = [sweep EXCEPT ![s] = Idle]
    <2>1. sweep'[s] = Idle  BY <1>1, <1>2
    <2> QED  BY <1>1, <1>a, <1>2, <2>1, NoRowType, IdleIsTrue, SweepKeeps
  <1>3. CASE sweep' # [sweep EXCEPT ![s] = Idle]
    <2> DEFINE x == [sweep[s] EXCEPT !.pc = "mark", !.sent = TRUE]
    <2>1. sweep' = [sweep EXCEPT ![s].pc = "mark", ![s].sent = TRUE]  BY <1>3 DEF Shut
    <2>2. x \in Turns /\ x.pc = "mark" /\ x.sent /\ x.got = sweep[s].got
          /\ x.touched = sweep[s].touched
      BY <1>1 DEF Turns
    <2>3. sweep' = [sweep EXCEPT ![s] = x] /\ sweep'[s] = x  BY <1>1, <2>1 DEF Turns
    <2> HIDE DEF x
    <2>4. TurnIsTrue(s)  BY DEF IInv, TurnsAreTrue
    <2>5. TurnIsTrue(s)'
      BY <1>1, <2>2, <2>3, <2>4 DEF TurnIsTrue, Holding, Down, Leased, RunOut
    <2> QED  BY <1>1, <1>a, <2>2, <2>3, <2>5, SweepKeeps
  <1> QED  BY <1>2, <1>3

LEMMA MarkKeeps ==
    ASSUME IInv, NEW s \in Sweeps, Mark(s)
    PROVE  IInv'
  <1>1. /\ UNCHANGED <<now, vm, loc, pending, asked>> /\ events' \in Nat /\ asked' \in BOOLEAN
        /\ sweep' = [sweep EXCEPT ![s] = Idle] /\ sweep'[s] = Idle
        /\ row' = row \/ (Due(row) /\ row' = [row EXCEPT !.expired = TRUE])
    BY DEF Mark, Marks, Current, IInv, TypeOK, NoFault, SweepStep
  <1> QED  BY <1>1, NoRowType, IdleIsTrue, SweepKeeps

-----------------------------------------------------------------------------
(* The routes.                                                             *)

\* A write leaves a lease on the guest's node, and the mark only where it was.
LEMMA WriteKeeps ==
    ASSUME IInv, NEW r \in Rows, Leased(r), Write(r),
           r.node = (IF Leased(row) THEN row.node ELSE loc),
           ~r.expired \/ r = row
    PROVE  IInv'
  <1>1. /\ ~pending /\ row' = r /\ UNCHANGED <<now, vm, loc, asked, pending>> /\ events' \in Nat
        /\ sweep' = [s \in Sweeps |-> [sweep[s] EXCEPT !.touched = @ \/ Holding(s)]]
    BY DEF Write, Event, IInv, TypeOK
  <1>2. \A s \in Sweeps : sweep[s] \in Turns  BY DEF IInv, TypeOK
  <1>3. \A s \in Sweeps : [sweep[s] EXCEPT !.touched = @ \/ Holding(s)] \in Turns
    <2> TAKE s \in Sweeps
    <2> DEFINE b == sweep[s].touched \/ Holding(s)
    <2>1. b \in BOOLEAN  OBVIOUS
    <2> HIDE DEF b
    <2>2. [sweep[s] EXCEPT !.touched = b] \in Turns  BY <1>2, <2>1 DEF Turns
    <2> QED  BY <2>2 DEF b
  <1>4. TypeOK'  BY <1>1, <1>3 DEF IInv, TypeOK
  <1>5. ExpiredIsOver'  BY <1>1 DEF IInv, ExpiredIsOver, RunOut, Leased
  <1>6. LeaseNamesNode'  BY <1>1 DEF IInv, LeaseNamesNode
  <1>7. ASSUME NEW s \in Sweeps  PROVE TurnIsTrue(s)'
    <2>1. /\ sweep'[s].pc = sweep[s].pc /\ sweep'[s].got = sweep[s].got
          /\ sweep'[s].seen = sweep[s].seen /\ sweep'[s].sent = sweep[s].sent
          /\ sweep'[s].started = sweep[s].started
          /\ sweep'[s].touched = (sweep[s].touched \/ Holding(s))
      BY <1>1, <1>2 DEF Turns
    <2>2. TurnIsTrue(s)  BY DEF IInv, TurnsAreTrue
    <2> QED  BY <1>1, <2>1, <2>2 DEF TurnIsTrue, Holding, Down
  <1> QED  BY <1>4, <1>5, <1>6, <1>7 DEF IInv, TurnsAreTrue

LEMMA RoutesKeep ==
    ASSUME IInv, Routes
    PROVE  IInv'
  <1>1. TypeOK /\ loc \in Nodes /\ now \in Nat  BY DEF IInv, TypeOK
  <1>2. ASSUME NEW d \in Durations \cup {0}
        PROVE  LET r == Created(loc, d)
               IN  /\ r \in Rows /\ Leased(r) /\ r.node = (IF Leased(row) THEN row.node ELSE loc)
                   /\ ~r.expired \/ r = row
    <2>1. Created(loc, d) \in Rows /\ Leased(Created(loc, d))  BY <1>1, CreatedType
    <2>2. CASE Leased(row)  BY <2>1, <2>2 DEF Created
    <2>3. CASE ~Leased(row)
      <3>1. NoRow \in Rows /\ ~NoRow.expired  BY NoRowType DEF NoRow
      <3>2. Created(loc, d).node = loc /\ ~Created(loc, d).expired
        BY <2>3, <3>1 DEF Created, Rows
      <3> QED  BY <2>1, <2>3, <3>2
    <2> QED  BY <2>2, <2>3
  <1>3. CASE Renew
    <2>1. PICK d \in Durations \cup {0} : Write(Renewed(d))  BY <1>3 DEF Renew
    <2>2. Renewed(d) \in Rows /\ Leased(Renewed(d)) /\ ~Renewed(d).expired
          /\ Renewed(d).node = Created(loc, d).node
      BY <1>1, RenewedType
    <2> QED  BY <1>2, <2>1, <2>2, WriteKeeps
  <1>4. CASE Adjust
    <2>1. PICK x \in {"keep", "on", "off"}, d \in Durations \cup {0, Keep}, n \in {-1, 0, 1},
               default \in Durations \cup {0} :
                  Write(WithMore(WithDays(WithExempt(Created(loc, default), x), d), n))
      BY <1>4 DEF Adjust
    <2> DEFINE r0 == Created(loc, default)
               r1 == WithExempt(r0, x)
               r2 == WithDays(r1, d)
               r3 == WithMore(r2, n)
    <2>2. r0 \in Rows /\ Leased(r0) /\ r0.node = (IF Leased(row) THEN row.node ELSE loc)
          /\ (~r0.expired \/ r0 = row)
      BY <1>2
    <2> HIDE DEF r0
    <2>3. r1 \in Rows /\ Leased(r1) /\ r1.node = r0.node /\ (r1 = r0 \/ ~r1.expired)
      BY <2>2, WithExemptKeeps
    <2> HIDE DEF r1
    <2>4. r2 \in Rows /\ Leased(r2) /\ r2.node = r1.node /\ (r2 = r1 \/ ~r2.expired)
      BY <1>1, <2>3, WithDaysKeeps
    <2> HIDE DEF r2
    <2>5. r3 \in Rows /\ Leased(r3) /\ r3.node = r2.node /\ (r3 = r2 \/ ~r3.expired)
      BY <1>1, <2>4, WithMoreKeeps
    <2>6. Write(r3)  BY <2>1 DEF r0, r1, r2
    <2> HIDE DEF r3
    <2> QED  BY <2>2, <2>3, <2>4, <2>5, <2>6, WriteKeeps
  <1>5. CASE Backfill  BY <1>2, <1>5, WriteKeeps DEF Backfill
  <1> QED  BY <1>3, <1>4, <1>5 DEF Routes

-----------------------------------------------------------------------------
(* The guest, migrations, the clock and crashes.                           *)

\* The guest stops, is asked to or is removed.
LEMMA GuestDownKeeps ==
    ASSUME IInv, UNCHANGED <<now, row, loc, pending, sweep>>,
           vm' \in {"stopped", "absent"} \/ vm' = vm,
           vm' \in {"running", "stopped", "absent"}, asked' \in BOOLEAN, events' \in Nat
    PROVE  IInv'
  <1>1. TypeOK'  BY DEF IInv, TypeOK
  <1>2. ExpiredIsOver' /\ LeaseNamesNode'
    BY DEF IInv, ExpiredIsOver, LeaseNamesNode, RunOut, Leased
  <1>3. ASSUME NEW s \in Sweeps  PROVE TurnIsTrue(s)'
    <2>1. TurnIsTrue(s)  BY DEF IInv, TurnsAreTrue
    <2> QED  BY <2>1 DEF TurnIsTrue, Holding, Down, RunOut, Leased
  <1> QED  BY <1>1, <1>2, <1>3 DEF IInv, TurnsAreTrue

\* The guest is started, which every sweep under way records.
LEMMA StartKeeps ==
    ASSUME IInv, UNCHANGED <<now, loc, pending, asked>>, vm' = "running", events' \in Nat,
           sweep' = [s \in Sweeps |-> [sweep[s] EXCEPT !.started = sweep[s].pc # "idle"]],
           row' \in Rows, row' = row \/ (~Leased(row) /\ row'.node = loc /\ ~row'.expired)
    PROVE  IInv'
  <1>1. \A s \in Sweeps : sweep[s] \in Turns  BY DEF IInv, TypeOK
  <1>2. \A s \in Sweeps : /\ sweep'[s] \in Turns
                          /\ sweep'[s].pc = sweep[s].pc /\ sweep'[s].got = sweep[s].got
                          /\ sweep'[s].seen = sweep[s].seen
                          /\ sweep'[s].touched = sweep[s].touched
                          /\ sweep'[s].started = (sweep[s].pc # "idle")
    <2> TAKE s \in Sweeps
    <2> DEFINE b == sweep[s].pc # "idle"
               x == [sweep[s] EXCEPT !.started = b]
    <2>1. b \in BOOLEAN  OBVIOUS
    <2>2. sweep'[s] = x  OBVIOUS
    <2> HIDE DEF b
    <2>3. /\ x \in Turns /\ x.pc = sweep[s].pc /\ x.got = sweep[s].got
          /\ x.seen = sweep[s].seen /\ x.touched = sweep[s].touched /\ x.started = b
      BY <1>1, <2>1 DEF Turns
    <2> HIDE DEF x
    <2> QED  BY <2>2, <2>3 DEF b
  <1>3. TypeOK'
    <2>1. sweep' \in [Sweeps -> Turns]  BY <1>2
    <2> QED  BY <2>1 DEF IInv, TypeOK
  <1>4. ExpiredIsOver' /\ LeaseNamesNode'
    BY DEF IInv, ExpiredIsOver, LeaseNamesNode, RunOut, Leased
  <1>5. ASSUME NEW s \in Sweeps  PROVE TurnIsTrue(s)'
    <2>1. TurnIsTrue(s)  BY DEF IInv, TurnsAreTrue
    <2>2. Holding(s)' = Holding(s)  BY <1>2 DEF Holding
    <2>3. Holding(s) => row' = row  BY <2>1 DEF TurnIsTrue
    <2>4. Holding(s)' => /\ ~pending' /\ Leased(row)' /\ (row.node = sweep[s].got.node)'
                         /\ (RunOut(row) \/ sweep[s].touched)'
      BY <1>2, <2>1, <2>2, <2>3 DEF TurnIsTrue, RunOut, Leased
    <2>5. sweep'[s].pc # "idle" => Down(s)'  BY <1>2 DEF Down
    <2> QED  BY <2>4, <2>5 DEF TurnIsTrue
  <1> QED  BY <1>3, <1>4, <1>5 DEF IInv, TurnsAreTrue

LEMMA DeleteKeeps ==
    ASSUME IInv, Delete
    PROVE  IInv'
  <1>1. /\ LockFree /\ vm' = "absent" /\ asked' = FALSE /\ row' = [NoRow EXCEPT !.id = row.id]
        /\ UNCHANGED <<now, loc, pending, sweep, events>>
    BY DEF Delete, GuestStep
  <1>2. NoRow \in Rows /\ NoRow.status = "none" /\ ~NoRow.expired /\ row.id \in Nat
    BY NoRowType DEF NoRow, IInv, TypeOK, Rows
  <1>3. row' \in Rows /\ row'.status = "none" /\ ~row'.expired  BY <1>1, <1>2 DEF Rows
  <1>4. TypeOK'  BY <1>1, <1>3 DEF IInv, TypeOK
  <1>5. ExpiredIsOver' /\ LeaseNamesNode'  BY <1>3 DEF ExpiredIsOver, LeaseNamesNode, Leased
  <1>6. ASSUME NEW s \in Sweeps  PROVE TurnIsTrue(s)'
    <2>1. TurnIsTrue(s) /\ ~Holding(s)  BY <1>1 DEF IInv, TurnsAreTrue, LockFree
    <2> QED  BY <1>1, <2>1 DEF TurnIsTrue, Holding, Down
  <1> QED  BY <1>4, <1>5, <1>6 DEF IInv, TurnsAreTrue

LEMMA GuestKeeps ==
    ASSUME IInv, Guest
    PROVE  IInv'
  <1> USE DEF GuestStep
  <1>1. CASE ShutdownDone \/ ShutdownIgnored \/ UserStop \/ Vanish
    <2>1. UNCHANGED <<now, row, loc, pending, sweep>>
      BY <1>1 DEF ShutdownDone, ShutdownIgnored, UserStop, Vanish
    <2>2. vm' \in {"stopped", "absent"} \/ vm' = vm
      BY <1>1 DEF ShutdownDone, ShutdownIgnored, UserStop, Vanish
    <2>3. asked' = FALSE
      BY <1>1, Zenon DEF ShutdownDone, ShutdownIgnored, UserStop, Vanish
    <2>4. events' = events \/ events' = events + 1
      BY <1>1 DEF ShutdownDone, ShutdownIgnored, UserStop, Vanish, Event
    <2>5. vm \in {"running", "stopped", "absent"} /\ events \in Nat  BY DEF IInv, TypeOK
    <2>6. asked' \in BOOLEAN  BY <2>3
    <2>7. vm' \in {"running", "stopped", "absent"} /\ events' \in Nat  BY <2>2, <2>4, <2>5
    <2> QED  BY <2>1, <2>2, <2>6, <2>7, GuestDownKeeps
  <1>2. CASE UserStart
    BY <1>2, StartKeeps DEF UserStart, Event, IInv, TypeOK
  <1>3. CASE Delete  BY <1>3, DeleteKeeps
  <1>4. CASE Provision
    <2>1. PICK d \in Durations \cup {0} : row' = Created(loc, d)  BY <1>4 DEF Provision
    <2>2. TypeOK /\ loc \in Nodes  BY DEF IInv, TypeOK
    <2>3. row' \in Rows  BY <2>1, <2>2, CreatedType
    <2>4. CASE Leased(row)
      <3>1. row' = row  BY <2>1, <2>4 DEF Created
      <3> QED  BY <1>4, <2>3, <3>1, StartKeeps DEF Provision, Event, IInv, TypeOK
    <2>5. CASE ~Leased(row)
      <3>1. NoRow \in Rows /\ ~NoRow.expired  BY NoRowType DEF NoRow
      <3>2. row'.node = loc /\ ~row'.expired  BY <2>1, <2>5, <3>1 DEF Created, Rows
      <3> QED  BY <1>4, <2>3, <2>5, <3>2, StartKeeps DEF Provision, Event, IInv, TypeOK
    <2> QED  BY <2>4, <2>5
  <1> QED  BY <1>1, <1>2, <1>3, <1>4 DEF Guest

LEMMA MovingKeeps ==
    ASSUME IInv, Moving
    PROVE  IInv'
  <1>0. pending \in BOOLEAN /\ loc \in Nodes /\ events \in Nat  BY DEF IInv, TypeOK
  <1>1. UNCHANGED <<now, vm, asked, sweep>> /\ events' \in Nat /\ pending' \in BOOLEAN /\ loc' \in Nodes
    <2>1. CASE ClaimMigration  BY <1>0, <2>1 DEF ClaimMigration, MoveStep, Event
    <2>2. CASE Copied  BY <1>0, <2>2 DEF Copied, MoveStep
    <2>3. CASE SettleMigration  BY <1>0, <2>3 DEF SettleMigration, MoveStep
    <2> QED  BY <2>1, <2>2, <2>3 DEF Moving
  <1>2. \/ row' = row /\ pending' /\ (pending \/ LockFree)
        \/ row' = [row EXCEPT !.node = loc] /\ ~pending' /\ loc' = loc /\ LockFree
    BY DEF Moving, ClaimMigration, Copied, SettleMigration, MoveStep
  <1>3. /\ row' \in Rows /\ row'.expired = row.expired /\ row'.status = row.status
        /\ row'.exempt = row.exempt /\ row'.expires = row.expires
    BY <1>2 DEF IInv, TypeOK, Rows
  <1>4. TypeOK'  BY <1>1, <1>3 DEF IInv, TypeOK
  <1>5. ExpiredIsOver'  BY <1>1, <1>3 DEF IInv, ExpiredIsOver, RunOut, Leased
  <1>6. LeaseNamesNode'  BY <1>2 DEF IInv, TypeOK, Rows, LeaseNamesNode
  <1>7. ASSUME NEW s \in Sweeps  PROVE TurnIsTrue(s)'
    <2>1. TurnIsTrue(s) /\ (LockFree => ~Holding(s))  BY DEF IInv, TurnsAreTrue, LockFree
    <2>2. ~Holding(s)  BY <1>2, <2>1 DEF TurnIsTrue
    <2> QED  BY <1>1, <2>1, <2>2 DEF TurnIsTrue, Holding, Down
  <1> QED  BY <1>4, <1>5, <1>6, <1>7 DEF IInv, TurnsAreTrue

LEMMA TickKeeps ==
    ASSUME IInv, Tick
    PROVE  IInv'
  <1>1. now' = now + 1 /\ now \in Nat \ {0} /\ UNCHANGED <<row, vm, loc, asked, pending, sweep, events>>
    BY DEF Tick, IInv, TypeOK
  <1>2. RunOut(row) => RunOut(row)'  BY <1>1 DEF RunOut, Leased, IInv, TypeOK, Rows
  <1>3. TypeOK'  BY <1>1 DEF IInv, TypeOK
  <1>4. ExpiredIsOver' /\ LeaseNamesNode'
    BY <1>1, <1>2 DEF IInv, ExpiredIsOver, LeaseNamesNode, Leased
  <1>5. ASSUME NEW s \in Sweeps  PROVE TurnIsTrue(s)'
    <2>1. TurnIsTrue(s)  BY DEF IInv, TurnsAreTrue
    <2> QED  BY <1>1, <1>2, <2>1 DEF TurnIsTrue, Holding, Down, Leased
  <1> QED  BY <1>3, <1>4, <1>5 DEF IInv, TurnsAreTrue

LEMMA CrashKeeps ==
    ASSUME IInv, Crash
    PROVE  IInv'
  <1>1. /\ UNCHANGED <<now, row, vm, loc, asked, pending>> /\ events' \in Nat
        /\ sweep' = [s \in Sweeps |-> Idle]
    BY DEF Crash, Event, IInv, TypeOK
  <1>2. TypeOK'  BY <1>1, NoRowType DEF IInv, TypeOK
  <1>3. ExpiredIsOver' /\ LeaseNamesNode'
    BY <1>1 DEF IInv, ExpiredIsOver, LeaseNamesNode, RunOut, Leased
  <1>4. ASSUME NEW s \in Sweeps  PROVE TurnIsTrue(s)'  BY <1>1, <1>4, IdleIsTrue
  <1> QED  BY <1>2, <1>3, <1>4 DEF IInv, TurnsAreTrue

-----------------------------------------------------------------------------
(* The theorems.                                                           *)

LEMMA InitTrue == Init => IInv
  <1> SUFFICES ASSUME Init PROVE IInv  OBVIOUS
  <1>1. PICK n \in Nodes, d \in Durations \cup {0} :
          /\ loc = n
          /\ row \in {NoRow, [NoRow EXCEPT !.status = "lease", !.node = n, !.days = d,
                                           !.expires = Later(d)]}
    BY DEF Init
  <1>2. NoRow \in Rows /\ ~NoRow.expired /\ NoRow.status = "none"  BY NoRowType DEF NoRow
  <1>3. Later(d) \in Int  BY LaterType DEF Init
  <1>4. row \in Rows /\ ~row.expired /\ (row.status = "none" \/ row.node = loc)
    BY <1>1, <1>2, <1>3 DEF Rows
  <1>5. TypeOK
    <2>1. now = 1 /\ vm = "running" /\ events = 0 /\ sweep = [s \in Sweeps |-> Idle]
      BY DEF Init
    <2>2. asked = FALSE /\ pending = FALSE  BY Zenon DEF Init
    <2>3. asked \in BOOLEAN /\ pending \in BOOLEAN  BY <2>2
    <2>4. sweep \in [Sweeps -> Turns]  BY <2>1, NoRowType
    <2> QED  BY <1>1, <1>4, <2>1, <2>3, <2>4 DEF TypeOK
  <1>6. ExpiredIsOver /\ LeaseNamesNode  BY <1>4 DEF ExpiredIsOver, LeaseNamesNode, Leased
  <1>7. TurnsAreTrue  BY DEF Init, TurnsAreTrue, TurnIsTrue, Holding, Idle
  <1> QED  BY <1>5, <1>6, <1>7 DEF IInv

LEMMA StepKeeps == IInv /\ [Next]_vars => IInv'
  <1> SUFFICES ASSUME IInv, [Next]_vars PROVE IInv'  OBVIOUS
  <1>1. ASSUME NEW s \in Sweeps, Sweeping(s)  PROVE IInv'
    BY <1>1, SelectKeeps, ListKeeps, LockKeeps, ProbeKeeps, ShutKeeps, MarkKeeps DEF Sweeping
  <1>2. CASE UNCHANGED vars
    BY <1>2 DEF vars, IInv, TypeOK, ExpiredIsOver, LeaseNamesNode, TurnsAreTrue, TurnIsTrue,
                Holding, Down, RunOut, Leased
  <1> QED  BY <1>1, <1>2, RoutesKeep, GuestKeeps, MovingKeeps, TickKeeps, CrashKeeps DEF Next

THEOREM Invariance == Spec => []IInv
  <1> QED  BY InitTrue, StepKeeps, PTL DEF Spec

\* Every reachable state of the lease model is well typed (utils/leases.ts).
THEOREM TypeCorrect == Spec => []TypeOK
  <1>1. IInv => TypeOK  BY DEF IInv
  <1> QED  BY <1>1, Invariance, PTL

\* A lease that is marked expired has run out, whichever edits and sweeps overlap
\* (utils/leases.ts:283-302).
THEOREM MarksAreTrue == Spec => []ExpiredIsOver
  <1>1. IInv => ExpiredIsOver  BY DEF IInv
  <1> QED  BY <1>1, Invariance, PTL

\* Only the step that asks Proxmox records an accepted shutdown.
LEMMA SentByShut ==
    ASSUME IInv, [Next]_vars, NEW s \in Sweeps, ~sweep[s].sent, sweep'[s].sent
    PROVE  sweep[s].pc = "shut" /\ UNCHANGED <<row, pending, loc>>
  <1>1. \A t \in Sweeps : sweep[t] \in Turns  BY DEF IInv, TypeOK
  <1>2. ~Idle.sent  BY DEF Idle
  <1>3. sweep \in [Sweeps -> Turns]  BY DEF IInv, TypeOK
  <1>4. CASE \E t \in Sweeps : Shut(t)
    <2>1. PICK t \in Sweeps : Shut(t)  BY <1>4
    <2>2. t = s  BY <1>3, <2>1 DEF Shut
    <2> QED  BY <2>1, <2>2 DEF Shut, SweepStep
  <1>5. CASE \E t \in Sweeps : Select(t)
    <2>1. PICK t \in Sweeps : Select(t)  BY <1>5
    <2> DEFINE x == [Idle EXCEPT !.pc = "list", !.got = row, !.seen = vm, !.seenOn = loc]
    <2>2. ~x.sent  BY <1>2, NoRowType DEF Turns
    <2>3. sweep' = [sweep EXCEPT ![t] = x]  BY <2>1 DEF Select
    <2> HIDE DEF x
    <2> QED  BY <1>3, <2>2, <2>3
  <1>6. CASE \E t \in Sweeps : List(t) \/ Lock(t) \/ Probe(t) \/ Mark(t)
    <2>1. PICK t \in Sweeps : List(t) \/ Lock(t) \/ Probe(t) \/ Mark(t)  BY <1>6
    <2>2. sweep'[s] = Idle \/ sweep'[s].sent = sweep[s].sent
      <3>1. CASE t # s
        BY <1>3, <2>1, <3>1 DEF List, Turn, Lock, Probe, ProbeAnswer, Mark
      <3>2. CASE t = s
        <4>1. sweep[s] \in Turns  BY <1>1
        <4>2. CASE List(s)
          <5>1. PICK x :
                  /\ x = Idle \/ x.sent = sweep[s].sent
                  /\ sweep' = [sweep EXCEPT ![s] = x]
            <6> DEFINE x1 == [sweep[s] EXCEPT !.pc = "lock"]
                       x2 == [sweep[s] EXCEPT !.pc = "lock", !.seen = vm, !.seenOn = loc,
                                              !.started = FALSE]
                       x3 == [sweep[s] EXCEPT !.pc = "lock", !.seen = "absent"]
            <6>1. x1.sent = sweep[s].sent /\ x2.sent = sweep[s].sent /\ x3.sent = sweep[s].sent
              BY <4>1 DEF Turns
            <6>2. CASE Turn(s, "lock")
              <7>1. sweep' = [sweep EXCEPT ![s] = x1]  BY <1>3, <4>1, <6>2 DEF Turn, Turns
              <7> HIDE DEF x1
              <7> QED  BY <6>1, <7>1
            <6>3. CASE sweep' = [sweep EXCEPT ![s].pc = "lock", ![s].seen = vm, ![s].seenOn = loc,
                                              ![s].started = FALSE]
              <7>1. sweep' = [sweep EXCEPT ![s] = x2]  BY <1>3, <4>1, <6>3 DEF Turns
              <7> HIDE DEF x2
              <7> QED  BY <6>1, <7>1
            <6>4. CASE sweep' = [sweep EXCEPT ![s].pc = "lock", ![s].seen = "absent"]
              <7>1. sweep' = [sweep EXCEPT ![s] = x3]  BY <1>3, <4>1, <6>4 DEF Turns
              <7> HIDE DEF x3
              <7> QED  BY <6>1, <7>1
            <6>5. CASE sweep' = [sweep EXCEPT ![s] = Idle]  BY <6>5
            <6> QED  BY <4>2, <6>2, <6>3, <6>4, <6>5 DEF List
          <5> QED  BY <1>3, <5>1
        <4>3. CASE Lock(s)
          <5> DEFINE pc == IF ~Listed(s) THEN "probe"
                           ELSE IF sweep[s].seen = "running" THEN "shut" ELSE "mark"
                     x == [sweep[s] EXCEPT !.got = row, !.pc = pc]
          <5>1. sweep' = [sweep EXCEPT ![s] = Idle] \/ sweep' = [sweep EXCEPT ![s] = x]
            BY <4>3 DEF Lock
          <5>2. x.sent = sweep[s].sent  BY <4>1 DEF Turns
          <5> HIDE DEF x
          <5> QED  BY <1>3, <5>1, <5>2
        <4>4. CASE Probe(s)
          <5> DEFINE x == [sweep[s] EXCEPT !.pc = "mark"]
          <5>1. sweep' = [sweep EXCEPT ![s] = Idle] \/ sweep' = [sweep EXCEPT ![s] = x]
            BY <4>4 DEF Probe, ProbeAnswer
          <5>2. x.sent = sweep[s].sent  BY <4>1 DEF Turns
          <5> HIDE DEF x
          <5> QED  BY <1>3, <5>1, <5>2
        <4>5. CASE Mark(s)  BY <1>3, <4>5 DEF Mark
        <4> QED  BY <2>1, <3>2, <4>2, <4>3, <4>4, <4>5
      <3> QED  BY <3>1, <3>2
    <2> QED  BY <1>2, <2>2
  <1>7. CASE Routes \/ UserStart \/ Provision
    <2>1. sweep'[s].sent = sweep[s].sent
      BY <1>1, <1>7 DEF Routes, Renew, Adjust, Backfill, Write, UserStart, Provision, Turns
    <2> QED  BY <2>1
  <1>8. CASE Crash  BY <1>2, <1>8 DEF Crash
  <1>9. CASE ShutdownDone \/ ShutdownIgnored \/ UserStop \/ Vanish \/ Delete \/ Moving \/ Tick
             \/ UNCHANGED vars
    BY <1>9 DEF ShutdownDone, ShutdownIgnored, UserStop, Vanish, Delete, Moving, ClaimMigration,
                Copied, SettleMigration, MoveStep, Tick, vars
  <1> QED  BY <1>4, <1>5, <1>6, <1>7, <1>8, <1>9 DEF Next, Sweeping, Guest

\* A sweep asks for a shutdown only while the lease has run out, on the lease's node and
\* with no migration pending, or over an edit made in its turn (utils/leases.ts:255-275).
THEOREM ShutdownsAreJustified == Spec => ShutdownIsJustified
  <1> DEFINE A == \A s \in Sweeps : ~sweep[s].sent /\ sweep'[s].sent =>
                     /\ ~pending /\ row.node = loc
                     /\ RunOut(row) \/ sweep[s].touched
  <1>1. IInv /\ [Next]_vars => A
    <2> SUFFICES ASSUME IInv, [Next]_vars, NEW s \in Sweeps, ~sweep[s].sent, sweep'[s].sent
                 PROVE  ~pending /\ row.node = loc /\ (RunOut(row) \/ sweep[s].touched)
      OBVIOUS
    <2>1. sweep[s].pc = "shut"  BY SentByShut
    <2> QED  BY <2>1 DEF IInv, TurnsAreTrue, TurnIsTrue, Holding, LeaseNamesNode
  <1> QED  BY <1>1, Invariance, PTL DEF Spec, ShutdownIsJustified

\* Only the mark of a sweep sets the flag; the routes only clear it.
LEMMA MarkedByMark ==
    ASSUME IInv, [Next]_vars, NEW s \in Sweeps,
           ~row.expired, row'.expired, Holding(s), ~Holding(s)'
    PROVE  sweep[s].pc = "mark"
  <1>1. sweep \in [Sweeps -> Turns] /\ row \in Rows  BY DEF IInv, TypeOK
  <1>2. row' # row  OBVIOUS
  <1>3. CASE \E t \in Sweeps : Sweeping(t)
    <2>1. PICK t \in Sweeps : Mark(t)
      BY <1>2, <1>3 DEF Sweeping, Select, List, Lock, Probe, Shut
    <2>2. CASE t = s  BY <2>1, <2>2 DEF Mark
    <2>3. CASE t # s
      <3>1. sweep'[s] = sweep[s]  BY <1>1, <2>1, <2>3 DEF Mark
      <3> QED  BY <3>1 DEF Holding
    <2> QED  BY <2>2, <2>3
  <1>4. CASE Routes
    <2>1. PICK r : Write(r)  BY <1>4 DEF Routes, Renew, Adjust, Backfill
    <2>2. sweep'[s].pc = sweep[s].pc  BY <1>1, <2>1 DEF Write, Turns
    <2> QED  BY <2>2 DEF Holding
  <1>5. CASE Delete  BY <1>5 DEF Delete, LockFree
  <1>6. CASE Provision
    <2>1. sweep'[s].pc = sweep[s].pc  BY <1>1, <1>6 DEF Provision, Turns
    <2> QED  BY <2>1 DEF Holding
  <1>7. CASE Moving
    <2>1. UNCHANGED sweep
      BY <1>7 DEF Moving, ClaimMigration, Copied, SettleMigration, MoveStep
    <2> QED  BY <2>1 DEF Holding
  <1>8. CASE ShutdownDone \/ ShutdownIgnored \/ UserStart \/ UserStop \/ Vanish \/ Tick
             \/ Crash \/ UNCHANGED vars
    BY <1>2, <1>8 DEF ShutdownDone, ShutdownIgnored, UserStart, UserStop, Vanish, Tick, Crash, vars
  <1> QED  BY <1>3, <1>4, <1>5, <1>6, <1>7, <1>8 DEF Next, Guest

\* A sweep books a lease as over only for a guest that does not run, that it asked to shut
\* down, or that was started after it was listed (utils/leases.ts:262-302).
THEOREM MarksAreOfGuestsDown == Spec => MarkedGuestIsDown
  <1> DEFINE A == \A s \in Sweeps :
                     ~row.expired /\ row'.expired /\ Holding(s) /\ ~Holding(s)' =>
                        vm # "running" \/ sweep[s].sent \/ sweep[s].started
  <1>1. IInv /\ [Next]_vars => A
    BY MarkedByMark DEF IInv, TurnsAreTrue, TurnIsTrue, Down
  <1> QED  BY <1>1, Invariance, PTL DEF Spec, MarkedGuestIsDown

=============================================================================
