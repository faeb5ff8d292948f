-------------------------- MODULE VmSchedulerProofs --------------------------
(***************************************************************************)
(* The safety of VmScheduler, for all schedules, nodes and bounds; and the *)
(* arithmetic of Timetables, for all windows, days, weeks and clocks.      *)
(***************************************************************************)
EXTENDS VmScheduler, Timetables, WellFoundedInduction, TLAPS

\* The blank row, tick and action are values of their types.
LEMMA BlankTypes ==
    /\ NoFlags \in Flags /\ AnyRow \in Rows /\ IdleTick \in Ticks /\ IdleAct \in Acts
    /\ AnyRow.flags = NoFlags /\ AnyRow.node \in Nodes
PROOF
  <1>1. NoFlags \in Flags
    BY DEF NoFlags, Flags
  <1>2. /\ AnyRow.cfg \in Configs /\ AnyRow.node \in Nodes
        /\ AnyRow.flags = NoFlags
    BY NodesAssumption DEF AnyRow
  <1>3. MaxPhase \in Nat /\ MaxEdits \in Nat
    BY BoundsAssumption
  <1>4. AnyRow \in Rows
    BY <1>1, <1>3, NodesAssumption DEF AnyRow, Rows
  <1>5. IdleTick \in Ticks
    BY <1>2, <1>3, <1>4 DEF IdleTick, Ticks, Phase
  <1>6. IdleAct \in Acts
    BY <1>1, <1>3, <1>4 DEF IdleAct, Acts, Phase
  <1> QED BY <1>1, <1>2, <1>4, <1>5, <1>6

\* Replacing the flags of a row leaves a row with these flags on the same node.
LEMMA FlagsReplaced ==
    ASSUME NEW r \in Rows, NEW f \in Flags
    PROVE  /\ [r EXCEPT !.flags = f] \in Rows
           /\ [r EXCEPT !.flags = f].flags = f
           /\ [r EXCEPT !.flags = f].node = r.node
PROOF
  BY DEF Rows

\* The flags computed from a sound row are sound: they belong to the window of t.
LEMMA NewFlagsSound ==
    ASSUME NEW s \in Rows, NEW t \in Phase, NEW seen \in {"running", "stopped"},
           FlagsOk(s.flags)
    PROVE  NewFlags(s, t, seen) \in Flags /\ FlagsOk(NewFlags(s, t, seen))
PROOF
  <1>1. s.flags \in Flags
    BY DEF Rows
  <1>2. s.flags.manual \in BOOLEAN /\ s.flags.stopped \in BOOLEAN /\ s.flags.lastOff \in -1..1
    BY <1>1 DEF Flags
  <1>3. NewFlags(s, t, seen) \in Flags
    BY DEF NewFlags, Flags
  <1>4. NewFlags(s, t, seen).manual \/ NewFlags(s, t, seen).stopped => InOff(s.cfg, t)
    BY <1>2 DEF NewFlags, KeptManual, KeptStopped, OverrideSeen, Enforced, Fresh, FlagsOk
  <1>5. InOff(s.cfg, t) => NewFlags(s, t, seen).lastOff = 1
    BY DEF NewFlags
  <1> QED BY <1>3, <1>4, <1>5 DEF FlagsOk

\* A row that equals a snapshot's configuration and flags is that snapshot.
LEMMA SnapshotIsRow ==
    ASSUME row \in Rows, NEW s \in Rows, SameSnapshot(s)
    PROVE  row = s
PROOF
  BY DEF SameSnapshot, SameConfig, Rows

\* The phase found by search is a phase or the end of time.
LEMMA SearchTypes ==
    ASSUME NEW c \in Configs, NEW t \in Phase
    PROVE  NextStart(c, t) \in 0..MaxPhase + 1
PROOF
  <1>1. MaxPhase \in Nat
    BY BoundsAssumption
  <1>2. StartPhases[c] \subseteq 1..MaxPhase + 1
    BY WindowsAssumption
  <1>3. CASE \E s \in StartPhases[c] : First(StartPhases[c], t + 1, s)
    <2>1. NextStart(c, t) \in StartPhases[c]
      BY <1>3 DEF NextStart
    <2> QED BY <1>1, <1>2, <2>1
  <1>4. CASE ~ \E s \in StartPhases[c] : First(StartPhases[c], t + 1, s)
    BY <1>1, <1>4 DEF NextStart, Phase
  <1> QED BY <1>3, <1>4

\* Initially all types hold, and the invariant with them.
LEMMA Initially == Init => IInv
PROOF
  <1> SUFFICES ASSUME Init PROVE IInv
    OBVIOUS
  <1>1. {MaxPhase, MaxEdits, MaxUser, MaxFaults, MaxMoves, MaxExits} \subseteq Nat
    BY BoundsAssumption
  <1>2. PICK c \in Configs, n \in Nodes :
           /\ loc = n
           /\ row = [status |-> "on", gen |-> 0, cfg |-> c, node |-> n, skip |-> 0,
                     flags |-> NoFlags]
    BY DEF Init
  <1>3. row \in Rows
    BY <1>1, <1>2, BlankTypes DEF Rows
  <1>4. TypeOK
    <2>1. now \in Phase /\ loc \in Nodes /\ tick \in Ticks /\ act \in Acts
      BY <1>1, <1>2, BlankTypes DEF Init, Phase
    <2>2. /\ edits \in 0..MaxEdits /\ users \in 0..MaxUser /\ faults \in 0..MaxFaults
          /\ moves \in 0..MaxMoves /\ exits \in 0..MaxExits
      BY <1>1 DEF Init
    <2>3. doneStop \in (Nat \cup {Never}) \X (Phase \cup {Never})
      BY DEF Init
    <2> QED BY <1>3, <2>1, <2>2, <2>3 DEF Init, TypeOK
  <1>5. FlagsOk(NoFlags)
    BY DEF FlagsOk, NoFlags
  <1>6. CarriedOk
    BY <1>2, <1>5, BlankTypes DEF Init, CarriedOk, IdleTick, IdleAct
  <1>7. NoActionDuringMigration /\ TickReadOk /\ StopWasDue
    BY DEF Init, NoActionDuringMigration, TickReadOk, StopWasDue, IdleTick, IdleAct, Holding
  <1>8. Placed
    BY <1>2 DEF Placed
  <1> QED BY <1>4, <1>6, <1>7, <1>8 DEF IInv

-----------------------------------------------------------------------------
(* The steps.                                                              *)

\* The tick's steps preserve the invariant.
LEMMA TickSteps == IInv /\ Tick => IInv'
PROOF
  <1> SUFFICES ASSUME IInv, Tick PROVE IInv'
    OBVIOUS
  <1> USE DEF IInv
  <1>1. CASE TickList
    <2>1. tick' \in Ticks /\ tick'.pc = "listed" /\ tick'.snap = AnyRow
      BY <1>1, BlankTypes DEF TickList, TypeOK, Ticks, IdleTick
    <2>2. TypeOK'
      BY <1>1, <2>1 DEF TickList, outside, bounds, hist, TypeOK
    <2>3. CarriedOk'
      BY <1>1, <2>1, BlankTypes DEF TickList, CarriedOk, FlagsOk, NoFlags
    <2>4. TickReadOk' /\ NoActionDuringMigration' /\ StopWasDue' /\ Placed'
      BY <1>1, <2>1 DEF TickList, outside, TickReadOk, NoActionDuringMigration, Holding,
                        StopWasDue, Placed
    <2> QED BY <2>2, <2>3, <2>4
  <1>2. CASE TickRead
    <2>1. /\ tick' \in Ticks
          /\ \/ tick'.snap = row /\ tick'.snap.status = "on"
             \/ tick' = IdleTick
      BY <1>2, BlankTypes DEF TickRead, TypeOK, Ticks
    <2>2. TypeOK'
      BY <1>2, <2>1 DEF TickRead, outside, bounds, hist, TypeOK
    <2>3. CarriedOk'
      BY <1>2, <2>1, BlankTypes DEF TickRead, CarriedOk, FlagsOk, NoFlags, IdleTick
    <2>4. TickReadOk' /\ NoActionDuringMigration' /\ StopWasDue' /\ Placed'
      BY <1>2, <2>1 DEF TickRead, outside, TickReadOk, NoActionDuringMigration, Holding,
                        StopWasDue, Placed, IdleTick
    <2> QED BY <2>2, <2>3, <2>4
  <1>3. CASE TickEvaluate
    <2> DEFINE flags == NewFlags(tick.snap, tick.at, tick.seen)
    <2>0. tick.snap \in Rows /\ tick.at \in Phase /\ tick.seen \in {"running", "stopped"}
      BY DEF TypeOK, Ticks
    <2>1. flags \in Flags /\ FlagsOk(flags)
      BY <2>0, NewFlagsSound DEF CarriedOk
    <2>2. tick' = IdleTick \/ tick' = [tick EXCEPT !.pc = "write"]
      BY <1>3 DEF TickEvaluate
    <2>3. tick' \in Ticks /\ FlagsOk(tick'.snap.flags) /\ TickReadOk'
      <3>1. CASE tick' = IdleTick
        BY <3>1, BlankTypes DEF FlagsOk, NoFlags, TickReadOk, IdleTick
      <3>2. CASE tick' = [tick EXCEPT !.pc = "write"]
        BY <1>3, <3>2 DEF TickEvaluate, TypeOK, Ticks, CarriedOk, TickReadOk
      <3> QED BY <2>2, <3>1, <3>2
    <2>4. CASE act' = act
      <3>1. TypeOK'
        BY <1>3, <2>3, <2>4 DEF TickEvaluate, outside, bounds, hist, TypeOK
      <3>2. CarriedOk'
        BY <1>3, <2>3, <2>4 DEF TickEvaluate, CarriedOk
      <3>3. NoActionDuringMigration' /\ StopWasDue' /\ Placed'
        BY <1>3, <2>4 DEF TickEvaluate, outside, NoActionDuringMigration, Holding,
                          StopWasDue, Placed
      <3> QED BY <2>3, <3>1, <3>2, <3>3
    <2>5. CASE act' # act
      <3> DEFINE action == Action(tick.snap, tick.at, tick.seen)
      <3>1. /\ action # "none"
            /\ act' = [IdleAct EXCEPT !.pc = "claim", !.kind = action, !.snap = tick.snap,
                          !.at = tick.at, !.flags = flags]
        BY <1>3, <2>5 DEF TickEvaluate
      <3>2. /\ action = "stop" /\ StopDue(tick.snap, tick.at, tick.seen)
            \/ action = "start"
        BY <3>1 DEF Action
      <3>3. act' \in Acts
        BY <2>0, <2>1, <3>1, <3>2, BlankTypes DEF Acts
      <3>4. /\ act'.pc = "claim" /\ act'.kind = action /\ act'.snap = tick.snap
            /\ act'.at = tick.at /\ act'.flags = flags
        BY <3>1 DEF IdleAct
      <3>5. TypeOK'
        BY <1>3, <2>3, <3>3 DEF TickEvaluate, outside, bounds, hist, TypeOK
      <3>6. CarriedOk'
        BY <1>3, <2>1, <2>3, <3>4 DEF TickEvaluate, CarriedOk
      <3>7. NoActionDuringMigration' /\ Placed'
        BY <1>3, <3>4 DEF TickEvaluate, outside, NoActionDuringMigration, Holding, Placed
      <3>8. StopWasDue'
        <4>1. SUFFICES ASSUME action = "stop"
                       PROVE  /\ tick.snap.status = "on" /\ tick.snap.skip <= tick.at
                              /\ InOff(tick.snap.cfg, tick.at)
                              /\ tick.snap.flags.lastOff = 1 =>
                                    ~tick.snap.flags.manual /\ ~tick.snap.flags.stopped
          BY <3>4 DEF StopWasDue, InOff
        <4>2. StopDue(tick.snap, tick.at, tick.seen)
          BY <3>2, <4>1
        <4>3. tick.snap.status = "on"
          BY <1>3 DEF TickEvaluate, TickReadOk
        <4> QED BY <4>2, <4>3 DEF StopDue, Enforced, KeptManual, KeptStopped, Fresh
      <3> QED BY <2>3, <3>5, <3>6, <3>7, <3>8
    <2> QED BY <2>4, <2>5
  <1>4. CASE TickWrite
    <2> DEFINE flags == NewFlags(tick.snap, tick.at, tick.seen)
    <2>0. tick.snap \in Rows /\ tick.at \in Phase /\ tick.seen \in {"running", "stopped"}
      BY DEF TypeOK, Ticks
    <2>1. flags \in Flags /\ FlagsOk(flags)
      BY <2>0, NewFlagsSound DEF CarriedOk
    <2>2. row' \in Rows /\ FlagsOk(row'.flags) /\ row'.node = row.node
      <3>1. row' = row \/ row' = [row EXCEPT !.flags = flags]
        BY <1>4 DEF TickWrite
      <3>2. row \in Rows /\ FlagsOk(row.flags)
        BY DEF TypeOK, CarriedOk
      <3>3. CASE row' = row
        BY <3>2, <3>3
      <3>4. CASE row' = [row EXCEPT !.flags = flags]
        <4> HIDE DEF flags
        <4> QED BY <2>1, <3>2, <3>4, FlagsReplaced
      <3> QED BY <3>1, <3>3, <3>4
    <2>3. tick' = IdleTick
      BY <1>4 DEF TickWrite
    <2>4. TypeOK'
      BY <1>4, <2>2, <2>3, BlankTypes DEF TickWrite, outside, bounds, hist, TypeOK
    <2>5. CarriedOk'
      BY <1>4, <2>2, <2>3, BlankTypes DEF TickWrite, CarriedOk, FlagsOk, NoFlags, IdleTick
    <2>6. TickReadOk' /\ NoActionDuringMigration' /\ StopWasDue' /\ Placed'
      BY <1>4, <2>2, <2>3 DEF TickWrite, outside, TickReadOk, NoActionDuringMigration, Holding,
                        StopWasDue, Placed, IdleTick
    <2> QED BY <2>4, <2>5, <2>6
  <1> QED BY <1>1, <1>2, <1>3, <1>4 DEF Tick

\* A claimed action that only moves on, or ends, preserves the invariant.
LEMMA ActionMoves ==
    ASSUME IInv, Holding,
           UNCHANGED <<now, row, vm, loc, migration, tick, stopping, edits, users, moves, exits, hist>>,
           tasks' \subseteq {"shutdown", "stop", "start"}, faults' \in 0..MaxFaults,
           \/ act' = IdleAct
           \/ act' \in Acts /\ act'.pc # "claim" /\ act'.flags = act.flags
    PROVE  IInv'
PROOF
  <1> USE DEF IInv
  <1>1. act' \in Acts /\ act'.pc # "claim" /\ FlagsOk(act'.flags)
    <2>1. CASE act' = IdleAct
      BY <2>1, BlankTypes DEF IdleAct, FlagsOk, NoFlags
    <2>2. CASE act' \in Acts /\ act'.pc # "claim" /\ act'.flags = act.flags
      BY <2>2 DEF CarriedOk, FlagsOk
    <2> QED BY <2>1, <2>2
  <1>2. TypeOK'
    BY <1>1 DEF TypeOK, hist
  <1>3. CarriedOk'
    BY <1>1 DEF CarriedOk
  <1>4. NoActionDuringMigration'
    BY DEF NoActionDuringMigration
  <1>5. TickReadOk' /\ StopWasDue' /\ Placed'
    BY <1>1 DEF TickReadOk, StopWasDue, Placed
  <1> QED BY <1>2, <1>3, <1>4, <1>5

\* The background action's steps preserve the invariant.
LEMMA ActSteps == IInv /\ Act => IInv'
PROOF
  <1> SUFFICES ASSUME IInv, Act PROVE IInv'
    OBVIOUS
  <1> USE DEF IInv
  <1>0. /\ act \in Acts /\ row \in Rows /\ faults \in 0..MaxFaults /\ MaxFaults \in Nat
        /\ tasks \subseteq {"shutdown", "stop", "start"}
    BY BoundsAssumption DEF TypeOK
  <1>a. ASSUME Fault \/ NoFault PROVE faults' \in 0..MaxFaults
    BY <1>0, <1>a DEF Fault, NoFault
  <1>b. ASSUME NEW t \in {"shutdown", "stop", "start"}, Submit(t) \/ tasks' = tasks
        PROVE  tasks' \subseteq {"shutdown", "stop", "start"}
    BY <1>0, <1>b DEF Submit
  <1>c. ASSUME NEW pc \in {"record", "ask", "start", "waitForced"}, ActGoto(pc)
        PROVE  act' \in Acts /\ act'.pc # "claim" /\ act'.flags = act.flags
    BY <1>0, <1>c DEF ActGoto, Acts
  <1>1. CASE ActClaim
    <2>1. act.snap \in Rows /\ act.flags \in Flags /\ FlagsOk(act.flags)
      BY <1>0 DEF Acts, CarriedOk
    <2>2. CASE Gate(act.snap)
      <3>1. row' = [row EXCEPT !.flags = act.flags] /\ act' = [act EXCEPT !.pc = "detect"]
        BY <1>1, <2>2 DEF ActClaim, ActGoto
      <3>2. row' \in Rows /\ row'.flags = act.flags /\ row'.node = row.node
        BY <1>0, <2>1, <3>1, FlagsReplaced
      <3>3. act' \in Acts /\ act'.pc = "detect" /\ act'.flags = act.flags
        BY <1>0, <3>1 DEF Acts
      <3>4. TypeOK'
        BY <1>1, <1>a, <3>2, <3>3 DEF ActClaim, ActStep, world, TypeOK
      <3>5. CarriedOk'
        BY <1>1, <2>1, <3>2, <3>3 DEF ActClaim, ActStep, world, CarriedOk
      <3>6. NoActionDuringMigration'
        BY <1>1, <2>2 DEF ActClaim, ActStep, world, Gate, NoActionDuringMigration
      <3>7. TickReadOk' /\ StopWasDue' /\ Placed'
        BY <1>1, <3>2, <3>3 DEF ActClaim, ActStep, world, TickReadOk, StopWasDue, Placed
      <3> QED BY <3>4, <3>5, <3>6, <3>7
    <2>3. CASE ~Gate(act.snap)
      <3>1. row' = row /\ act' = IdleAct
        BY <1>1, <2>3 DEF ActClaim
      <3>2. TypeOK'
        BY <1>1, <1>a, <3>1, BlankTypes DEF ActClaim, ActStep, world, TypeOK
      <3>3. CarriedOk'
        BY <1>1, <3>1 DEF ActClaim, ActStep, world, CarriedOk, IdleAct, FlagsOk, NoFlags
      <3>4. NoActionDuringMigration' /\ TickReadOk' /\ StopWasDue' /\ Placed'
        BY <1>1, <3>1 DEF ActClaim, ActStep, world, NoActionDuringMigration, Holding, IdleAct,
                          TickReadOk, StopWasDue, Placed
      <3> QED BY <3>2, <3>3, <3>4
    <2> QED BY <2>2, <2>3
  <1>2. CASE ActDetect
    <2>1. Holding /\ faults' \in 0..MaxFaults
      BY <1>2, <1>a DEF ActDetect, Holding
    <2>2. \/ act' = IdleAct
          \/ act' \in Acts /\ act'.pc # "claim" /\ act'.flags = act.flags
      <3>1. act' = IdleAct \/ ActGoto("record") \/ ActGoto("ask") \/ ActGoto("start")
        BY <1>2 DEF ActDetect
      <3> QED BY <3>1, <1>c
    <2> QED BY <1>0, <1>2, <2>1, <2>2, ActionMoves DEF ActDetect, ActStep, world, hist
  <1>3. CASE ActAsk
    <2>1. Holding /\ faults' \in 0..MaxFaults
      BY <1>3, <1>a DEF ActAsk, Holding
    <2>2. tasks' \subseteq {"shutdown", "stop", "start"}
      BY <1>3, <1>b DEF ActAsk
    <2>3. act' \in Acts /\ act'.pc # "claim" /\ act'.flags = act.flags
      BY <1>0, <1>3 DEF ActAsk, ActGoto, Acts
    <2> QED BY <1>3, <2>1, <2>2, <2>3, ActionMoves DEF ActAsk, ActStep, world, hist
  <1>4. CASE ActWait
    <2>1. Holding /\ faults' \in 0..MaxFaults
      BY <1>4, <1>a DEF ActWait, Holding
    <2>2. act' \in Acts /\ act'.pc # "claim" /\ act'.flags = act.flags
      BY <1>0, <1>4 DEF ActWait, ActGoto, Acts
    <2> QED BY <1>0, <1>4, <2>1, <2>2, ActionMoves DEF ActWait, ActStep, world, hist
  <1>5. CASE ActForce
    <2>1. Holding /\ faults' \in 0..MaxFaults
      BY <1>5, <1>a DEF ActForce, Holding
    <2>2. tasks' \subseteq {"shutdown", "stop", "start"}
      BY <1>5, <1>b DEF ActForce
    <2>3. \/ act' = IdleAct
          \/ act' \in Acts /\ act'.pc # "claim" /\ act'.flags = act.flags
      <3>1. act' = IdleAct \/ ActGoto("waitForced")
        BY <1>5 DEF ActForce
      <3> QED BY <3>1, <1>c
    <2> QED BY <1>5, <2>1, <2>2, <2>3, ActionMoves DEF ActForce, ActStep, world, hist
  <1>6. CASE ActWaitForced
    <2>1. Holding /\ faults' \in 0..MaxFaults
      BY <1>6, <1>a DEF ActWaitForced, Holding
    <2>2. \/ act' = IdleAct
          \/ act' \in Acts /\ act'.pc # "claim" /\ act'.flags = act.flags
      <3>1. act' = IdleAct \/ ActGoto("record")
        BY <1>6 DEF ActWaitForced
      <3> QED BY <3>1, <1>c
    <2> QED BY <1>0, <1>6, <2>1, <2>2, ActionMoves DEF ActWaitForced, ActStep, world, hist
  <1>7. CASE ActStart
    <2>1. Holding /\ faults' \in 0..MaxFaults
      BY <1>7, <1>a DEF ActStart, Holding
    <2>2. tasks' \subseteq {"shutdown", "stop", "start"}
      BY <1>7, <1>b DEF ActStart
    <2> QED BY <1>7, <2>1, <2>2, ActionMoves DEF ActStart, ActStep, world, hist
  <1>8. CASE ActRecord
    <2>1. act' = IdleAct
      BY <1>8 DEF ActRecord
    <2>2. /\ row' \in Rows /\ FlagsOk(row'.flags) /\ row'.node = row.node
          /\ doneStop' \in (Nat \cup {Never}) \X (Phase \cup {Never})
      <3>1. CASE Books(act.snap)
        <4>1. row' = [row EXCEPT !.flags.stopped = TRUE] /\ doneStop' = <<row.gen, act.at>>
          BY <1>8, <3>1 DEF ActRecord
        <4>2. row.gen \in Nat /\ act.at \in Phase /\ row.flags \in Flags
          BY <1>0, BoundsAssumption DEF Rows, Acts
        <4>3. /\ row' \in Rows /\ row'.flags.lastOff = row.flags.lastOff
              /\ row'.node = row.node
          BY <1>0, <4>1, <4>2 DEF Rows, Flags
        <4> QED BY <3>1, <4>1, <4>2, <4>3 DEF Books, FlagsOk
      <3>2. CASE ~Books(act.snap)
        BY <1>0, <1>8, <3>2 DEF ActRecord, CarriedOk, TypeOK
      <3> QED BY <3>1, <3>2
    <2>3. TypeOK'
      BY <1>8, <1>a, <2>1, <2>2, BlankTypes DEF ActRecord, ActStep, world, TypeOK
    <2>4. CarriedOk'
      BY <1>8, <2>1, <2>2 DEF ActRecord, ActStep, world, CarriedOk, IdleAct, FlagsOk, NoFlags
    <2>5. NoActionDuringMigration' /\ TickReadOk' /\ StopWasDue' /\ Placed'
      BY <1>8, <2>1, <2>2 DEF ActRecord, ActStep, world, NoActionDuringMigration, Holding,
                          IdleAct, TickReadOk, StopWasDue, Placed
    <2> QED BY <2>3, <2>4, <2>5
  <1> QED BY <1>1, <1>2, <1>3, <1>4, <1>5, <1>6, <1>7, <1>8 DEF Act

\* What Proxmox, the users, migrations, exits and time do preserves the invariant.
LEMMA OtherSteps == IInv /\ (Upstream \/ Users \/ Others) => IInv'
PROOF
  <1> SUFFICES ASSUME IInv, Upstream \/ Users \/ Others PROVE IInv'
    OBVIOUS
  <1> USE DEF IInv
  <1>0. /\ row \in Rows /\ act \in Acts /\ loc \in Nodes /\ FlagsOk(NoFlags)
        /\ now \in Phase /\ row.node = loc
    BY DEF TypeOK, FlagsOk, NoFlags, Placed
  <1>1. CASE Upstream
    <2>1. UNCHANGED upstream
      BY <1>1 DEF Upstream, ShutdownDone, ShutdownIgnored, StopDone, StartDone
    <2>2. /\ vm' \in {"running", "stopped"} /\ stopper' \in {"none", "user", "scheduler"}
          /\ tasks' \subseteq {"shutdown", "stop", "start"}
      BY <1>1 DEF Upstream, ShutdownDone, ShutdownIgnored, StopDone, StartDone, Stopped, TypeOK
    <2>3. TypeOK'
      BY <2>1, <2>2 DEF upstream, bounds, TypeOK
    <2> QED BY <2>1, <2>3 DEF upstream, CarriedOk, TickReadOk, StopWasDue, Placed,
                              NoActionDuringMigration, Holding
  <1>2. CASE UserStart
    <2>1. act' = act /\ act' \in Acts
      BY <1>0, <1>2 DEF UserStart
    <2>2. users' \in 0..MaxUser
      BY <1>2, BoundsAssumption DEF UserStart, TypeOK
    <2>3. TypeOK'
      BY <1>2, <2>1, <2>2 DEF UserStart, world, TypeOK
    <2>4. NoActionDuringMigration'
      BY <1>2, <2>1 DEF UserStart, world, NoActionDuringMigration, Holding
    <2>5. StopWasDue'
      BY <1>2, <2>1 DEF UserStart, StopWasDue, InOff
    <2> QED BY <1>2, <2>1, <2>3, <2>4, <2>5 DEF UserStart, world, CarriedOk, TickReadOk, Placed
  <1>3. CASE UserStop
    <2>1. users' \in 0..MaxUser
      BY <1>3, BoundsAssumption DEF UserStop, TypeOK
    <2>2. TypeOK'
      BY <1>3, <2>1 DEF UserStop, Stopped, world, TypeOK
    <2> QED BY <1>3, <2>2 DEF UserStop, world, CarriedOk, TickReadOk, StopWasDue, Placed,
                              NoActionDuringMigration, Holding
  <1>4. ASSUME NEW r \in Rows, PolicyWrite(r),
               FlagsOk(r.flags), r.node = loc
        PROVE  IInv'
    <2>1. edits' \in 0..MaxEdits
      BY <1>4, BoundsAssumption DEF PolicyWrite, TypeOK
    <2>2. TypeOK'
      BY <1>4, <2>1 DEF PolicyWrite, world, TypeOK
    <2> QED BY <1>4, <2>2 DEF PolicyWrite, world, CarriedOk, TickReadOk, StopWasDue, Placed,
                              NoActionDuringMigration, Holding
  <1>5. CASE SaveSchedule \/ DeleteSchedule \/ SkipNext \/ CancelSkip
    <2>0. MaxPhase \in Nat /\ MaxEdits \in Nat
      BY BoundsAssumption
    <2>1. CASE SaveSchedule
      <3>1. PICK c \in Configs, status \in {"on", "off"} :
               PolicyWrite([status |-> status, gen |-> edits + 1, cfg |-> c,
                            node |-> IF row.status = "none" THEN loc ELSE row.node,
                            skip |-> 0, flags |-> NoFlags])
        BY <2>1 DEF SaveSchedule
      <3> DEFINE r == [status |-> status, gen |-> edits + 1, cfg |-> c,
                       node |-> IF row.status = "none" THEN loc ELSE row.node,
                       skip |-> 0, flags |-> NoFlags]
      <3>2. edits + 1 \in 0..MaxEdits
        BY <2>0, <3>1 DEF PolicyWrite, TypeOK
      <3>3. r \in Rows /\ r.flags = NoFlags /\ r.node = loc
        BY <1>0, <2>0, <3>2, BlankTypes DEF Rows
      <3> HIDE DEF r
      <3> QED BY <1>0, <1>4, <2>0, <3>1, <3>3 DEF r
    <2>2. CASE DeleteSchedule
      <3> DEFINE r == [row EXCEPT !.status = "none"]
      <3>1. r \in Rows /\ r.flags = row.flags /\ r.node = row.node
        BY <1>0 DEF Rows
      <3>2. PolicyWrite(r)
        BY <2>2 DEF DeleteSchedule
      <3> HIDE DEF r
      <3> QED BY <1>0, <1>4, <2>0, <3>1, <3>2 DEF CarriedOk
    <2>3. CASE SkipNext
      <3> DEFINE r == [row EXCEPT !.skip = NextStart(row.cfg, now)]
      <3>1. row.cfg \in Configs
        BY <1>0 DEF Rows
      <3>2. NextStart(row.cfg, now) \in 0..MaxPhase + 1
        BY <1>0, <3>1, SearchTypes
      <3>3. r \in Rows /\ r.flags = row.flags /\ r.node = row.node
        BY <1>0, <3>2 DEF Rows
      <3>4. PolicyWrite(r)
        BY <2>3 DEF SkipNext
      <3> HIDE DEF r
      <3> QED BY <1>0, <1>4, <3>2, <3>3, <3>4 DEF CarriedOk
    <2>4. CASE CancelSkip
      <3> DEFINE r == [row EXCEPT !.skip = 0]
      <3>1. r \in Rows /\ r.flags = row.flags /\ r.node = row.node
        BY <1>0, <2>0 DEF Rows
      <3>2. PolicyWrite(r)
        BY <2>4 DEF CancelSkip
      <3> HIDE DEF r
      <3> QED BY <1>0, <1>4, <2>0, <3>1, <3>2 DEF CarriedOk
    <2> QED BY <1>5, <2>1, <2>2, <2>3, <2>4
  <1>6. CASE MigrationClaim
    <2>1. moves' \in 0..MaxMoves
      BY <1>6, BoundsAssumption DEF MigrationClaim, TypeOK
    <2>2. TypeOK'
      BY <1>6, <2>1 DEF MigrationClaim, elsewhere, hist, TypeOK
    <2> QED BY <1>6, <2>2 DEF MigrationClaim, elsewhere, CarriedOk, TickReadOk, StopWasDue,
                              Placed, NoActionDuringMigration, Holding
  <1>7. CASE MigrationFinish
    <2>1. PICK n \in Nodes : loc' = n /\ row' = [row EXCEPT !.node = n]
      BY <1>7 DEF MigrationFinish
    <2>2. row' \in Rows /\ row'.flags = row.flags /\ row'.node = n
      BY <1>0, <2>1 DEF Rows
    <2>3. TypeOK'
      BY <1>7, <2>1, <2>2 DEF MigrationFinish, elsewhere, hist, TypeOK
    <2> QED BY <1>7, <2>1, <2>2, <2>3 DEF MigrationFinish, elsewhere, CarriedOk, TickReadOk,
                              StopWasDue, Placed, NoActionDuringMigration, Holding
  <1>8. CASE StopScheduler
    <2>1. TypeOK'
      BY <1>8 DEF StopScheduler, bounds, hist, TypeOK
    <2> QED BY <1>8, <2>1 DEF StopScheduler, CarriedOk, TickReadOk, StopWasDue, Placed,
                              NoActionDuringMigration, Holding
  <1>9. CASE Exit
    <2>1. exits' \in 0..MaxExits
      BY <1>9, BoundsAssumption DEF Exit, TypeOK
    <2>2. TypeOK'
      BY <1>9, <2>1, BlankTypes DEF Exit, hist, TypeOK
    <2>3. CarriedOk'
      BY <1>0, <1>9, BlankTypes DEF Exit, CarriedOk, IdleTick, IdleAct
    <2> QED BY <1>9, <2>2, <2>3 DEF Exit, IdleTick, IdleAct, TickReadOk, StopWasDue, Placed,
                              NoActionDuringMigration, Holding
  <1>10. CASE Advance
    <2>1. now' \in Phase
      BY <1>0, <1>10, BoundsAssumption DEF Advance, Phase
    <2>2. TypeOK'
      BY <1>10, <2>1 DEF Advance, bounds, hist, TypeOK
    <2> QED BY <1>10, <2>2 DEF Advance, CarriedOk, TickReadOk, StopWasDue, Placed,
                              NoActionDuringMigration, Holding
  <1> QED BY <1>1, <1>2, <1>3, <1>5, <1>6, <1>7, <1>8, <1>9, <1>10 DEF Users, Others

-----------------------------------------------------------------------------
(* The theorems.                                                           *)

LEMMA Stuttering == IInv /\ UNCHANGED vars => IInv'
PROOF
  BY DEF vars, bounds, hist, IInv, TypeOK, NoActionDuringMigration, Holding, CarriedOk,
         TickReadOk, StopWasDue, Placed

LEMMA Invariance == Spec => []IInv
PROOF
  <1>1. IInv /\ [Next]_vars => IInv'
    BY TickSteps, ActSteps, OtherSteps, Stuttering DEF Next
  <1> QED BY Initially, <1>1, PTL DEF Spec

\* Type correctness: every reachable state of the scheduler is well typed.
THEOREM TypeCorrect == Spec => []TypeOK
PROOF
  <1>1. IInv => TypeOK
    BY DEF IInv
  <1> QED BY <1>1, Invariance, PTL

\* vmMigrationLock.ts:97-115: no power action runs while a migration of the VM is pending.
THEOREM MigrationIsSafe == Spec => []NoActionDuringMigration
PROOF
  <1>1. IInv => NoActionDuringMigration
    BY DEF IInv
  <1> QED BY <1>1, Invariance, PTL

\* scheduler.ts:103: the window flags always belong to the OFF window the row is in.
THEOREM FlagsAreOfWindow == Spec => []FlagsBelongToWindow
PROOF
  <1>1. IInv => FlagsBelongToWindow
    BY DEF IInv, CarriedOk, FlagsOk, FlagsBelongToWindow
  <1> QED BY <1>1, Invariance, PTL

\* Only a claim takes an action past its claim.
LEMMA ClaimIsGated ==
    ASSUME IInv, Next, NEW kind, Claims(kind)
    PROVE  ActClaim /\ Gate(act.snap) /\ row = act.snap
PROOF
  <1>1. act.pc = "claim" /\ act'.pc = "detect"
    BY DEF Claims
  <1>2. ActClaim
    <2>1. CASE Tick
      BY <1>1, <2>1 DEF Tick, TickList, TickRead, TickEvaluate, TickWrite, Claiming
    <2>2. CASE Act
      BY <1>1, <2>2 DEF Act, ActClaim, ActDetect, ActAsk, ActWait, ActForce,
                        ActWaitForced, ActStart, ActRecord
    <2>3. CASE Upstream
      BY <1>1, <2>3 DEF Upstream, ShutdownDone, ShutdownIgnored, StopDone, StartDone, upstream
    <2>4. CASE Users
      <3>1. act' = act
        BY <2>4 DEF Users, UserStart, UserStop, SaveSchedule, DeleteSchedule, SkipNext,
                    CancelSkip, PolicyWrite
      <3> QED BY <1>1, <3>1
    <2>5. CASE Others
      BY <1>1, <2>5 DEF Others, MigrationClaim, MigrationFinish, StopScheduler, Exit,
                        Advance, elsewhere, IdleAct
    <2> QED BY <2>1, <2>2, <2>3, <2>4, <2>5 DEF Next
  <1>3. Gate(act.snap)
    BY <1>1, <1>2 DEF ActClaim, IdleAct
  <1>4. row = act.snap
    BY <1>3, SnapshotIsRow DEF Gate, IInv, TypeOK, Acts
  <1> QED BY <1>2, <1>3, <1>4

\* scheduler.ts:93: a stop is only claimed when it is due by the row as it stands.
THEOREM ClaimsAreCurrent == Spec => ClaimHonoursRow
PROOF
  <1> DEFINE Honoured ==
        Claims("stop") =>
          /\ row.status = "on" /\ row.skip <= act.at /\ InOff(row.cfg, act.at)
          /\ act.snap.node = loc
          /\ row.flags.lastOff = 1 => ~row.flags.manual /\ ~row.flags.stopped
  <1>1. IInv /\ [Next]_vars => [Honoured]_vars
    <2> SUFFICES ASSUME IInv, Next, Claims("stop")
                 PROVE  Honoured
      OBVIOUS
    <2>1. act.pc = "claim" /\ act.kind = "stop" /\ row = act.snap
      BY ClaimIsGated DEF Claims
    <2> QED BY <2>1 DEF IInv, StopWasDue, Placed
  <1> QED BY <1>1, Invariance, PTL DEF Spec, ClaimHonoursRow

-----------------------------------------------------------------------------
(* One stop per window.  The stop booked on the row is remembered: by its  *)
(* flags, or by a phase outside the window that has been since.            *)

\* What the flags f of the row, as of phase t, still say of the booked stop.
Keeps(f, t) == (f.lastOff = 1 /\ f.stopped) \/ ~OneWindow(row.cfg, doneStop[2], t)

\* The tick and the action look at the guest one after the other, and none of them
\* before the last stop was due; and the action's flags follow from what it read.
TimesInv ==
    /\ doneStop[1] <= edits /\ row.gen <= edits
    /\ doneStop[2] <= now /\ act.at <= now /\ tick.at <= now
    /\ InFlight => doneStop[2] <= act.at
    /\ tick.pc # "idle" => doneStop[2] <= tick.at
    /\ InFlight /\ tick.pc # "idle" => act.at <= tick.at
    /\ tick.pc = "write" => ~Claiming
    /\ Claiming => \E seen \in {"running", "stopped"} :
                      act.flags = NewFlags(act.snap, act.at, seen)

\* The strengthening of OneStopPerWindow: the row keeps the stop booked under its present
\* configuration, and whoever read the flags as they stand read them late enough.
BookedInv ==
    doneStop[1] = row.gen =>
        /\ Keeps(row.flags, now)
        /\ tick.pc \in {"read", "write"} /\ tick.snap.flags = row.flags => Keeps(row.flags, tick.at)
        /\ Claiming /\ act.snap.flags = row.flags => Keeps(row.flags, act.at)

StopInv == TimesInv /\ BookedInv

\* The numbers that are compared.
LEMMA Numbers ==
    ASSUME IInv
    PROVE  /\ now \in Nat /\ act.at \in Nat /\ tick.at \in Nat
           /\ doneStop[1] \in Int /\ doneStop[2] \in Int /\ edits \in Nat /\ row.gen \in Nat
           /\ row \in Rows /\ tick.snap \in Rows /\ act.snap \in Rows
           /\ row.flags \in Flags /\ tick.seen \in {"running", "stopped"}
           /\ act \in Acts /\ tick \in Ticks
PROOF
  BY BoundsAssumption DEF IInv, TypeOK, Phase, Acts, Ticks, Rows, Never

\* What has been forgotten stays forgotten, and what is remembered is remembered.
LEMMA KeptLater ==
    ASSUME NEW f, NEW t \in Int, NEW u \in Int, t <= u, doneStop[2] \in Int, Keeps(f, t)
    PROVE  Keeps(f, u)
PROOF
  <1>1. doneStop[2]..t \subseteq doneStop[2]..u
    OBVIOUS
  <1> QED BY <1>1 DEF Keeps, OneWindow

\* Flags written from the row as of t remember what the row did: they are kept within the
\* window, and outside of it t is the phase that parts the windows.
LEMMA WrittenKeeps ==
    ASSUME row \in Rows, NEW t \in Int, NEW seen, doneStop[2] \in Int, doneStop[2] <= t,
           Keeps(row.flags, t)
    PROVE  Keeps(NewFlags(row, t, seen), t)
PROOF
  <1>1. CASE ~OneWindow(row.cfg, doneStop[2], t)
    BY <1>1 DEF Keeps
  <1>2. CASE ~InOff(row.cfg, t)
    <2>1. t \in doneStop[2]..t
      OBVIOUS
    <2> QED BY <1>2, <2>1 DEF Keeps, OneWindow
  <1>3. CASE InOff(row.cfg, t) /\ row.flags.lastOff = 1 /\ row.flags.stopped
    <2>1. ~Fresh(row, t)
      BY <1>3 DEF Fresh
    <2> QED BY <1>3, <2>1 DEF Keeps, NewFlags, KeptStopped
  <1> QED BY <1>1, <1>2, <1>3 DEF Keeps

\* Steps that leave the tick, the action and the booked stop alone, and do not touch the
\* flags or save the schedule anew.
LEMMA QuietSteps ==
    ASSUME IInv, StopInv, UNCHANGED <<doneStop, tick, act>>, now' \in Nat, now <= now',
           edits' \in Nat, edits <= edits',
           \/ row'.flags = row.flags /\ row'.gen = row.gen /\ row'.cfg = row.cfg
           \/ row'.gen = edits' /\ edits' = edits + 1
    PROVE  StopInv'
PROOF
  <1>0. TimesInv /\ BookedInv
    BY DEF StopInv
  <1>1. TimesInv'
    BY <1>0, Numbers DEF TimesInv, InFlight, Claiming, NewFlags, KeptManual, KeptStopped,
                         OverrideSeen, Enforced, Fresh, InOff
  <1>2. CASE row'.gen = edits' /\ edits' = edits + 1
    <2>1. doneStop'[1] # row'.gen
      BY <1>0, <1>2, Numbers DEF TimesInv
    <2> QED BY <1>1, <2>1 DEF BookedInv, StopInv
  <1>3. CASE row'.flags = row.flags /\ row'.gen = row.gen /\ row'.cfg = row.cfg
    <2>1. \A f, t : Keeps(f, t)' <=> Keeps(f, t)
      BY <1>3 DEF Keeps, OneWindow, InOff
    <2>2. doneStop[1] = row.gen => Keeps(row.flags, now')
      BY <1>0, KeptLater, Numbers DEF BookedInv
    <2> QED BY <1>0, <1>1, <1>3, <2>1, <2>2 DEF BookedInv, StopInv, Claiming
  <1> QED BY <1>2, <1>3

LEMMA StopInit == Init => StopInv
PROOF
  <1> SUFFICES ASSUME Init PROVE StopInv
    OBVIOUS
  <1>1. row.gen = 0 /\ doneStop = <<Never, Never>> /\ now = 0 /\ edits = 0
    BY DEF Init
  <1>2. act.pc = "idle" /\ act.at = 0 /\ tick.pc = "idle" /\ tick.at = 0
    BY DEF Init, IdleAct, IdleTick
  <1> QED BY <1>1, <1>2 DEF StopInv, TimesInv, BookedInv, InFlight, Claiming, Never

\* The tick carries its reading on: to the row, or to the action it queues.
LEMMA StopTick == IInv /\ StopInv /\ Tick => StopInv'
PROOF
  <1> SUFFICES ASSUME IInv, StopInv, Tick PROVE StopInv'
    OBVIOUS
  <1>0. TimesInv /\ BookedInv
    BY DEF StopInv
  <1>1. CASE TickList
    <2>1. /\ tick'.pc = "listed" /\ tick'.at = now
          /\ UNCHANGED <<row, act, now, doneStop, edits>>
      BY <1>1 DEF TickList, IdleTick, outside, bounds, hist
    <2>2. TimesInv'
      BY <1>0, <2>1, Numbers DEF TimesInv, InFlight, Claiming, NewFlags, KeptManual,
                                 KeptStopped, OverrideSeen, Enforced, Fresh, InOff
    <2> QED BY <1>0, <2>1, <2>2 DEF BookedInv, StopInv, Claiming, Keeps, OneWindow, InOff
  <1>2. CASE TickRead
    <2>1. UNCHANGED <<row, act, now, doneStop, edits>>
      BY <1>2 DEF TickRead, outside, bounds, hist
    <2>2. \/ tick'.pc = "read" /\ tick'.at = now
          \/ tick'.pc = "idle" /\ tick'.at = 0
      BY <1>2, Numbers DEF TickRead, IdleTick, Ticks
    <2>3. TimesInv'
      BY <1>0, <2>1, <2>2, Numbers DEF TimesInv, InFlight, Claiming, NewFlags, KeptManual,
                                 KeptStopped, OverrideSeen, Enforced, Fresh, InOff
    <2> QED BY <1>0, <2>1, <2>2, <2>3 DEF BookedInv, StopInv, Claiming, Keeps, OneWindow, InOff
  <1>3. CASE TickEvaluate
    <2>1. tick.pc = "read" /\ UNCHANGED <<row, now, doneStop, edits>>
      BY <1>3 DEF TickEvaluate, outside, bounds, hist
    <2>2. \/ tick'.pc = "idle" /\ tick'.at = 0
          \/ /\ tick'.pc = "write" /\ tick'.at = tick.at /\ tick'.snap = tick.snap
             /\ ~Claiming /\ act' = act
      BY <1>3, Numbers DEF TickEvaluate, IdleTick, Ticks
    <2>3. \/ act' = act
          \/ /\ tick'.pc = "idle" /\ act'.pc = "claim" /\ act'.at = tick.at /\ act'.snap = tick.snap
             /\ act'.flags = NewFlags(tick.snap, tick.at, tick.seen)
      BY <1>3 DEF TickEvaluate, IdleTick, IdleAct
    <2>4. TimesInv'
      <3>1. CASE act' = act
        BY <1>0, <2>1, <2>2, <3>1, Numbers DEF TimesInv, InFlight, Claiming, NewFlags, KeptManual,
                                 KeptStopped, OverrideSeen, Enforced, Fresh, InOff
      <3>2. CASE act' # act
        BY <1>0, <2>1, <2>2, <2>3, <3>2, Numbers DEF TimesInv, InFlight, Claiming, NewFlags,
                                 KeptManual, KeptStopped, OverrideSeen, Enforced, Fresh, InOff
      <3> QED BY <3>1, <3>2
    <2> QED BY <1>0, <2>1, <2>2, <2>3, <2>4 DEF BookedInv, StopInv, Claiming, Keeps, OneWindow, InOff
  <1>4. CASE TickWrite
    <2>1. /\ tick.pc = "write" /\ tick'.pc = "idle" /\ tick'.at = 0
          /\ UNCHANGED <<act, now, doneStop, edits>>
      BY <1>4 DEF TickWrite, IdleTick, outside, bounds, hist
    <2>2. ~Claiming /\ doneStop[2] <= tick.at /\ tick.at <= now
      BY <1>0, <2>1 DEF TimesInv
    <2>3. row' = row \/ (row = tick.snap /\ row' = [row EXCEPT !.flags = NewFlags(row, tick.at, tick.seen)])
      BY <1>4, SnapshotIsRow, Numbers DEF TickWrite, Gate
    <2>4. row'.gen = row.gen /\ row'.cfg = row.cfg
      BY <2>3, Numbers DEF Rows
    <2>5. TimesInv'
      BY <1>0, <2>1, <2>2, <2>4, Numbers DEF TimesInv, InFlight, Claiming
    <2>6. doneStop[1] = row.gen => Keeps(row'.flags, now)
      <3>1. CASE row' = row
        BY <1>0, <3>1 DEF BookedInv
      <3>2. CASE row = tick.snap /\ row' = [row EXCEPT !.flags = NewFlags(row, tick.at, tick.seen)]
        <4>1. doneStop[1] = row.gen => Keeps(row.flags, tick.at)
          BY <1>0, <2>1, <3>2 DEF BookedInv
        <4>2. doneStop[1] = row.gen => Keeps(NewFlags(row, tick.at, tick.seen), tick.at)
          BY <2>2, <4>1, WrittenKeeps, Numbers
        <4>3. row'.flags = NewFlags(row, tick.at, tick.seen)
          BY <3>2, Numbers DEF Rows
        <4> QED BY <2>2, <4>2, <4>3, KeptLater, Numbers
      <3> QED BY <2>3, <3>1, <3>2
    <2>7. doneStop'[1] = row'.gen => Keeps(row.flags, now)'
      BY <2>1, <2>4, <2>6 DEF Keeps, OneWindow, InOff
    <2> QED BY <2>1, <2>2, <2>5, <2>7 DEF BookedInv, StopInv, Claiming
  <1> QED BY <1>1, <1>2, <1>3, <1>4 DEF Tick

\* The action writes what it decided, then books the stop it was queued for.
LEMMA StopAct == IInv /\ StopInv /\ Act => StopInv'
PROOF
  <1> SUFFICES ASSUME IInv, StopInv, Act PROVE StopInv'
    OBVIOUS
  <1>0. TimesInv /\ BookedInv
    BY DEF StopInv
  <1>1. UNCHANGED <<tick, now, edits>>
    BY DEF Act, ActClaim, ActDetect, ActAsk, ActWait, ActForce, ActWaitForced, ActStart,
           ActRecord, ActStep, world
  <1>2. ASSUME act' = IdleAct \/ (InFlight /\ act'.pc \notin {"idle", "claim"} /\ act'.at = act.at),
               row'.gen = row.gen, doneStop' = doneStop \/ (InFlight /\ doneStop' = <<row.gen, act.at>>),
               act' = IdleAct \/ doneStop' = doneStop
        PROVE  TimesInv'
    <2>1. ~Claiming'
      BY <1>2 DEF Claiming, IdleAct
    <2>2. CASE act' = IdleAct
      <3>1. act'.at = 0 /\ act'.pc = "idle"
        BY <2>2 DEF IdleAct
      <3>2. CASE doneStop' = doneStop
        BY <1>0, <1>1, <1>2, <2>1, <3>1, <3>2, Numbers DEF TimesInv, InFlight
      <3>3. CASE InFlight /\ doneStop' = <<row.gen, act.at>>
        BY <1>0, <1>1, <1>2, <2>1, <3>1, <3>3, Numbers DEF TimesInv, InFlight
      <3> QED BY <1>2, <3>2, <3>3
    <2>3. CASE act' # IdleAct
      BY <1>0, <1>1, <1>2, <2>1, <2>3, Numbers DEF TimesInv, InFlight
    <2> QED BY <2>2, <2>3
  <1>3. CASE ActClaim
    <2>1. act.pc = "claim" /\ doneStop' = doneStop
      BY <1>3 DEF ActClaim
    <2>2. CASE ~Gate(act.snap)
      <3>1. row' = row /\ act' = IdleAct
        BY <1>3, <2>2 DEF ActClaim
      <3>2. TimesInv'
        BY <1>2, <2>1, <3>1
      <3> QED BY <1>0, <1>1, <2>1, <3>1, <3>2 DEF BookedInv, StopInv, Claiming, IdleAct, Keeps,
                                               OneWindow, InOff
    <2>3. CASE Gate(act.snap)
      <3>1. row' = [row EXCEPT !.flags = act.flags] /\ act' = [act EXCEPT !.pc = "detect"]
        BY <1>3, <2>3 DEF ActClaim, ActGoto
      <3>2. row = act.snap
        BY <2>3, SnapshotIsRow, Numbers DEF Gate
      <3>3. /\ row'.gen = row.gen /\ row'.cfg = row.cfg /\ row'.flags = act.flags
            /\ act'.pc = "detect" /\ act'.at = act.at
        BY <3>1, Numbers DEF Rows, Acts
      <3>4. TimesInv'
        BY <1>2, <2>1, <3>3 DEF InFlight
      <3>5. PICK seen \in {"running", "stopped"} : act.flags = NewFlags(row, act.at, seen)
        BY <1>0, <2>1, <3>2 DEF TimesInv, Claiming
      <3>6. doneStop[2] <= act.at /\ act.at <= now /\ (tick.pc # "idle" => act.at <= tick.at)
        BY <1>0, <2>1 DEF TimesInv, InFlight
      <3>7. doneStop[1] = row.gen => Keeps(act.flags, act.at)
        BY <1>0, <2>1, <3>2, <3>5, <3>6, WrittenKeeps, Numbers DEF BookedInv, Claiming
      <3>8. doneStop[1] = row.gen =>
              Keeps(act.flags, now) /\ (tick.pc # "idle" => Keeps(act.flags, tick.at))
        BY <3>6, <3>7, KeptLater, Numbers
      <3>9. doneStop'[1] = row'.gen =>
              Keeps(row.flags, now)' /\ (tick'.pc # "idle" => Keeps(row.flags, tick.at)')
        BY <1>1, <2>1, <3>3, <3>8 DEF Keeps, OneWindow, InOff
      <3> QED BY <3>3, <3>4, <3>9 DEF BookedInv, StopInv, Claiming
    <2> QED BY <2>2, <2>3
  <1>4. CASE ActRecord
    <2>1. act.pc = "record" /\ act' = IdleAct
      BY <1>4 DEF ActRecord
    <2>2. CASE Books(act.snap)
      <3>1. row' = [row EXCEPT !.flags.stopped = TRUE] /\ doneStop' = <<row.gen, act.at>>
        BY <1>4, <2>2 DEF ActRecord
      <3>2. row'.gen = row.gen /\ row'.flags.lastOff = 1 /\ row'.flags.stopped
        BY <2>2, <3>1, Numbers DEF Rows, Flags, Books
      <3>3. TimesInv'
        BY <1>2, <2>1, <3>1, <3>2 DEF InFlight
      <3> QED BY <2>1, <3>2, <3>3 DEF BookedInv, StopInv, Claiming, IdleAct, Keeps
    <2>3. CASE ~Books(act.snap)
      <3>1. row' = row /\ doneStop' = doneStop
        BY <1>4, <2>3 DEF ActRecord
      <3>2. TimesInv'
        BY <1>2, <2>1, <3>1
      <3> QED BY <1>0, <1>1, <2>1, <3>1, <3>2 DEF BookedInv, StopInv, Claiming, IdleAct, Keeps,
                                               OneWindow, InOff
    <2> QED BY <2>2, <2>3
  <1>5. CASE ActDetect \/ ActAsk \/ ActWait \/ ActForce \/ ActWaitForced \/ ActStart
    <2>1. /\ UNCHANGED <<row, doneStop>> /\ InFlight
          /\ \/ act' = IdleAct
             \/ \E pc \in {"record", "ask", "start", "wait", "force", "waitForced"} : ActGoto(pc)
      BY <1>5 DEF ActDetect, ActAsk, ActWait, ActForce, ActWaitForced, ActStart, InFlight
    <2>2. act' = IdleAct \/ (act'.pc \notin {"idle", "claim"} /\ act'.at = act.at)
      BY <2>1, Numbers DEF ActGoto, Acts
    <2>3. TimesInv'
      BY <1>2, <2>1, <2>2
    <2>4. ~Claiming'
      BY <2>2 DEF Claiming, IdleAct
    <2> QED BY <1>0, <1>1, <2>1, <2>3, <2>4 DEF BookedInv, StopInv, Keeps, OneWindow, InOff
  <1> QED BY <1>3, <1>4, <1>5 DEF Act

\* Everybody else leaves the window's memory to the row.
LEMMA StopOthers == IInv /\ StopInv /\ (Upstream \/ Users \/ Others) => StopInv'
PROOF
  <1> SUFFICES ASSUME IInv, StopInv, Upstream \/ Users \/ Others PROVE StopInv'
    OBVIOUS
  <1>0. TimesInv /\ BookedInv
    BY DEF StopInv
  <1>1. CASE Exit
    <2>1. /\ UNCHANGED <<row, doneStop, now, edits>>
          /\ tick'.pc = "idle" /\ tick'.at = 0 /\ act'.pc = "idle" /\ act'.at = 0
      BY <1>1 DEF Exit, hist, IdleTick, IdleAct
    <2>2. TimesInv'
      BY <1>0, <2>1, Numbers DEF TimesInv, InFlight, Claiming
    <2> QED BY <1>0, <2>1, <2>2 DEF BookedInv, StopInv, Claiming, Keeps, OneWindow, InOff
  <1>2. CASE Upstream
    <2>1. UNCHANGED <<row, doneStop, tick, act, now, edits>>
      BY <1>2 DEF Upstream, ShutdownDone, ShutdownIgnored, StopDone, StartDone, upstream, bounds
    <2> QED BY <2>1, QuietSteps, Numbers
  <1>3. CASE UserStart \/ UserStop
    <2>1. UNCHANGED <<row, doneStop, tick, act, now, edits>>
      BY <1>3 DEF UserStart, UserStop, world
    <2> QED BY <2>1, QuietSteps, Numbers
  <1>4. ASSUME NEW r, PolicyWrite(r),
               \/ r.flags = row.flags /\ r.gen = row.gen /\ r.cfg = row.cfg
               \/ r.gen = edits + 1
        PROVE  StopInv'
    <2>1. UNCHANGED <<doneStop, tick, act, now>> /\ edits' = edits + 1 /\ row' = r
      BY <1>4 DEF PolicyWrite, world
    <2> QED BY <1>4, <2>1, QuietSteps, Numbers
  <1>5. CASE SaveSchedule
    <2>1. PICK c \in Configs, status \in {"on", "off"} :
             PolicyWrite([status |-> status, gen |-> edits + 1, cfg |-> c,
                          node |-> IF row.status = "none" THEN loc ELSE row.node,
                          skip |-> 0, flags |-> NoFlags])
      BY <1>5 DEF SaveSchedule
    <2>2. PICK r : r.gen = edits + 1 /\ PolicyWrite(r)
      BY <2>1
    <2> QED BY <1>4, <2>2
  <1>6. CASE DeleteSchedule \/ SkipNext \/ CancelSkip
    <2>1. \E skip : \/ PolicyWrite([row EXCEPT !.status = "none"])
                    \/ PolicyWrite([row EXCEPT !.skip = skip])
      BY <1>6 DEF DeleteSchedule, SkipNext, CancelSkip
    <2>2. PICK r : PolicyWrite(r) /\ r.flags = row.flags /\ r.gen = row.gen /\ r.cfg = row.cfg
      BY <2>1, Numbers DEF Rows
    <2> QED BY <1>4, <2>2
  <1>7. CASE MigrationClaim \/ MigrationFinish \/ StopScheduler
    <2>1. UNCHANGED <<doneStop, tick, act, now, edits>>
      BY <1>7 DEF MigrationClaim, MigrationFinish, StopScheduler, elsewhere, hist, bounds
    <2>2. row'.flags = row.flags /\ row'.gen = row.gen /\ row'.cfg = row.cfg
      BY <1>7, Numbers DEF MigrationClaim, MigrationFinish, StopScheduler, Rows
    <2> QED BY <2>1, <2>2, QuietSteps, Numbers
  <1>8. CASE Advance
    <2>1. UNCHANGED <<row, doneStop, tick, act, edits>> /\ now' = now + 1
      BY <1>8 DEF Advance, hist, bounds
    <2> QED BY <2>1, QuietSteps, Numbers
  <1> QED BY <1>1, <1>2, <1>3, <1>5, <1>6, <1>7, <1>8 DEF Users, Others

\* scheduler.ts:189-203: whatever the users, the host, a migration or a crash do between,
\* the VM whose stop was booked on a window is stopped no second time in it.
THEOREM StopsOnce == Spec => OneStopPerWindow
PROOF
  <1>1. IInv /\ StopInv /\ [Next]_vars => StopInv'
    <2>1. IInv /\ StopInv /\ UNCHANGED vars => StopInv'
      BY QuietSteps, Numbers DEF vars, bounds, hist
    <2> QED BY <2>1, StopTick, StopAct, StopOthers DEF Next
  <1>2. IInv /\ StopInv /\ [Next]_vars =>
          [Claims("stop") /\ doneStop[1] = row.gen =>
             ~OneWindow(row.cfg, doneStop[2], act.at)]_vars
    <2> SUFFICES ASSUME IInv, StopInv, Next, Claims("stop"), doneStop[1] = row.gen
                 PROVE  ~OneWindow(row.cfg, doneStop[2], act.at)
      OBVIOUS
    <2>1. act.pc = "claim" /\ act.kind = "stop" /\ row = act.snap
      BY ClaimIsGated DEF Claims
    <2>2. Keeps(row.flags, act.at)
      BY <2>1 DEF StopInv, BookedInv, Claiming
    <2> QED BY <2>1, <2>2 DEF IInv, StopWasDue, Keeps
  <1> QED BY <1>1, <1>2, Initially, StopInit, TickSteps, ActSteps, OtherSteps, Stuttering,
             Invariance, PTL DEF Spec, OneStopPerWindow

-----------------------------------------------------------------------------
(* Timetables: minutes, days and weeks.                                    *)

\* Quotient and remainder.
LEMMA Divide ==
    ASSUME NEW x \in Int, NEW d \in Nat \ {0}
    PROVE  x \div d \in Int /\ x % d \in 0..(d - 1) /\ x = (x \div d) * d + (x % d)
  OBVIOUS

LEMMA Divided ==
    ASSUME NEW q \in Int, NEW d \in Nat \ {0}, NEW r \in 0..(d - 1)
    PROVE  (q * d + r) % d = r /\ (q * d + r) \div d = q
  OBVIOUS

LEMMA SmallDivided ==
    ASSUME NEW d \in Nat \ {0}, NEW r \in (-d)..(d - 1)
    PROVE  r % d = IF r < 0 THEN r + d ELSE r
  <1>1. CASE r < 0
    <2>1. r + d \in 0..(d - 1) /\ r = (-1) * d + (r + d) /\ -1 \in Int
      BY <1>1
    <2>2. ((-1) * d + (r + d)) % d = r + d
      BY <2>1, Divided
    <2> QED BY <1>1, <2>1, <2>2
  <1>2. CASE r >= 0
    <2>1. r \in 0..(d - 1) /\ r = 0 * d + r
      BY <1>2
    <2>2. (0 * d + r) % d = r
      BY <2>1, Divided
    <2> QED BY <1>2, <2>1, <2>2
  <1> QED BY <1>1, <1>2

LEMMA OneDigit ==
    ASSUME NEW a \in Int, NEW b \in Int, NEW d \in Nat \ {0}, NEW r \in 0..(d - 1), NEW s \in 0..(d - 1),
           a * d + r = b * d + s
    PROVE  a = b /\ r = s
  <1>1. (a * d + r) % d = r /\ (a * d + r) \div d = a
    BY Divided
  <1>2. (b * d + s) % d = s /\ (b * d + s) \div d = b
    BY Divided
  <1> QED BY <1>1, <1>2

\* The day before, in the week.
LEMMA DayBefore ==
    ASSUME NEW w \in Nat \ {0}, NEW q \in Int
    PROVE  /\ ((q % w) - 1) % w = (q - 1) % w
           /\ \A d \in 0..(w - 1) : (d + 1) % w = q % w <=> d = (q - 1) % w
  <1> DEFINE k == q \div w
             s == q % w
  <1>1. k \in Int /\ s \in 0..(w - 1) /\ q = k * w + s
    BY Divide
  <1> HIDE DEF k, s
  <1>2. CASE s = 0
    <2>1. q - 1 = (k - 1) * w + (w - 1) /\ s - 1 = (-1) * w + (w - 1)
      BY <1>1, <1>2
    <2>2. w - 1 \in 0..(w - 1) /\ k - 1 \in Int /\ -1 \in Int
      BY <1>1
    <2>3. (q - 1) % w = w - 1
      <3>1. ((k - 1) * w + (w - 1)) % w = w - 1
        BY <2>2, Divided
      <3> QED BY <2>1, <3>1
    <2>4. (s - 1) % w = w - 1
      <3>1. ((-1) * w + (w - 1)) % w = w - 1
        BY <2>2, Divided
      <3> QED BY <2>1, <3>1
    <2>5. ASSUME NEW d \in 0..(w - 1) PROVE (d + 1) % w = 0 <=> d = w - 1
      <3>1. CASE d = w - 1
        <4>1. (1 * w + 0) % w = 0
          BY Divided
        <4> QED BY <3>1, <4>1
      <3>2. CASE d # w - 1
        <4>1. d + 1 \in 0..(w - 1) /\ (0 * w + (d + 1)) % w = d + 1
          BY <3>2, Divided
        <4> QED BY <3>2, <4>1
      <3> QED BY <3>1, <3>2
    <2> QED BY <1>2, <2>3, <2>4, <2>5 DEF s
  <1>3. CASE s # 0
    <2>1. q - 1 = k * w + (s - 1) /\ s - 1 \in 0..(w - 1)
      BY <1>1, <1>3
    <2>2. (q - 1) % w = s - 1
      <3>1. (k * w + (s - 1)) % w = s - 1
        BY <1>1, <2>1, Divided
      <3> QED BY <2>1, <3>1
    <2>3. (s - 1) % w = s - 1
      <3>1. (0 * w + (s - 1)) % w = s - 1
        BY <2>1, Divided
      <3> QED BY <2>1, <3>1
    <2>4. ASSUME NEW d \in 0..(w - 1) PROVE (d + 1) % w = s <=> d = s - 1
      <3>1. CASE d = w - 1
        <4>1. (1 * w + 0) % w = 0
          BY Divided
        <4> QED BY <1>1, <1>3, <3>1, <4>1
      <3>2. CASE d # w - 1
        <4>1. d + 1 \in 0..(w - 1) /\ (0 * w + (d + 1)) % w = d + 1
          BY <3>2, Divided
        <4> QED BY <1>1, <3>2, <4>1
      <3> QED BY <3>1, <3>2
    <2> QED BY <2>2, <2>3, <2>4 DEF s
  <1> QED BY <1>2, <1>3

\* A minute of a day, in the week.
LEMMA MinuteOfWeek ==
    ASSUME Day \in Nat \ {0}, Week \in Nat \ {0}, NEW q \in Int, NEW r \in 0..(Day - 1)
    PROVE  (q * Day + r) % (Week * Day) = (q % Week) * Day + r
  <1> DEFINE k == q \div Week
             s == q % Week
  <1>1. k \in Int /\ s \in 0..(Week - 1) /\ q = k * Week + s
    BY Divide
  <1> HIDE DEF k, s
  <1>2. q * Day + r = k * (Week * Day) + (s * Day + r)
    BY <1>1
  <1>3. Week * Day \in Nat \ {0} /\ s * Day + r \in 0..(Week * Day - 1)
    <2>1. PICK c \in Nat : Week = s + 1 + c
      <3>1. Week - s - 1 \in Nat
        BY <1>1
      <3> QED BY <1>1, <3>1
    <2>2. Week * Day = s * Day + Day + c * Day
      BY <1>1, <2>1
    <2>3. s * Day \in Nat /\ c * Day \in Nat
      BY <1>1
    <2> QED BY <2>2, <2>3
  <1>4. (k * (Week * Day) + (s * Day + r)) % (Week * Day) = s * Day + r
    BY <1>1, <1>3, Divided
  <1> QED BY <1>2, <1>4 DEF s

\* A window occupies the minutes from its start on its own days and, overnight, those up
\* to its end on the days after.
LEMMA WindowMinutes ==
    ASSUME Day \in Nat \ {0}, Week \in Nat \ {0}, NEW w, WindowOK(w), NEW q \in Int, NEW r \in 0..(Day - 1)
    PROVE  (q % Week) * Day + r \in OccupiedMinutes(w) <=>
              \/ q % Week \in w.days /\ w.start <= r /\ (Overnight(w) \/ r < w.end)
              \/ Overnight(w) /\ r < w.end /\ (q - 1) % Week \in w.days
  <1> DEFINE len == (w.end - w.start) % Day
             x == (q % Week) * Day + r
  <1>1. /\ w.days \subseteq 0..(Week - 1) /\ w.start \in 0..(Day - 1) /\ w.end \in 0..(Day - 1)
        /\ q % Week \in 0..(Week - 1) /\ q % Week \in Int
    <2>1. q % Week \in 0..(Week - 1)
      BY Divide
    <2> QED BY <2>1 DEF WindowOK
  <1>2. len = IF Overnight(w) THEN w.end - w.start + Day ELSE w.end - w.start
    <2>1. w.end - w.start \in (-Day)..(Day - 1)
      BY <1>1
    <2> QED BY <1>1, <2>1, SmallDivided DEF Overnight
  <1>3. x \in OccupiedMinutes(w) <=>
            \E d \in w.days, n \in 0..(len - 1) : x = (d * Day + w.start + n) % (Week * Day)
    BY DEF OccupiedMinutes
  <1> HIDE DEF len
  <1>4. ASSUME NEW d \in w.days, NEW n \in 0..(len - 1), w.start + n < Day
        PROVE  x = (d * Day + w.start + n) % (Week * Day) <=> d = q % Week /\ w.start + n = r
    <2>1. d \in Int /\ w.start + n \in 0..(Day - 1) /\ d * Day + w.start + n = d * Day + (w.start + n)
      BY <1>1, <1>2, <1>4
    <2>2. d % Week = d
      <3>1. d \in (-Week)..(Week - 1) /\ d >= 0
        BY <1>1
      <3> QED BY <3>1, SmallDivided
    <2>3. (d * Day + (w.start + n)) % (Week * Day) = d * Day + (w.start + n)
      BY <2>1, <2>2, MinuteOfWeek
    <2>4. x = d * Day + (w.start + n) => d = q % Week /\ w.start + n = r
      BY <1>1, <2>1, OneDigit
    <2> QED BY <2>1, <2>3, <2>4
  <1>5. ASSUME NEW d \in w.days, NEW n \in 0..(len - 1), ~(w.start + n < Day)
        PROVE  /\ Overnight(w) /\ w.start + n - Day \in 0..(w.end - 1)
               /\ x = (d * Day + w.start + n) % (Week * Day)
                    <=> d = (q - 1) % Week /\ w.start + n - Day = r
    <2>1. /\ Overnight(w) /\ w.start + n - Day \in 0..(w.end - 1) /\ w.start + n - Day \in 0..(Day - 1)
          /\ d + 1 \in Int /\ d * Day + w.start + n = (d + 1) * Day + (w.start + n - Day)
      BY <1>1, <1>2, <1>5 DEF Overnight
    <2>2. (d * Day + w.start + n) % (Week * Day) = ((d + 1) % Week) * Day + (w.start + n - Day)
      BY <2>1, MinuteOfWeek
    <2>3. (d + 1) % Week \in Int
      BY <2>1, Divide
    <2>4. ASSUME x = ((d + 1) % Week) * Day + (w.start + n - Day)
          PROVE  (d + 1) % Week = q % Week /\ w.start + n - Day = r
      <3> DEFINE a == (d + 1) % Week
                 b == q % Week
                 s == w.start + n - Day
      <3>1. a \in Int /\ b \in Int /\ s \in 0..(Day - 1) /\ a * Day + s = b * Day + r
        BY <1>1, <2>1, <2>3, <2>4
      <3> HIDE DEF a, b, s
      <3>2. a = b /\ s = r
        BY <3>1, OneDigit
      <3> QED BY <3>2 DEF a, b, s
    <2>5. (d + 1) % Week = q % Week <=> d = (q - 1) % Week
      BY <1>1, DayBefore
    <2> QED BY <2>1, <2>2, <2>4, <2>5
  <1>6. ASSUME x \in OccupiedMinutes(w)
        PROVE  \/ q % Week \in w.days /\ w.start <= r /\ (Overnight(w) \/ r < w.end)
               \/ Overnight(w) /\ r < w.end /\ (q - 1) % Week \in w.days
    <2>1. PICK d \in w.days, n \in 0..(len - 1) : x = (d * Day + w.start + n) % (Week * Day)
      BY <1>3, <1>6
    <2>2. n \in Int /\ n >= 0 /\ n < len
      BY <1>1, <1>2
    <2>3. CASE w.start + n < Day
      BY <1>1, <1>2, <1>4, <2>1, <2>2, <2>3
    <2>4. CASE ~(w.start + n < Day)
      BY <1>1, <1>5, <2>1, <2>2, <2>4
    <2> QED BY <2>3, <2>4
  <1>7. ASSUME q % Week \in w.days, w.start <= r, Overnight(w) \/ r < w.end
        PROVE  x \in OccupiedMinutes(w)
    <2>1. r - w.start \in 0..(len - 1) /\ w.start + (r - w.start) = r /\ r < Day
      BY <1>1, <1>2, <1>7 DEF Overnight
    <2>2. x = ((q % Week) * Day + w.start + (r - w.start)) % (Week * Day)
      BY <1>4, <1>7, <2>1
    <2> QED BY <1>3, <1>7, <2>1, <2>2
  <1>8. ASSUME Overnight(w), r < w.end, (q - 1) % Week \in w.days
        PROVE  x \in OccupiedMinutes(w)
    <2>1. r + Day - w.start \in 0..(len - 1) /\ ~(w.start + (r + Day - w.start) < Day)
          /\ w.start + (r + Day - w.start) - Day = r
      BY <1>1, <1>2, <1>8 DEF Overnight
    <2>2. x = (((q - 1) % Week) * Day + w.start + (r + Day - w.start)) % (Week * Day)
      BY <1>5, <1>8, <2>1
    <2> QED BY <1>3, <1>8, <2>1, <2>2
  <1> QED BY <1>6, <1>7, <1>8

\* utils/schedule.ts:67, for days and weeks of any length: an instant is in the off window
\* just when a day of the mask opened the window it lies in.
THEOREM OffWindowsAreOwned ==
    ASSUME Day \in Nat \ {0}, Week \in Nat \ {0},
           NEW stop \in 0..(Day - 1), NEW start \in 0..(Day - 1), NEW days \in SUBSET (0..(Week - 1))
    PROVE  OffWindowIsOwned(stop, start, days)
  <1> DEFINE w == [days |-> days, start |-> stop, end |-> start]
  <1>1. WindowOK(w) /\ w.days = days /\ w.start = stop /\ w.end = start
    BY DEF WindowOK
  <1> HIDE DEF w
  <1>2. ASSUME NEW q \in 0..(Week - 1), NEW r \in 0..(Day - 1)
        PROVE  OffWindowContains(q, r, stop, start, days) <=> q * Day + r \in OccupiedMinutes(w)
    <2>1. q \in Int /\ q % Week = q
      <3>1. (0 * Week + q) % Week = q
        BY Divided
      <3> QED BY <3>1
    <2>2. q * Day + r \in OccupiedMinutes(w) <=>
              \/ q \in days /\ stop <= r /\ (start < stop \/ r < start)
              \/ start < stop /\ r < start /\ (q - 1) % Week \in days
      BY <1>1, <2>1, WindowMinutes DEF Overnight
    <2> QED BY <2>2 DEF OffWindowContains
  <1> QED BY <1>2 DEF OffWindowIsOwned, w

-----------------------------------------------------------------------------
(* On an even clock.                                                       *)

LEMMA MaxIs ==
    ASSUME NEW S \in SUBSET Int, NEW m \in S, \A x \in S : x <= m
    PROVE  Max(S) = m
  <1>1. \E x \in S : \A y \in S : x >= y
    OBVIOUS
  <1>2. Max(S) \in S /\ \A y \in S : Max(S) >= y
    BY <1>1 DEF Max
  <1>3. Max(S) \in Int /\ m \in Int /\ Max(S) >= m /\ Max(S) <= m
    BY <1>2
  <1> QED BY <1>3

LEMMA MinIs ==
    ASSUME NEW S \in SUBSET Int, NEW m \in S, \A x \in S : m <= x
    PROVE  Min(S) = m
  <1>1. \E x \in S : \A y \in S : x <= y
    OBVIOUS
  <1>2. Min(S) \in S /\ \A y \in S : Min(S) <= y
    BY <1>1 DEF Min
  <1>3. Min(S) \in Int /\ m \in Int /\ Min(S) >= m /\ Min(S) <= m
    BY <1>2
  <1> QED BY <1>3

\* The instant of a minute, as localBoundary returns it: the minute itself, or the first
\* or the last instant there is.
InstantOf(last, m) == IF m > last THEN last + 1 ELSE IF m < 0 THEN 0 ELSE m

LEMMA Edges ==
    ASSUME NEW last, EvenClock(last), NEW m \in Int
    PROVE  /\ Instants = 0..last /\ Beyond = last + 1
           /\ Shown(m) = {} <=> m > last
           /\ m <= last => Min(Showing(Min(Shown(m)))) = InstantOf(last, m)
                           /\ Max(Showing(Min(Shown(m)))) = InstantOf(last, m)
  <1>1. last \in Nat /\ Instants = 0..last /\ \A t \in 0..last : Wall[t] = t
    BY DEF EvenClock, Instants
  <1>2. Beyond = last + 1
    <2>1. Max(0..last) = last
      <3>1. last \in 0..last /\ 0..last \subseteq Int /\ \A x \in 0..last : x <= last
        BY <1>1
      <3> QED BY <3>1, MaxIs
    <2> QED BY <1>1, <2>1 DEF Beyond
  <1>3. Shown(m) = {t \in 0..last : t >= m}
    <2>1. {Wall[t] : t \in Instants} = 0..last
      BY <1>1
    <2> QED BY <2>1 DEF Shown
  <1>4. Shown(m) = {} <=> m > last
    <2>1. CASE m > last
      BY <1>1, <1>3, <2>1
    <2>2. CASE m <= last
      <3>1. last \in Shown(m)
        BY <1>1, <1>3, <2>2
      <3> QED BY <1>1, <2>2, <3>1
    <2> QED BY <1>1, <2>1, <2>2
  <1>5. ASSUME m <= last
        PROVE  /\ Min(Showing(Min(Shown(m)))) = InstantOf(last, m)
               /\ Max(Showing(Min(Shown(m)))) = InstantOf(last, m)
    <2> DEFINE e == InstantOf(last, m)
    <2>1. e \in 0..last /\ e >= m /\ \A t \in 0..last : t >= m => t >= e
      BY <1>1, <1>5 DEF InstantOf
    <2> HIDE DEF e
    <2>2. Min(Shown(m)) = e
      <3>1. Shown(m) \subseteq Int /\ e \in Shown(m) /\ \A x \in Shown(m) : e <= x
        BY <1>1, <1>3, <2>1
      <3> QED BY <3>1, MinIs
    <2>3. Showing(e) = {e}
      BY <1>1, <2>1 DEF Showing
    <2>4. e \in Int /\ {e} \in SUBSET Int /\ e \in {e} /\ \A x \in {e} : e <= x /\ x <= e
      BY <2>1
    <2>5. Min({e}) = e
      BY <2>4, MinIs
    <2>6. Max({e}) = e
      BY <2>4, MaxIs
    <2> QED BY <2>2, <2>3, <2>5, <2>6 DEF e
  <1> QED BY <1>1, <1>2, <1>4, <1>5

\* A window of a day is open from its start to its end, on this day or the next.
LEMMA OpenWindow ==
    ASSUME Day \in Nat \ {0}, Week \in Nat \ {0}, NEW last, EvenClock(last),
           NEW w, WindowOK(w), NEW day \in Int, NEW t \in Instants
    PROVE  /\ t \in Int /\ Wall[t] = t
           /\ StartOf(w, day) = InstantOf(last, day * Day + w.start)
           /\ EndOf(w, day) = InstantOf(last, (IF Overnight(w) THEN day + 1 ELSE day) * Day + w.end)
           /\ StartOf(w, day) <= t <=> day * Day + w.start <= t
           /\ t < EndOf(w, day) <=> t < (IF Overnight(w) THEN day + 1 ELSE day) * Day + w.end
  <1> DEFINE from == day * Day + w.start
             to == (IF Overnight(w) THEN day + 1 ELSE day) * Day + w.end
  <1>1. from \in Int /\ to \in Int
    BY DEF WindowOK
  <1>2. StartOf(w, day) = InstantOf(last, from) /\ EndOf(w, day) = InstantOf(last, to)
    <2> HIDE DEF from, to
    <2>1. last \in Nat
      BY DEF EvenClock
    <2>2. StartOf(w, day) = IF Shown(from) = {} THEN Beyond ELSE Min(Showing(Min(Shown(from))))
      BY DEF StartOf, from
    <2>3. EndOf(w, day) = IF Shown(to) = {} THEN Beyond ELSE Max(Showing(Min(Shown(to))))
      BY DEF EndOf, to
    <2>4. StartOf(w, day) = InstantOf(last, from)
      BY <1>1, <2>1, <2>2, Edges DEF InstantOf
    <2>5. EndOf(w, day) = InstantOf(last, to)
      BY <1>1, <2>1, <2>3, Edges DEF InstantOf
    <2> QED BY <2>4, <2>5
  <1>3. t \in 0..last /\ last \in Nat /\ Wall[t] = t
    BY DEF EvenClock, Instants
  <1> HIDE DEF from, to
  <1>4. (InstantOf(last, from) <= t <=> from <= t) /\ (t < InstantOf(last, to) <=> t < to)
    BY <1>1, <1>3 DEF InstantOf
  <1> QED BY <1>2, <1>3, <1>4 DEF from, to

\* Of the windows of all days only those that began yesterday or today can be open, and
\* they are open in just the minutes they occupy.
LEMMA OpenMinutes ==
    ASSUME Day \in Nat \ {0}, Week \in Nat \ {0}, NEW last, EvenClock(last),
           NEW windows, NEW k \in DOMAIN windows, WindowOK(windows[k]), NEW t \in Instants
    PROVE  /\ k \in Active(windows, DayOf(t), t)
                <=> /\ Weekday(DayOf(t)) \in windows[k].days /\ windows[k].start <= MinuteOf(t)
                    /\ Overnight(windows[k]) \/ MinuteOf(t) < windows[k].end
           /\ k \in Active(windows, DayOf(t) - 1, t)
                <=> /\ Weekday(DayOf(t) - 1) \in windows[k].days
                    /\ Overnight(windows[k]) /\ MinuteOf(t) < windows[k].end
           /\ k \in Active(windows, DayOf(t), t) \cup Active(windows, DayOf(t) - 1, t)
                <=> Wall[t] % (Week * Day) \in OccupiedMinutes(windows[k])
  <1> DEFINE w == windows[k]
             q == DayOf(t)
             r == MinuteOf(t)
  <1>1. t \in Int /\ Wall[t] = t /\ q = t \div Day /\ r = t % Day
    BY OpenWindow DEF DayOf, MinuteOf
  <1>2. q \in Int /\ r \in 0..(Day - 1) /\ t = q * Day + r
    BY <1>1, Divide
  <1>3. q - 1 \in Int /\ (q - 1) * Day = q * Day - Day /\ (q + 1) * Day = q * Day + Day /\ q * Day \in Int
        /\ q - 1 + 1 = q
    BY <1>2
  <1>4. w.start \in 0..(Day - 1) /\ w.end \in 0..(Day - 1) /\ WindowOK(w)
    BY DEF WindowOK
  <1>5. \A day \in Int : k \in Active(windows, day, t) <=>
            /\ Weekday(day) \in w.days
            /\ StartOf(w, day) <= t /\ t < EndOf(w, day)
    BY DEF Active
  <1> HIDE DEF q, r, w
  <1>6. k \in Active(windows, q, t)
          <=> Weekday(q) \in w.days /\ w.start <= r /\ (Overnight(w) \/ r < w.end)
    <2>1. StartOf(w, q) <= t <=> q * Day + w.start <= t
      BY <1>2, <1>4, OpenWindow
    <2>2. t < EndOf(w, q) <=> t < (IF Overnight(w) THEN q + 1 ELSE q) * Day + w.end
      BY <1>2, <1>4, OpenWindow
    <2>3. q * Day + w.start <= t <=> w.start <= r
      BY <1>2, <1>3, <1>4
    <2>4. t < (IF Overnight(w) THEN q + 1 ELSE q) * Day + w.end <=> (Overnight(w) \/ r < w.end)
      BY <1>2, <1>3, <1>4
    <2> QED BY <1>2, <1>5, <2>1, <2>2, <2>3, <2>4
  <1>7. k \in Active(windows, q - 1, t) <=> Weekday(q - 1) \in w.days /\ Overnight(w) /\ r < w.end
    <2>1. StartOf(w, q - 1) <= t <=> (q - 1) * Day + w.start <= t
      BY <1>3, <1>4, OpenWindow
    <2>2. t < EndOf(w, q - 1) <=> t < (IF Overnight(w) THEN q - 1 + 1 ELSE q - 1) * Day + w.end
      BY <1>3, <1>4, OpenWindow
    <2>3. (q - 1) * Day + w.start <= t
      BY <1>2, <1>3, <1>4
    <2>4. t < (IF Overnight(w) THEN q - 1 + 1 ELSE q - 1) * Day + w.end <=> Overnight(w) /\ r < w.end
      BY <1>2, <1>3, <1>4
    <2> QED BY <1>3, <1>5, <2>1, <2>2, <2>3, <2>4
  <1>8. Wall[t] % (Week * Day) = (q % Week) * Day + r
    <2>1. (q * Day + r) % (Week * Day) = (q % Week) * Day + r
      BY <1>2, MinuteOfWeek
    <2> QED BY <1>1, <1>2, <2>1
  <1>9. Wall[t] % (Week * Day) \in OccupiedMinutes(w) <=>
              \/ q % Week \in w.days /\ w.start <= r /\ (Overnight(w) \/ r < w.end)
              \/ Overnight(w) /\ r < w.end /\ (q - 1) % Week \in w.days
    BY <1>2, <1>4, <1>8, WindowMinutes
  <1> QED BY <1>6, <1>7, <1>9 DEF q, r, w, Weekday

\* powerPolicy.ts:166, for any sound timetable: on an even clock the mode is that of the
\* window which occupies the minute.  The code looks at yesterday's windows before
\* today's; that windows do not overlap makes the order irrelevant.
THEOREM ModesFollowMinutes ==
    ASSUME Day \in Nat \ {0}, Week \in Nat \ {0}, NEW last, EvenClock(last),
           NEW windows, \A k \in DOMAIN windows : WindowOK(windows[k]), NEW default
    PROVE  ModeFollowsMinutes(windows, default)
  <1>1. SUFFICES ASSUME ValidSchedule(windows), NEW t \in Instants
                 PROVE  ScheduledModeAt(windows, default, t) = ModeByMinute(windows, default, t)
    BY DEF ModeFollowsMinutes
  <1> DEFINE minute == Wall[t] % (Week * Day)
             there == {k \in DOMAIN windows : minute \in OccupiedMinutes(windows[k])}
             yesterday == Active(windows, DayOf(t) - 1, t)
             today == Active(windows, DayOf(t), t)
  <1>2. yesterday \subseteq DOMAIN windows /\ today \subseteq DOMAIN windows
    BY DEF Active
  <1>3. there = yesterday \cup today
    <2>1. \A k \in DOMAIN windows : k \in today \cup yesterday <=> k \in there
      BY OpenMinutes
    <2> QED BY <1>2, <2>1
  <1>4. \A k, n \in there : k = n
    BY <1>1 DEF ValidSchedule
  <1>5. ModeByMinute(windows, default, t)
          = IF there = {} THEN default ELSE windows[Min(there)].mode
    BY DEF ModeByMinute
  <1>6. ScheduledModeAt(windows, default, t)
          = IF yesterday # {} THEN windows[Min(yesterday)].mode
            ELSE IF today # {} THEN windows[Min(today)].mode ELSE default
    BY DEF ScheduledModeAt
  <1> HIDE DEF there, yesterday, today
  <1>7. CASE yesterday # {}
    <2>1. there = yesterday
      BY <1>3, <1>4, <1>7
    <2> QED BY <1>5, <1>6, <1>7, <2>1
  <1>8. CASE yesterday = {}
    BY <1>3, <1>5, <1>6, <1>8
  <1> QED BY <1>7, <1>8

\* Whether an instant of an even clock is in the off window.
OffAt(u, stop, start, days) == OffWindowContains((u \div Day) % Week, u % Day, stop, start, days)

LEMMA OffAtMinute ==
    ASSUME Day \in Nat \ {0}, NEW stop, NEW start, NEW days,
           NEW u \in Int, NEW p \in Int, NEW m \in 0..(Day - 1), u = p * Day + m
    PROVE  u % Day = m /\ (OffAt(u, stop, start, days) <=> OffWindowContains(p % Week, m, stop, start, days))
  <1>1. (p * Day + m) % Day = m /\ (p * Day + m) \div Day = p
    BY Divided
  <1> QED BY <1>1 DEF OffAt

\* The end of an off window: the next instant that shows the start minute is also the
\* first one outside the window.
LEMMA WindowEnd ==
    ASSUME Day \in Nat \ {0}, Week \in Nat \ {0},
           NEW stop \in 0..(Day - 1), NEW start \in 0..(Day - 1), NEW days \in SUBSET (0..(Week - 1)),
           NEW t \in Nat, OffAt(t, stop, start, days)
    PROVE  \E e \in Int :
              /\ e >= t /\ e % Day = start /\ ~OffAt(e, stop, start, days)
              /\ \A u \in Int : t <= u /\ u < e => u % Day # start /\ OffAt(u, stop, start, days)
  <1> DEFINE q == t \div Day
             r == t % Day
             In(d, m) == OffWindowContains(d % Week, m, stop, start, days)
  <1>1. q \in Int /\ r \in 0..(Day - 1) /\ t = q * Day + r
    BY Divide
  <1>2. q * Day \in Int /\ (q + 1) * Day = q * Day + Day /\ q + 1 \in Int
    BY <1>1
  <1>3. In(q, r)
    BY DEF OffAt
  <1>4. ~In(q, start) /\ ~In(q + 1, start)
    BY DEF OffWindowContains
  <1>5. (((q + 1) % Week) - 1) % Week = q % Week
    <2> DEFINE p == q + 1
    <2>1. p \in Int /\ p - 1 = q
      BY <1>1
    <2> HIDE DEF p
    <2>2. ((p % Week) - 1) % Week = (p - 1) % Week
      BY <2>1, DayBefore
    <2> QED BY <2>1, <2>2 DEF p
  <1> HIDE DEF q, r
  <1>6. CASE r < start
    <2> DEFINE e == q * Day + start
    <2>1. e \in Int /\ e >= t
      BY <1>1, <1>2, <1>6
    <2>2. e % Day = start /\ ~OffAt(e, stop, start, days)
      BY <1>1, <1>4, <2>1, OffAtMinute
    <2>3. ASSUME NEW u \in Int, t <= u, u < e PROVE u % Day # start /\ OffAt(u, stop, start, days)
      <3> DEFINE m == u - q * Day
      <3>1. m \in 0..(Day - 1) /\ r <= m /\ m < start /\ u = q * Day + m
        BY <1>1, <1>2, <2>3
      <3> HIDE DEF m
      <3>2. In(q, m)
        BY <1>1, <1>3, <1>6, <3>1 DEF OffWindowContains
      <3>3. u % Day = m /\ (OffAt(u, stop, start, days) <=> In(q, m))
        BY <1>1, <3>1, OffAtMinute
      <3> QED BY <3>1, <3>2, <3>3
    <2> HIDE DEF e
    <2> QED BY <2>1, <2>2, <2>3
  <1>7. CASE r >= start
    <2> DEFINE e == (q + 1) * Day + start
    <2>1. stop <= r /\ start < stop /\ q % Week \in days
      BY <1>1, <1>3, <1>7 DEF OffWindowContains
    <2>2. e \in Int /\ e >= t
      BY <1>1, <1>2
    <2>3. e % Day = start /\ ~OffAt(e, stop, start, days)
      <3> DEFINE p == q + 1
      <3>1. p \in Int /\ e = p * Day + start /\ ~In(p, start)
        BY <1>2, <1>4
      <3> HIDE DEF p, e
      <3> QED BY <2>2, <3>1, OffAtMinute
    <2>4. ASSUME NEW u \in Int, t <= u, u < e PROVE u % Day # start /\ OffAt(u, stop, start, days)
      <3>1. CASE u < (q + 1) * Day
        <4> DEFINE m == u - q * Day
        <4>1. m \in 0..(Day - 1) /\ r <= m /\ u = q * Day + m
          BY <1>1, <1>2, <2>4, <3>1
        <4> HIDE DEF m
        <4>2. In(q, m)
          BY <1>1, <2>1, <4>1 DEF OffWindowContains
        <4>3. u % Day = m /\ (OffAt(u, stop, start, days) <=> In(q, m))
          BY <1>1, <4>1, OffAtMinute
        <4> QED BY <1>1, <1>7, <2>1, <4>1, <4>2, <4>3
      <3>2. CASE u >= (q + 1) * Day
        <4> DEFINE m == u - (q + 1) * Day
        <4>1. m \in 0..(Day - 1) /\ m < start /\ u = (q + 1) * Day + m
          BY <1>1, <1>2, <2>4, <3>2
        <4> HIDE DEF m
        <4>2. In(q + 1, m)
          BY <1>5, <2>1, <4>1 DEF OffWindowContains
        <4>3. u % Day = m /\ (OffAt(u, stop, start, days) <=> In(q + 1, m))
          BY <1>2, <4>1, OffAtMinute
        <4> QED BY <4>1, <4>2, <4>3
      <3> QED BY <1>1, <1>2, <3>1, <3>2
    <2> HIDE DEF e
    <2> QED BY <2>2, <2>3, <2>4
  <1> QED BY <1>1, <1>6, <1>7

\* utils/schedule.ts:83, for any off window: on an even clock a skip asked for inside it
\* ends at the first instant outside.
THEOREM SkipsEndWithWindow ==
    ASSUME Day \in Nat \ {0}, Week \in Nat \ {0}, NEW last, EvenClock(last),
           NEW stop \in 0..(Day - 1), NEW start \in 0..(Day - 1), NEW days \in SUBSET (0..(Week - 1))
    PROVE  SkipEndsWithWindow(stop, start, days)
  <1>1. SUFFICES ASSUME NEW t \in Instants, InWindow(t, stop, start, days)
                 PROVE  NextTimeOccurrence(t, start)
                          = Min({u \in Instants : u >= t /\ ~InWindow(u, stop, start, days)} \cup {Beyond})
    BY DEF SkipEndsWithWindow
  <1> DEFINE shown == {u \in Instants : u >= t /\ MinuteOf(u) = start} \cup {Beyond}
             others == {u \in Instants : u >= t /\ ~InWindow(u, stop, start, days)} \cup {Beyond}
  <1>2. last \in Nat /\ Instants = 0..last /\ Beyond = last + 1
    <2>1. 0 \in Int
      OBVIOUS
    <2> QED BY <2>1, Edges DEF EvenClock
  <1>3. \A u \in Instants : /\ MinuteOf(u) = u % Day
                            /\ InWindow(u, stop, start, days) <=> OffAt(u, stop, start, days)
    BY <1>2 DEF EvenClock, MinuteOf, DayOf, Weekday, InWindow, OffAt
  <1>4. t \in Nat /\ t <= last /\ OffAt(t, stop, start, days)
    BY <1>1, <1>2, <1>3
  <1>5. PICK e \in Int :
            /\ e >= t /\ e % Day = start /\ ~OffAt(e, stop, start, days)
            /\ \A u \in Int : t <= u /\ u < e => u % Day # start /\ OffAt(u, stop, start, days)
    BY <1>4, WindowEnd
  <1> DEFINE m == IF e <= last THEN e ELSE last + 1
  <1>6. m \in Int /\ m \in shown /\ m \in others
    <2>1. CASE e <= last
      <3>1. e \in Instants
        BY <1>2, <1>4, <1>5, <2>1
      <3>2. MinuteOf(e) = start /\ ~InWindow(e, stop, start, days)
        BY <1>3, <1>5, <3>1
      <3> QED BY <1>5, <2>1, <3>1, <3>2
    <2>2. CASE e > last
      BY <1>2, <1>5, <2>2
    <2> QED BY <1>2, <2>1, <2>2
  <1>7. shown \in SUBSET Int /\ others \in SUBSET Int
    BY <1>2
  <1>8. ASSUME NEW u \in shown PROVE m <= u
    BY <1>2, <1>3, <1>4, <1>5
  <1>9. ASSUME NEW u \in others PROVE m <= u
    BY <1>2, <1>3, <1>4, <1>5
  <1> HIDE DEF m, shown, others
  <1>10. Min(shown) = m /\ Min(others) = m
    BY <1>6, <1>7, <1>8, <1>9, MinIs
  <1> QED BY <1>10 DEF shown, others, NextTimeOccurrence

-----------------------------------------------------------------------------
(* On a clock that skips and repeats minutes.                              *)

Below == {p \in Nat \X Nat : p[1] < p[2]}

LEMMA BelowWellFounded == IsWellFoundedOn(Below, Nat)
  <1>1. Below = OpToRel(<, Nat)
    BY DEF OpToRel, Below
  <1> QED BY <1>1, NatLessThanWellFounded

LEMMA HasMin ==
    ASSUME NEW S \in SUBSET Nat, S # {}
    PROVE  Min(S) \in S /\ \A x \in S : Min(S) <= x
  <1>1. PICK d \in S : \A e \in S : ~(<<e, d>> \in Below)
    BY BelowWellFounded, WFMin
  <1>2. ASSUME NEW e \in S PROVE d <= e
    <2>1. ~(<<e, d>> \in Below)
      BY <1>1
    <2> QED BY <2>1 DEF Below
  <1>3. Min(S) = d
    <2>1. S \in SUBSET Int
      OBVIOUS
    <2> QED BY <1>2, <2>1, MinIs
  <1> QED BY <1>2, <1>3

LEMMA HasMax ==
    ASSUME NEW n \in Nat, NEW S \in SUBSET (0..n), S # {}
    PROVE  Max(S) \in S /\ \A x \in S : x <= Max(S)
  <1> DEFINE D == {n - x : x \in S}
  <1>1. D \in SUBSET Nat /\ D # {}
    <2>1. \A x \in S : n - x \in Nat
      OBVIOUS
    <2> QED BY <2>1
  <1>2. Min(D) \in D /\ \A e \in D : Min(D) <= e
    BY <1>1, HasMin
  <1>3. PICK m \in S : Min(D) = n - m
    BY <1>2
  <1>4. \A x \in S : n - m <= n - x
    BY <1>2, <1>3
  <1>5. \A x \in S : x <= m
    BY <1>4
  <1>6. Max(S) = m
    <2>1. S \in SUBSET Int
      OBVIOUS
    <2> QED BY <1>5, <2>1, MaxIs
  <1> QED BY <1>5, <1>6

\* Multiples of the day.
LEMMA Multiples ==
    ASSUME Day \in Nat \ {0}, NEW a \in Int, NEW b \in Int, a <= b
    PROVE  a * Day \in Int /\ b * Day \in Int /\ a * Day <= b * Day
  <1>1. PICK k \in Nat : b = a + k
    <2>1. b - a \in Nat
      OBVIOUS
    <2> QED BY <2>1
  <1>2. b * Day = a * Day + k * Day /\ k * Day \in Nat
    BY <1>1
  <1> QED BY <1>2

LEMMA DayBounds ==
    ASSUME Day \in Nat \ {0}, NEW x \in Int, NEW q \in Int
    PROVE  x \div Day \in Int /\ (q * Day <= x <=> q <= x \div Day)
  <1> DEFINE d == x \div Day
  <1>1. d \in Int /\ x % Day \in 0..(Day - 1) /\ x = d * Day + (x % Day)
    BY Divide
  <1> HIDE DEF d
  <1>2. CASE q <= d
    <2>1. q * Day <= d * Day /\ q * Day \in Int /\ d * Day \in Int
      BY <1>1, <1>2, Multiples
    <2> QED BY <1>1, <1>2, <2>1 DEF d
  <1>3. CASE d < q
    <2>1. d + 1 <= q /\ d + 1 \in Int
      BY <1>1, <1>3
    <2>2. (d + 1) * Day <= q * Day /\ (d + 1) * Day = d * Day + Day /\ d * Day \in Int /\ q * Day \in Int
      BY <1>1, <2>1, Multiples
    <2> QED BY <1>1, <1>3, <2>2 DEF d
  <1> QED BY <1>1, <1>2, <1>3

\* What localBoundary finds for a minute.
LEMMA Boundary ==
    ASSUME NEW last, LocalClock(last), NEW m \in Int
    PROVE  LET from == Min(Showing(Min(Shown(m))))
               to == Max(Showing(Min(Shown(m))))
           IN  /\ last \in Nat /\ Instants = 0..last /\ Beyond = last + 1 /\ Max(Instants) = last
               /\ \A s \in 0..last : Wall[s] \in Nat /\ (Wall[s] >= m => Shown(m) # {})
               /\ Shown(m) # {} =>
                    /\ from \in 0..last /\ Wall[from] >= m
                    /\ to \in 0..last /\ Wall[to] >= m
                    /\ \A s \in 0..last : Wall[s] >= m => Wall[to] <= Wall[s]
  <1>1. last \in Nat /\ Instants = 0..last /\ \A s \in 0..last : Wall[s] \in Nat
    <2>1. last \in Nat /\ Wall \in [0..last -> Nat]
      BY DEF LocalClock
    <2> QED BY <2>1 DEF Instants
  <1>2. Beyond = last + 1 /\ Max(Instants) = last
    <2>1. last \in 0..last /\ 0..last \subseteq Int /\ \A x \in 0..last : x <= last
      BY <1>1
    <2>2. Max(0..last) = last
      BY <2>1, MaxIs
    <2> QED BY <1>1, <2>2 DEF Beyond
  <1>3. Shown(m) \in SUBSET Nat /\ \A x \in Shown(m) : x >= m
    BY <1>1 DEF Shown
  <1>4. \A s \in 0..last : Wall[s] >= m => Wall[s] \in Shown(m)
    BY <1>1 DEF Shown
  <1>5. ASSUME Shown(m) # {}
        PROVE  LET from == Min(Showing(Min(Shown(m))))
                   to == Max(Showing(Min(Shown(m))))
               IN  /\ from \in 0..last /\ Wall[from] >= m
                   /\ to \in 0..last /\ Wall[to] >= m
                   /\ \A s \in 0..last : Wall[s] >= m => Wall[to] <= Wall[s]
    <2> DEFINE x == Min(Shown(m))
    <2>1. x \in Shown(m) /\ \A y \in Shown(m) : x <= y
      BY <1>3, <1>5, HasMin
    <2>2. x \in {Wall[s] : s \in Instants}
      BY <2>1 DEF Shown
    <2> HIDE DEF x
    <2>3. Showing(x) # {} /\ Showing(x) \in SUBSET (0..last) /\ \A s \in Showing(x) : Wall[s] = x
      BY <1>1, <2>2 DEF Showing
    <2>4. Min(Showing(x)) \in Showing(x)
      <3>1. Showing(x) \in SUBSET Nat
        BY <2>3
      <3> QED BY <2>3, <3>1, HasMin
    <2>5. Max(Showing(x)) \in Showing(x)
      BY <1>1, <2>3, HasMax
    <2> QED BY <1>3, <1>4, <2>1, <2>3, <2>4, <2>5 DEF x
  <1> QED BY <1>1, <1>2, <1>4, <1>5

\* Days do not go back, and a day ends where the next one begins.
LEMMA LocalDays ==
    ASSUME Day \in Nat \ {0}, NEW last, LocalClock(last)
    PROVE  /\ \A s \in 0..last : DayOf(s) \in Int
           /\ \A s \in 0..last, d \in Int : d * Day \in Int /\ (d * Day <= Wall[s] <=> d <= DayOf(s))
           /\ \A s, u \in 0..last : s <= u => DayOf(s) <= DayOf(u)
           /\ \A t \in 1..last : DayOf(t) # DayOf(t - 1) =>
                  Wall[t - 1] = DayOf(t) * Day - 1 /\ DayOf(t - 1) = DayOf(t) - 1
  <1>1. last \in Nat /\ \A s \in 0..last : Wall[s] \in Int
    <2>1. last \in Nat /\ Wall \in [0..last -> Nat]
      BY DEF LocalClock
    <2> QED BY <2>1
  <1>2. ASSUME NEW s \in 0..last PROVE DayOf(s) \in Int
    BY <1>1, Divide DEF DayOf
  <1>3. ASSUME NEW s \in 0..last, NEW d \in Int
        PROVE  d * Day \in Int /\ (d * Day <= Wall[s] <=> d <= DayOf(s))
    <2>1. Wall[s] \in Int
      BY <1>1
    <2> QED BY <2>1, DayBounds DEF DayOf
  <1>4. \A s, u \in 0..last : s <= u => DayOf(s) <= DayOf(u)
    BY DEF LocalClock
  <1>5. ASSUME NEW t \in 1..last, DayOf(t) # DayOf(t - 1)
        PROVE  Wall[t - 1] = DayOf(t) * Day - 1 /\ DayOf(t - 1) = DayOf(t) - 1
    <2> DEFINE p == DayOf(t) - 1
    <2>1. Wall[t - 1] = DayOf(t) * Day - 1
      BY <1>5 DEF LocalClock
    <2>2. DayOf(t) \in Int /\ p \in Int /\ DayOf(t) = p + 1
      BY <1>1, <1>2
    <2> HIDE DEF p
    <2>3. Wall[t - 1] = p * Day + (Day - 1) /\ Day - 1 \in 0..(Day - 1)
      BY <2>1, <2>2
    <2>4. (p * Day + (Day - 1)) \div Day = p
      BY <2>2, <2>3, Divided
    <2> QED BY <2>1, <2>3, <2>4 DEF DayOf, p
  <1> QED BY <1>2, <1>3, <1>4, <1>5

\* Whatever minutes the clock leaves out: a window never opens before the day of its
\* start, and it has closed when a later day than that of its end begins.
LEMMA LocalEdges ==
    ASSUME Day \in Nat \ {0}, Week \in Nat \ {0}, NEW last, LocalClock(last),
           NEW w, WindowOK(w), NEW day \in Int
    PROVE  /\ StartOf(w, day) \in Int /\ EndOf(w, day) \in Int
           /\ \A t \in 1..last : DayOf(t) # DayOf(t - 1) =>
                 /\ day >= DayOf(t) => StartOf(w, day) > t - 1
                 /\ day + 1 < DayOf(t) => EndOf(w, day) < t
  <1> DEFINE m == day * Day + w.start
             end == IF Overnight(w) THEN day + 1 ELSE day
             n == end * Day + w.end
  <1>1. /\ day * Day \in Int /\ end \in Int /\ end * Day \in Int
        /\ w.start \in 0..(Day - 1) /\ w.end \in 0..(Day - 1) /\ m \in Int /\ n \in Int
    <2>1. w.start \in 0..(Day - 1) /\ w.end \in 0..(Day - 1)
      BY DEF WindowOK
    <2>2. end \in Int
      OBVIOUS
    <2> HIDE DEF end
    <2>3. day * Day \in Int /\ end * Day \in Int
      BY <2>2
    <2> QED BY <2>1, <2>2, <2>3
  <1>2. /\ StartOf(w, day) = IF Shown(m) = {} THEN Beyond ELSE Min(Showing(Min(Shown(m))))
        /\ EndOf(w, day) = IF Shown(n) = {} THEN Beyond ELSE Max(Showing(Min(Shown(n))))
    BY DEF StartOf, EndOf
  <1> HIDE DEF m, n
  <1>3. last \in Nat /\ Beyond = last + 1 /\ \A s \in 0..last : Wall[s] \in Nat
    BY <1>1, Boundary
  <1>4. StartOf(w, day) = last + 1 \/ (StartOf(w, day) \in 0..last /\ Wall[StartOf(w, day)] >= m)
    BY <1>1, <1>2, <1>3, Boundary
  <1>5. \/ EndOf(w, day) = last + 1 /\ \A s \in 0..last : ~(Wall[s] >= n)
        \/ /\ EndOf(w, day) \in 0..last
           /\ \A s \in 0..last : Wall[s] >= n => Wall[EndOf(w, day)] <= Wall[s]
    BY <1>1, <1>2, <1>3, Boundary
  <1>6. ASSUME NEW t \in 1..last, DayOf(t) # DayOf(t - 1), day >= DayOf(t) PROVE StartOf(w, day) > t - 1
    <2> DEFINE s == StartOf(w, day)
               q == DayOf(t)
    <2>1. t \in Int /\ t - 1 \in 0..last /\ t \in 0..last /\ q \in Int /\ DayOf(t - 1) = q - 1
      BY <1>3, <1>6, LocalDays
    <2>2. q * Day <= m
      <3>1. q * Day <= day * Day /\ q * Day \in Int
        BY <1>6, <2>1, Multiples
      <3> QED BY <1>1, <3>1 DEF m
    <2>3. CASE s = last + 1
      BY <1>3, <2>1, <2>3
    <2>4. CASE s \in 0..last /\ Wall[s] >= m
      <3>1. q * Day <= Wall[s]
        BY <1>1, <1>3, <2>1, <2>2, <2>4
      <3> HIDE DEF s, q
      <3>2. q <= DayOf(s) /\ DayOf(s) \in Int
        BY <2>1, <2>4, <3>1, LocalDays
      <3>3. ~(s <= t - 1)
        <4>1. s <= t - 1 => DayOf(s) <= DayOf(t - 1)
          BY <2>1, <2>4, LocalDays
        <4> QED BY <2>1, <3>2, <4>1
      <3> QED BY <1>3, <2>1, <2>4, <3>3 DEF s
    <2> QED BY <1>4, <2>3, <2>4
  <1>7. ASSUME NEW t \in 1..last, DayOf(t) # DayOf(t - 1), day + 1 < DayOf(t) PROVE EndOf(w, day) < t
    <2> DEFINE e == EndOf(w, day)
               q == DayOf(t)
    <2>1. /\ t \in Int /\ t - 1 \in 0..last /\ t \in 0..last
          /\ q \in Int /\ DayOf(t - 1) = q - 1 /\ Wall[t - 1] = q * Day - 1
      BY <1>3, <1>7, LocalDays
    <2>2. n <= Wall[t - 1]
      <3>1. end + 1 <= q /\ end + 1 \in Int
        BY <1>1, <1>7, <2>1
      <3> HIDE DEF end, q
      <3>2. (end + 1) * Day <= q * Day /\ (end + 1) * Day = end * Day + Day /\ q * Day \in Int
        BY <1>1, <2>1, <3>1, Multiples
      <3> QED BY <1>1, <2>1, <3>2 DEF n
    <2> HIDE DEF e, q, end
    <2>3. e \in 0..last /\ Wall[e] <= q * Day - 1
      BY <1>1, <1>3, <1>5, <2>1, <2>2 DEF e
    <2>4. DayOf(e) \in Int /\ ~(q <= DayOf(e))
      <3>1. q * Day \in Int /\ (q * Day <= Wall[e] <=> q <= DayOf(e)) /\ DayOf(e) \in Int
        BY <2>1, <2>3, LocalDays
      <3>2. Wall[e] \in Int
        BY <1>3, <2>3
      <3> QED BY <2>3, <3>1, <3>2
    <2>5. ~(t <= e)
      <3>1. t <= e => DayOf(t) <= DayOf(e)
        BY <2>1, <2>3, LocalDays
      <3> QED BY <2>4, <3>1 DEF q
    <2> QED BY <1>3, <2>1, <2>3, <2>5 DEF e
  <1> QED BY <1>1, <1>3, <1>4, <1>5, <1>6, <1>7

LEMMA NextDay ==
    ASSUME Day \in Nat \ {0}, NEW x \in Int
    PROVE  x \div Day \in Int /\ (x \div Day) * Day \in Int /\ x < (x \div Day) * Day + Day
  <1> DEFINE d == x \div Day
  <1>1. d \in Int /\ x % Day \in 0..(Day - 1) /\ x = d * Day + (x % Day)
    BY Divide
  <1> HIDE DEF d
  <1>2. d * Day \in Int /\ x < d * Day + Day
    BY <1>1
  <1> QED BY <1>1, <1>2 DEF d

\* Where the mode changes, some window of yesterday, today or tomorrow opens or closes.
LEMMA ChangeHasEdge ==
    ASSUME Day \in Nat \ {0}, Week \in Nat \ {0}, NEW last, LocalClock(last),
           NEW windows, \A k \in DOMAIN windows : WindowOK(windows[k]), NEW default, NEW t \in 1..last,
           ScheduledModeAt(windows, default, t) # ScheduledModeAt(windows, default, t - 1)
    PROVE  \E k \in DOMAIN windows, d \in (DayOf(t - 1) - 1)..DayOf(t) :
              /\ Weekday(d) \in windows[k].days
              /\ t = StartOf(windows[k], d) \/ t = EndOf(windows[k], d)
  <1>1. SUFFICES ASSUME \A k \in DOMAIN windows, d \in (DayOf(t - 1) - 1)..DayOf(t) :
                            Weekday(d) \in windows[k].days =>
                                t # StartOf(windows[k], d) /\ t # EndOf(windows[k], d)
                 PROVE  FALSE
    OBVIOUS
  <1> DEFINE p == DayOf(t - 1)
             q == DayOf(t)
  <1>2. /\ t \in Int /\ t \in 0..last /\ t - 1 \in 0..last /\ p \in Int /\ q \in Int
        /\ p # q => p = q - 1
    <2>1. last \in Nat
      BY DEF LocalClock
    <2>2. t \in Int /\ t \in 0..last /\ t - 1 \in 0..last
      BY <2>1
    <2> QED BY <2>2, LocalDays
  <1>3. \A d \in Int : Active(windows, d, t)
                         = {k \in DOMAIN windows : /\ Weekday(d) \in windows[k].days
                                                   /\ StartOf(windows[k], d) <= t
                                                   /\ t < EndOf(windows[k], d)}
    BY DEF Active
  <1>4. \A d \in Int : Active(windows, d, t - 1)
                         = {k \in DOMAIN windows : /\ Weekday(d) \in windows[k].days
                                                   /\ StartOf(windows[k], d) <= t - 1
                                                   /\ t - 1 < EndOf(windows[k], d)}
    BY DEF Active
  <1>5. \A k \in DOMAIN windows, d \in Int : StartOf(windows[k], d) \in Int /\ EndOf(windows[k], d) \in Int
    BY LocalEdges
  <1>6. ASSUME NEW d \in (p - 1)..q PROVE Active(windows, d, t) = Active(windows, d, t - 1)
    <2>1. d \in Int
      BY <1>2
    <2>2. ASSUME NEW k \in DOMAIN windows, Weekday(d) \in windows[k].days
          PROVE  /\ StartOf(windows[k], d) <= t <=> StartOf(windows[k], d) <= t - 1
                 /\ t < EndOf(windows[k], d) <=> t - 1 < EndOf(windows[k], d)
      <3>1. t # StartOf(windows[k], d) /\ t # EndOf(windows[k], d)
        BY <1>1, <2>2
      <3> QED BY <1>2, <1>5, <2>1, <3>1
    <2> QED BY <1>3, <1>4, <2>1, <2>2
  <1>7. CASE p = q
    <2>1. q - 1 \in (p - 1)..q /\ q \in (p - 1)..q
      BY <1>2, <1>7
    <2>2. /\ Active(windows, q - 1, t) = Active(windows, q - 1, t - 1)
          /\ Active(windows, q, t) = Active(windows, q, t - 1)
      BY <1>6, <2>1
    <2> QED BY <1>7, <2>2 DEF ScheduledModeAt
  <1>8. CASE p # q
    <2>1. /\ p = q - 1 /\ p - 1 \in (p - 1)..q /\ p \in (p - 1)..q /\ q \in (p - 1)..q
          /\ p - 1 \in Int /\ p - 1 + 1 < q /\ q \in Int /\ q >= q
      BY <1>2, <1>8
    <2>2. Active(windows, p - 1, t) = {}
      <3>1. ASSUME NEW k \in DOMAIN windows PROVE ~(t < EndOf(windows[k], p - 1))
        <4>1. EndOf(windows[k], p - 1) < t /\ EndOf(windows[k], p - 1) \in Int
          BY <1>5, <1>8, <2>1, LocalEdges
        <4> QED BY <1>2, <4>1
      <3> QED BY <1>3, <2>1, <3>1
    <2>3. Active(windows, q, t - 1) = {}
      <3>1. ASSUME NEW k \in DOMAIN windows PROVE ~(StartOf(windows[k], q) <= t - 1)
        <4>1. StartOf(windows[k], q) > t - 1 /\ StartOf(windows[k], q) \in Int
          BY <1>5, <1>8, <2>1, LocalEdges
        <4> QED BY <1>2, <4>1
      <3> QED BY <1>4, <2>1, <3>1
    <2>4. Active(windows, p - 1, t - 1) = {} /\ Active(windows, q, t) = {}
          /\ Active(windows, p, t) = Active(windows, p, t - 1)
      BY <1>6, <2>1, <2>2, <2>3
    <2>5. ScheduledModeAt(windows, default, t)
            = IF Active(windows, p, t) = {} THEN default ELSE windows[Min(Active(windows, p, t))].mode
      BY <2>1, <2>4 DEF ScheduledModeAt
    <2>6. ScheduledModeAt(windows, default, t - 1)
            = IF Active(windows, p, t - 1) = {} THEN default ELSE windows[Min(Active(windows, p, t - 1))].mode
      BY <2>1, <2>4 DEF ScheduledModeAt
    <2> QED BY <2>4, <2>5, <2>6
  <1> QED BY <1>7, <1>8

\* powerPolicy.ts:223, for any timetable and any such clock: the mode changes only at an
\* instant that scheduleBoundaryInstants lists, so a drift hold never outlasts a change.
THEOREM BoundariesAreComplete ==
    ASSUME Day \in Nat \ {0}, Week \in Nat \ {0}, NEW last, LocalClock(last),
           NEW windows, \A k \in DOMAIN windows : WindowOK(windows[k]), NEW default
    PROVE  ChangesAreBoundaries(windows, default)
  <1>1. last \in Nat /\ Instants = 0..last /\ Max(Instants) = last /\ \A s \in 0..last : Wall[s] \in Nat
    <2>1. 0 \in Int
      OBVIOUS
    <2> QED BY <2>1, Boundary
  <1> DEFINE mode == [t \in Instants |-> ScheduledModeAt(windows, default, t)]
             changes == {t \in Instants \ {0, last} : mode[t] # mode[t - 1]}
  <1>2. ASSUME NEW from \in 0..last, NEW t \in changes, from < t
        PROVE  t \in BoundaryInstants(windows, from, last)
    <2>1. t \in 1..last /\ t - 1 \in 0..last /\ t < last /\ t \in 0..last /\ t \in Int /\ from \in Int
      BY <1>1
    <2>2. ScheduledModeAt(windows, default, t) # ScheduledModeAt(windows, default, t - 1)
      BY <1>1, <2>1
    <2>3. PICK k \in DOMAIN windows, d \in (DayOf(t - 1) - 1)..DayOf(t) :
              /\ Weekday(d) \in windows[k].days
              /\ t = StartOf(windows[k], d) \/ t = EndOf(windows[k], d)
      BY <2>1, <2>2, ChangeHasEdge
    <2> DEFINE c == DayOf(from)
               n == (last - from) \div Day
    <2>4. /\ c \in Int /\ DayOf(t) \in Int /\ DayOf(t - 1) \in Int /\ c <= DayOf(t - 1)
          /\ c * Day \in Int /\ n \in Int
      <3>1. from <= t - 1
        BY <1>2, <2>1
      <3>2. n \in Int
        BY <1>1, <2>1, Divide
      <3> QED BY <2>1, <3>1, <3>2, LocalDays
    <2>5. DayOf(t) <= c + n + 3
      <3> DEFINE f == c + n + 3
      <3>1. Wall[t] <= Wall[from] + (t - from) + Day
        <4>1. Wall[t] - Wall[from] <= t - from + Day
          BY <1>2, <2>1 DEF LocalClock
        <4> QED BY <1>1, <2>1, <4>1
      <3>2. Wall[from] < c * Day + Day
        <4>1. ~((c + 1) * Day <= Wall[from]) /\ (c + 1) * Day = c * Day + Day
          <5>1. c + 1 \in Int /\ ~(c + 1 <= c)
            BY <2>4
          <5>2. (c + 1) * Day <= Wall[from] <=> c + 1 <= c
            BY <5>1, LocalDays
          <5> QED BY <2>4, <5>1, <5>2
        <4> QED BY <1>1, <2>4, <4>1
      <3>3. last - from < n * Day + Day /\ n * Day \in Int
        <4>1. last - from \in Int
          BY <1>1, <2>1
        <4> QED BY <4>1, NextDay
      <3>4. f * Day = c * Day + n * Day + 3 * Day /\ f \in Int /\ f * Day \in Int
        <4> HIDE DEF c, n
        <4> QED BY <2>4
      <3>5. ~(f * Day <= Wall[t])
        <4>1. /\ Wall[t] \in Int /\ Wall[from] \in Int /\ last \in Int
              /\ t - from < last - from /\ t - from \in Int
          BY <1>1, <2>1
        <4> HIDE DEF c, n, f
        <4>2. Wall[t] < c * Day + n * Day + 3 * Day
          BY <2>1, <2>4, <3>1, <3>2, <3>3, <4>1
        <4> QED BY <3>4, <4>1, <4>2
      <3>6. f * Day <= Wall[t] <=> f <= DayOf(t)
        <4> HIDE DEF f
        <4> QED BY <2>1, <3>4, LocalDays
      <3> QED BY <2>4, <3>4, <3>5, <3>6
    <2> DEFINE days == (DayOf(from) - 1)..(DayOf(from) + (last - from) \div Day + 3)
               own == {o \in (DOMAIN windows) \X days : Weekday(o[2]) \in windows[o[1]].days}
    <2>6. d \in days
      BY <2>4, <2>5
    <2> HIDE DEF c, n, days
    <2>7. <<k, d>> \in own
      BY <2>3, <2>6
    <2>8. t \in {StartOf(windows[o[1]], o[2]) : o \in own} \cup {EndOf(windows[o[1]], o[2]) : o \in own}
      BY <2>3, <2>7
    <2> QED BY <1>2, <2>1, <2>8 DEF BoundaryInstants, days
  <1>3. \A from \in {0} \cup {t - 1 : t \in changes} : from \in 0..last
    <2>1. \A t \in changes : t \in 1..last
      BY <1>1
    <2> HIDE DEF changes
    <2> QED BY <1>1, <2>1
  <1> HIDE DEF changes
  <1>4. \A from \in {0} \cup {t - 1 : t \in changes} :
            {t \in changes : from < t} \subseteq BoundaryInstants(windows, from, last)
    BY <1>2, <1>3
  <1> QED BY <1>1, <1>4 DEF ChangesAreBoundaries, changes
=============================================================================
