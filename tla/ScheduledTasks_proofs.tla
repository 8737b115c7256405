------------------------ MODULE ScheduledTasks_proofs ------------------------
(***************************************************************************)
(* Proofs about a scheduled task, for any finite number of passes, any     *)
(* calls of the user, any length of days and weeks, and any faults.        *)
(***************************************************************************)
EXTENDS ScheduledTasks, FiniteSetTheorems, TLAPS

----------------------------------------------------------------------------
(* Remainders                                                              *)

LEMMA DivMod ==
  ASSUME NEW d \in Nat \ {0}, NEW x \in Nat
  PROVE  /\ x = (x \div d) * d + (x % d)
         /\ x \div d \in Nat /\ x % d \in 0 .. d - 1
OBVIOUS

LEMMA ModUnique ==
  ASSUME NEW d \in Nat \ {0}, NEW k \in Nat, NEW s \in 0 .. d - 1
  PROVE  (k * d + s) % d = s
OBVIOUS

LEMMA OnePeriodOn ==
  ASSUME NEW d \in Nat \ {0}, NEW x \in Nat, x % d = 0
  PROVE  (x + d) % d = 0
<1>1. x = (x \div d) * d + (x % d) /\ x \div d \in Nat
  BY DivMod
<1>2. x + d = ((x \div d) + 1) * d + 0
  BY <1>1
<1>3. (x \div d) + 1 \in Nat /\ 0 \in 0 .. d - 1
  BY <1>1
<1>4. (((x \div d) + 1) * d + 0) % d = 0
  BY <1>3, ModUnique
<1> QED
  BY <1>2, <1>4

LEMMA NoneBetween ==
  ASSUME NEW d \in Nat \ {0}, NEW x \in Nat, NEW y \in Nat,
         x % d = 0, y % d = 0, x <= y, y < x + d
  PROVE  x = y
<1> DEFINE k == x \div d  m == y \div d
<1>1. k \in Nat /\ m \in Nat /\ x = k * d /\ y = m * d
  BY DivMod
<1> HIDE DEF k, m
<1>2. m * d < (k + 1) * d
  BY <1>1
<1>3. m < k + 1 /\ k < m + 1
  BY <1>1, <1>2
<1> QED
  BY <1>1, <1>3

LEMMA DaysOn ==
  ASSUME NEW d \in Nat \ {0}, NEW c \in Nat, NEW x \in Nat
  PROVE  /\ ((x \div d) + c) * d + (x % d) = x + c * d
         /\ (x + c * d) % d = x % d
<1>1. x = (x \div d) * d + (x % d) /\ x \div d \in Nat /\ x % d \in 0 .. d - 1
  BY DivMod
<1>2. ((x \div d) + c) * d + (x % d) = x + c * d
  BY <1>1
<1>3. (((x \div d) + c) * d + (x % d)) % d = x % d
  <2>1. (x \div d) + c \in Nat
    BY <1>1
  <2> QED
    BY <1>1, <2>1, ModUnique
<1> QED
  BY <1>2, <1>3

LEMMA ZeroMod ==
  ASSUME NEW d \in Nat \ {0}
  PROVE  0 % d = 0
OBVIOUS

----------------------------------------------------------------------------
(* The invariant                                                           *)

USE TaskAssumption

RunRow == [due : Times, active : BOOLEAN]
PassRecord ==
    [pc : {"idle", "check", "skip", "claim", "start", "revert"}, due : Times, next : Times]
CallRecord == [pc : {"idle", "read"}, read : TaskRecord]

\* The invariant by the variables it is about.
TaskPart == now \in Nat /\ task \in TaskRecord /\ ActiveIsScheduled
RunsPart == runs \in Seq(RunRow) /\ OneRunPerDueTime
CallPart == call \in [TaskCalls -> CallRecord]
HistoryPart ==
    /\ taskFaults \in Nat /\ edits \in Nat
    /\ firstDue \in Times /\ skipped \subseteq Times /\ overtaken \subseteq Times

\* A pass under way has a due time and one to go on to.
PassPart ==
    /\ pass \in [Passes -> PassRecord]
    /\ \A p \in Passes : pass[p].pc # "idle" => pass[p].due # NoTime /\ pass[p].next # NoTime

\* The passes that may still start a run and the scheduled runs under way are
\* together no more than there are passes: a look lets a pass go on only when
\* no run is under way at all, and a start trades the one for the other.
Starters == {p \in Passes : pass[p].pc \in {"claim", "start"}}
BoundPart ==
    /\ IsFiniteSet(ActiveScheduled)
    /\ Cardinality(Starters) + Cardinality(ActiveScheduled) <= Cardinality(Passes)

TaskInv == TaskPart /\ RunsPart /\ CallPart /\ HistoryPart /\ PassPart /\ BoundPart

----------------------------------------------------------------------------
(* Operators                                                               *)

\* The next run lies in the calendar: it is never NoTime.
LEMMA NextRunIsTime ==
  ASSUME NEW cadence \in Cadences, NEW from \in Nat, NEW slot \in Slots
  PROVE  NextRun(cadence, from, slot) \in Nat
<1>1. from \div DayLength \in Nat /\ cadence \in Nat /\ slot \in Nat
  BY DEF Cadences, Slots
<1>2. \A m, n \in Nat : m * n \in Nat
  OBVIOUS
<1>3. ((from \div DayLength) + cadence) * DayLength \in Nat
  BY <1>1, <1>2
<1> QED
  BY <1>1, <1>3 DEF NextRun

LEMMA NoTaskIsTyped == NoTask \in TaskRecord
BY DEF NoTask, TaskRecord, Times, NoTime, Cadences, Slots

LEMMA Appended ==
  ASSUME NEW s \in Seq(RunRow), NEW row \in RunRow
  PROVE  /\ Append(s, row) \in Seq(RunRow)
         /\ DOMAIN Append(s, row) = DOMAIN s \cup {Len(s) + 1}
         /\ Len(s) + 1 \notin DOMAIN s
         /\ Append(s, row)[Len(s) + 1] = row
         /\ \A i \in DOMAIN s : Append(s, row)[i] = s[i]
OBVIOUS

\* A run is created only where its due time has none.
LEMMA StartRunKeeps ==
  ASSUME RunsPart, NEW due \in Times, StartRun(due)
  PROVE  /\ RunsPart'
         /\ ActiveScheduled' = ActiveScheduled \cup
               (IF due = NoTime THEN {} ELSE {Len(runs) + 1})
<1> DEFINE row == [due |-> due, active |-> TRUE]
<1>1. row \in RunRow /\ row.due = due /\ row.active /\ runs \in Seq(RunRow)
  BY DEF RunRow, RunsPart
<1>2. runs' = Append(runs, row)
  BY DEF StartRun
<1> HIDE DEF row
<1>3. /\ runs' \in Seq(RunRow)
      /\ DOMAIN runs' = DOMAIN runs \cup {Len(runs) + 1}
      /\ Len(runs) + 1 \notin DOMAIN runs
      /\ runs'[Len(runs) + 1] = row
      /\ \A i \in DOMAIN runs : runs'[i] = runs[i]
  BY <1>1, <1>2, Appended
<1>4. due # NoTime => \A i \in DOMAIN runs : runs[i].due # due
  BY DEF StartRun, Clashes
<1>5. OneRunPerDueTime'
  BY <1>1, <1>3, <1>4 DEF RunsPart, OneRunPerDueTime
<1>6. ActiveScheduled' = ActiveScheduled \cup (IF due = NoTime THEN {} ELSE {Len(runs) + 1})
  BY <1>1, <1>3 DEF ActiveScheduled
<1> QED
  BY <1>3, <1>5, <1>6 DEF RunsPart

----------------------------------------------------------------------------
(* Initially                                                               *)

LEMMA InitTask == TaskInit => TaskInv
<1> SUFFICES ASSUME TaskInit
             PROVE  TaskInv
  OBVIOUS
<1>1. TaskPart
  BY NoTaskIsTyped DEF TaskInit, TaskPart, ActiveIsScheduled, NoTask
<1>2. RunsPart
  BY DEF TaskInit, RunsPart, OneRunPerDueTime
<1>3. CallPart
  BY NoTaskIsTyped DEF TaskInit, CallPart, CallRecord, IdleCall
<1>4. HistoryPart
  BY DEF TaskInit, HistoryPart, Times
<1>5. PassPart
  BY DEF TaskInit, PassPart, PassRecord, IdlePass, Times
<1>6. Starters = {} /\ ActiveScheduled = {}
  BY DEF TaskInit, Starters, ActiveScheduled, IdlePass
<1>7. BoundPart
  BY <1>6, FS_EmptySet, FS_CardinalityType DEF BoundPart
<1> QED
  BY <1>1, <1>2, <1>3, <1>4, <1>5, <1>7 DEF TaskInv

----------------------------------------------------------------------------
(* The clock and the task                                                  *)

LEMMA TaskMoves ==
  ASSUME task \in TaskRecord, now' \in Nat, NEW next \in Times,
         next # NoTime \/ task'.status # "ACTIVE",
         \/ task' = [task EXCEPT !.next = next]
         \/ \E status \in {"ACTIVE", "PAUSED"} :
               task' = [task EXCEPT !.status = status, !.next = next]
         \/ \E cadence \in Cadences, slot \in Slots :
               task' = [task EXCEPT !.cadence = cadence, !.slot = slot, !.next = next]
  PROVE  TaskPart'
BY DEF TaskPart, ActiveIsScheduled, TaskRecord

LEMMA TaskStep ==
  ASSUME TaskInv, [TaskNext]_taskVars
  PROVE  TaskPart'
<1>0. /\ now \in Nat /\ task \in TaskRecord /\ ActiveIsScheduled
      /\ pass \in [Passes -> PassRecord] /\ call \in [TaskCalls -> CallRecord]
  BY DEF TaskInv, TaskPart, PassPart, CallPart
<1>1. CASE UNCHANGED <<now, task>>
  BY <1>0, <1>1 DEF TaskPart, ActiveIsScheduled
<1>2. CASE ClockTicks
  BY <1>0, <1>2 DEF ClockTicks, TaskPart, ActiveIsScheduled
<1>3. CASE CreateTask
  <2>1. PICK cadence \in Cadences, slot \in Slots :
           task' = [status |-> "ACTIVE", next |-> NextRun(cadence, now, slot),
                    cadence |-> cadence, slot |-> slot]
    BY <1>3 DEF CreateTask
  <2>2. NextRun(cadence, now, slot) \in Nat /\ NoTime \notin Nat
    BY <1>0, NextRunIsTime DEF NoTime
  <2>3. task' \in TaskRecord
    BY <2>1, <2>2 DEF TaskRecord, Times
  <2>4. now' = now
    BY <1>3 DEF CreateTask, CallOnly
  <2> QED
    BY <1>0, <2>1, <2>2, <2>3, <2>4 DEF TaskPart, ActiveIsScheduled
<1>4. ASSUME NEW p \in Passes, Skip(p) \/ Claim(p) \/ Revert(p)
      PROVE  TaskPart'
  <2>1. /\ pass[p].due \in Times \ {NoTime} /\ pass[p].next \in Times \ {NoTime}
        /\ now' = now
    BY <1>0, <1>4 DEF Skip, Claim, Revert, Stays, TaskInv, PassPart, PassRecord
  <2>2. \/ UNCHANGED task
        \/ \E next \in {pass[p].due, pass[p].next} : task' = [task EXCEPT !.next = next]
    BY <1>4 DEF Skip, Claim, Revert
  <2> QED
    BY <1>0, <1>1, <2>1, <2>2, TaskMoves
<1>5. ASSUME NEW c \in TaskCalls, UpdateStatus(c)
      PROVE  TaskPart'
  <2>1. call[c].read \in TaskRecord /\ now' = now
    BY <1>0, <1>5 DEF UpdateStatus, CallOnly, CallRecord
  <2>2. CASE ~Exists
    BY <1>1, <1>5, <2>1, <2>2 DEF UpdateStatus
  <2>3. CASE Exists
    <3>1. PICK status \in {"ACTIVE", "PAUSED"} :
             task' = [task EXCEPT !.status = status,
                                  !.next = NextOfStatus(status, call[c].read)]
      BY <1>5, <2>3 DEF UpdateStatus
    <3>2. /\ NextOfStatus(status, call[c].read) \in Times
          /\ status = "ACTIVE" => NextOfStatus(status, call[c].read) # NoTime
      <4>1. NextRun(call[c].read.cadence, now, call[c].read.slot) \in Nat
        BY <1>0, <2>1, NextRunIsTime DEF TaskRecord
      <4> QED
        BY <2>1, <4>1 DEF NextOfStatus, TaskRecord, Times, NoTime
    <3>3. task'.status = status
      BY <1>0, <3>1 DEF TaskRecord
    <3> QED
      BY <1>0, <2>1, <3>1, <3>2, <3>3, TaskMoves
  <2> QED
    BY <2>2, <2>3
<1>6. ASSUME NEW c \in TaskCalls, Update(c)
      PROVE  TaskPart'
  <2>1. now' = now
    BY <1>6 DEF Update, CallOnly
  <2>2. CASE ~Exists
    BY <1>1, <1>6, <2>1, <2>2 DEF Update
  <2>3. CASE Exists
    <3>1. PICK cadence \in Cadences, slot \in Slots :
             task' = [task EXCEPT !.cadence = cadence, !.slot = slot,
                        !.next = IF call[c].read.status = "ACTIVE"
                                 THEN NextRun(cadence, now, slot) ELSE @]
      BY <1>6, <2>3 DEF Update
    <3> DEFINE next == IF call[c].read.status = "ACTIVE"
                       THEN NextRun(cadence, now, slot) ELSE task.next
    <3>2. NextRun(cadence, now, slot) \in Nat /\ task.next \in Times
      BY <1>0, NextRunIsTime DEF TaskRecord
    <3>3. task' = [task EXCEPT !.cadence = cadence, !.slot = slot, !.next = next]
      BY <3>1
    <3>4. next \in Times /\ task'.status = task.status
      BY <1>0, <3>2, <3>3 DEF TaskRecord, Times
    <3>5. next # NoTime \/ task'.status # "ACTIVE"
      BY <1>0, <3>2, <3>4 DEF ActiveIsScheduled, NoTime
    <3> HIDE DEF next
    <3> QED
      BY <1>0, <2>1, <3>3, <3>4, <3>5, TaskMoves
  <2> QED
    BY <2>2, <2>3
<1>7. ASSUME NEW c \in TaskCalls, DeleteTask(c)
      PROVE  TaskPart'
  BY <1>0, <1>7, NoTaskIsTyped DEF DeleteTask, CallOnly, TaskPart, ActiveIsScheduled, NoTask
<1>8. CASE RunEnds \/ Retry \/ RunNow
  BY <1>1, <1>8 DEF RunEnds, Retry, RunNow, CallOnly
<1>9. ASSUME NEW p \in Passes, Find(p) \/ Check(p) \/ Start(p) \/ PassDies(p)
      PROVE  TaskPart'
  BY <1>1, <1>9 DEF Find, Check, Start, PassDies, Stays
<1>10. ASSUME NEW c \in TaskCalls, ReadTask(c)
       PROVE  TaskPart'
  BY <1>1, <1>10 DEF ReadTask, CallOnly
<1>11. CASE UNCHANGED taskVars
  BY <1>1, <1>11 DEF taskVars
<1> QED
  BY <1>2, <1>3, <1>4, <1>5, <1>6, <1>7, <1>8, <1>9, <1>10, <1>11
     DEF TaskNext, PassStep, CallStep

----------------------------------------------------------------------------
(* The runs                                                                *)

\* The end of a run changes neither due time nor number.
LEMMA EndKeeps ==
  ASSUME runs \in Seq(RunRow), NEW i \in DOMAIN runs,
         runs' = [runs EXCEPT ![i].active = FALSE]
  PROVE  /\ runs' \in Seq(RunRow) /\ DOMAIN runs' = DOMAIN runs
         /\ \A j \in DOMAIN runs : runs'[j].due = runs[j].due
         /\ \A j \in DOMAIN runs : runs'[j].active => runs[j].active
<1>1. runs \in [1 .. Len(runs) -> RunRow] /\ DOMAIN runs = 1 .. Len(runs) /\ Len(runs) \in Nat
  OBVIOUS
<1>2. runs[i] \in RunRow
  BY <1>1
<1> DEFINE row == [runs[i] EXCEPT !.active = FALSE]
<1>3. row \in RunRow /\ row.due = runs[i].due /\ row.active = FALSE
  BY <1>2 DEF RunRow
<1>4. runs' = [runs EXCEPT ![i] = row]
  OBVIOUS
<1> HIDE DEF row
<1>5. runs' \in [1 .. Len(runs) -> RunRow]
  BY <1>1, <1>3, <1>4
<1>6. runs' \in Seq(RunRow) /\ DOMAIN runs' = DOMAIN runs
  BY <1>1, <1>5
<1>7. \A j \in DOMAIN runs : runs'[j] = IF j = i THEN row ELSE runs[j]
  BY <1>1, <1>4
<1> QED
  BY <1>3, <1>6, <1>7

LEMMA RunsStep ==
  ASSUME TaskInv, [TaskNext]_taskVars
  PROVE  RunsPart'
<1>0. RunsPart /\ runs \in Seq(RunRow) /\ NoTime \in Times
  BY DEF TaskInv, RunsPart, Times
<1>1. CASE UNCHANGED runs
  BY <1>0, <1>1 DEF RunsPart, OneRunPerDueTime
<1>2. CASE RunEnds
  <2>1. PICK i \in DOMAIN runs : runs' = [runs EXCEPT ![i].active = FALSE]
    BY <1>2 DEF RunEnds
  <2>2. /\ runs' \in Seq(RunRow) /\ DOMAIN runs' = DOMAIN runs
        /\ \A j \in DOMAIN runs : runs'[j].due = runs[j].due
    BY <1>0, <2>1, EndKeeps
  <2> QED
    BY <1>0, <2>2 DEF RunsPart, OneRunPerDueTime
<1>3. CASE Retry \/ RunNow
  BY <1>0, <1>3, StartRunKeeps DEF Retry, RunNow
<1>4. ASSUME NEW p \in Passes, Start(p)
      PROVE  RunsPart'
  <2>1. pass[p].due \in Times
    BY DEF TaskInv, PassPart, PassRecord
  <2> QED
    BY <1>0, <1>1, <1>4, <2>1, StartRunKeeps DEF Start
<1>5. ASSUME NEW c \in TaskCalls, DeleteTask(c)
      PROVE  RunsPart'
  BY <1>5 DEF DeleteTask, RunsPart, OneRunPerDueTime
<1>6. CASE ClockTicks \/ CreateTask \/ UNCHANGED taskVars
  BY <1>1, <1>6 DEF ClockTicks, CreateTask, taskVars
<1>7. ASSUME NEW p \in Passes,
             Find(p) \/ Check(p) \/ Skip(p) \/ Claim(p) \/ Revert(p) \/ PassDies(p)
      PROVE  RunsPart'
  BY <1>1, <1>7 DEF Find, Check, Skip, Claim, Revert, PassDies
<1>8. ASSUME NEW c \in TaskCalls, ReadTask(c) \/ UpdateStatus(c) \/ Update(c)
      PROVE  RunsPart'
  BY <1>1, <1>8 DEF ReadTask, UpdateStatus, Update
<1> QED
  BY <1>2, <1>3, <1>4, <1>5, <1>6, <1>7, <1>8 DEF TaskNext, PassStep, CallStep

----------------------------------------------------------------------------
(* The calls, the passes and the history                                   *)

LEMMA CallsStep ==
  ASSUME TaskInv, [TaskNext]_taskVars
  PROVE  CallPart'
<1>0. call \in [TaskCalls -> CallRecord] /\ task \in TaskRecord
  BY DEF TaskInv, CallPart, TaskPart
<1>1. CASE UNCHANGED call
  BY <1>0, <1>1 DEF CallPart
<1>2. ASSUME NEW c \in TaskCalls, ReadTask(c)
      PROVE  CallPart'
  BY <1>0, <1>2 DEF ReadTask, CallPart, CallRecord
<1>3. ASSUME NEW c \in TaskCalls, UpdateStatus(c) \/ Update(c) \/ DeleteTask(c)
      PROVE  CallPart'
  <2>1. CallEnds(c)
    BY <1>3 DEF UpdateStatus, Update, DeleteTask
  <2>2. IdleCall \in CallRecord
    BY NoTaskIsTyped DEF IdleCall, CallRecord
  <2> QED
    BY <1>0, <2>1, <2>2 DEF CallEnds, CallPart
<1>4. CASE ClockTicks \/ RunEnds \/ Retry \/ CreateTask \/ RunNow \/ UNCHANGED taskVars
  BY <1>1, <1>4 DEF ClockTicks, RunEnds, Retry, CreateTask, RunNow, taskVars
<1>5. ASSUME NEW p \in Passes, PassStep(p)
      PROVE  CallPart'
  BY <1>1, <1>5 DEF PassStep, Find, Check, Skip, Claim, Start, Revert, PassDies, Stays
<1> QED
  BY <1>2, <1>3, <1>4, <1>5 DEF TaskNext, CallStep

LEMMA PassesStep ==
  ASSUME TaskInv, [TaskNext]_taskVars
  PROVE  PassPart'
<1>0. /\ pass \in [Passes -> PassRecord] /\ PassPart /\ task \in TaskRecord
      /\ \A p \in Passes : pass[p].pc # "idle" => pass[p].due # NoTime /\ pass[p].next # NoTime
  BY DEF TaskInv, PassPart, TaskPart
<1>1. CASE UNCHANGED pass
  BY <1>0, <1>1 DEF PassPart
<1>2. ASSUME NEW p \in Passes, Find(p)
      PROVE  PassPart'
  <2>1. task.next \in Nat
    BY <1>0, <1>2 DEF Find, TaskRecord, Times
  <2>2. NextRun(task.cadence, task.next, task.slot) \in Nat
    BY <1>0, <2>1, NextRunIsTime DEF TaskRecord
  <2> DEFINE next == NextRun(task.cadence, task.next, task.slot)
  <2>3. pass' = [pass EXCEPT ![p] = [pc |-> "check", due |-> task.next, next |-> next]]
    BY <1>2 DEF Find
  <2>4. next \in Nat
    BY <2>2
  <2> HIDE DEF next
  <2>5. [pc |-> "check", due |-> task.next, next |-> next] \in PassRecord
    BY <2>1, <2>4 DEF PassRecord, Times
  <2>6. pass' \in [Passes -> PassRecord]
    BY <1>0, <2>3, <2>5
  <2>7. task.next # NoTime /\ next # NoTime
    BY <2>1, <2>4 DEF NoTime
  <2> QED
    BY <1>0, <2>3, <2>6, <2>7 DEF PassPart
<1>3. ASSUME NEW p \in Passes, pass[p].pc # "idle",
             NEW pc \in {"skip", "claim", "start", "revert"},
             pass' = [pass EXCEPT ![p].pc = pc]
      PROVE  PassPart'
  <2>1. pass' \in [Passes -> PassRecord]
    BY <1>0, <1>3 DEF PassRecord
  <2> QED
    BY <1>0, <1>3, <2>1 DEF PassPart, PassRecord
<1>4. ASSUME NEW p \in Passes, pass' = [pass EXCEPT ![p] = IdlePass]
      PROVE  PassPart'
  <2>1. IdlePass \in PassRecord /\ IdlePass.pc = "idle"
    BY DEF IdlePass, PassRecord, Times
  <2> QED
    BY <1>0, <1>4, <2>1 DEF PassPart
<1>5. ASSUME NEW p \in Passes, Check(p) \/ Claim(p) \/ Start(p)
      PROVE  PassPart'
  <2>1. pass[p].pc # "idle"
    BY <1>5 DEF Check, Claim, Start
  <2>2. \/ \E pc \in {"skip", "claim", "start", "revert"} : pass' = [pass EXCEPT ![p].pc = pc]
        \/ pass' = [pass EXCEPT ![p] = IdlePass]
    BY <1>5 DEF Check, Claim, Start
  <2> QED
    BY <1>3, <1>4, <2>1, <2>2
<1>6. ASSUME NEW p \in Passes, Skip(p) \/ Revert(p) \/ PassDies(p)
      PROVE  PassPart'
  BY <1>4, <1>6 DEF Skip, Revert, PassDies
<1>7. CASE ClockTicks \/ RunEnds \/ Retry \/ CreateTask \/ RunNow \/ UNCHANGED taskVars
  BY <1>1, <1>7 DEF ClockTicks, RunEnds, Retry, CreateTask, RunNow, CallOnly, taskVars
<1>8. ASSUME NEW c \in TaskCalls, CallStep(c)
      PROVE  PassPart'
  BY <1>1, <1>8 DEF CallStep, ReadTask, UpdateStatus, Update, DeleteTask, CallOnly
<1> QED
  BY <1>2, <1>5, <1>6, <1>7, <1>8 DEF TaskNext, PassStep

LEMMA HistoryStep ==
  ASSUME TaskInv, [TaskNext]_taskVars
  PROVE  HistoryPart'
<1>0. /\ HistoryPart /\ pass \in [Passes -> PassRecord] /\ now \in Nat
      /\ \A p \in Passes : pass[p].due \in Times
  BY DEF TaskInv, PassPart, TaskPart, PassRecord
<1>1. CASE UNCHANGED <<taskFaults, edits, historyVars>>
  BY <1>0, <1>1 DEF HistoryPart, historyVars
<1>2. CASE CreateTask
  <2>1. PICK cadence \in Cadences, slot \in Slots : firstDue' = NextRun(cadence, now, slot)
    BY <1>2 DEF CreateTask
  <2>2. firstDue' \in Times
    BY <1>0, <2>1, NextRunIsTime DEF Times
  <2> QED
    BY <1>0, <1>2, <2>2 DEF CreateTask, CallOnly, HistoryPart
<1>3. ASSUME NEW p \in Passes, Skip(p) \/ Revert(p)
      PROVE  HistoryPart'
  BY <1>0, <1>3 DEF Skip, Revert, Stays, HistoryPart
<1>4. ASSUME NEW p \in Passes, Start(p) \/ PassDies(p)
      PROVE  HistoryPart'
  BY <1>0, <1>4 DEF Start, PassDies, Stays, TaskFault, HistoryPart
<1>5. ASSUME NEW p \in Passes, Find(p) \/ Check(p) \/ Claim(p)
      PROVE  HistoryPart'
  BY <1>1, <1>5 DEF Find, Check, Claim, Stays, historyVars
<1>6. ASSUME NEW c \in TaskCalls, CallStep(c)
      PROVE  HistoryPart'
  <2>1. CallOnly /\ UNCHANGED firstDue /\ (UNCHANGED edits \/ Edit)
    BY <1>6 DEF CallStep, ReadTask, UpdateStatus, Update, DeleteTask
  <2> QED
    BY <1>0, <2>1 DEF CallOnly, Edit, HistoryPart
<1>7. CASE ClockTicks \/ RunEnds \/ Retry \/ RunNow \/ UNCHANGED taskVars
  BY <1>1, <1>7 DEF ClockTicks, RunEnds, Retry, RunNow, CallOnly, taskVars, historyVars
<1> QED
  BY <1>2, <1>3, <1>4, <1>5, <1>6, <1>7 DEF TaskNext, PassStep

----------------------------------------------------------------------------
(* Starters and scheduled runs under way                                   *)

LEMMA StartersFinite ==
  ASSUME NEW S, S \subseteq Passes
  PROVE  /\ IsFiniteSet(S) /\ Cardinality(S) \in Nat
         /\ Cardinality(Passes) \in Nat /\ Cardinality(S) <= Cardinality(Passes)
BY FS_Subset, FS_CardinalityType

LEMMA OneMore ==
  ASSUME NEW S, IsFiniteSet(S), NEW x
  PROVE  /\ IsFiniteSet(S \cup {x}) /\ Cardinality(S) \in Nat
         /\ Cardinality(S \cup {x}) \in Nat
         /\ Cardinality(S \cup {x}) <= Cardinality(S) + 1
<1>1. /\ IsFiniteSet(S \cup {x}) /\ Cardinality(S) \in Nat
      /\ Cardinality(S \cup {x}) = IF x \in S THEN Cardinality(S) ELSE Cardinality(S) + 1
  <2>1. /\ IsFiniteSet(S \cup {x})
        /\ Cardinality(S \cup {x}) = IF x \in S THEN Cardinality(S) ELSE Cardinality(S) + 1
    BY FS_AddElement, Zenon
  <2> QED
    BY <2>1, FS_CardinalityType
<1> QED
  BY <1>1

LEMMA OneLess ==
  ASSUME NEW S, IsFiniteSet(S), NEW x \in S
  PROVE  Cardinality(S \ {x}) = Cardinality(S) - 1 /\ Cardinality(S) \in Nat
<1>1. Cardinality(S \ {x}) = IF x \in S THEN Cardinality(S) - 1 ELSE Cardinality(S)
  BY FS_RemoveElement, Zenon
<1> QED
  BY <1>1, FS_CardinalityType

LEMMA BoundShrinks ==
  ASSUME BoundPart, Starters' \subseteq Starters, ActiveScheduled' \subseteq ActiveScheduled
  PROVE  BoundPart'
<1> DEFINE S == Starters  T == Starters'  A == ActiveScheduled  B == ActiveScheduled'
<1>1. IsFiniteSet(S) /\ Cardinality(S) \in Nat /\ Cardinality(Passes) \in Nat
  BY StartersFinite DEF Starters
<1>2. IsFiniteSet(A) /\ Cardinality(S) + Cardinality(A) <= Cardinality(Passes)
  BY DEF BoundPart
<1>3. T \subseteq S /\ B \subseteq A
  OBVIOUS
<1>4. /\ IsFiniteSet(B) /\ Cardinality(A) \in Nat /\ Cardinality(B) \in Nat
      /\ Cardinality(B) <= Cardinality(A)
  BY <1>2, <1>3, FS_Subset, FS_CardinalityType
<1>5. Cardinality(T) \in Nat /\ Cardinality(T) <= Cardinality(S)
  BY <1>1, <1>3, FS_Subset, FS_CardinalityType
<1>6. IsFiniteSet(B) /\ Cardinality(T) + Cardinality(B) <= Cardinality(Passes)
  BY <1>1, <1>2, <1>4, <1>5
<1> QED
  BY <1>6 DEF BoundPart

\* A pass that does not look or claim only leaves the starters.
LEMMA StartersShrink ==
  ASSUME PassPart, NEW p \in Passes, NEW row,
         pass' = [pass EXCEPT ![p] = row],
         row.pc \in {"claim", "start"} => p \in Starters
  PROVE  Starters' \subseteq Starters
BY DEF PassPart, Starters

LEMMA BoundStep ==
  ASSUME TaskInv, [TaskNext]_taskVars
  PROVE  BoundPart'
<1>0. /\ BoundPart /\ PassPart /\ RunsPart /\ runs \in Seq(RunRow)
      /\ pass \in [Passes -> PassRecord] /\ NoTime \in Times
  BY DEF TaskInv, PassPart, RunsPart, Times
<1>a. UNCHANGED pass => Starters' = Starters
  BY DEF Starters
<1>b. UNCHANGED runs => ActiveScheduled' = ActiveScheduled
  BY DEF ActiveScheduled
<1>c. ASSUME NEW p \in Passes, NEW row, pass' = [pass EXCEPT ![p] = row],
             row.pc \in {"claim", "start"} => p \in Starters, UNCHANGED runs
      PROVE  BoundPart'
  BY <1>0, <1>b, <1>c, StartersShrink, BoundShrinks
<1>d. ASSUME UNCHANGED <<pass, runs>>
      PROVE  BoundPart'
  BY <1>0, <1>a, <1>b, <1>d, BoundShrinks
<1>1. CASE RunEnds
  <2>1. PICK i \in DOMAIN runs : runs' = [runs EXCEPT ![i].active = FALSE]
    BY <1>1 DEF RunEnds
  <2>2. ActiveScheduled' \subseteq ActiveScheduled
    BY <1>0, <2>1, EndKeeps DEF ActiveScheduled
  <2>3. UNCHANGED pass
    BY <1>1 DEF RunEnds
  <2> QED
    BY <1>0, <1>a, <2>2, <2>3, BoundShrinks
<1>2. CASE Retry \/ RunNow
  <2>1. StartRun(NoTime) /\ UNCHANGED pass
    BY <1>2 DEF Retry, RunNow, CallOnly
  <2>2. ActiveScheduled' = ActiveScheduled
    BY <1>0, <2>1, StartRunKeeps
  <2> QED
    BY <1>0, <1>a, <2>1, <2>2, BoundShrinks
<1>3. ASSUME NEW c \in TaskCalls, DeleteTask(c)
      PROVE  BoundPart'
  <2>1. ActiveScheduled' = {} /\ UNCHANGED pass
    BY <1>3 DEF DeleteTask, CallOnly, ActiveScheduled
  <2> QED
    BY <1>0, <1>a, <2>1, BoundShrinks
<1>4. ASSUME NEW p \in Passes, Find(p) \/ Skip(p) \/ Revert(p) \/ PassDies(p)
      PROVE  BoundPart'
  <2>1. PICK row : pass' = [pass EXCEPT ![p] = row] /\ row.pc \in {"check", "idle"}
    <3>1. CASE Find(p)
      <4> DEFINE row == [pc |-> "check", due |-> task.next,
                         next |-> NextRun(task.cadence, task.next, task.slot)]
      <4>1. pass' = [pass EXCEPT ![p] = row] /\ row.pc = "check"
        BY <3>1 DEF Find
      <4> HIDE DEF row
      <4> QED
        BY <4>1
    <3>2. CASE Skip(p) \/ Revert(p) \/ PassDies(p)
      <4>1. pass' = [pass EXCEPT ![p] = IdlePass] /\ IdlePass.pc = "idle"
        BY <3>2 DEF Skip, Revert, PassDies, IdlePass
      <4> QED
        BY <4>1
    <3> QED
      BY <1>4, <3>1, <3>2
  <2>2. UNCHANGED runs
    BY <1>4 DEF Find, Skip, Revert, PassDies
  <2> QED
    BY <1>c, <2>1, <2>2
<1>5. ASSUME NEW p \in Passes, Claim(p)
      PROVE  BoundPart'
  <2>1. p \in Starters /\ UNCHANGED runs
    BY <1>5 DEF Claim, Starters
  <2>2. \E row : pass' = [pass EXCEPT ![p] = row]
    BY <1>0, <1>5 DEF Claim
  <2> QED
    BY <1>c, <2>1, <2>2
<1>6. ASSUME NEW p \in Passes, Check(p)
      PROVE  BoundPart'
  <2>1. UNCHANGED runs
    BY <1>6 DEF Check
  <2>2. CASE \E i \in DOMAIN runs : runs[i].active
    <3>1. pass' = [pass EXCEPT ![p] = [pass[p] EXCEPT !.pc = "skip"]]
      BY <1>0, <1>6, <2>2 DEF Check
    <3>2. [pass[p] EXCEPT !.pc = "skip"].pc = "skip"
      BY <1>0 DEF PassRecord
    <3> QED
      BY <1>c, <2>1, <3>1, <3>2
  <2>3. CASE ~\E i \in DOMAIN runs : runs[i].active
    <3>1. ActiveScheduled' = {}
      BY <1>b, <2>1, <2>3 DEF ActiveScheduled
    <3>2. Starters' \subseteq Passes
      BY DEF Starters
    <3>3. /\ Cardinality(Starters') \in Nat /\ Cardinality(Passes) \in Nat
          /\ Cardinality(Starters') <= Cardinality(Passes)
      BY <3>2, StartersFinite
    <3>4. IsFiniteSet({}) /\ Cardinality({}) = 0
      BY FS_EmptySet
    <3>5. IsFiniteSet(ActiveScheduled') /\ Cardinality(ActiveScheduled') = 0
      BY <3>1, <3>4
    <3> QED
      BY <3>3, <3>5 DEF BoundPart
  <2> QED
    BY <2>2, <2>3
<1>7. ASSUME NEW p \in Passes, Start(p)
      PROVE  BoundPart'
  <2>1. p \in Starters
    BY <1>7 DEF Start, Starters
  <2>2. PICK row : pass' = [pass EXCEPT ![p] = row] /\ row.pc \in {"idle", "revert"}
    <3>1. [pass[p] EXCEPT !.pc = "revert"].pc = "revert" /\ IdlePass.pc = "idle"
      BY <1>0 DEF PassRecord, IdlePass
    <3> QED
      BY <1>0, <1>7, <3>1 DEF Start
  <2>3. Starters' \subseteq Starters \ {p}
    BY <1>0, <2>2 DEF Starters
  <2>4. CASE UNCHANGED runs
    BY <1>c, <2>1, <2>2, <2>4
  <2>5. CASE StartRun(pass[p].due)
    <3>1. ActiveScheduled' \subseteq ActiveScheduled \cup {Len(runs) + 1}
      <4>1. pass[p].due \in Times
        BY <1>0 DEF PassRecord
      <4> QED
        BY <1>0, <2>5, <4>1, StartRunKeeps
    <3> DEFINE S == Starters  T == Starters'  A == ActiveScheduled  B == ActiveScheduled'
               R == S \ {p}   C == A \cup {Len(runs) + 1}
    <3>2. IsFiniteSet(S) /\ Cardinality(Passes) \in Nat
      BY StartersFinite DEF Starters
    <3>3. IsFiniteSet(A) /\ Cardinality(S) + Cardinality(A) <= Cardinality(Passes)
      BY <1>0 DEF BoundPart
    <3>4. Cardinality(R) = Cardinality(S) - 1 /\ Cardinality(S) \in Nat /\ IsFiniteSet(R)
      BY <2>1, <3>2, OneLess, FS_Subset
    <3>5. /\ IsFiniteSet(C) /\ Cardinality(A) \in Nat /\ Cardinality(C) \in Nat
          /\ Cardinality(C) <= Cardinality(A) + 1
      BY <3>3, OneMore
    <3>6. T \subseteq R /\ B \subseteq C
      BY <2>3, <3>1
    <3> HIDE DEF S, T, A, B, R, C
    <3>7. Cardinality(T) \in Nat /\ Cardinality(T) <= Cardinality(R)
      BY <3>4, <3>6, FS_Subset, FS_CardinalityType
    <3>8. IsFiniteSet(B) /\ Cardinality(B) \in Nat /\ Cardinality(B) <= Cardinality(C)
      BY <3>5, <3>6, FS_Subset, FS_CardinalityType
    <3>9. Cardinality(T) + Cardinality(B) <= Cardinality(Passes)
      BY <3>2, <3>3, <3>4, <3>5, <3>7, <3>8
    <3> QED
      BY <3>8, <3>9 DEF BoundPart, T, B
  <2> QED
    BY <1>7, <2>4, <2>5 DEF Start
<1>8. CASE ClockTicks \/ CreateTask \/ UNCHANGED taskVars
  BY <1>d, <1>8 DEF ClockTicks, CreateTask, CallOnly, taskVars
<1>9. ASSUME NEW c \in TaskCalls, ReadTask(c) \/ UpdateStatus(c) \/ Update(c)
      PROVE  BoundPart'
  BY <1>d, <1>9 DEF ReadTask, UpdateStatus, Update, CallOnly
<1> QED
  BY <1>1, <1>2, <1>3, <1>4, <1>5, <1>6, <1>7, <1>8, <1>9 DEF TaskNext, PassStep, CallStep

----------------------------------------------------------------------------
(* Due times                                                               *)

\* Nothing has failed and the user has left the task alone.
Untouched == taskFaults = 0 /\ edits = 0

Period == task.cadence * DayLength

\* A time the task falls due by its plan.
OnSlot(t) ==
    /\ t \in Nat /\ t >= firstDue
    /\ (t - firstDue) % Period = 0
    /\ t % DayLength = task.slot

Plan ==
    /\ Exists => task.status = "ACTIVE" /\ firstDue \in Nat /\ OnSlot(task.next)
    /\ ~Exists => runs = <<>> /\ firstDue = NoTime /\ \A p \in Passes : pass[p].pc = "idle"

\* A pass moves the task from one due time to the following one.
Steps ==
    \A p \in Passes : pass[p].pc # "idle" =>
        Exists /\ OnSlot(pass[p].due) /\ pass[p].next = pass[p].due + Period

\* Due times in the hands of a pass do not overlap, lie before the next one,
\* and no run has a due time in the hands of a pass.  It takes the whole
\* interval up to the following due time: giving one back moves the next due
\* time of the task back, and must not move it behind another one.
Holders == {p \in Passes : pass[p].pc \in {"start", "revert"}}
Apart ==
    /\ \A p \in Holders : pass[p].next <= task.next
    /\ \A p, q \in Holders :
          p # q => pass[p].next <= pass[q].due \/ pass[q].next <= pass[p].due
    /\ \A i \in DOMAIN runs : runs[i].due # NoTime =>
          /\ runs[i].due < task.next
          /\ \A p \in Holders : runs[i].due < pass[p].due \/ pass[p].next <= runs[i].due

ClaimInv == Untouched => Plan /\ Steps /\ Apart

LEMMA PeriodPositive ==
  ASSUME task \in TaskRecord
  PROVE  Period \in Nat \ {0}
<1>1. task.cadence \in Nat \ {0}
  BY DEF TaskRecord, Cadences
<1>2. \A m, n \in Nat \ {0} : m * n \in Nat \ {0}
  OBVIOUS
<1> QED
  BY <1>1, <1>2 DEF Period

\* The following due time is one period on.
LEMMA NextOnSlot ==
  ASSUME task \in TaskRecord, firstDue \in Nat, NEW t, OnSlot(t)
  PROVE  /\ NextRun(task.cadence, t, task.slot) = t + Period
         /\ OnSlot(t + Period) /\ t < t + Period
<1>1. Period \in Nat \ {0} /\ t \in Nat /\ t - firstDue \in Nat
  BY PeriodPositive DEF OnSlot
<1>2. /\ ((t \div DayLength) + task.cadence) * DayLength + (t % DayLength) = t + Period
      /\ (t + Period) % DayLength = t % DayLength
  <2>1. task.cadence \in Nat
    BY DEF TaskRecord, Cadences
  <2> QED
    BY <1>1, <2>1, DaysOn DEF Period
<1>3. ((t - firstDue) + Period) % Period = 0
  BY <1>1, OnePeriodOn DEF OnSlot
<1>4. (t + Period) - firstDue = (t - firstDue) + Period
  BY <1>1
<1> QED
  BY <1>1, <1>2, <1>3, <1>4 DEF OnSlot, NextRun

LEMMA FirstOnSlot ==
  ASSUME NEW cadence \in Cadences, NEW slot \in Slots, now \in Nat,
         task' = [status |-> "ACTIVE", next |-> NextRun(cadence, now, slot),
                  cadence |-> cadence, slot |-> slot],
         firstDue' = NextRun(cadence, now, slot)
  PROVE  firstDue' \in Nat /\ OnSlot(task.next)'
<1>1. firstDue' \in Nat /\ task'.next = firstDue'
  BY NextRunIsTime
<1>2. firstDue' % DayLength = task'.slot
  <2>1. (now \div DayLength) + cadence \in Nat /\ slot \in 0 .. DayLength - 1
    <3>1. now \div DayLength \in Nat
      BY DivMod
    <3>2. cadence \in Nat
      BY DEF Cadences
    <3> QED
      BY <3>1, <3>2 DEF Slots
  <2> QED
    BY <2>1, ModUnique DEF NextRun
<1>3. Period' \in Nat \ {0}
  <2>1. cadence \in Nat \ {0}
    BY DEF Cadences
  <2>2. \A m, n \in Nat \ {0} : m * n \in Nat \ {0}
    OBVIOUS
  <2> QED
    BY <2>1, <2>2 DEF Period
<1>4. 0 % Period' = 0
  BY <1>3, ZeroMod
<1> QED
  BY <1>1, <1>2, <1>4 DEF OnSlot

LEMMA InitClaim == TaskInit => ClaimInv
BY DEF TaskInit, ClaimInv, Plan, Steps, Apart, Holders, Exists, NoTask, IdlePass

\* Only calls of the user and faults touch what the counters record.
LEMMA UntouchedBefore ==
  ASSUME TaskInv, [TaskNext]_taskVars, Untouched'
  PROVE  /\ Untouched
         /\ \A c \in TaskCalls : ~UpdateStatus(c) /\ ~Update(c) /\ ~DeleteTask(c)
         /\ \A p \in Passes : ~PassDies(p)
         /\ ~TaskFault
<1>1. taskFaults \in Nat /\ edits \in Nat
  BY DEF TaskInv, HistoryPart
<1>2. ~Edit /\ ~TaskFault
  BY <1>1 DEF Edit, TaskFault, Untouched
<1>3. /\ \A c \in TaskCalls : ~UpdateStatus(c) /\ ~Update(c) /\ ~DeleteTask(c)
      /\ \A p \in Passes : ~PassDies(p)
  BY <1>2 DEF UpdateStatus, Update, DeleteTask, PassDies
<1>4. UNCHANGED <<taskFaults, edits>>
  <2>1. CASE ClockTicks \/ RunEnds \/ Retry \/ CreateTask \/ RunNow \/ UNCHANGED taskVars
    BY <2>1 DEF ClockTicks, RunEnds, Retry, CreateTask, RunNow, CallOnly, taskVars
  <2>2. ASSUME NEW p \in Passes, PassStep(p)
        PROVE  UNCHANGED <<taskFaults, edits>>
    BY <1>2, <1>3, <2>2 DEF PassStep, Find, Check, Skip, Claim, Start, Revert, Stays
  <2>3. ASSUME NEW c \in TaskCalls, ReadTask(c)
        PROVE  UNCHANGED <<taskFaults, edits>>
    BY <2>3 DEF ReadTask, CallOnly
  <2> QED
    BY <1>3, <2>1, <2>2, <2>3 DEF TaskNext, CallStep
<1> QED
  BY <1>2, <1>3, <1>4 DEF Untouched

\* The plan of a task stays what it was created with.
LEMMA SamePlan ==
  ASSUME UNCHANGED firstDue, task'.cadence = task.cadence, task'.slot = task.slot
  PROVE  Period' = Period /\ \A t : OnSlot(t)' <=> OnSlot(t)
BY DEF Period, OnSlot

\* Moving the next due time.
LEMMA NextMoved ==
  ASSUME task \in TaskRecord, Exists, Plan, NEW t \in Times, OnSlot(t),
         task' = [task EXCEPT !.next = t], UNCHANGED firstDue
  PROVE  /\ Plan' /\ Exists' /\ task'.next = t
         /\ task'.cadence = task.cadence /\ task'.slot = task.slot
<1>1. /\ task'.status = task.status /\ task'.next = t
      /\ task'.cadence = task.cadence /\ task'.slot = task.slot
  BY DEF TaskRecord
<1> QED
  BY <1>1, SamePlan DEF Plan, Exists

\* A step of pass p to a row that keeps its due times, or to idle.
LEMMA StepsKept ==
  ASSUME PassPart, Steps, Exists', NEW p \in Passes, NEW row,
         pass' = [pass EXCEPT ![p] = row],
         row.pc # "idle" =>
            pass[p].pc # "idle" /\ row.due = pass[p].due /\ row.next = pass[p].next,
         UNCHANGED firstDue, task'.cadence = task.cadence, task'.slot = task.slot
  PROVE  Steps'
<1>1. Period' = Period /\ \A t : OnSlot(t)' <=> OnSlot(t)
  BY SamePlan
<1> SUFFICES ASSUME NEW q \in Passes, pass'[q].pc # "idle"
             PROVE  (OnSlot(pass[q].due) /\ pass[q].next = pass[q].due + Period)'
  BY DEF Steps
<1>2. /\ pass[q].pc # "idle"
      /\ pass'[q].due = pass[q].due /\ pass'[q].next = pass[q].next
  BY DEF PassPart
<1> QED
  BY <1>1, <1>2 DEF Steps, OnSlot

\* Nothing changes for the holders and the due times of runs.
LEMMA ApartKept ==
  ASSUME Apart, RunsPart, RunsPart', PassPart, Holders' \subseteq Holders,
         \A p \in Holders' : pass'[p].due = pass[p].due /\ pass'[p].next = pass[p].next,
         task'.next = task.next,
         \A i \in DOMAIN runs' : runs'[i].due # NoTime =>
            i \in DOMAIN runs /\ runs'[i].due = runs[i].due
  PROVE  Apart'
BY DEF Apart

LEMMA DueOfRun ==
  ASSUME RunsPart, NEW i \in DOMAIN runs, runs[i].due # NoTime
  PROVE  runs[i].due \in Nat
<1>1. runs[i] \in RunRow
  BY DEF RunsPart
<1> QED
  BY <1>1 DEF RunRow, Times

LEMMA ClaimStep ==
  ASSUME TaskInv, TaskInv', ClaimInv, [TaskNext]_taskVars
  PROVE  ClaimInv'
<1> SUFFICES ASSUME Untouched'
             PROVE  Plan' /\ Steps' /\ Apart'
  BY DEF ClaimInv
<1>u. /\ Untouched
      /\ \A c \in TaskCalls : ~UpdateStatus(c) /\ ~Update(c) /\ ~DeleteTask(c)
      /\ \A p \in Passes : ~PassDies(p)
      /\ ~TaskFault
  BY UntouchedBefore
<1>0. /\ Plan /\ Steps /\ Apart /\ PassPart /\ RunsPart /\ RunsPart'
      /\ task \in TaskRecord /\ now \in Nat
      /\ pass \in [Passes -> PassRecord] /\ runs \in Seq(RunRow)
  BY <1>u DEF ClaimInv, TaskInv, PassPart, RunsPart, TaskPart
<1>1. ASSUME UNCHANGED <<task, runs, pass, firstDue>>
      PROVE  Plan' /\ Steps' /\ Apart'
  <2>1. Period' = Period /\ \A t : OnSlot(t)' <=> OnSlot(t)
    BY <1>1, SamePlan
  <2>2. Plan' /\ Steps'
    BY <1>0, <1>1 DEF Plan, Steps, OnSlot, Period, Exists
  <2>3. Apart'
    BY <1>0, <1>1 DEF Apart, Holders
  <2> QED
    BY <2>2, <2>3
<1>2. ASSUME CreateTask
      PROVE  Plan' /\ Steps' /\ Apart'
  <2>1. PICK cadence \in Cadences, slot \in Slots :
           /\ task' = [status |-> "ACTIVE", next |-> NextRun(cadence, now, slot),
                       cadence |-> cadence, slot |-> slot]
           /\ firstDue' = NextRun(cadence, now, slot)
    BY <1>2 DEF CreateTask
  <2>2. firstDue' \in Nat /\ OnSlot(task.next)'
    BY <1>0, <2>1, FirstOnSlot
  <2>3. UNCHANGED <<pass, runs>> /\ ~Exists
    BY <1>2 DEF CreateTask, CallOnly, Exists
  <2>4. runs = <<>> /\ \A p \in Passes : pass[p].pc = "idle"
    BY <1>0, <2>3 DEF Plan
  <2>5. Plan'
    BY <2>1, <2>2 DEF Plan, Exists
  <2> QED
    BY <2>3, <2>4, <2>5 DEF Steps, Apart, Holders
<1>3. ASSUME RunEnds
      PROVE  Plan' /\ Steps' /\ Apart'
  <2>1. PICK i \in DOMAIN runs : runs' = [runs EXCEPT ![i].active = FALSE]
    BY <1>3 DEF RunEnds
  <2>2. DOMAIN runs' = DOMAIN runs /\ \A j \in DOMAIN runs : runs'[j].due = runs[j].due
    BY <1>0, <2>1, EndKeeps
  <2>3. UNCHANGED <<task, pass, firstDue>>
    BY <1>3 DEF RunEnds, historyVars
  <2>4. Exists
    <3>1. i \in DOMAIN runs /\ DOMAIN (<<>>) = {}
      OBVIOUS
    <3> QED
      BY <1>0, <3>1 DEF Plan
  <2>5. Plan' /\ Steps'
    BY <1>0, <2>3, <2>4 DEF Plan, Steps, OnSlot, Period, Exists
  <2>6. Holders' = Holders
    BY <2>3 DEF Holders
  <2> QED
    BY <1>0, <2>2, <2>3, <2>5, <2>6, ApartKept
<1>4. ASSUME NEW due \in Times, StartRun(due),
             Exists => Plan' /\ Steps', UNCHANGED task,
             Holders' \subseteq Holders,
             \A p \in Holders' : pass'[p].due = pass[p].due /\ pass'[p].next = pass[p].next,
             due # NoTime => \E p \in Holders \ Holders' : due = pass[p].due
      PROVE  Plan' /\ Steps' /\ Apart'
  <2> DEFINE row == [due |-> due, active |-> TRUE]
  <2>1. row \in RunRow /\ row.due = due /\ runs' = Append(runs, row) /\ Exists
    BY <1>4 DEF RunRow, StartRun
  <2> HIDE DEF row
  <2>2. /\ DOMAIN runs' = DOMAIN runs \cup {Len(runs) + 1}
        /\ runs'[Len(runs) + 1].due = due
        /\ \A i \in DOMAIN runs : runs'[i] = runs[i]
    BY <1>0, <2>1, Appended
  <2>3. ASSUME due # NoTime
        PROVE  due < task.next /\ \A p \in Holders' : due < pass[p].due \/ pass[p].next <= due
    <3>1. PICK q \in Holders : q \notin Holders' /\ due = pass[q].due
      BY <1>4, <2>3
    <3>2. \A p \in Holders : /\ pass[p].due \in Nat /\ pass[p].next \in Nat
                             /\ pass[p].due < pass[p].next
      <4>1. Period \in Nat \ {0}
        BY <1>0, PeriodPositive
      <4> QED
        BY <1>0, <4>1 DEF Steps, Holders, OnSlot
    <3>3. task.next \in Nat
      BY <1>0, <2>1 DEF Plan, OnSlot
    <3>4. due < task.next
      BY <1>0, <3>1, <3>2, <3>3 DEF Apart
    <3>5. ASSUME NEW p \in Holders'
          PROVE  due < pass[p].due \/ pass[p].next <= due
      <4>1. p \in Holders /\ p # q
        BY <1>4, <3>1
      <4> QED
        BY <1>0, <3>1, <3>2, <4>1 DEF Apart
    <3> QED
      BY <3>4, <3>5
  <2> QED
    BY <1>0, <1>4, <2>1, <2>2, <2>3 DEF Apart
<1>5. ASSUME Retry \/ RunNow
      PROVE  Plan' /\ Steps' /\ Apart'
  <2>1. StartRun(NoTime) /\ UNCHANGED <<task, pass, firstDue>>
    BY <1>5 DEF Retry, RunNow, CallOnly, historyVars
  <2>2. Exists => Plan' /\ Steps'
    BY <1>0, <2>1 DEF Plan, Steps, OnSlot, Period, Exists
  <2>3. Holders' = Holders /\ NoTime \in Times
    BY <2>1 DEF Holders, Times
  <2> QED
    BY <1>0, <1>4, <2>1, <2>2, <2>3
<1>6. ASSUME NEW p \in Passes, Find(p)
      PROVE  Plan' /\ Steps' /\ Apart'
  <2>1. /\ pass' = [pass EXCEPT ![p] =
                      [pc |-> "check", due |-> task.next,
                       next |-> NextRun(task.cadence, task.next, task.slot)]]
        /\ UNCHANGED <<task, runs, firstDue>> /\ Exists
        /\ p \notin Holders
    BY <1>6 DEF Find, Stays, Exists, Holders
  <2>2. /\ OnSlot(task.next)
        /\ NextRun(task.cadence, task.next, task.slot) = task.next + Period
    BY <1>0, <2>1, NextOnSlot DEF Plan
  <2>3. Plan'
    BY <1>0, <2>1 DEF Plan, OnSlot, Period, Exists
  <2>4. Steps'
    <3> SUFFICES ASSUME NEW q \in Passes, pass'[q].pc # "idle"
                 PROVE  (OnSlot(pass[q].due) /\ pass[q].next = pass[q].due + Period)'
      BY <2>1 DEF Steps, Exists
    <3>1. CASE q = p
      <4>1. pass'[q].due = task.next /\ pass'[q].next = task.next + Period
        BY <1>0, <2>1, <2>2, <3>1
      <4> QED
        BY <2>1, <2>2, <4>1 DEF OnSlot, Period
    <3>2. CASE q # p
      BY <1>0, <2>1, <3>2 DEF Steps, OnSlot, Period
    <3> QED
      BY <3>1, <3>2
  <2>5. Holders' = Holders /\ \A q \in Holders : pass'[q] = pass[q]
    BY <1>0, <2>1 DEF Holders
  <2> QED
    BY <1>0, <2>1, <2>3, <2>4, <2>5, ApartKept
<1>7. ASSUME NEW p \in Passes, NEW row, pass[p].pc # "idle",
             pass' = [pass EXCEPT ![p] = row],
             row.pc # "idle" => row.due = pass[p].due /\ row.next = pass[p].next,
             row.pc \in {"start", "revert"} => p \in Holders,
             UNCHANGED <<task, runs, firstDue>>
      PROVE  Plan' /\ Steps' /\ Apart'
  <2>1. Exists
    BY <1>0, <1>7 DEF Plan
  <2>2. Plan' /\ Exists'
    BY <1>0, <1>7, <2>1 DEF Plan, OnSlot, Period, Exists
  <2>3. Steps'
    BY <1>0, <1>7, <2>2, StepsKept
  <2>4. Holders' \subseteq Holders
    BY <1>0, <1>7 DEF Holders
  <2>5. \A q \in Holders' : pass'[q].due = pass[q].due /\ pass'[q].next = pass[q].next
    BY <1>0, <1>7 DEF Holders
  <2> QED
    BY <1>0, <1>7, <2>2, <2>3, <2>4, <2>5, ApartKept
<1>8. ASSUME NEW p \in Passes, Check(p)
      PROVE  Plan' /\ Steps' /\ Apart'
  <2>1. PICK pc \in {"skip", "claim"} : pass' = [pass EXCEPT ![p] = [pass[p] EXCEPT !.pc = pc]]
    BY <1>0, <1>8 DEF Check
  <2>2. pass[p].pc # "idle" /\ UNCHANGED <<task, runs, firstDue>>
    BY <1>8 DEF Check, Stays
  <2>3. /\ [pass[p] EXCEPT !.pc = pc].pc = pc
        /\ [pass[p] EXCEPT !.pc = pc].due = pass[p].due
        /\ [pass[p] EXCEPT !.pc = pc].next = pass[p].next
    BY <1>0 DEF PassRecord
  <2> QED
    BY <1>7, <2>1, <2>2, <2>3
<1>9. IdlePass.pc = "idle"
  BY DEF IdlePass
\* The next due time moves on by a period, from the one the pass has found.
<1>10. ASSUME NEW p \in Passes, pass[p].pc \in {"skip", "claim"}, StillDue(p),
              task' = [task EXCEPT !.next = pass[p].next],
              \/ pass' = [pass EXCEPT ![p] = [pass[p] EXCEPT !.pc = "start"]]
              \/ pass' = [pass EXCEPT ![p] = IdlePass],
              UNCHANGED <<runs, firstDue>>
       PROVE  Plan' /\ Steps' /\ Apart'
  <2>0. PICK row : /\ pass' = [pass EXCEPT ![p] = row]
                   /\ row.pc # "idle" => /\ row.pc = "start" /\ row.due = pass[p].due
                                         /\ row.next = pass[p].next
    <3>1. /\ [pass[p] EXCEPT !.pc = "start"].pc = "start"
          /\ [pass[p] EXCEPT !.pc = "start"].due = pass[p].due
          /\ [pass[p] EXCEPT !.pc = "start"].next = pass[p].next
      BY <1>0 DEF PassRecord
    <3> QED
      BY <1>9, <1>10, <3>1
  <2>1. /\ Exists /\ firstDue \in Nat /\ OnSlot(pass[p].due)
        /\ pass[p].next = pass[p].due + Period /\ pass[p].due = task.next
    BY <1>0, <1>10 DEF Plan, Steps, StillDue
  <2>2. OnSlot(pass[p].next) /\ pass[p].due < pass[p].next
    BY <1>0, <2>1, NextOnSlot
  <2>3. /\ Plan' /\ Exists' /\ task'.next = pass[p].next
        /\ task'.cadence = task.cadence /\ task'.slot = task.slot
    BY <1>0, <1>10, <2>1, <2>2, NextMoved DEF PassRecord
  <2>4. Steps'
    BY <1>0, <1>10, <2>0, <2>3, StepsKept
  <2>5. /\ \A q \in Holders \cup {p} : /\ pass[q].due \in Nat /\ pass[q].next \in Nat
                                       /\ pass[q].due < pass[q].next
        /\ task.next \in Nat
    <3>1. Period \in Nat \ {0}
      BY <1>0, PeriodPositive
    <3>2. ASSUME NEW q \in Holders \cup {p}
          PROVE  /\ pass[q].due \in Nat /\ pass[q].next \in Nat
                 /\ pass[q].due < pass[q].next
      <4>1. q \in Passes /\ pass[q].pc # "idle"
        BY <1>10 DEF Holders
      <4>2. pass[q].due \in Nat /\ pass[q].next = pass[q].due + Period
        BY <1>0, <4>1 DEF Steps, OnSlot
      <4> QED
        BY <3>1, <4>2
    <3>3. task.next \in Nat
      BY <2>1 DEF OnSlot
    <3> QED
      BY <3>2, <3>3
  <2>6. /\ Holders' \subseteq Holders \cup {p} /\ p \notin Holders
        /\ \A q \in Holders' : pass'[q].due = pass[q].due /\ pass'[q].next = pass[q].next
    BY <1>0, <1>10, <2>0 DEF Holders
  <2>7. \A q \in Holders' : pass'[q].next <= task'.next
    BY <1>0, <2>1, <2>2, <2>3, <2>5, <2>6 DEF Apart
  <2>8. \A q, r \in Holders' :
           q # r => pass'[q].next <= pass'[r].due \/ pass'[r].next <= pass'[q].due
    BY <1>0, <2>1, <2>5, <2>6 DEF Apart
  <2>9. \A i \in DOMAIN runs : runs[i].due # NoTime =>
           /\ runs[i].due < task'.next
           /\ \A q \in Holders' : runs[i].due < pass'[q].due \/ pass'[q].next <= runs[i].due
    <3>1. \A i \in DOMAIN runs : runs[i].due # NoTime => runs[i].due \in Nat
      BY <1>0, DueOfRun
    <3> QED
      BY <1>0, <2>1, <2>2, <2>3, <2>5, <2>6, <3>1 DEF Apart
  <2> QED
    BY <1>10, <2>3, <2>4, <2>7, <2>8, <2>9 DEF Apart
<1>11. ASSUME NEW p \in Passes, Skip(p) \/ Claim(p)
       PROVE  Plan' /\ Steps' /\ Apart'
  <2>1. pass[p].pc \in {"skip", "claim"} /\ UNCHANGED <<runs, firstDue>>
    BY <1>11 DEF Skip, Claim, Stays
  <2>2. CASE StillDue(p)
    <3>1. task' = [task EXCEPT !.next = pass[p].next]
      BY <1>11, <2>2 DEF Skip, Claim
    <3>2. \/ pass' = [pass EXCEPT ![p] = [pass[p] EXCEPT !.pc = "start"]]
          \/ pass' = [pass EXCEPT ![p] = IdlePass]
      BY <1>0, <1>11, <2>2 DEF Skip, Claim
    <3> QED
      BY <1>10, <2>1, <2>2, <3>1, <3>2
  <2>3. CASE ~StillDue(p)
    <3>1. UNCHANGED task /\ pass' = [pass EXCEPT ![p] = IdlePass]
      BY <1>11, <2>3 DEF Skip, Claim
    <3> QED
      BY <1>7, <1>9, <2>1, <3>1
  <2> QED
    BY <2>2, <2>3
<1>12. ASSUME NEW p \in Passes, Start(p)
       PROVE  Plan' /\ Steps' /\ Apart'
  <2>1. pass[p].pc # "idle" /\ p \in Holders /\ UNCHANGED <<task, firstDue>>
    BY <1>12 DEF Start, Stays, Holders
  <2>2. CASE pass' = [pass EXCEPT ![p].pc = "revert"] /\ UNCHANGED runs
    <3>1. pass' = [pass EXCEPT ![p] = [pass[p] EXCEPT !.pc = "revert"]]
      BY <1>0, <2>2
    <3>2. /\ [pass[p] EXCEPT !.pc = "revert"].due = pass[p].due
          /\ [pass[p] EXCEPT !.pc = "revert"].next = pass[p].next
      BY <1>0 DEF PassRecord
    <3> QED
      BY <1>7, <2>1, <2>2, <3>1, <3>2
  <2>3. CASE StartRun(pass[p].due) /\ pass' = [pass EXCEPT ![p] = IdlePass]
    <3>1. Exists => Plan' /\ Steps'
      <4> SUFFICES ASSUME Exists PROVE Plan' /\ Steps'
        OBVIOUS
      <4>1. Plan' /\ Exists'
        BY <1>0, <2>1 DEF Plan, OnSlot, Period, Exists
      <4> QED
        BY <1>0, <1>9, <2>1, <2>3, <4>1, StepsKept
    <3>2. Holders' = Holders \ {p}
      BY <1>0, <1>9, <2>3 DEF Holders
    <3>3. /\ \A q \in Holders' : pass'[q] = pass[q]
          /\ pass[p].due \in Times
      BY <1>0, <2>3, <3>2 DEF PassRecord, Holders
    <3> QED
      BY <1>4, <2>1, <2>3, <3>1, <3>2, <3>3
  <2> QED
    BY <1>12, <1>u, <2>2, <2>3 DEF Start
\* The next due time moves back over what the pass holds, and over nothing else.
<1>13. ASSUME NEW p \in Passes, Revert(p)
       PROVE  Plan' /\ Steps' /\ Apart'
  <2>1. /\ pass[p].pc # "idle" /\ p \in Holders /\ UNCHANGED <<runs, firstDue>>
        /\ pass' = [pass EXCEPT ![p] = IdlePass]
    BY <1>13 DEF Revert, Stays, Holders
  <2>2. CASE UNCHANGED task
    BY <1>7, <1>9, <2>1, <2>2
  <2>3. CASE task.next = pass[p].next /\ task' = [task EXCEPT !.next = pass[p].due]
    <3>1. /\ Exists /\ OnSlot(pass[p].due)
          /\ pass[p].next = pass[p].due + Period
      BY <1>0, <2>1 DEF Plan, Steps
    <3>2. /\ Plan' /\ Exists' /\ task'.next = pass[p].due
          /\ task'.cadence = task.cadence /\ task'.slot = task.slot
      <4>1. pass[p].due \in Times
        BY <1>0 DEF PassRecord
      <4> QED
        BY <1>0, <2>1, <2>3, <3>1, <4>1, NextMoved
    <3>3. Steps'
      BY <1>0, <1>9, <2>1, <3>2, StepsKept
    <3>4. \A q \in Holders : /\ pass[q].due \in Nat /\ pass[q].next \in Nat
                             /\ pass[q].due < pass[q].next
      <4>1. Period \in Nat \ {0}
        BY <1>0, PeriodPositive
      <4> QED
        BY <1>0, <4>1 DEF Steps, Holders, OnSlot
    <3>5. Holders' = Holders \ {p} /\ \A q \in Holders' : pass'[q] = pass[q]
      BY <1>0, <1>9, <2>1 DEF Holders
    <3>6. \A q \in Holders' : pass'[q].next <= task'.next
      BY <1>0, <2>1, <2>3, <3>2, <3>4, <3>5 DEF Apart
    <3>7. \A i \in DOMAIN runs : runs[i].due # NoTime => runs[i].due < task'.next
      <4>1. \A i \in DOMAIN runs : runs[i].due # NoTime => runs[i].due \in Nat
        BY <1>0, DueOfRun
      <4> QED
        BY <1>0, <2>1, <2>3, <3>2, <3>4, <4>1 DEF Apart
    <3> QED
      BY <1>0, <2>1, <3>2, <3>3, <3>5, <3>6, <3>7 DEF Apart
  <2> QED
    BY <1>13, <2>2, <2>3 DEF Revert
<1>14. ASSUME NEW c \in TaskCalls, ReadTask(c)
       PROVE  Plan' /\ Steps' /\ Apart'
  BY <1>1, <1>14 DEF ReadTask, CallOnly
<1>15. CASE ClockTicks \/ UNCHANGED taskVars
  BY <1>1, <1>15 DEF ClockTicks, taskVars, historyVars
<1> QED
  BY <1>u, <1>2, <1>3, <1>5, <1>6, <1>8, <1>11, <1>12, <1>13, <1>14, <1>15
     DEF TaskNext, PassStep, CallStep

\* What accounts for a due time goes on doing so: a run keeps its due time, a
\* pass that holds it keeps it, starts its run or gives it back.
Accounted(due) == Clashes(due) \/ Handled(due) \/ due \in skipped \cup overtaken

LEMMA RunsKept ==
  ASSUME RunsPart, NEW due, NEW row, runs' = runs \/ runs' = Append(runs, row)
                                     \/ \E i \in DOMAIN runs : runs' = [runs EXCEPT ![i].active = FALSE]
  PROVE  Clashes(due) => Clashes(due)'
<1>0. runs \in Seq(RunRow)
  BY DEF RunsPart
<1>1. CASE runs' = runs
  BY <1>1 DEF Clashes
<1>2. CASE runs' = Append(runs, row)
  BY <1>0, <1>2 DEF Clashes
<1>3. ASSUME NEW i \in DOMAIN runs, runs' = [runs EXCEPT ![i].active = FALSE]
      PROVE  Clashes(due) => Clashes(due)'
  BY <1>0, <1>3, EndKeeps DEF Clashes
<1> QED
  BY <1>1, <1>2, <1>3

LEMMA AccountedKept ==
  ASSUME RunsPart, PassPart, NEW due,
         Clashes(due) => Clashes(due)',
         skipped \subseteq skipped', overtaken \subseteq overtaken',
         \A p \in Passes : pass[p].pc \in {"start", "revert"} /\ pass[p].due = due =>
            \/ pass'[p].pc \in {"start", "revert"} /\ pass'[p].due = due
            \/ Clashes(due)' \/ due \in overtaken',
         Accounted(due)
  PROVE  Accounted(due)'
BY DEF Accounted, Handled

LEMMA AccountStep ==
  ASSUME TaskInv, TaskInv', ClaimInv, ClaimInv', EveryDueTimeAccounted, [TaskNext]_taskVars
  PROVE  EveryDueTimeAccounted'
<1> SUFFICES ASSUME Untouched', Exists',
                    NEW due \in (firstDue .. task.next - 1)', ((due - firstDue) % Period = 0)'
             PROVE  Accounted(due)'
  BY DEF EveryDueTimeAccounted, Accounted, Untouched, Period
<1>u. /\ Untouched
      /\ \A c \in TaskCalls : ~UpdateStatus(c) /\ ~Update(c) /\ ~DeleteTask(c)
      /\ \A p \in Passes : ~PassDies(p)
      /\ ~TaskFault
  BY UntouchedBefore
<1>0. /\ Plan /\ Steps /\ Plan' /\ PassPart /\ RunsPart
      /\ task \in TaskRecord
      /\ pass \in [Passes -> PassRecord] /\ runs \in Seq(RunRow)
  BY <1>u DEF ClaimInv, TaskInv, PassPart, RunsPart, TaskPart
<1>n. /\ firstDue' \in Nat /\ task'.next \in Nat
      /\ due \in Nat /\ firstDue' <= due /\ due < task'.next
  BY <1>0 DEF Plan, OnSlot
<1>1. ASSUME UNCHANGED firstDue, Exists, task'.cadence = task.cadence,
             due < task.next
      PROVE  Accounted(due)
  <2>1. task.next \in Nat /\ firstDue \in Nat
    BY <1>0, <1>1 DEF Plan, OnSlot
  <2>2. due \in firstDue .. task.next - 1
    BY <1>n, <1>1, <2>1
  <2>3. (due - firstDue) % (task.cadence * DayLength) = 0
    BY <1>1 DEF Period
  <2> QED
    BY <1>u, <1>1, <2>2, <2>3 DEF EveryDueTimeAccounted, Accounted, Untouched
\* Nothing that accounts for due times changes but for runs.
<1>2. ASSUME UNCHANGED <<task, pass, firstDue, skipped, overtaken>>,
             Clashes(due) => Clashes(due)'
      PROVE  Accounted(due)'
  <2>1. Accounted(due)
    BY <1>n, <1>1, <1>2 DEF Exists
  <2> QED
    BY <1>0, <1>2, <2>1, AccountedKept
<1>3. CASE CreateTask
  <2>1. task'.next = firstDue'
    BY <1>3 DEF CreateTask
  <2> QED
    BY <1>n, <2>1
<1>4. CASE RunEnds
  BY <1>0, <1>2, <1>4, RunsKept DEF RunEnds, historyVars
<1>5. CASE Retry \/ RunNow
  BY <1>0, <1>2, <1>5, RunsKept DEF Retry, RunNow, StartRun, CallOnly, historyVars
\* A pass that holds nothing goes on to hold nothing more.
<1>6. ASSUME NEW p \in Passes, Find(p) \/ Check(p)
      PROVE  Accounted(due)'
  <2>1. /\ UNCHANGED <<task, runs, firstDue, skipped, overtaken>>
        /\ pass[p].pc \notin {"start", "revert"}
        /\ \A q \in Passes \ {p} : pass'[q] = pass[q]
    BY <1>0, <1>6 DEF Find, Check, Stays
  <2>2. Accounted(due)
    BY <1>n, <1>1, <2>1 DEF Exists
  <2>3. Clashes(due)' <=> Clashes(due)
    BY <2>1 DEF Clashes
  <2> QED
    BY <1>0, <2>1, <2>2, <2>3, AccountedKept
\* The only due time that is new is the one the pass skips or claims.
<1>7. ASSUME NEW p \in Passes, Skip(p) \/ Claim(p)
      PROVE  Accounted(due)'
  <2>1. /\ UNCHANGED <<runs, firstDue, overtaken>> /\ skipped \subseteq skipped'
        /\ pass[p].pc \notin {"start", "revert"} /\ pass[p].pc # "idle"
        /\ \A q \in Passes \ {p} : pass'[q] = pass[q]
    BY <1>0, <1>7 DEF Skip, Claim, Stays
  <2>2. Clashes(due)' <=> Clashes(due)
    BY <2>1 DEF Clashes
  <2>3. Exists
    BY <1>0, <2>1 DEF Plan
  <2>4. task'.cadence = task.cadence
    BY <1>0, <1>7 DEF Skip, Claim, TaskRecord
  <2>5. CASE due < task.next
    <3>1. Accounted(due)
      BY <1>1, <2>1, <2>3, <2>4, <2>5
    <3> QED
      BY <1>0, <2>1, <2>2, <3>1, AccountedKept
  <2>6. CASE ~(due < task.next)
    <3>1. task.next \in Nat /\ firstDue \in Nat /\ OnSlot(task.next)
      BY <1>0, <2>3 DEF Plan, OnSlot
    <3>2. StillDue(p) /\ task'.next = pass[p].next /\ pass[p].due = task.next
      BY <1>0, <1>7, <1>n, <2>6 DEF Skip, Claim, StillDue, TaskRecord
    <3>3. pass[p].next = task.next + Period
      BY <1>0, <2>1, <3>2 DEF Steps
    <3>4. Period \in Nat \ {0} /\ Period' = Period
      BY <1>0, <2>4, PeriodPositive DEF Period
    <3>5. due = task.next
      <4>1. task.next - firstDue \in Nat /\ due - firstDue \in Nat
        BY <1>n, <2>1, <2>6, <3>1 DEF OnSlot
      <4>2. (task.next - firstDue) % Period = 0 /\ (due - firstDue) % Period = 0
        BY <2>1, <3>1, <3>4 DEF OnSlot
      <4>3. task.next - firstDue <= due - firstDue
        BY <1>n, <2>6, <3>1
      <4>4. due - firstDue < (task.next - firstDue) + Period
        BY <1>n, <3>1, <3>2, <3>3, <3>4
      <4>5. task.next - firstDue = due - firstDue
        BY <3>4, <4>1, <4>2, <4>3, <4>4, NoneBetween
      <4> QED
        BY <1>n, <3>1, <4>5
    <3>6. CASE Skip(p)
      BY <3>2, <3>5, <3>6 DEF Skip, Accounted
    <3>7. CASE Claim(p)
      <4>1. pass'[p].pc = "start" /\ pass'[p].due = pass[p].due
        BY <1>0, <3>2, <3>7 DEF Claim, PassRecord
      <4> QED
        BY <3>2, <3>5, <4>1 DEF Accounted, Handled
    <3> QED
      BY <1>7, <3>6, <3>7
  <2> QED
    BY <2>5, <2>6
\* A start leaves a run, or the due time in the hands of the pass.
<1>8. ASSUME NEW p \in Passes, Start(p)
      PROVE  Accounted(due)'
  <2>1. /\ UNCHANGED <<task, firstDue, skipped, overtaken>>
        /\ \A q \in Passes \ {p} : pass'[q] = pass[q]
    BY <1>0, <1>8 DEF Start, Stays
  <2>2. Accounted(due)
    BY <1>n, <1>1, <2>1 DEF Exists
  <2>3. CASE pass' = [pass EXCEPT ![p].pc = "revert"] /\ UNCHANGED runs
    <3>1. pass'[p].pc = "revert" /\ pass'[p].due = pass[p].due
      BY <1>0, <2>3 DEF PassRecord
    <3>2. Clashes(due) => Clashes(due)'
      BY <2>3 DEF Clashes
    <3> QED
      BY <1>0, <2>1, <2>2, <3>1, <3>2, AccountedKept
  <2>4. CASE StartRun(pass[p].due)
    <3>1. Clashes(due) => Clashes(due)'
      BY <1>0, <2>4, RunsKept DEF StartRun
    <3>2. pass[p].due = due => Clashes(due)'
      <4> DEFINE row == [due |-> pass[p].due, active |-> TRUE]
      <4>1. row \in RunRow /\ row.due = pass[p].due /\ runs' = Append(runs, row)
        BY <1>0, <2>4 DEF StartRun, RunRow, PassRecord
      <4> HIDE DEF row
      <4>2. Len(runs) + 1 \in DOMAIN runs' /\ runs'[Len(runs) + 1].due = pass[p].due
        BY <1>0, <4>1, Appended
      <4>3. due # NoTime
        BY <1>n DEF NoTime
      <4> QED
        BY <4>2, <4>3 DEF Clashes
    <3> QED
      BY <1>0, <2>1, <2>2, <3>1, <3>2, AccountedKept
  <2> QED
    BY <1>8, <1>u, <2>3, <2>4 DEF Start
\* What is given back lies ahead again, what cannot be is overtaken.
<1>9. ASSUME NEW p \in Passes, Revert(p)
      PROVE  Accounted(due)'
  <2>1. /\ UNCHANGED <<runs, firstDue, skipped>> /\ overtaken \subseteq overtaken'
        /\ pass[p].pc # "idle"
        /\ \A q \in Passes \ {p} : pass'[q] = pass[q]
    BY <1>0, <1>9 DEF Revert, Stays
  <2>2. Clashes(due)' <=> Clashes(due)
    BY <2>1 DEF Clashes
  <2>3. Exists
    BY <1>0, <2>1 DEF Plan
  <2>4. /\ task'.cadence = task.cadence
        /\ \/ task'.next = task.next /\ pass[p].due \in overtaken'
           \/ task.next = pass[p].next /\ task'.next = pass[p].due
    BY <1>0, <1>9 DEF Revert, TaskRecord
  <2>5. /\ pass[p].due \in Nat /\ task.next \in Nat
        /\ task.next = pass[p].next => pass[p].due < task.next
    <3>1. pass[p].due \in Nat /\ pass[p].next = pass[p].due + Period /\ task.next \in Nat
      BY <1>0, <2>1, <2>3 DEF Steps, Plan, OnSlot
    <3>2. Period \in Nat \ {0}
      BY <1>0, PeriodPositive
    <3> QED
      BY <3>1, <3>2
  <2>6. due < task.next /\ (pass[p].due = due => due \in overtaken')
    BY <1>n, <2>4, <2>5
  <2>7. Accounted(due)
    BY <1>1, <2>1, <2>3, <2>4, <2>6
  <2> QED
    BY <1>0, <2>1, <2>2, <2>6, <2>7, AccountedKept
<1>10. ASSUME NEW c \in TaskCalls, ReadTask(c)
       PROVE  Accounted(due)'
  BY <1>2, <1>10 DEF ReadTask, CallOnly, Clashes
<1>11. CASE ClockTicks \/ UNCHANGED taskVars
  BY <1>2, <1>11 DEF ClockTicks, taskVars, historyVars, Clashes
<1> QED
  BY <1>u, <1>3, <1>4, <1>5, <1>6, <1>7, <1>8, <1>9, <1>10, <1>11
     DEF TaskNext, PassStep, CallStep

----------------------------------------------------------------------------
(* The theorems                                                            *)

LEMMA TaskInvHolds == TaskSpec => []TaskInv
<1>1. TaskInv /\ [TaskNext]_taskVars => TaskInv'
  BY TaskStep, RunsStep, CallsStep, PassesStep, HistoryStep, BoundStep DEF TaskInv
<1> QED
  BY <1>1, InitTask, PTL DEF TaskSpec

\* The task, its runs, the passes and the calls keep their types.
THEOREM TasksTyped == TaskSpec => []TaskTypeOK
<1>1. TaskInv => TaskTypeOK
  BY DEF TaskInv, TaskPart, RunsPart, CallPart, HistoryPart, PassPart, TaskTypeOK,
         RunRow, PassRecord, CallRecord
<1> QED
  BY <1>1, TaskInvHolds, PTL

\* A due time of a task gets at most one run, whoever claims it and whatever
\* fails (startTaskRun's key and the unique index).
THEOREM OneRunEach == TaskSpec => []OneRunPerDueTime
<1>1. TaskInv => OneRunPerDueTime
  BY DEF TaskInv, RunsPart
<1> QED
  BY <1>1, TaskInvHolds, PTL

\* An active task has a next run, whatever calls and passes race.
THEOREM ActiveHasNextRun == TaskSpec => []ActiveIsScheduled
<1>1. TaskInv => ActiveIsScheduled
  BY DEF TaskInv, TaskPart
<1> QED
  BY <1>1, TaskInvHolds, PTL

\* Scheduled runs of a task that are under way at once are never more than
\* the passes of dispatchDue that are.
THEOREM OverlapStaysBounded == TaskSpec => []OverlapIsBounded
<1>1. ASSUME BoundPart
      PROVE  OverlapIsBounded
  <2>1. Cardinality(Starters) \in Nat /\ Cardinality(Passes) \in Nat
    BY StartersFinite DEF Starters
  <2>2. Cardinality(ActiveScheduled) \in Nat
    BY <1>1, FS_CardinalityType DEF BoundPart
  <2> QED
    BY <1>1, <2>1, <2>2 DEF BoundPart, OverlapIsBounded
<1> QED
  BY <1>1, TaskInvHolds, PTL DEF TaskInv

LEMMA ClaimInvHolds == TaskSpec => [](TaskInv /\ ClaimInv)
<1>1. TaskInv /\ ClaimInv /\ TaskInv' /\ [TaskNext]_taskVars => ClaimInv'
  BY ClaimStep
<1> QED
  BY <1>1, InitClaim, TaskInvHolds, PTL DEF TaskSpec

\* Left alone and without failures, passes start every due time once: no two
\* hold the same one, and none holds one that has its run (dispatchDue's
\* conditional updates).
THEOREM EachClaimedOnce == TaskSpec => []ClaimedOnce
<1>1. ASSUME TaskInv, ClaimInv
      PROVE  ClaimedOnce
  <2> SUFFICES ASSUME Untouched, NEW p \in Passes, pass[p].pc = "start"
               PROVE  /\ ~Clashes(pass[p].due)
                      /\ \A q \in Passes \ {p} :
                            ~(pass[q].pc \in {"start", "revert"} /\ pass[q].due = pass[p].due)
    BY DEF ClaimedOnce, Untouched
  <2>1. Steps /\ Apart /\ PassPart /\ task \in TaskRecord /\ p \in Holders /\ RunsPart
    BY <1>1 DEF ClaimInv, Holders, TaskInv, TaskPart
  <2>2. \A q \in Holders : /\ pass[q].due \in Nat /\ pass[q].next \in Nat
                           /\ pass[q].due < pass[q].next
    <3>1. Period \in Nat \ {0}
      BY <2>1, PeriodPositive
    <3> QED
      BY <2>1, <3>1 DEF Steps, Holders, OnSlot
  <2>3. ~Clashes(pass[p].due)
    <3> SUFFICES ASSUME NEW i \in DOMAIN runs, runs[i].due = pass[p].due, runs[i].due # NoTime
                 PROVE  FALSE
      BY DEF Clashes
    <3> QED
      BY <2>1, <2>2 DEF Apart
  <2>4. ASSUME NEW q \in Passes \ {p}, pass[q].pc \in {"start", "revert"},
               pass[q].due = pass[p].due
        PROVE  FALSE
    <3>1. q \in Holders /\ q # p
      BY <2>4 DEF Holders
    <3> QED
      BY <2>1, <2>2, <2>4, <3>1 DEF Apart
  <2> QED
    BY <2>3, <2>4
<1> QED
  BY <1>1, ClaimInvHolds, PTL

\* Left alone and without failures, no due time is lost: each has its run, is
\* held by a pass, was skipped for an active run or could not be given back.
THEOREM NoDueTimeLost == TaskSpec => []EveryDueTimeAccounted
<1>1. TaskInit => EveryDueTimeAccounted
  BY DEF TaskInit, EveryDueTimeAccounted, Exists, NoTask
<1>2. TaskInv /\ ClaimInv /\ TaskInv' /\ ClaimInv' /\ EveryDueTimeAccounted
        /\ [TaskNext]_taskVars => EveryDueTimeAccounted'
  BY AccountStep
<1> QED
  BY <1>1, <1>2, ClaimInvHolds, PTL DEF TaskSpec
=============================================================================
