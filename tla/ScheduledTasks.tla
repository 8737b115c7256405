--------------------------- MODULE ScheduledTasks ---------------------------
(***************************************************************************)
(* One scheduled task: passes of dispatchDue, which overlap in one API     *)
(* process and between processes, claim its due time and start its run;    *)
(* calls of the user read the task and write it afterwards.                *)
(* Time counts in slots of a day.  A pass handles its tasks one after the  *)
(* other and they share nothing, so one task is enough: a pass that breaks *)
(* off before it reaches the task is a pass that never began.  Left out:   *)
(* the conversation a run goes to, the messages of the task's setup, and   *)
(* lastRunAt, which nothing reads.  PAUSED stands for COMPLETED too.       *)
(***************************************************************************)
EXTENDS Integers, Sequences, FiniteSets

CONSTANTS
    Passes,         \* passes of dispatchDue that can be under way at once
    TaskCalls,      \* calls of the user that can be under way at once
    DayLength,      \* time slots in a day
    Week,           \* days between two runs of a weekly task
    MaxNow,         \* bound: the clock
    MaxTaskRuns,    \* bound: runs
    MaxTaskTroubles \* bound: failing calls, crashes, manual runs, and calls
                    \* of the user that change the task, all together

NoTime == -1

ASSUME TaskAssumption ==
    /\ IsFiniteSet(Passes)
    /\ DayLength \in Nat \ {0} /\ Week \in Nat \ {0}
    /\ MaxNow \in Nat /\ MaxTaskRuns \in Nat /\ MaxTaskTroubles \in Nat

Cadences == {1, Week}
Slots == 0 .. DayLength - 1

VARIABLES
    now,
    task,        \* status, next, cadence, slot; status "none" before and after its life
    runs,        \* its ScheduledTaskRun rows: due (NoTime when manual) and whether active
    pass,        \* what each pass waits for: pc, due, next
    call,        \* what each call waits for: pc, and the task as it was read
    taskFaults, edits,
    firstDue,    \* history: the due time the task was created with
    skipped,     \* history: due times skipped for an active run
    overtaken    \* history: due times not given back, as the task had moved on

historyVars == <<firstDue, skipped, overtaken>>
taskVars == <<now, task, runs, pass, call, taskFaults, edits, historyVars>>

\* The cadence is taken off the day instead of added to it.
NextRunShifted(cadence, from, slot) == ((from \div DayLength) - cadence) * DayLength + slot

\* nextScheduledRun: the day of "from" plus the cadence, at the time of day.
NextRun(cadence, from, slot) == ((from \div DayLength) + cadence) * DayLength + slot

NoTask == [status |-> "none", next |-> NoTime, cadence |-> 1, slot |-> 0]
IdlePass == [pc |-> "idle", due |-> NoTime, next |-> NoTime]
IdleCall == [pc |-> "idle", read |-> NoTask]

TaskInit ==
    /\ now = 0 /\ task = NoTask /\ runs = <<>>
    /\ pass = [p \in Passes |-> IdlePass]
    /\ call = [c \in TaskCalls |-> IdleCall]
    /\ taskFaults = 0 /\ edits = 0
    /\ firstDue = NoTime /\ skipped = {} /\ overtaken = {}

ManualRuns == Cardinality({i \in DOMAIN runs : runs[i].due = NoTime})
Untroubled == taskFaults + edits + ManualRuns < MaxTaskTroubles
TaskFault == Untroubled /\ taskFaults' = taskFaults + 1
Edit == Untroubled /\ edits' = edits + 1

Exists == task.status # "none"

ClockTicks ==
    /\ now < MaxNow /\ now' = now + 1
    /\ UNCHANGED <<task, runs, pass, call, taskFaults, edits, historyVars>>

----------------------------------------------------------------------------
(* Starting a run                                                          *)

\* A due time that has its run is refused: by the idempotency key, whose
\* request never repeats, or by the unique index on task and due time.
Clashes(due) == due # NoTime /\ \E i \in DOMAIN runs : runs[i].due = due

\* startTaskRun: the generation and its run are created in one transaction,
\* or the call throws: a clash, a task that is gone, the user's quota.
StartRun(due) ==
    /\ Exists /\ ~Clashes(due) /\ Len(runs) < MaxTaskRuns
    /\ runs' = Append(runs, [due |-> due, active |-> TRUE])

\* A run ends with its generation; a manual retry starts another one.
RunEnds ==
    /\ \E i \in DOMAIN runs :
          /\ runs[i].active
          /\ runs' = [runs EXCEPT ![i].active = FALSE]
    /\ UNCHANGED <<now, task, pass, call, taskFaults, edits, historyVars>>

Retry ==
    /\ \E i \in DOMAIN runs : ~runs[i].active
    /\ Untroubled /\ StartRun(NoTime)
    /\ UNCHANGED <<now, task, pass, call, taskFaults, edits, historyVars>>

----------------------------------------------------------------------------
(* dispatchDue                                                             *)

Stays(p) == UNCHANGED <<now, call, edits, firstDue>>

\* The due tasks are read: the pass keeps the due time and computes the next.
Find(p) ==
    /\ pass[p].pc = "idle"
    /\ task.status = "ACTIVE" /\ task.next # NoTime /\ task.next <= now
    /\ pass' = [pass EXCEPT ![p] =
                  [pc |-> "check", due |-> task.next,
                   next |-> NextRun(task.cadence, task.next, task.slot)]]
    /\ Stays(p) /\ UNCHANGED <<task, runs, taskFaults, skipped, overtaken>>

\* A pass that does not look for an active run.
CheckNothing(p) ==
    /\ pass[p].pc = "check"
    /\ pass' = [pass EXCEPT ![p].pc = "claim"]
    /\ Stays(p) /\ UNCHANGED <<task, runs, taskFaults, skipped, overtaken>>

Check(p) ==
    /\ pass[p].pc = "check"
    /\ pass' = [pass EXCEPT ![p].pc =
                  IF \E i \in DOMAIN runs : runs[i].active THEN "skip" ELSE "claim"]
    /\ Stays(p) /\ UNCHANGED <<task, runs, taskFaults, skipped, overtaken>>

\* An update by id alone.
StillActive(p) == task.status = "ACTIVE"

\* updateMany moves the due time only if nothing has moved it meanwhile.
StillDue(p) == task.status = "ACTIVE" /\ task.next = pass[p].due

Skip(p) ==
    /\ pass[p].pc = "skip"
    /\ IF StillDue(p)
       THEN /\ task' = [task EXCEPT !.next = pass[p].next]
            /\ skipped' = skipped \cup {pass[p].due}
       ELSE UNCHANGED <<task, skipped>>
    /\ pass' = [pass EXCEPT ![p] = IdlePass]
    /\ Stays(p) /\ UNCHANGED <<runs, taskFaults, overtaken>>

Claim(p) ==
    /\ pass[p].pc = "claim"
    /\ IF StillDue(p)
       THEN /\ task' = [task EXCEPT !.next = pass[p].next]
            /\ pass' = [pass EXCEPT ![p].pc = "start"]
       ELSE UNCHANGED task /\ pass' = [pass EXCEPT ![p] = IdlePass]
    /\ Stays(p) /\ UNCHANGED <<runs, taskFaults, skipped, overtaken>>

\* The start throws on a clash, for a task that is gone, and whenever other
\* generations fill the user's quota; a fault may hide that it succeeded.
Start(p) ==
    /\ pass[p].pc = "start"
    /\ \/ StartRun(pass[p].due) /\ pass' = [pass EXCEPT ![p] = IdlePass] /\ UNCHANGED taskFaults
       \/ pass' = [pass EXCEPT ![p].pc = "revert"] /\ UNCHANGED <<runs, taskFaults>>
       \/ StartRun(pass[p].due) /\ pass' = [pass EXCEPT ![p].pc = "revert"] /\ TaskFault
    /\ Stays(p) /\ UNCHANGED <<task, skipped, overtaken>>

\* A failed start that is only logged.
RevertNothing(p) ==
    /\ pass[p].pc = "revert"
    /\ pass' = [pass EXCEPT ![p] = IdlePass]
    /\ Stays(p) /\ UNCHANGED <<task, runs, taskFaults, skipped, overtaken>>

\* The due time is given back, unless the task has moved on.
Revert(p) ==
    /\ pass[p].pc = "revert"
    /\ IF task.status = "ACTIVE" /\ task.next = pass[p].next
       THEN task' = [task EXCEPT !.next = pass[p].due] /\ UNCHANGED overtaken
       ELSE UNCHANGED task /\ overtaken' = overtaken \cup {pass[p].due}
    /\ pass' = [pass EXCEPT ![p] = IdlePass]
    /\ Stays(p) /\ UNCHANGED <<runs, taskFaults, skipped>>

\* A call of the pass throws, or its process dies.
PassDies(p) ==
    /\ pass[p].pc # "idle" /\ TaskFault
    /\ pass' = [pass EXCEPT ![p] = IdlePass]
    /\ Stays(p) /\ UNCHANGED <<task, runs, skipped, overtaken>>

----------------------------------------------------------------------------
(* Calls of the user                                                       *)

CallOnly == UNCHANGED <<now, pass, taskFaults, skipped, overtaken>>

CreateTask ==
    /\ task.status = "none" /\ firstDue = NoTime
    /\ \E cadence \in Cadences, slot \in Slots :
          LET next == NextRun(cadence, now, slot)
          IN  /\ task' = [status |-> "ACTIVE", next |-> next, cadence |-> cadence, slot |-> slot]
              /\ firstDue' = next
    /\ CallOnly /\ UNCHANGED <<runs, call, edits>>

\* runNow: a key and a conversation of its own, no look at active runs.
RunNow ==
    /\ Untroubled /\ StartRun(NoTime)
    /\ CallOnly /\ UNCHANGED <<task, call, edits, firstDue>>

\* The calls that change the task read it first, and end if there is none.
ReadTask(c) ==
    /\ call[c].pc = "idle" /\ Exists /\ Untroubled
    /\ call' = [call EXCEPT ![c] = [pc |-> "read", read |-> task]]
    /\ CallOnly /\ UNCHANGED <<task, runs, edits, firstDue>>

CallEnds(c) == call' = [call EXCEPT ![c] = IdleCall]

\* The next run that updateStatus writes: none for a task that is not active.
NextOfStatus(status, read) ==
    IF status # "ACTIVE" THEN NoTime
    ELSE IF read.next # NoTime THEN read.next
    ELSE NextRun(read.cadence, now, read.slot)

\* updateStatus, whatever has become of the task since it was read.
UpdateStatus(c) ==
    /\ call[c].pc = "read" /\ Edit
    /\ IF Exists
       THEN \E status \in {"ACTIVE", "PAUSED"} :
               task' = [task EXCEPT !.status = status,
                                    !.next = NextOfStatus(status, call[c].read)]
       ELSE UNCHANGED task
    /\ CallEnds(c) /\ CallOnly /\ UNCHANGED <<runs, firstDue>>

\* update: a new cadence or time of day moves the next run of a task that was
\* active when it was read.
Update(c) ==
    /\ call[c].pc = "read" /\ Edit
    /\ IF Exists
       THEN \E cadence \in Cadences, slot \in Slots :
               task' = [task EXCEPT !.cadence = cadence, !.slot = slot,
                          !.next = IF call[c].read.status = "ACTIVE"
                                   THEN NextRun(cadence, now, slot) ELSE @]
       ELSE UNCHANGED task
    /\ CallEnds(c) /\ CallOnly /\ UNCHANGED <<runs, firstDue>>

\* delete: the runs go with the task.
DeleteTask(c) ==
    /\ call[c].pc = "read" /\ Edit
    /\ task' = NoTask /\ runs' = <<>>
    /\ CallEnds(c) /\ CallOnly /\ UNCHANGED firstDue

----------------------------------------------------------------------------

PassStep(p) ==
    Find(p) \/ Check(p) \/ Skip(p) \/ Claim(p) \/ Start(p) \/ Revert(p) \/ PassDies(p)
CallStep(c) ==
    ReadTask(c) \/ UpdateStatus(c) \/ Update(c) \/ DeleteTask(c)

TaskNext ==
    \/ ClockTicks \/ RunEnds \/ Retry \/ CreateTask \/ RunNow
    \/ \E p \in Passes : PassStep(p)
    \/ \E c \in TaskCalls : CallStep(c)

TaskSpec == TaskInit /\ [][TaskNext]_taskVars

----------------------------------------------------------------------------
(* Properties                                                              *)

Times == Nat \cup {NoTime}
TaskRecord ==
    [status : {"none", "ACTIVE", "PAUSED"}, next : Times, cadence : Cadences, slot : Slots]

\* Everything keeps its type.
TaskTypeOK ==
    /\ now \in Nat /\ task \in TaskRecord
    /\ runs \in Seq([due : Times, active : BOOLEAN])
    /\ pass \in [Passes -> [pc : {"idle", "check", "skip", "claim", "start", "revert"},
                            due : Times, next : Times]]
    /\ call \in [TaskCalls -> [pc : {"idle", "read"}, read : TaskRecord]]
    /\ taskFaults \in Nat /\ edits \in Nat
    /\ firstDue \in Times /\ skipped \subseteq Times /\ overtaken \subseteq Times

\* However often a due time is claimed again, by a start that only looked
\* failed or by a status update that wrote back an old nextRunAt, it gets at
\* most one run (ADR-0007:19).
OneRunPerDueTime ==
    \A i, j \in DOMAIN runs : (runs[i].due = runs[j].due /\ runs[i].due # NoTime) => i = j

\* As long as nothing fails and the user leaves the task alone, no two passes
\* start a run for one due time and none starts one that is there: the start
\* would be refused for good, given back and claimed again for ever.
ClaimedOnce ==
    (taskFaults = 0 /\ edits = 0) =>
        \A p \in Passes : pass[p].pc = "start" =>
            /\ ~Clashes(pass[p].due)
            /\ \A q \in Passes \ {p} :
                  ~(pass[q].pc \in {"start", "revert"} /\ pass[q].due = pass[p].due)

\* No race of calls and passes leaves a task active without a next run: it
\* would look active and never run again.
ActiveIsScheduled == task.status = "ACTIVE" => task.next # NoTime

\* As long as nothing fails and the user leaves the task alone, every due time
\* gone by has had its run or is in the hands of a pass, was skipped for an
\* active run, or could not be given back since the task had moved on.
Handled(due) == \E p \in Passes : pass[p].pc \in {"start", "revert"} /\ pass[p].due = due
EveryDueTimeAccounted ==
    (Exists /\ taskFaults = 0 /\ edits = 0) =>
        \A due \in firstDue .. task.next - 1 :
            (due - firstDue) % (task.cadence * DayLength) = 0 =>
                Clashes(due) \/ Handled(due) \/ due \in skipped \cup overtaken

\* A pass looks for an active run long before it creates one, so scheduled
\* runs may overlap (ADR-0007:19 says they do not), but never more of them
\* than there are passes under way at once.
ActiveScheduled == {i \in DOMAIN runs : runs[i].active /\ runs[i].due # NoTime}
OverlapIsBounded == Cardinality(ActiveScheduled) <= Cardinality(Passes)
=============================================================================
