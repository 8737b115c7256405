------------------------------ MODULE Permits ------------------------------
(***************************************************************************)
(* The concurrency permits of generations (GenerationReliabilityService    *)
(* and its use by GenerationProcessor.process).  A call of process takes   *)
(* one permit in each of three Redis sorted sets (global, provider, user)  *)
(* by one script, renews them from its heartbeat and releases them.  The   *)
(* score of a permit is the time its lease ends; permits whose lease has   *)
(* ended are purged by whoever acquires next.                              *)
(*                                                                         *)
(* Time is reduced to whether a lease has ended: Lapse may happen at any   *)
(* moment between two renewals, as when a worker is paused or cut off.     *)
(* The clocks of the workers agree.  A fault is a throw of Redis or of the *)
(* database, before or after it took effect, or the crash of a worker,     *)
(* once for each call it ends.                                             *)
(***************************************************************************)
EXTENDS Naturals, FiniteSets

CONSTANTS
    Calls,      \* calls of process; each has a random writer token of its own
    Pools,      \* keys of the sorted sets
    Needs,      \* the three keys of a call, in the order of the script
    Limit,      \* GENERATION_{GLOBAL,PROVIDER,USER}_CONCURRENCY of a pool
    MaxFaults   \* bound: faults

\* min(1) of the three limits in the configuration; the keys of a call have
\* distinct prefixes.
ASSUME PermitsAssumption ==
    /\ IsFiniteSet(Calls)
    /\ Needs \in [Calls -> [1 .. 3 -> Pools]]
    /\ \A c \in Calls : \A i, j \in 1 .. 3 : Needs[c][i] = Needs[c][j] => i = j
    /\ Limit \in [Pools -> Nat \ {0}]
    /\ MaxFaults \in Nat

VARIABLES
    pc,         \* where a call of process stands
    heartbeat,  \* its heartbeat: "idle", or what renew is about to report
    lost,       \* ownershipLost of the call
    members,    \* the sorted sets: the calls with a permit in a pool
    lease,      \* the score of a call's permits, see Lapse and Renew
    faults

vars == <<pc, heartbeat, lost, members, lease, faults>>

\* Calls that have ended: returned, thrown, or gone with their worker.
Over == {"done", "threw", "dead"}

\* Calls that know they have permits.
Holding == {"claim", "markTask", "running", "skip", "release"}

Places == Over \cup Holding \cup {"idle", "acquire", "waiting"}

Init ==
    /\ pc = [c \in Calls |-> "idle"]
    /\ heartbeat = [c \in Calls |-> "idle"]
    /\ lost = [c \in Calls |-> FALSE]
    /\ members = [p \in Pools |-> {}]
    /\ lease = [c \in Calls |-> "overdue"]
    /\ faults = 0

Fault ==
    /\ faults < MaxFaults
    /\ faults' = faults + 1

Go(c, place) == pc' = [pc EXCEPT ![c] = place]

PoolsOf(c) == {Needs[c][i] : i \in 1 .. 3}

----------------------------------------------------------------------------
(* acquire                                                                 *)

\* The row was read as QUEUED and a token drawn.
Start(c) ==
    /\ pc[c] = "idle"
    /\ Go(c, "acquire")
    /\ UNCHANGED <<heartbeat, lost, members, lease, faults>>

\* What ZREMRANGEBYSCORE leaves in a pool.
Unexpired(p) == {c \in members[p] : lease[c] # "overdue"}

\* A limit compared with > instead of >=.
FullAbove(p) == Cardinality(Unexpired(p)) > Limit[p]

Full(p) == Cardinality(Unexpired(p)) >= Limit[p]

\* The script returns 0 at the first full pool: that one and those before it
\* are purged, those behind it are not.
Purged(c) ==
    {Needs[c][i] : i \in {k \in 1 .. 3 : \A j \in 1 .. k - 1 : ~Full(Needs[c][j])}}

Granted(c) == \A p \in PoolsOf(c) : ~Full(p)

\* A script that adds each permit as soon as its pool has been looked at.
AcquirePiecemeal(c) ==
    /\ members' = [p \in Pools |->
          (IF p \in Purged(c) THEN Unexpired(p) ELSE members[p])
             \cup (IF p \in Purged(c) /\ ~Full(p) THEN {c} ELSE {})]
    /\ lease' = IF Granted(c) THEN [lease EXCEPT ![c] = "fresh"] ELSE lease

AcquireScript(c) ==
    /\ members' = [p \in Pools |->
          (IF p \in Purged(c) THEN Unexpired(p) ELSE members[p])
             \cup (IF Granted(c) /\ p \in PoolsOf(c) THEN {c} ELSE {})]
    /\ lease' = IF Granted(c) THEN [lease EXCEPT ![c] = "fresh"] ELSE lease

\* One turn of the loop.  A lost reply leaves acquired = 0, whatever the
\* script has done; a permit it left behind is counted against the next turn,
\* which uses the same token.
Acquire(c) ==
    /\ pc[c] = "acquire"
    /\ UNCHANGED <<heartbeat, lost>>
    /\ \/ /\ AcquireScript(c)
          /\ Go(c, IF Granted(c) THEN "claim" ELSE "waiting")
          /\ UNCHANGED faults
       \/ /\ Fault
          /\ AcquireScript(c) \/ UNCHANGED <<members, lease>>
          /\ Go(c, "waiting")

Wake(c) ==
    /\ pc[c] = "waiting"
    /\ Go(c, "acquire")
    /\ UNCHANGED <<heartbeat, lost, members, lease, faults>>

\* The deadline has passed: acquire throws or returns null, process throws.
GiveUp(c) ==
    /\ pc[c] = "waiting"
    /\ Go(c, "threw")
    /\ UNCHANGED <<heartbeat, lost, members, lease, faults>>

----------------------------------------------------------------------------
(* process, around processOwned                                            *)

\* The conditional update that takes the row; a throw leaves process before
\* its try block.
Claim(c) ==
    /\ pc[c] = "claim"
    /\ UNCHANGED <<heartbeat, lost, members, lease>>
    /\ \/ (Go(c, "markTask") \/ Go(c, "skip")) /\ UNCHANGED faults
       \/ Go(c, "threw") /\ Fault

\* The task run becomes RUNNING, then the heartbeat starts.  This update is
\* neither retried nor inside the try block.
MarkTask(c) ==
    /\ pc[c] = "markTask"
    /\ UNCHANGED <<heartbeat, lost, members, lease>>
    /\ \/ Go(c, "running") /\ UNCHANGED faults
       \/ Go(c, "threw") /\ Fault

\* processOwned returns or throws; the interval is cleared, a renewal already
\* sent is not recalled.
Finish(c) ==
    /\ pc[c] = "running"
    /\ Go(c, "release")
    /\ UNCHANGED <<heartbeat, lost, members, lease, faults>>

RemovePermit(c) ==
    members' = [p \in Pools |->
                   IF p \in PoolsOf(c) THEN members[p] \ {c} ELSE members[p]]

\* A throw is logged by the finally block; on the way out of a claim that
\* matched nothing it is thrown to the queue.  Either way the call is over.
Release(c) ==
    /\ pc[c] \in {"skip", "release"}
    /\ UNCHANGED <<heartbeat, lost, lease>>
    /\ \/ RemovePermit(c) /\ Go(c, "done") /\ UNCHANGED faults
       \/ /\ Fault
          /\ RemovePermit(c) \/ UNCHANGED members
          /\ Go(c, IF pc[c] = "skip" THEN "threw" ELSE "done")

----------------------------------------------------------------------------
(* The heartbeat of a running call                                         *)

FoundSomewhere(c) == \E p \in PoolsOf(c) : c \in members[p]

FoundEverywhere(c) == \A p \in PoolsOf(c) : c \in members[p]

\* A renewal that is content with one permit.
ReportAny(c) == IF FoundSomewhere(c) THEN "renewed" ELSE "missed"

\* renewed === keys.length
Report(c) == IF FoundEverywhere(c) THEN "renewed" ELSE "missed"

\* An interval that is set before the task run is marked.
TimerDueEarly(c) == pc[c] \in {"markTask", "running"} /\ heartbeat[c] = "idle"

TimerDue(c) == pc[c] = "running" /\ heartbeat[c] = "idle"

\* The script moves the score of the permits it finds and adds none.  Only
\* one heartbeat of a call is under way (heartbeatRunning).  A throw counts
\* as still owned.
Renew(c) ==
    /\ TimerDue(c)
    /\ UNCHANGED <<pc, lost, members>>
    /\ \/ /\ lease' = [lease EXCEPT ![c] =
                IF FoundEverywhere(c) THEN "fresh"
                ELSE IF FoundSomewhere(c) THEN "partial"
                ELSE @]
          /\ \/ /\ UNCHANGED faults
                /\ heartbeat' = [heartbeat EXCEPT ![c] = Report(c)]
             \/ Fault /\ UNCHANGED heartbeat
       \/ Fault /\ UNCHANGED <<lease, heartbeat>>

\* renew reports a missing permit, or the row's own heartbeat is refused.
Beat(c) ==
    /\ heartbeat[c] # "idle" /\ pc[c] # "dead"
    /\ heartbeat' = [heartbeat EXCEPT ![c] = "idle"]
    /\ \/ lost' = [lost EXCEPT ![c] = lost[c] \/ heartbeat[c] = "missed"]
       \/ lost' = [lost EXCEPT ![c] = TRUE]
    /\ UNCHANGED <<pc, members, lease, faults>>

----------------------------------------------------------------------------
(* Time and crashes                                                        *)

\* A lease ends: it was not renewed in time.
Lapse(c) ==
    /\ lease[c] # "overdue"
    /\ \E p \in Pools : c \in members[p]
    /\ lease' = [lease EXCEPT ![c] = "overdue"]
    /\ UNCHANGED <<pc, heartbeat, lost, members, faults>>

\* PEXPIRE removes a pool a second after the last of its leases has ended.
KeyExpires(p) ==
    /\ members[p] # {} /\ Unexpired(p) = {}
    /\ members' = [members EXCEPT ![p] = {}]
    /\ UNCHANGED <<pc, heartbeat, lost, lease, faults>>

Crash(c) ==
    /\ pc[c] \notin Over \cup {"idle"}
    /\ Fault
    /\ Go(c, "dead")
    /\ UNCHANGED <<heartbeat, lost, members, lease>>

Next ==
    \/ \E c \in Calls :
          \/ Start(c) \/ Acquire(c) \/ Wake(c) \/ GiveUp(c)
          \/ Claim(c) \/ MarkTask(c) \/ Finish(c) \/ Release(c)
          \/ Renew(c) \/ Beat(c)
          \/ Lapse(c) \/ Crash(c)
    \/ \E p \in Pools : KeyExpires(p)

Spec == Init /\ [][Next]_vars

\* The interval timer of a live worker fires again and again, and a script
\* is answered or throws.
FairSpec ==
    /\ Spec
    /\ \A c \in Calls : WF_vars(Renew(c)) /\ WF_vars(Beat(c))

----------------------------------------------------------------------------
(* Properties                                                              *)

\* A heartbeat under way belongs to a call that got as far as running.
BeatsOnlyOnceRunning ==
    \A c \in Calls :
        heartbeat[c] # "idle" => pc[c] \in {"running", "release"} \cup Over

\* Calls stand at a place of process, and heartbeats belong to calls that ran.
TypeOK ==
    /\ pc \in [Calls -> Places]
    /\ heartbeat \in [Calls -> {"idle", "renewed", "missed"}]
    /\ lost \in [Calls -> BOOLEAN]
    /\ members \in [Pools -> SUBSET Calls]
    /\ lease \in [Calls -> {"fresh", "partial", "overdue"}]
    /\ faults \in 0 .. MaxFaults
    /\ BeatsOnlyOnceRunning

\* Of the calls that run under a lease kept up since it was granted, no pool
\* has more than its limit: whatever lapses, is purged, renewed late, lost or
\* left behind.
RunningWithinLimit ==
    \A p \in Pools :
        Cardinality({c \in Calls : /\ p \in PoolsOf(c)
                                   /\ pc[c] = "running"
                                   /\ lease[c] = "fresh"}) <= Limit[p]

\* The calls whose permits nobody will renew or release: they have ended, or
\* do not know that the script granted them.
Stranded ==
    {c \in Calls : pc[c] \notin Holding /\ \E p \in Pools : c \in members[p]}

\* A fault strands the permits of one call at most, and nothing else does: the
\* capacity that crashes, lost replies and throws outside the try block keep
\* from other calls is bounded by their number, and without them every way out
\* of process leaves all three pools as they were.
StrandedWithinFaults == Cardinality(Stranded) <= faults

\* A call that runs without one of its permits, because its lease ended and
\* another call or the expiry of the pool removed it, learns that it lost
\* ownership or ends; a late renewal does not bring the permit back.
LosersLearn ==
    \A c \in Calls :
        (pc[c] = "running" /\ \E p \in PoolsOf(c) : c \notin members[p])
           ~> (lost[c] \/ pc[c] # "running")

----------------------------------------------------------------------------
(* The inductive invariant                                                 *)

\* No pool has more members than its limit.
PoolsWithinLimit == \A p \in Pools : Cardinality(members[p]) <= Limit[p]

\* A call that holds a lease kept up since it was granted is counted in every
\* pool it needs.
FreshIsCounted ==
    \A c \in Calls : pc[c] \in Holding /\ lease[c] = "fresh" => FoundEverywhere(c)

\* A call has permits in the pools of its keys only.
OwnPoolsOnly == \A p \in Pools : \A c \in members[p] : p \in PoolsOf(c)

Inv ==
    /\ TypeOK
    /\ PoolsWithinLimit
    /\ OwnPoolsOnly
    /\ FreshIsCounted
    /\ StrandedWithinFaults
=============================================================================
