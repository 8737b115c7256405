-------------------------- MODULE Permits_proofs --------------------------
(***************************************************************************)
(* Proofs about the permits, for any finite number of calls, any pools,    *)
(* limits and faults.                                                      *)
(***************************************************************************)
EXTENDS Permits, FiniteSetTheorems, TLAPS

USE PermitsAssumption

----------------------------------------------------------------------------
(* Sets of calls are finite, and so comparable in size.                    *)

LEMMA SubsetIsSmaller ==
  ASSUME NEW S \in SUBSET Calls, NEW T \in SUBSET S
  PROVE  /\ IsFiniteSet(S)
         /\ Cardinality(S) \in Nat /\ Cardinality(T) \in Nat
         /\ Cardinality(T) <= Cardinality(S)
<1>1. IsFiniteSet(S)
  BY FS_Subset
<1>2. IsFiniteSet(T) /\ Cardinality(T) <= Cardinality(S)
  BY <1>1, FS_Subset
<1> QED
  BY <1>1, <1>2, FS_CardinalityType

\* One more call in a pool that is not full does not exceed its limit.
LEMMA RoomForOne ==
  ASSUME NEW S \in SUBSET Calls, NEW c \in Calls, NEW n \in Nat \ {0},
         ~(Cardinality(S) >= n)
  PROVE  Cardinality(S \cup {c}) <= n
<1>1. IsFiniteSet(S) /\ Cardinality(S) \in Nat
  BY SubsetIsSmaller
<1>2. Cardinality(S \cup {c}) =
        IF c \in S THEN Cardinality(S) ELSE Cardinality(S) + 1
  BY <1>1, FS_AddElement, Zenon
<1>3. IsFiniteSet(S \cup {c}) /\ Cardinality(S \cup {c}) \in Nat
  BY <1>1, FS_AddElement, FS_CardinalityType
<1> QED
  BY <1>1, <1>2, <1>3

LEMMA PoolsOfIsPools ==
  ASSUME NEW c \in Calls
  PROVE  PoolsOf(c) \subseteq Pools /\ Purged(c) \subseteq PoolsOf(c)
BY DEF PoolsOf, Purged

----------------------------------------------------------------------------
(* What the acquire script does                                            *)

\* A pool grows only when it is not full, and loses only what has expired.
LEMMA ScriptKeepsLimits ==
  ASSUME TypeOK, PoolsWithinLimit, NEW c \in Calls, AcquireScript(c)
  PROVE  /\ members' \in [Pools -> SUBSET Calls]
         /\ lease' \in [Calls -> {"fresh", "partial", "overdue"}]
         /\ PoolsWithinLimit'
<1>1. members' \in [Pools -> SUBSET Calls]
  BY DEF AcquireScript, TypeOK, Unexpired
<1>2. lease' \in [Calls -> {"fresh", "partial", "overdue"}]
  BY DEF AcquireScript, TypeOK
<1>3. ASSUME NEW p \in Pools
      PROVE  Cardinality(members'[p]) <= Limit[p]
  <2> DEFINE rest == IF p \in Purged(c) THEN Unexpired(p) ELSE members[p]
  <2>1. members[p] \in SUBSET Calls /\ rest \in SUBSET members[p]
    BY DEF TypeOK, Unexpired
  <2>2. Cardinality(members[p]) <= Limit[p] /\ Limit[p] \in Nat \ {0}
    BY DEF PoolsWithinLimit
  <2>3. CASE Granted(c) /\ p \in PoolsOf(c)
    <3>1. ~Full(p) /\ p \in Purged(c)
      BY <2>3 DEF Granted, Purged, PoolsOf
    <3>2. ~(Cardinality(rest) >= Limit[p])
      BY <3>1 DEF Full
    <3>3. members'[p] = rest \cup {c}
      BY <2>3 DEF AcquireScript
    <3> QED
      BY <2>1, <2>2, <3>2, <3>3, RoomForOne
  <2>4. CASE ~(Granted(c) /\ p \in PoolsOf(c))
    <3>1. members'[p] = rest
      BY <2>4 DEF AcquireScript
    <3> QED
      BY <2>1, <2>2, <3>1, SubsetIsSmaller
  <2> QED
    BY <2>3, <2>4
<1> QED
  BY <1>1, <1>2, <1>3 DEF PoolsWithinLimit

\* Purging spares the calls whose lease is fresh; the caller is counted in
\* all its pools once it is granted.
LEMMA ScriptCountsFresh ==
  ASSUME TypeOK, NEW c \in Calls, AcquireScript(c), NEW d \in Calls
  PROVE  /\ d # c => lease'[d] = lease[d]
         /\ lease[d] = "fresh" /\ FoundEverywhere(d) => FoundEverywhere(d)'
         /\ Granted(c) => FoundEverywhere(c)'
<1>1. d # c => lease'[d] = lease[d]
  BY DEF AcquireScript, TypeOK
<1>2. ASSUME NEW p \in Pools, d \in members[p], lease[d] = "fresh"
      PROVE  d \in members'[p]
  BY <1>2 DEF AcquireScript, Unexpired
<1>3. ASSUME Granted(c), NEW p \in PoolsOf(c)
      PROVE  c \in members'[p]
  BY <1>3, PoolsOfIsPools DEF AcquireScript
<1> QED
  BY <1>1, <1>2, <1>3, PoolsOfIsPools DEF FoundEverywhere, PoolsOf

----------------------------------------------------------------------------
(* One step                                                                *)

LEMMA FaultType ==
  ASSUME faults \in 0 .. MaxFaults, Fault \/ UNCHANGED faults
  PROVE  faults' \in 0 .. MaxFaults
BY DEF Fault

LEMMA GoType ==
  ASSUME pc \in [Calls -> Places], NEW c \in Calls, NEW place \in Places, Go(c, place)
  PROVE  /\ pc' \in [Calls -> Places]
         /\ pc'[c] = place
         /\ \A d \in Calls \ {c} : pc'[d] = pc[d]
BY DEF Go

LEMMA TypeStep ==
  ASSUME TypeOK, PoolsWithinLimit, [Next]_vars
  PROVE  TypeOK'
<1>0. /\ pc \in [Calls -> Places] /\ heartbeat \in [Calls -> {"idle", "renewed", "missed"}]
      /\ lost \in [Calls -> BOOLEAN] /\ members \in [Pools -> SUBSET Calls]
      /\ lease \in [Calls -> {"fresh", "partial", "overdue"}]
      /\ faults \in 0 .. MaxFaults /\ BeatsOnlyOnceRunning
  BY DEF TypeOK
<1>1. CASE UNCHANGED vars
  BY <1>1 DEF vars, TypeOK, BeatsOnlyOnceRunning
<1>2. ASSUME NEW c \in Calls,
             \/ Start(c) \/ Wake(c) \/ GiveUp(c) \/ Claim(c) \/ MarkTask(c)
             \/ Finish(c) \/ Crash(c)
      PROVE  TypeOK'
  <2>1. PICK place \in Places :
           /\ Go(c, place)
           /\ heartbeat[c] # "idle" => place \in {"release"} \cup Over
           /\ Fault \/ UNCHANGED faults
           /\ UNCHANGED <<heartbeat, lost, members, lease>>
    BY <1>0, <1>2 DEF Start, Wake, GiveUp, Claim, MarkTask, Finish, Crash,
       BeatsOnlyOnceRunning, Places, Over, Holding
  <2>2. BeatsOnlyOnceRunning'
    BY <1>0, <2>1, GoType DEF BeatsOnlyOnceRunning
  <2> QED
    BY <1>0, <2>1, <2>2, GoType, FaultType DEF TypeOK
<1>3. ASSUME NEW c \in Calls, Acquire(c)
      PROVE  TypeOK'
  <2>1. /\ members' \in [Pools -> SUBSET Calls]
        /\ lease' \in [Calls -> {"fresh", "partial", "overdue"}]
    BY <1>0, <1>3, ScriptKeepsLimits DEF Acquire
  <2>2. heartbeat[c] = "idle" /\ UNCHANGED <<heartbeat, lost>>
    BY <1>0, <1>3 DEF Acquire, BeatsOnlyOnceRunning, Over
  <2>3. PICK place \in Places : Go(c, place) /\ (Fault \/ UNCHANGED faults)
    BY <1>3 DEF Acquire, Places, Holding
  <2>4. BeatsOnlyOnceRunning'
    BY <1>0, <2>2, <2>3, GoType DEF BeatsOnlyOnceRunning
  <2> QED
    BY <1>0, <2>1, <2>2, <2>3, <2>4, GoType, FaultType DEF TypeOK
<1>4. ASSUME NEW c \in Calls, Release(c)
      PROVE  TypeOK'
  <2>1. PICK place \in Over : Go(c, place) /\ (Fault \/ UNCHANGED faults)
    BY <1>4 DEF Release, Over
  <2>2. members' \in [Pools -> SUBSET Calls]
    <3>1. RemovePermit(c) \/ members' = members
      BY <1>4 DEF Release
    <3>2. \A p \in Pools : members[p] \ {c} \in SUBSET Calls
      BY <1>0
    <3> QED
      BY <1>0, <3>1, <3>2 DEF RemovePermit
  <2>3. UNCHANGED <<heartbeat, lost, lease>>
    BY <1>4 DEF Release
  <2>4. place \in Places
    BY DEF Places
  <2>5. BeatsOnlyOnceRunning'
    BY <1>0, <2>1, <2>3, <2>4, GoType DEF BeatsOnlyOnceRunning
  <2> QED
    BY <1>0, <2>1, <2>2, <2>3, <2>4, <2>5, GoType, FaultType DEF TypeOK
<1>5. ASSUME NEW c \in Calls, Renew(c)
      PROVE  TypeOK'
  <2>1. /\ pc[c] = "running" /\ UNCHANGED <<pc, lost, members>>
        /\ Fault \/ UNCHANGED faults
    BY <1>5 DEF Renew, TimerDue
  <2>2. lease' \in [Calls -> {"fresh", "partial", "overdue"}]
    BY <1>0, <1>5 DEF Renew
  <2>3. /\ heartbeat' \in [Calls -> {"idle", "renewed", "missed"}]
        /\ \A d \in Calls \ {c} : heartbeat'[d] = heartbeat[d]
    BY <1>0, <1>5 DEF Renew, Report
  <2>4. BeatsOnlyOnceRunning'
    BY <1>0, <2>1, <2>3 DEF BeatsOnlyOnceRunning
  <2> QED
    BY <1>0, <2>1, <2>2, <2>3, <2>4, FaultType DEF TypeOK
<1>6. ASSUME NEW c \in Calls, Beat(c)
      PROVE  TypeOK'
  BY <1>0, <1>6 DEF Beat, TypeOK, BeatsOnlyOnceRunning
<1>7. ASSUME NEW c \in Calls, Lapse(c)
      PROVE  TypeOK'
  BY <1>0, <1>7 DEF Lapse, TypeOK, BeatsOnlyOnceRunning
<1>8. ASSUME NEW p \in Pools, KeyExpires(p)
      PROVE  TypeOK'
  BY <1>0, <1>8 DEF KeyExpires, TypeOK, BeatsOnlyOnceRunning
<1> QED
  BY <1>1, <1>2, <1>3, <1>4, <1>5, <1>6, <1>7, <1>8 DEF Next

\* Except by the script of acquire, no pool grows.
LEMMA PoolsOnlyShrink ==
  ASSUME TypeOK, [Next]_vars, \A c \in Calls : ~Acquire(c)
  PROVE  \A p \in Pools : members'[p] \subseteq members[p]
<1>1. CASE UNCHANGED members
  BY <1>1
<1>2. ASSUME NEW c \in Calls, Release(c)
      PROVE  \A p \in Pools : members'[p] \subseteq members[p]
  BY <1>2 DEF Release, RemovePermit
<1>3. ASSUME NEW q \in Pools, KeyExpires(q)
      PROVE  \A p \in Pools : members'[p] \subseteq members[p]
  BY <1>3 DEF KeyExpires, TypeOK
<1> QED
  BY <1>1, <1>2, <1>3 DEF Next, vars, Start, Wake, GiveUp, Claim, MarkTask, Finish,
     Renew, Beat, Lapse, Crash

LEMMA LimitStep ==
  ASSUME TypeOK, PoolsWithinLimit, [Next]_vars
  PROVE  PoolsWithinLimit'
<1>1. ASSUME NEW c \in Calls, Acquire(c)
      PROVE  PoolsWithinLimit'
  BY <1>1, ScriptKeepsLimits DEF Acquire, PoolsWithinLimit
<1>2. CASE \A c \in Calls : ~Acquire(c)
  <2> SUFFICES ASSUME NEW p \in Pools
               PROVE  Cardinality(members'[p]) <= Limit[p]
    BY DEF PoolsWithinLimit
  <2>1. members'[p] \in SUBSET members[p] /\ members[p] \in SUBSET Calls
    BY <1>2, PoolsOnlyShrink DEF TypeOK
  <2>2. Cardinality(members[p]) <= Limit[p] /\ Limit[p] \in Nat
    BY DEF PoolsWithinLimit
  <2> QED
    BY <2>1, <2>2, SubsetIsSmaller
<1> QED
  BY <1>1, <1>2

LEMMA OwnPoolsStep ==
  ASSUME TypeOK, OwnPoolsOnly, [Next]_vars
  PROVE  OwnPoolsOnly'
<1>1. ASSUME NEW c \in Calls, Acquire(c)
      PROVE  OwnPoolsOnly'
  BY <1>1 DEF Acquire, AcquireScript, OwnPoolsOnly, Unexpired, PoolsOf
<1>2. CASE \A c \in Calls : ~Acquire(c)
  BY <1>2, PoolsOnlyShrink DEF OwnPoolsOnly, PoolsOf
<1> QED
  BY <1>1, <1>2

\* What a call that knows of its permits can lose to another actor: nothing,
\* while its lease is fresh.
LEMMA FreshStep ==
  ASSUME TypeOK, FreshIsCounted, [Next]_vars
  PROVE  FreshIsCounted'
<1> SUFFICES ASSUME NEW d \in Calls, pc'[d] \in Holding, lease'[d] = "fresh"
             PROVE  FoundEverywhere(d)'
  BY DEF FreshIsCounted
<1> USE DEF TypeOK
<1> DEFINE Before == pc[d] \in Holding /\ lease[d] = "fresh" => FoundEverywhere(d)
<1>0. Before
  BY DEF FreshIsCounted
<1>1. CASE UNCHANGED vars
  BY <1>0, <1>1 DEF vars, FoundEverywhere
<1>2. ASSUME NEW c \in Calls,
             \/ Start(c) \/ Wake(c) \/ GiveUp(c) \/ Claim(c) \/ MarkTask(c)
             \/ Finish(c)
      PROVE  FoundEverywhere(d)'
  BY <1>0, <1>2 DEF Start, Wake, GiveUp, Claim, MarkTask, Finish, Go, Holding,
     FoundEverywhere
<1>3. ASSUME NEW c \in Calls, Acquire(c)
      PROVE  FoundEverywhere(d)'
  <2>1. CASE d = c
    <3>1. AcquireScript(c) /\ Granted(c)
      BY <1>3, <2>1 DEF Acquire, Go, Holding
    <3> QED
      BY <2>1, <3>1, ScriptCountsFresh
  <2>2. CASE d # c
    <3>1. pc[d] \in Holding
      BY <1>3, <2>2 DEF Acquire, Go
    <3>2. CASE AcquireScript(c)
      BY <1>0, <2>2, <3>1, <3>2, ScriptCountsFresh
    <3>3. CASE UNCHANGED <<members, lease>>
      BY <1>0, <3>1, <3>3 DEF FoundEverywhere
    <3> QED
      BY <1>3, <3>2, <3>3 DEF Acquire
  <2> QED
    BY <2>1, <2>2
<1>4. ASSUME NEW c \in Calls, Release(c)
      PROVE  FoundEverywhere(d)'
  <2>1. d # c /\ pc[d] \in Holding /\ lease[d] = "fresh"
    BY <1>4 DEF Release, Go, Holding
  <2> QED
    BY <1>0, <1>4, <2>1, PoolsOfIsPools DEF Release, RemovePermit, FoundEverywhere,
       PoolsOf
<1>5. ASSUME NEW c \in Calls, Renew(c)
      PROVE  FoundEverywhere(d)'
  BY <1>0, <1>5 DEF Renew, FoundEverywhere
<1>6. ASSUME NEW c \in Calls, Beat(c) \/ Lapse(c) \/ Crash(c)
      PROVE  FoundEverywhere(d)'
  BY <1>0, <1>6 DEF Beat, Lapse, Crash, Go, Holding, Over, FoundEverywhere
<1>7. ASSUME NEW p \in Pools, KeyExpires(p)
      PROVE  FoundEverywhere(d)'
  <2>1. pc[d] \in Holding /\ lease[d] = "fresh" /\ d \notin members[p]
    BY <1>7 DEF KeyExpires, Unexpired
  <2> QED
    BY <1>0, <1>7, <2>1, PoolsOfIsPools DEF KeyExpires, FoundEverywhere
<1> QED
  BY <1>1, <1>2, <1>3, <1>4, <1>5, <1>6, <1>7 DEF Next

\* Who may be stranded by a step: nobody without a fault, one call with one.
LEMMA WhoIsStranded ==
  ASSUME TypeOK, OwnPoolsOnly, [Next]_vars
  PROVE  \/ faults' = faults /\ Stranded' \subseteq Stranded
         \/ Fault /\ \E c \in Calls : Stranded' \subseteq Stranded \cup {c}
<1> USE DEF TypeOK
<1>1. CASE UNCHANGED vars
  BY <1>1 DEF vars, Stranded
<1>2. ASSUME NEW c \in Calls, Acquire(c)
      PROVE  \/ faults' = faults /\ Stranded' \subseteq Stranded
             \/ Fault /\ Stranded' \subseteq Stranded \cup {c}
  <2>1. ASSUME NEW d \in Calls, d # c, d \in Stranded'
        PROVE  d \in Stranded
    <3>1. pc'[d] = pc[d]
      BY <1>2, <2>1 DEF Acquire, Go
    <3>2. \A p \in Pools : d \in members'[p] => d \in members[p]
      BY <1>2, <2>1 DEF Acquire, AcquireScript, Unexpired
    <3> QED
      BY <2>1, <3>1, <3>2 DEF Stranded
  <2>2. CASE Fault
    BY <2>1, <2>2 DEF Stranded
  <2>3. CASE ~Fault
    <3>1. /\ AcquireScript(c) /\ faults' = faults
          /\ Go(c, IF Granted(c) THEN "claim" ELSE "waiting") /\ pc[c] = "acquire"
      BY <1>2, <2>3 DEF Acquire
    <3>2. c \in Stranded' => c \in Stranded
      <4>1. CASE Granted(c)
        BY <3>1, <4>1 DEF Go, Stranded, Holding
      <4>2. CASE ~Granted(c)
        BY <3>1, <4>2 DEF AcquireScript, Unexpired, Stranded, Holding
      <4> QED
        BY <4>1, <4>2
    <3> QED
      BY <2>1, <3>1, <3>2 DEF Stranded
  <2> QED
    BY <2>2, <2>3
<1>3. ASSUME NEW c \in Calls, Release(c)
      PROVE  \/ faults' = faults /\ Stranded' \subseteq Stranded
             \/ Fault /\ Stranded' \subseteq Stranded \cup {c}
  <2>1. ASSUME NEW d \in Calls, d # c, d \in Stranded'
        PROVE  d \in Stranded
    <3>1. pc'[d] = pc[d]
      BY <1>3, <2>1 DEF Release, Go
    <3>2. \A p \in Pools : d \in members'[p] => d \in members[p]
      BY <1>3 DEF Release, RemovePermit
    <3> QED
      BY <2>1, <3>1, <3>2 DEF Stranded
  <2>2. CASE Fault
    BY <2>1, <2>2 DEF Stranded
  <2>3. CASE ~Fault
    <3>1. RemovePermit(c) /\ faults' = faults
      BY <1>3, <2>3 DEF Release
    <3>2. c \notin Stranded'
      BY <3>1 DEF RemovePermit, Stranded, OwnPoolsOnly
    <3> QED
      BY <2>1, <3>1, <3>2 DEF Stranded
  <2> QED
    BY <2>2, <2>3
<1>4. ASSUME NEW c \in Calls, Claim(c) \/ MarkTask(c) \/ Crash(c)
      PROVE  \/ faults' = faults /\ Stranded' \subseteq Stranded
             \/ Fault /\ Stranded' \subseteq Stranded \cup {c}
  BY <1>4 DEF Claim, MarkTask, Crash, Go, Stranded, Holding
<1>5. ASSUME NEW c \in Calls, Start(c) \/ Wake(c) \/ GiveUp(c) \/ Finish(c)
      PROVE  faults' = faults /\ Stranded' \subseteq Stranded
  BY <1>5 DEF Start, Wake, GiveUp, Finish, Go, Stranded, Holding
<1>6. ASSUME NEW c \in Calls, Renew(c) \/ Beat(c) \/ Lapse(c)
      PROVE  Stranded' = Stranded /\ (faults' = faults \/ Fault)
  BY <1>6 DEF Renew, Beat, Lapse, Stranded
<1>7. ASSUME NEW p \in Pools, KeyExpires(p)
      PROVE  faults' = faults /\ Stranded' \subseteq Stranded
  BY <1>7 DEF KeyExpires, Stranded
<1> QED
  BY <1>1, <1>2, <1>3, <1>4, <1>5, <1>6, <1>7 DEF Next

LEMMA StrandedStep ==
  ASSUME TypeOK, OwnPoolsOnly, StrandedWithinFaults, [Next]_vars
  PROVE  StrandedWithinFaults'
<1>1. Stranded \in SUBSET Calls /\ Stranded' \in SUBSET Calls
  BY DEF Stranded
<1>2. IsFiniteSet(Stranded) /\ Cardinality(Stranded) \in Nat /\ Cardinality(Stranded') \in Nat
  BY <1>1, SubsetIsSmaller
<1>3. faults \in Nat /\ Cardinality(Stranded) <= faults
  BY DEF TypeOK, StrandedWithinFaults
<1>4. CASE faults' = faults /\ Stranded' \subseteq Stranded
  <2>1. Cardinality(Stranded') <= Cardinality(Stranded)
    BY <1>1, <1>4, SubsetIsSmaller
  <2> QED
    BY <1>2, <1>3, <1>4, <2>1 DEF StrandedWithinFaults
<1>5. ASSUME NEW c \in Calls, Fault, Stranded' \subseteq Stranded \cup {c}
      PROVE  StrandedWithinFaults'
  <2>1. Stranded \cup {c} \in SUBSET Calls
    BY <1>1
  <2>2. Cardinality(Stranded') <= Cardinality(Stranded \cup {c})
    BY <1>5, <2>1, SubsetIsSmaller
  <2>3. Cardinality(Stranded \cup {c}) =
          IF c \in Stranded THEN Cardinality(Stranded) ELSE Cardinality(Stranded) + 1
    BY <1>2, FS_AddElement, Zenon
  <2>4. faults' = faults + 1
    BY <1>5 DEF Fault
  <2> QED
    BY <1>2, <1>3, <2>2, <2>3, <2>4 DEF StrandedWithinFaults
<1> QED
  BY <1>4, <1>5, WhoIsStranded

----------------------------------------------------------------------------
(* Theorems                                                                *)

\* Calls, pools and leases stay well formed, no pool exceeds its limit, a
\* fresh lease is counted in every pool and no fault strands two calls:
\* the permits of GenerationReliabilityService, for any number of workers.
THEOREM InvHolds == Spec => []Inv
<1>1. Init => Inv
  <2> SUFFICES ASSUME Init
               PROVE  Inv
    OBVIOUS
  <2>1. TypeOK /\ OwnPoolsOnly /\ FreshIsCounted /\ Stranded = {} /\ faults = 0
    BY DEF Init, TypeOK, OwnPoolsOnly, FreshIsCounted, Stranded,
       BeatsOnlyOnceRunning, Places, Holding
  <2>2. \A p \in Pools : members[p] = {} /\ Limit[p] \in Nat
    BY DEF Init
  <2>3. Cardinality({}) = 0
    BY FS_EmptySet
  <2>4. ASSUME NEW p \in Pools
        PROVE  Cardinality(members[p]) <= Limit[p]
    <3>1. Cardinality(members[p]) = 0
      BY <2>2, <2>3, Zenon
    <3> QED
      BY <2>2, <3>1
  <2>5. PoolsWithinLimit
    BY <2>4 DEF PoolsWithinLimit
  <2>6. Cardinality(Stranded) = 0
    BY <2>1, <2>3, Zenon
  <2>7. StrandedWithinFaults
    BY <2>1, <2>6 DEF StrandedWithinFaults
  <2> QED
    BY <2>1, <2>5, <2>7 DEF Inv
<1>2. Inv /\ [Next]_vars => Inv'
  BY TypeStep, LimitStep, OwnPoolsStep, FreshStep, StrandedStep DEF Inv
<1> QED
  BY <1>1, <1>2, PTL DEF Spec

\* The variables keep their types, and heartbeats belong to calls that ran.
THEOREM TypeCorrect == Spec => []TypeOK
<1>1. Inv => TypeOK
  BY DEF Inv
<1> QED
  BY <1>1, InvHolds, PTL

\* The number of calls that run under an unbroken lease never exceeds the
\* limit of any pool: they are members of the pool, which is within its limit.
THEOREM RunningStaysWithinLimit == Spec => []RunningWithinLimit
<1>1. ASSUME Inv, NEW p \in Pools
      PROVE  Cardinality({c \in Calls : /\ p \in PoolsOf(c)
                                        /\ pc[c] = "running"
                                        /\ lease[c] = "fresh"}) <= Limit[p]
  <2> DEFINE runs == {c \in Calls : /\ p \in PoolsOf(c)
                                    /\ pc[c] = "running"
                                    /\ lease[c] = "fresh"}
  <2>1. runs \in SUBSET members[p] /\ members[p] \in SUBSET Calls
    BY <1>1 DEF Inv, TypeOK, FreshIsCounted, FoundEverywhere, Holding
  <2>2. Cardinality(members[p]) <= Limit[p] /\ Limit[p] \in Nat
    BY <1>1 DEF Inv, PoolsWithinLimit
  <2> HIDE DEF runs
  <2>3. Cardinality(runs) <= Limit[p]
    BY <2>1, <2>2, SubsetIsSmaller
  <2> QED
    BY <2>3 DEF runs
<1>2. Inv => RunningWithinLimit
  BY <1>1 DEF RunningWithinLimit
<1> QED
  BY <1>2, InvHolds, PTL

\* A crash, a lost reply or a throw keeps the permits of one call at most from
\* the others, in any number and order; without them nobody's are left behind.
THEOREM FaultsStrandOneCallEach == Spec => []StrandedWithinFaults
<1>1. Inv => StrandedWithinFaults
  BY DEF Inv
<1> QED
  BY <1>1, InvHolds, PTL
=============================================================================
