--------------------------- MODULE Services_proofs ---------------------------
(***************************************************************************)
(* Proofs about the services beside the generations: the leases of event   *)
(* streams, the window of messages the model sees and the parser of its    *)
(* answer, for any values of their constants.  The last part shows that    *)
(* the instance TLC checks runs each service by its own specification, and *)
(* so all that is proved of one holds in it.                               *)
(***************************************************************************)
EXTENDS MCServices, ScheduledTasks_proofs, Sessions_proofs, SequenceTheorems,
        WellFoundedInduction

USE LeaseAssumption, ProviderAssumption

----------------------------------------------------------------------------
(* Induction over the natural numbers, by the least counterexample         *)

LEMMA LeastElement ==
  ASSUME NEW T, T \subseteq Nat, T # {}
  PROVE  \E m \in T : \A n \in T : m <= n
<1> DEFINE R == OpToRel(<, Nat)
<1>1. IsWellFoundedOn(R, Nat)
  BY NatLessThanWellFounded
<1>2. \A m, n \in Nat : m < n => <<m, n>> \in R
  BY DEF OpToRel
<1> HIDE DEF R
<1>3. PICK m \in T : \A n \in T : ~(<<n, m>> \in R)
  BY <1>1, WFMin
<1>4. \A n \in T : m <= n
  <2> TAKE n \in T
  <2>1. m \in Nat /\ n \in Nat /\ ~(n < m)
    BY <1>2, <1>3
  <2> QED
    BY <2>1
<1> QED
  BY <1>4

LEMMA Induction ==
  ASSUME NEW S, 0 \in S, \A n \in Nat : n \in S => n + 1 \in S
  PROVE  \A n \in Nat : n \in S
<1> SUFFICES ASSUME NEW n \in Nat, n \notin S PROVE FALSE
  OBVIOUS
<1> DEFINE T == {i \in Nat : i \notin S}
<1>1. T \subseteq Nat /\ T # {}
  OBVIOUS
<1>2. PICK m \in T : \A i \in T : m <= i
  BY <1>1, LeastElement
<1>3. m \in Nat /\ m # 0 /\ m - 1 \in Nat /\ m - 1 \notin T
  BY <1>2
<1>4. m - 1 \in S /\ m = (m - 1) + 1
  BY <1>3
<1> QED
  BY <1>2, <1>3, <1>4

----------------------------------------------------------------------------
(***************************************************************************)
(* Stream leases                                                           *)
(***************************************************************************)

\* The places taken never exceed the limit.  A turn renews a place that is
\* taken or takes one while there is room, so this is inductive and what is
\* read under a place of one's own follows.
HeldWithinLimit == Cardinality(Held) <= StreamLimit

LeaseInv == LeaseTypeOK /\ HeldWithinLimit /\ PlacesAreOfStreams

----------------------------------------------------------------------------
(* Sets of streams                                                         *)

LEMMA SmallerSet ==
  ASSUME NEW S \in SUBSET Streams, NEW T \in SUBSET S
  PROVE  /\ IsFiniteSet(S) /\ Cardinality(S) \in Nat /\ Cardinality(T) \in Nat
         /\ Cardinality(T) <= Cardinality(S)
<1>1. IsFiniteSet(S)
  BY FS_Subset
<1>2. IsFiniteSet(T) /\ Cardinality(T) <= Cardinality(S)
  BY <1>1, FS_Subset
<1> QED
  BY <1>1, <1>2, FS_CardinalityType

LEMMA RoomForOneMore ==
  ASSUME NEW S \in SUBSET Streams, NEW s \in Streams, Cardinality(S) < StreamLimit
  PROVE  Cardinality(S \cup {s}) <= StreamLimit
<1>1. IsFiniteSet(S) /\ Cardinality(S) \in Nat
  BY SmallerSet
<1>2. Cardinality(S \cup {s}) = IF s \in S THEN Cardinality(S) ELSE Cardinality(S) + 1
  BY <1>1, FS_AddElement, Zenon
<1> QED
  BY <1>1, <1>2

----------------------------------------------------------------------------
(* One step                                                                *)

\* The script keeps the places within the limit, gives the caller one exactly
\* when it is granted, and leaves those of the others as they are.
LEMMA ScriptKeepsLimit ==
  ASSUME LeaseTypeOK, HeldWithinLimit, NEW s \in Streams, Acquired(s)
  PROVE  /\ leases' \subseteq Streams /\ ended' \subseteq leases'
         /\ HeldWithinLimit'
         /\ \A t \in Streams \ {s} : t \in Held' => t \in Held
         /\ s \in Held' => Granted(s)
<1>1. Held' = Held \cup (IF Granted(s) THEN {s} ELSE {}) /\ ended' = {}
  BY DEF Acquired, Held
<1>2. Held \in SUBSET Streams /\ leases' \subseteq Streams /\ ended' \subseteq leases'
  BY DEF LeaseTypeOK, Held, Acquired
<1>3. HeldWithinLimit'
  <2>1. CASE Granted(s) /\ Cardinality(Held) < StreamLimit
    BY <1>1, <1>2, <2>1, RoomForOneMore DEF HeldWithinLimit
  <2>2. CASE ~(Granted(s) /\ Cardinality(Held) < StreamLimit)
    <3>1. Held' = Held
      BY <1>1, <2>2 DEF Granted, Held
    <3> QED
      BY <3>1 DEF HeldWithinLimit
  <2> QED
    BY <2>1, <2>2
<1>4. s \in Held' => Granted(s)
  BY <1>1 DEF Granted, Held
<1> QED
  BY <1>1, <1>2, <1>3, <1>4

\* Where no script takes a place, the limit holds on.
LEMMA FewerPlaces ==
  ASSUME LeaseTypeOK, HeldWithinLimit, Held' \subseteq Held
  PROVE  HeldWithinLimit'
<1>1. Held \in SUBSET Streams /\ Held' \in SUBSET Held
  BY DEF LeaseTypeOK, Held
<1>2. Cardinality(Held') <= Cardinality(Held) /\ Cardinality(Held) \in Nat
      /\ Cardinality(Held') \in Nat
  BY <1>1, SmallerSet
<1> QED
  BY <1>2 DEF HeldWithinLimit

LEMMA LeaseInitInv == LeaseInit => LeaseInv
<1> SUFFICES ASSUME LeaseInit
             PROVE  LeaseInv
  OBVIOUS
<1>1. LeaseTypeOK
  BY DEF LeaseInit, LeaseTypeOK
<1>2. Held = {}
  BY DEF LeaseInit, Held
<1>3. HeldWithinLimit
  BY <1>2, FS_EmptySet DEF HeldWithinLimit
<1> QED
  BY <1>1, <1>2, <1>3 DEF LeaseInv, PlacesAreOfStreams

LEMMA FaultCounts ==
  ASSUME leaseFaults \in Nat, LeaseFault
  PROVE  leaseFaults' \in Nat /\ leaseFaults' # 0
BY DEF LeaseFault

LEMMA LeaseStep ==
  ASSUME LeaseInv, [LeaseNext]_leaseVars
  PROVE  LeaseInv'
<1>0. LeaseTypeOK /\ HeldWithinLimit /\ PlacesAreOfStreams
  BY DEF LeaseInv
<1>1. CASE UNCHANGED leaseVars
  BY <1>0, <1>1 DEF leaseVars, LeaseInv, LeaseTypeOK, HeldWithinLimit, PlacesAreOfStreams, Held
<1>2. ASSUME NEW s \in Streams, Open(s)
      PROVE  LeaseInv'
  <2>1. Acquired(s) /\ UNCHANGED <<closing, leaseFaults>>
    BY <1>2 DEF Open
  <2>2. /\ stream' \in [Streams -> {"closed", "turn", "read", "release"}]
        /\ \A t \in Streams \ {s} : stream'[t] = stream[t]
        /\ Granted(s) => stream'[s] = "turn"
    BY <1>0, <1>2 DEF Open, Move, LeaseTypeOK
  <2>3. LeaseTypeOK' /\ HeldWithinLimit'
    BY <1>0, <2>1, <2>2, ScriptKeepsLimit DEF LeaseTypeOK
  <2>4. PlacesAreOfStreams'
    BY <1>0, <2>1, <2>2, <2>3, ScriptKeepsLimit DEF PlacesAreOfStreams, LeaseTypeOK, Held
  <2> QED
    BY <2>3, <2>4 DEF LeaseInv
<1>3. ASSUME NEW s \in Streams, Turn(s)
      PROVE  LeaseInv'
  <2>1. /\ stream' \in [Streams -> {"closed", "turn", "read", "release"}]
        /\ \A t \in Streams \ {s} : stream'[t] = stream[t]
        /\ stream'[s] # "closed"
        /\ UNCHANGED <<closing, leaseFaults>>
    BY <1>0, <1>3 DEF Turn, Move, LeaseTypeOK
  <2>2. CASE Acquired(s)
    <3>1. LeaseTypeOK' /\ HeldWithinLimit'
      BY <1>0, <2>1, <2>2, ScriptKeepsLimit DEF LeaseTypeOK
    <3>2. PlacesAreOfStreams'
      BY <1>0, <2>1, <2>2, <3>1, ScriptKeepsLimit DEF PlacesAreOfStreams, LeaseTypeOK, Held
    <3> QED
      BY <3>1, <3>2 DEF LeaseInv
  <2>3. CASE UNCHANGED <<leases, ended>>
    <3>1. LeaseTypeOK' /\ Held' = Held
      BY <1>0, <2>1, <2>3 DEF LeaseTypeOK, Held
    <3>2. PlacesAreOfStreams'
      BY <1>0, <2>1, <3>1 DEF PlacesAreOfStreams, LeaseTypeOK, Held
    <3> QED
      BY <1>0, <3>1, <3>2, FewerPlaces DEF LeaseInv
  <2> QED
    BY <1>3, <2>2, <2>3 DEF Turn
<1>4. ASSUME NEW s \in Streams, ReadAndWrite(s)
      PROVE  LeaseInv'
  <2>1. /\ stream' \in [Streams -> {"closed", "turn", "read", "release"}]
        /\ \A t \in Streams \ {s} : stream'[t] = stream[t]
        /\ stream'[s] # "closed"
        /\ UNCHANGED <<leases, ended, closing, leaseFaults>>
    BY <1>0, <1>4 DEF ReadAndWrite, Move, LeaseTypeOK
  <2>2. LeaseTypeOK' /\ Held' = Held
    BY <1>0, <2>1 DEF LeaseTypeOK, Held
  <2>3. PlacesAreOfStreams'
    BY <1>0, <2>1, <2>2 DEF PlacesAreOfStreams, LeaseTypeOK, Held
  <2> QED
    BY <1>0, <2>2, <2>3, FewerPlaces DEF LeaseInv
<1>5. ASSUME NEW s \in Streams, Release(s)
      PROVE  LeaseInv'
  <2>1. /\ stream' \in [Streams -> {"closed", "turn", "read", "release"}]
        /\ \A t \in Streams \ {s} : stream'[t] = stream[t]
        /\ closing' = closing \ {s}
    BY <1>0, <1>5 DEF Release, Move, LeaseTypeOK
  <2>2. CASE leases' = leases \ {s} /\ ended' = ended \ {s} /\ UNCHANGED leaseFaults
    <3>1. LeaseTypeOK' /\ Held' = Held \ {s}
      BY <1>0, <2>1, <2>2 DEF LeaseTypeOK, Held
    <3>2. PlacesAreOfStreams'
      BY <1>0, <2>1, <2>2, <3>1 DEF PlacesAreOfStreams, LeaseTypeOK, Held
    <3> QED
      BY <1>0, <3>1, <3>2, FewerPlaces DEF LeaseInv
  <2>3. CASE UNCHANGED <<leases, ended>> /\ LeaseFault
    <3>1. leaseFaults' \in Nat /\ leaseFaults' # 0
      BY <1>0, <2>3, FaultCounts DEF LeaseTypeOK
    <3>2. LeaseTypeOK' /\ Held' = Held
      BY <1>0, <2>1, <2>3, <3>1 DEF LeaseTypeOK, Held
    <3> QED
      BY <1>0, <3>1, <3>2, FewerPlaces DEF LeaseInv, PlacesAreOfStreams
  <2> QED
    BY <1>5, <2>2, <2>3 DEF Release
<1>6. ASSUME NEW s \in Streams, ClientGoes(s)
      PROVE  LeaseInv'
  <2>1. LeaseTypeOK' /\ Held' = Held /\ UNCHANGED <<stream, leaseFaults>>
    BY <1>0, <1>6 DEF ClientGoes, LeaseTypeOK, Held
  <2> QED
    BY <1>0, <2>1, FewerPlaces DEF LeaseInv, PlacesAreOfStreams
<1>7. ASSUME NEW s \in Streams, ProcessDies(s)
      PROVE  LeaseInv'
  <2>1. leaseFaults' \in Nat /\ leaseFaults' # 0
    BY <1>0, <1>7, FaultCounts DEF ProcessDies, LeaseTypeOK
  <2>2. LeaseTypeOK' /\ Held' = Held
    BY <1>0, <1>7, <2>1 DEF ProcessDies, Move, LeaseTypeOK, Held
  <2> QED
    BY <1>0, <2>1, <2>2, FewerPlaces DEF LeaseInv, PlacesAreOfStreams
<1>8. ASSUME NEW s \in Streams, LeaseEnds(s)
      PROVE  LeaseInv'
  <2>1. leaseFaults' \in Nat /\ (leaseFaults' = 0 => leaseFaults = 0)
    BY <1>0, <1>8, FaultCounts DEF LeaseEnds, LeaseTypeOK
  <2>2. LeaseTypeOK' /\ Held' \subseteq Held /\ UNCHANGED stream
    BY <1>0, <1>8, <2>1 DEF LeaseEnds, LeaseTypeOK, Held
  <2> QED
    BY <1>0, <2>1, <2>2, FewerPlaces DEF LeaseInv, PlacesAreOfStreams
<1> QED
  BY <1>1, <1>2, <1>3, <1>4, <1>5, <1>6, <1>7, <1>8 DEF LeaseNext, StreamStep

LEMMA LeaseInvHolds == LeaseSpec => []LeaseInv
BY LeaseInitInv, LeaseStep, PTL DEF LeaseSpec

----------------------------------------------------------------------------
(* The theorems                                                            *)

\* Everything keeps its type: leases and streams stay well formed.
THEOREM LeasesTyped == LeaseSpec => []LeaseTypeOK
<1>1. LeaseInv => LeaseTypeOK
  BY DEF LeaseInv
<1> QED
  BY <1>1, LeaseInvHolds, PTL

\* Without faults no way out of a stream keeps its place, for any number of
\* streams (the finally block of EventsService.stream).
THEOREM NoPlaceIsForgotten == LeaseSpec => []PlacesAreOfStreams
<1>1. LeaseInv => PlacesAreOfStreams
  BY DEF LeaseInv
<1> QED
  BY <1>1, LeaseInvHolds, PTL

\* The streams that read under a lease of their own stay within the limit,
\* however leases end and processes die (acquireConnectionLease).
THEOREM OpenStaysWithinLimit == LeaseSpec => []OpenWithinLimit
<1>1. ASSUME LeaseInv
      PROVE  OpenWithinLimit
  <2>1. Held \in SUBSET Streams /\ {s \in Held : stream[s] # "closed"} \in SUBSET Held
    BY <1>1 DEF LeaseInv, LeaseTypeOK, Held
  <2>2. /\ Cardinality({s \in Held : stream[s] # "closed"}) <= Cardinality(Held)
        /\ Cardinality({s \in Held : stream[s] # "closed"}) \in Nat
        /\ Cardinality(Held) \in Nat
    BY <2>1, SmallerSet
  <2> QED
    BY <1>1, <2>2 DEF OpenWithinLimit, LeaseInv, HeldWithinLimit
<1>2. LeaseInv => OpenWithinLimit
  BY <1>1
<1> QED
  BY <1>2, LeaseInvHolds, PTL

----------------------------------------------------------------------------
(***************************************************************************)
(* Context window                                                          *)
(***************************************************************************)

Sums(f, s, n) == f = [i \in 0 .. n |-> IF i = 0 THEN 0 ELSE f[i - 1] + s[i]]

LEMMA SumsExist ==
  ASSUME NEW s \in Seq(Nat), NEW n \in Nat, n <= Len(s)
  PROVE  \E f \in [0 .. n -> Nat] : Sums(f, s, n)
<1> DEFINE S == {i \in Nat : i <= Len(s) => \E f \in [0 .. i -> Nat] : Sums(f, s, i)}
<1>0. Len(s) \in Nat
  OBVIOUS
<1>1. 0 \in S
  <2> DEFINE f == [i \in 0 .. 0 |-> 0]
  <2>1. f \in [0 .. 0 -> Nat]
    OBVIOUS
  <2>2. f = [i \in 0 .. 0 |-> IF i = 0 THEN 0 ELSE f[i - 1] + s[i]]
    OBVIOUS
  <2> HIDE DEF f
  <2> QED
    BY <2>1, <2>2 DEF Sums
<1>2. ASSUME NEW i \in Nat, i \in S
      PROVE  i + 1 \in S
  <2> SUFFICES ASSUME i + 1 <= Len(s)
               PROVE  \E f \in [0 .. i + 1 -> Nat] : Sums(f, s, i + 1)
    OBVIOUS
  <2>1. PICK f \in [0 .. i -> Nat] : Sums(f, s, i)
    BY <1>0, <1>2
  <2> DEFINE last == f[i] + s[i + 1]
             h == [j \in 0 .. i + 1 |-> IF j = i + 1 THEN last ELSE f[j]]
  <2>2. last \in Nat
    <3>1. f[i] \in Nat /\ i + 1 \in 1 .. Len(s)
      BY <1>0, <2>1
    <3>2. s[i + 1] \in Nat
      BY <3>1
    <3> QED
      BY <3>1, <3>2
  <2> HIDE DEF last
  <2>3. h \in [0 .. i + 1 -> Nat] /\ h[i + 1] = last
    BY <2>1, <2>2
  <2>4. \A j \in 0 .. i : h[j] = f[j]
    OBVIOUS
  <2> HIDE DEF h
  <2>5. ASSUME NEW j \in 0 .. i + 1
        PROVE  h[j] = IF j = 0 THEN 0 ELSE h[j - 1] + s[j]
    <3>1. CASE j = i + 1
      <4>1. j - 1 = i /\ h[i] = f[i] /\ j # 0
        BY <2>4, <3>1
      <4> QED
        BY <2>3, <3>1, <4>1 DEF last
    <3>2. CASE j # i + 1
      <4>1. j \in 0 .. i /\ h[j] = f[j]
        BY <2>4, <3>2
      <4>2. f[j] = IF j = 0 THEN 0 ELSE f[j - 1] + s[j]
        BY <2>1, <4>1 DEF Sums
      <4>3. CASE j = 0
        BY <4>1, <4>2, <4>3
      <4>4. CASE j # 0
        <5>1. j - 1 \in 0 .. i
          BY <4>1, <4>4
        <5> QED
          BY <2>4, <4>1, <4>2, <4>4, <5>1
      <4> QED
        BY <4>3, <4>4
    <3> QED
      BY <3>1, <3>2
  <2>6. h = [j \in 0 .. i + 1 |-> IF j = 0 THEN 0 ELSE h[j - 1] + s[j]]
    <3> DEFINE g == [j \in 0 .. i + 1 |-> IF j = 0 THEN 0 ELSE h[j - 1] + s[j]]
    <3>1. \A j \in 0 .. i + 1 : h[j] = g[j]
      BY <2>5
    <3>2. DOMAIN g = 0 .. i + 1 /\ g = [j \in DOMAIN g |-> g[j]]
      OBVIOUS
    <3> HIDE DEF g
    <3>3. h = g
      BY <2>3, <3>1, <3>2
    <3> QED
      BY <3>3 DEF g
  <2> QED
    BY <2>3, <2>6 DEF Sums
<1> HIDE DEF S
<1>3. n \in S
  BY <1>1, <1>2, Induction
<1> QED
  BY <1>3 DEF S

LEMMA SumsSame ==
  ASSUME NEW s, NEW n \in Nat, NEW m \in Nat, n <= m,
         NEW f, Sums(f, s, n), NEW g, Sums(g, s, m)
  PROVE  f[n] = g[n]
<1> DEFINE S == {i \in Nat : i <= n => f[i] = g[i]}
<1>0. \A i \in 0 .. n : /\ f[i] = IF i = 0 THEN 0 ELSE f[i - 1] + s[i]
                        /\ g[i] = IF i = 0 THEN 0 ELSE g[i - 1] + s[i]
  <2> TAKE i \in 0 .. n
  <2>1. i \in 0 .. m
    OBVIOUS
  <2> QED
    BY <2>1 DEF Sums
<1>1. 0 \in S
  <2>1. 0 \in 0 .. n
    OBVIOUS
  <2> QED
    BY <1>0, <2>1
<1>2. ASSUME NEW i \in Nat, i \in S
      PROVE  i + 1 \in S
  <2> SUFFICES ASSUME i + 1 <= n
               PROVE  f[i + 1] = g[i + 1]
    OBVIOUS
  <2>1. f[i] = g[i] /\ i + 1 \in 0 .. n /\ (i + 1) - 1 = i /\ i + 1 # 0
    BY <1>2
  <2>2. f[i + 1] = f[i] + s[i + 1] /\ g[i + 1] = g[i] + s[i + 1]
    BY <1>0, <2>1
  <2> QED
    BY <2>1, <2>2
<1> HIDE DEF S
<1>3. n \in S
  BY <1>1, <1>2, Induction
<1> QED
  BY <1>3 DEF S

LEMMA SumIs ==
  ASSUME NEW s \in Seq(Nat), NEW n \in Nat, n <= Len(s)
  PROVE  \E f \in [0 .. n -> Nat] : Sums(f, s, n) /\ SumOfFirst(s, n) = f[n]
<1> DEFINE g == CHOOSE f : Sums(f, s, n)
<1>1. PICK f \in [0 .. n -> Nat] : Sums(f, s, n)
  BY SumsExist
<1>2. Sums(g, s, n)
  BY <1>1
<1>3. SumOfFirst(s, n) = g[n]
  BY DEF SumOfFirst, Sums
<1> HIDE DEF g
<1>4. f[n] = g[n]
  BY <1>1, <1>2, SumsSame
<1> QED
  BY <1>1, <1>3, <1>4

\* What the sum of the first tokens is.
LEMMA SumTyped ==
  ASSUME NEW s \in Seq(Nat), NEW n \in Nat, n <= Len(s)
  PROVE  SumOfFirst(s, n) \in Nat /\ SumOfFirst(s, 0) = 0
<1>1. SumOfFirst(s, n) \in Nat
  BY SumIs
<1>2. PICK f \in [0 .. 0 -> Nat] : Sums(f, s, 0) /\ SumOfFirst(s, 0) = f[0]
  <2>1. 0 \in Nat /\ 0 <= Len(s)
    OBVIOUS
  <2> QED
    BY <2>1, SumIs
<1>3. f[0] = 0
  <2>1. 0 \in 0 .. 0
    OBVIOUS
  <2> QED
    BY <1>2, <2>1 DEF Sums
<1> QED
  BY <1>1, <1>2, <1>3

LEMMA SumGrows ==
  ASSUME NEW s \in Seq(Nat), NEW n \in Nat, NEW m \in Nat, m = n + 1, m <= Len(s)
  PROVE  SumOfFirst(s, m) = SumOfFirst(s, n) + s[m] /\ s[m] \in Nat
<1>1. PICK f \in [0 .. m -> Nat] : Sums(f, s, m) /\ SumOfFirst(s, m) = f[m]
  BY SumIs
<1>2. PICK g \in [0 .. n -> Nat] : Sums(g, s, n) /\ SumOfFirst(s, n) = g[n]
  <2>1. n <= Len(s)
    OBVIOUS
  <2> QED
    BY <2>1, SumIs
<1>3. g[n] = f[n]
  <2>1. n <= m
    OBVIOUS
  <2> QED
    <3>1. Sums(g, s, n) /\ Sums(f, s, m)
      BY <1>1, <1>2
    <3>2. \A h, e : Sums(h, s, n) /\ Sums(e, s, m) => h[n] = e[n]
      BY <2>1, SumsSame
    <3> QED
      BY <3>1, <3>2
<1>4. f[m] = f[n] + s[m]
  <2>1. m \in 0 .. m /\ m # 0 /\ m - 1 = n
    OBVIOUS
  <2> QED
    BY <1>1, <2>1 DEF Sums
<1>5. s[m] \in Nat
  <2>1. m \in 1 .. Len(s)
    OBVIOUS
  <2> QED
    BY <2>1
<1> QED
  BY <1>1, <1>2, <1>3, <1>4, <1>5

----------------------------------------------------------------------------
(* Context window: what the fitting keeps                                  *)

Newest == NewestFirst(regulars)
SystemCut == IF cutRole = "system" THEN cut ELSE 0
\* What the system messages leave.
Left == (budget - FirstTokens(systemsKept)) - SystemCut

\* Tokens are neither lost nor counted twice, and each loop has stopped
\* where it had to.
Spent == ((FirstTokens(systemsKept) + LastTokens(regularsKept)) + cut) + remaining = budget
LoopsInOrder ==
    /\ fitting = "systems" => cutRole = "none" /\ regularsKept = 0
    /\ fitting = "regulars" => cutRole # "regular"
    /\ cutRole = "none" => cut = 0
    /\ cutRole = "system" => remaining = 0
SystemsFit ==
    (fitting # "systems" /\ systemsKept < Len(systems)) => FirstTokens(systemsKept + 1) > budget
RegularsFit ==
    fitting = "done" =>
        /\ regularsKept < Len(regulars) => LastTokens(regularsKept + 1) > Left
        /\ (regulars # <<>> /\ Left > Overhead) => regularsKept > 0 \/ cutRole = "regular"

WindowInv == WindowTypeOK /\ Spent /\ LoopsInOrder /\ SystemsFit /\ RegularsFit

LEMMA NewestTyped ==
  ASSUME WindowTypeOK
  PROVE  /\ systems \in Seq(Nat) /\ Newest \in Seq(Nat) /\ Len(Newest) = Len(regulars)
         /\ Len(systems) \in Nat /\ Len(regulars) \in Nat
         /\ \A n \in Nat : n < Len(regulars) => Newest[n + 1] = regulars[Len(regulars) - n]
<1>0. systems \in Seq(Sizes) /\ regulars \in Seq(Sizes) /\ Sizes \subseteq Nat
  BY WindowAssumption DEF WindowTypeOK, Sizes, Overhead
<1>1. /\ Len(regulars) \in Nat /\ Len(systems) \in Nat
      /\ systems \in [1 .. Len(systems) -> Nat] /\ regulars \in [1 .. Len(regulars) -> Nat]
  <2>1. /\ Len(regulars) \in Nat /\ Len(systems) \in Nat
        /\ systems \in [1 .. Len(systems) -> Sizes] /\ regulars \in [1 .. Len(regulars) -> Sizes]
    BY <1>0
  <2> QED
    BY <1>0, <2>1
<1>2. \A i \in 1 .. Len(regulars) : Len(regulars) - i + 1 \in 1 .. Len(regulars)
  BY <1>1
<1>3. \A i \in 1 .. Len(regulars) : regulars[Len(regulars) - i + 1] \in Nat
  BY <1>1, <1>2
<1>4. Newest \in [1 .. Len(regulars) -> Nat]
  BY <1>3 DEF Newest, NewestFirst
<1>5. Newest \in Seq(Nat) /\ Len(Newest) = Len(regulars)
  BY <1>1, <1>4
<1>6. \A n \in Nat : n < Len(regulars) => Newest[n + 1] = regulars[Len(regulars) - n]
  <2> TAKE n \in Nat
  <2> HAVE n < Len(regulars)
  <2>1. n + 1 \in 1 .. Len(regulars) /\ Len(regulars) - (n + 1) + 1 = Len(regulars) - n
    BY <1>1
  <2> QED
    BY <2>1 DEF Newest, NewestFirst
<1>7. systems \in Seq(Nat)
  BY <1>1
<1> QED
  BY <1>1, <1>5, <1>6, <1>7

\* The sums the invariant is about.
LEMMA TokensAre ==
  ASSUME WindowTypeOK
  PROVE  /\ FirstTokens(systemsKept) \in Nat /\ LastTokens(regularsKept) \in Nat
         /\ FirstTokens(0) = 0 /\ LastTokens(0) = 0
         /\ systemsKept < Len(systems) =>
              FirstTokens(systemsKept + 1) = FirstTokens(systemsKept) + systems[systemsKept + 1]
              /\ systems[systemsKept + 1] \in Nat
         /\ regularsKept < Len(regulars) =>
              LastTokens(regularsKept + 1) =
                LastTokens(regularsKept) + regulars[Len(regulars) - regularsKept]
              /\ regulars[Len(regulars) - regularsKept] \in Nat
<1>0. /\ systems \in Seq(Nat) /\ Newest \in Seq(Nat) /\ Len(Newest) = Len(regulars)
      /\ Len(systems) \in Nat /\ Len(regulars) \in Nat
      /\ systemsKept \in Nat /\ regularsKept \in Nat
      /\ systemsKept <= Len(systems) /\ regularsKept <= Len(Newest)
  BY NewestTyped DEF WindowTypeOK
<1>1. /\ FirstTokens(systemsKept) \in Nat /\ FirstTokens(0) = 0
  BY <1>0, SumTyped DEF FirstTokens
<1>2. /\ LastTokens(regularsKept) \in Nat /\ LastTokens(0) = 0
  BY <1>0, SumTyped DEF LastTokens, Newest
<1>3. ASSUME systemsKept < Len(systems)
      PROVE  FirstTokens(systemsKept + 1) = FirstTokens(systemsKept) + systems[systemsKept + 1]
             /\ systems[systemsKept + 1] \in Nat
  <2>1. PICK n \in Nat, m \in Nat : n = systemsKept /\ m = n + 1 /\ m <= Len(systems)
    BY <1>0, <1>3
  <2>2. SumOfFirst(systems, m) = SumOfFirst(systems, n) + systems[m] /\ systems[m] \in Nat
    BY <1>0, <2>1, SumGrows
  <2> QED
    BY <2>1, <2>2 DEF FirstTokens
<1>4. ASSUME regularsKept < Len(regulars)
      PROVE  LastTokens(regularsKept + 1) =
                LastTokens(regularsKept) + regulars[Len(regulars) - regularsKept]
             /\ regulars[Len(regulars) - regularsKept] \in Nat
  <2>1. PICK n \in Nat, m \in Nat : n = regularsKept /\ m = n + 1 /\ m <= Len(Newest)
    BY <1>0, <1>4
  <2>2. SumOfFirst(Newest, m) = SumOfFirst(Newest, n) + Newest[m] /\ Newest[m] \in Nat
    BY <1>0, <2>1, SumGrows
  <2>3. Newest[m] = regulars[Len(regulars) - n]
    BY <1>4, <2>1, NewestTyped
  <2> QED
    BY <2>1, <2>2, <2>3 DEF LastTokens, Newest
<1> QED
  BY <1>1, <1>2, <1>3, <1>4

LEMMA InitWindow == WindowInit => WindowInv
<1> SUFFICES ASSUME WindowInit
             PROVE  WindowInv
  OBVIOUS
<1>1. systems \in Seq(Sizes) /\ regulars \in Seq(Sizes)
  <2>1. ASSUME NEW s \in SizesUpTo(MaxMessages)
        PROVE  s \in Seq(Sizes)
    <3>1. PICK m \in 0 .. MaxMessages : s \in [1 .. m -> Sizes]
      BY <2>1 DEF SizesUpTo
    <3>2. m \in Nat
      BY WindowAssumption
    <3> QED
      BY <3>1, <3>2
  <2> QED
    BY <2>1 DEF WindowInit
<1>2. budget \in Nat
  <2>1. PICK window \in 2 .. MaxWindow, output \in 1 .. MaxWindow : budget = InputBudget(window, output)
    BY DEF WindowInit
  <2>2. window \in Int /\ output \in Int
    BY WindowAssumption
  <2> QED
    BY <2>1, <2>2 DEF InputBudget, Greater, Lesser
<1>3. WindowTypeOK
  BY <1>1, <1>2 DEF WindowInit, WindowTypeOK
<1>4. Spent
  BY <1>2, <1>3, TokensAre DEF WindowInit, Spent
<1> QED
  BY <1>3, <1>4 DEF WindowInit, WindowInv, LoopsInOrder, SystemsFit, RegularsFit

LEMMA WindowStep ==
  ASSUME WindowInv, [WindowNext]_windowVars
  PROVE  WindowInv'
<1>0. /\ WindowTypeOK /\ Spent /\ LoopsInOrder /\ SystemsFit /\ RegularsFit
      /\ Len(systems) \in Nat /\ Len(regulars) \in Nat
      /\ FirstTokens(systemsKept) \in Nat /\ LastTokens(regularsKept) \in Nat
      /\ systemsKept \in 0 .. Len(systems) /\ regularsKept \in 0 .. Len(regulars)
      /\ budget \in Nat /\ cut \in Nat /\ remaining \in Nat
  BY NewestTyped, TokensAre DEF WindowInv, WindowTypeOK
<1>1. ASSUME UNCHANGED windowVars
      PROVE  WindowInv'
  BY <1>0, <1>1 DEF windowVars, WindowInv, WindowTypeOK, Spent, LoopsInOrder, SystemsFit, RegularsFit,
        FirstTokens, LastTokens, Left, SystemCut
<1>i. ASSUME Inputs, systemsKept' = systemsKept
      PROVE  FirstTokens(systemsKept)' = FirstTokens(systemsKept)
             /\ FirstTokens(systemsKept + 1)' = FirstTokens(systemsKept + 1)
  BY <1>i DEF Inputs, FirstTokens
<1>j. ASSUME Inputs, regularsKept' = regularsKept
      PROVE  LastTokens(regularsKept)' = LastTokens(regularsKept)
             /\ LastTokens(regularsKept + 1)' = LastTokens(regularsKept + 1)
  BY <1>j DEF Inputs, LastTokens
<1>2. CASE FitSystem
  <2>0. fitting = "systems" /\ Inputs /\ regularsKept' = regularsKept
        /\ cutRole = "none" /\ regularsKept = 0 /\ cut = 0
    BY <1>0, <1>2 DEF FitSystem, LoopsInOrder
  <2>r. LastTokens(regularsKept)' = LastTokens(regularsKept)
    BY <1>j, <2>0
  <2>1. CASE systemsKept = Len(systems) /\ fitting' = "regulars"
             /\ UNCHANGED <<systemsKept, cut, cutRole, remaining>>
    <3>1. FirstTokens(systemsKept)' = FirstTokens(systemsKept)
      BY <1>i, <2>0, <2>1
    <3>2. WindowTypeOK'
      BY <1>0, <2>0, <2>1 DEF WindowTypeOK, Inputs
    <3>3. Spent'
      BY <1>0, <2>0, <2>1, <2>r, <3>1 DEF Spent, Inputs
    <3> QED
      BY <1>0, <2>0, <2>1, <3>2, <3>3 DEF WindowInv, LoopsInOrder, SystemsFit, RegularsFit, Inputs
  <2>2. CASE systemsKept # Len(systems)
    <3> DEFINE tokens == systems[systemsKept + 1]
    <3>0. /\ systemsKept < Len(systems) /\ tokens \in Nat
          /\ FirstTokens(systemsKept + 1) = FirstTokens(systemsKept) + tokens
      BY <1>0, <2>2, TokensAre
    <3>s. \/ /\ tokens <= remaining
             /\ systemsKept' = systemsKept + 1 /\ remaining' = remaining - tokens
             /\ UNCHANGED <<fitting, cut, cutRole>>
          \/ /\ tokens > remaining
             /\ Cut("system", tokens) /\ fitting' = "regulars"
             /\ UNCHANGED systemsKept
      BY <1>2, <2>2 DEF FitSystem
    <3> HIDE DEF tokens
    <3>1. CASE /\ tokens <= remaining
               /\ systemsKept' = systemsKept + 1 /\ remaining' = remaining - tokens
               /\ UNCHANGED <<fitting, cut, cutRole>>
      <4>1. FirstTokens(systemsKept)' = FirstTokens(systemsKept) + tokens
        BY <2>0, <3>0, <3>1 DEF FirstTokens, Inputs
      <4>2. WindowTypeOK'
        <5>1. systemsKept + 1 \in 0 .. Len(systems) /\ remaining - tokens \in Nat
          BY <1>0, <3>0, <3>1
        <5> QED
          BY <1>0, <2>0, <3>1, <5>1 DEF WindowTypeOK, Inputs
      <4>3. Spent'
        BY <1>0, <2>0, <2>r, <3>0, <3>1, <4>1 DEF Spent, Inputs
      <4> QED
        BY <1>0, <2>0, <3>1, <4>2, <4>3 DEF WindowInv, LoopsInOrder, SystemsFit, RegularsFit
    <3>2. CASE /\ tokens > remaining
               /\ Cut("system", tokens) /\ fitting' = "regulars"
               /\ UNCHANGED systemsKept
      <4>1. /\ FirstTokens(systemsKept)' = FirstTokens(systemsKept)
            /\ FirstTokens(systemsKept + 1)' = FirstTokens(systemsKept + 1)
        BY <1>i, <2>0, <3>2
      <4>2. WindowTypeOK'
        BY <1>0, <2>0, <3>2 DEF WindowTypeOK, Inputs, Cut
      <4>3. Spent'
        BY <1>0, <2>0, <2>r, <3>2, <4>1 DEF Spent, Inputs, Cut
      <4>4. FirstTokens(systemsKept + 1)' > budget'
        <5>1. LastTokens(regularsKept) = 0
          BY <1>0, <2>0, TokensAre
        <5>2. FirstTokens(systemsKept) + remaining = budget
          BY <1>0, <2>0, <5>1 DEF Spent
        <5>3. FirstTokens(systemsKept) + tokens > budget
          BY <1>0, <3>0, <3>2, <5>2
        <5> QED
          BY <2>0, <3>0, <4>1, <5>3 DEF Inputs
      <4>5. SystemsFit' /\ LoopsInOrder' /\ RegularsFit'
        BY <1>0, <2>0, <3>2, <4>4 DEF SystemsFit, LoopsInOrder, RegularsFit, Cut
      <4> QED
        BY <4>2, <4>3, <4>5 DEF WindowInv
    <3> QED
      BY <3>s, <3>1, <3>2
  <2> QED
    BY <1>2, <2>1, <2>2 DEF FitSystem
<1>3. CASE FitRegular
  <2>0. fitting = "regulars" /\ Inputs /\ systemsKept' = systemsKept /\ cutRole # "regular"
    BY <1>0, <1>3 DEF FitRegular, LoopsInOrder
  <2>f. /\ FirstTokens(systemsKept)' = FirstTokens(systemsKept)
        /\ FirstTokens(systemsKept + 1)' = FirstTokens(systemsKept + 1)
    BY <1>i, <2>0
  <2>s. SystemsFit'
    BY <1>0, <2>0, <2>f DEF SystemsFit, Inputs
  <2>l. SystemCut = cut /\ Left \in Int /\ Left = LastTokens(regularsKept) + remaining
    <3>1. SystemCut = cut
      BY <1>0, <2>0 DEF SystemCut, LoopsInOrder, WindowTypeOK
    <3> QED
      BY <1>0, <3>1 DEF Left, Spent
  <2>1. CASE regularsKept = Len(regulars) /\ fitting' = "done"
             /\ UNCHANGED <<regularsKept, cut, cutRole, remaining>>
    <3>1. LastTokens(regularsKept)' = LastTokens(regularsKept)
      BY <1>j, <2>0, <2>1
    <3>2. WindowTypeOK'
      BY <1>0, <2>0, <2>1 DEF WindowTypeOK, Inputs
    <3>3. Spent'
      BY <1>0, <2>0, <2>1, <2>f, <3>1 DEF Spent, Inputs
    <3>4. regulars # <<>> => regularsKept > 0
      BY <1>0, <2>1 DEF WindowTypeOK
    <3> QED
      BY <1>0, <2>0, <2>1, <2>s, <3>2, <3>3, <3>4 DEF WindowInv, LoopsInOrder, RegularsFit, Inputs
  <2>2. CASE regularsKept # Len(regulars)
    <3> DEFINE tokens == regulars[Len(regulars) - regularsKept]
    <3>0. /\ regularsKept < Len(regulars) /\ tokens \in Nat
          /\ LastTokens(regularsKept + 1) = LastTokens(regularsKept) + tokens
      BY <1>0, <2>2, TokensAre
    <3>s. \/ /\ tokens <= remaining
             /\ regularsKept' = regularsKept + 1 /\ remaining' = remaining - tokens
             /\ UNCHANGED <<fitting, cut, cutRole>>
          \/ /\ tokens > remaining
             /\ IF regularsKept = 0 THEN Cut("regular", tokens)
                ELSE UNCHANGED <<cut, cutRole, remaining>>
             /\ fitting' = "done"
             /\ UNCHANGED regularsKept
      <4>1. tokens \in Int /\ remaining \in Int
        BY <1>0, <3>0
      <4> QED
        BY <1>3, <2>2, <4>1 DEF FitRegular, Stops
    <3> HIDE DEF tokens
    <3>1. CASE /\ tokens <= remaining
               /\ regularsKept' = regularsKept + 1 /\ remaining' = remaining - tokens
               /\ UNCHANGED <<fitting, cut, cutRole>>
      <4>1. LastTokens(regularsKept)' = LastTokens(regularsKept) + tokens
        BY <2>0, <3>0, <3>1 DEF LastTokens, Inputs
      <4>2. WindowTypeOK'
        <5>1. regularsKept + 1 \in 0 .. Len(regulars) /\ remaining - tokens \in Nat
          BY <1>0, <3>0, <3>1
        <5> QED
          BY <1>0, <2>0, <3>1, <5>1 DEF WindowTypeOK, Inputs
      <4>3. Spent'
        BY <1>0, <2>0, <2>f, <3>0, <3>1, <4>1 DEF Spent, Inputs
      <4>4. remaining = 0 => remaining' = 0
        BY <3>0, <3>1
      <4>5. LoopsInOrder'
        BY <1>0, <2>0, <3>1, <4>4 DEF LoopsInOrder
      <4> QED
        BY <1>0, <2>0, <2>s, <3>1, <4>2, <4>3, <4>5 DEF WindowInv, RegularsFit
    <3>2. CASE /\ tokens > remaining
               /\ IF regularsKept = 0 THEN Cut("regular", tokens)
                  ELSE UNCHANGED <<cut, cutRole, remaining>>
               /\ fitting' = "done"
               /\ UNCHANGED regularsKept
      <4>0. /\ LastTokens(regularsKept)' = LastTokens(regularsKept)
            /\ LastTokens(regularsKept + 1)' = LastTokens(regularsKept + 1)
        BY <1>j, <2>0, <3>2
      <4>c. \/ /\ regularsKept = 0 /\ remaining > Overhead
               /\ cut' = remaining /\ cutRole' = "regular" /\ remaining' = 0
            \/ (regularsKept # 0 \/ ~(remaining > Overhead))
               /\ UNCHANGED <<cut, cutRole, remaining>>
        BY <3>2 DEF Cut
      <4>1. Left' = Left
        <5>1. CASE cutRole' = "regular" /\ regularsKept = 0
          <6>1. SystemCut' = 0
            BY <5>1 DEF SystemCut
          <6>2. SystemCut = 0
            BY <1>0, <2>0, <4>c, <5>1 DEF LoopsInOrder, SystemCut, WindowTypeOK, Overhead
          <6> QED
            BY <2>0, <2>f, <6>1, <6>2 DEF Left, Inputs
        <5>2. CASE UNCHANGED <<cut, cutRole>>
          BY <2>0, <2>f, <5>2 DEF Left, SystemCut, Inputs
        <5> QED
          BY <4>c, <5>1, <5>2
      <4>2. WindowTypeOK'
        BY <1>0, <2>0, <3>2, <4>c DEF WindowTypeOK, Inputs
      <4>3. Spent'
        <5>1. CASE UNCHANGED <<cut, remaining>>
          BY <1>0, <2>0, <2>f, <4>0, <5>1 DEF Spent, Inputs
        <5>2. CASE remaining > Overhead /\ cut' = remaining /\ remaining' = 0
          <6>1. cut = 0
            BY <1>0, <2>0, <5>2 DEF LoopsInOrder, WindowTypeOK, Overhead
          <6> QED
            BY <1>0, <2>0, <2>f, <4>0, <5>2, <6>1 DEF Spent, Inputs
        <5> QED
          BY <4>c, <5>1, <5>2
      <4>4. LastTokens(regularsKept + 1)' > Left'
        BY <1>0, <2>l, <3>0, <3>2, <4>0, <4>1
      <4>5. Left' > Overhead => regularsKept' > 0 \/ cutRole' = "regular"
        <5>1. regularsKept = 0 => Left = remaining
          BY <1>0, <2>l, TokensAre
        <5> QED
          BY <1>0, <3>2, <4>1, <4>c, <5>1
      <4> QED
        BY <1>0, <2>0, <2>s, <3>2, <4>2, <4>3, <4>4, <4>5, <4>c
           DEF WindowInv, LoopsInOrder, RegularsFit
    <3> QED
      BY <3>s, <3>1, <3>2
  <2> QED
    BY <1>3, <2>1, <2>2 DEF FitRegular
<1> QED
  BY <1>1, <1>2, <1>3 DEF WindowNext

LEMMA WindowInvHolds == WindowSpec => []WindowInv
BY InitWindow, WindowStep, PTL DEF WindowSpec

\* Every variable of the fitting keeps its type; what remains never goes
\* below zero.
THEOREM WindowTyped == WindowSpec => []WindowTypeOK
<1>1. WindowInv => WindowTypeOK
  BY DEF WindowInv
<1> QED
  BY <1>1, WindowInvHolds, PTL

\* The request fits the window, no message is left out that would have fitted
\* and the newest one is there if there is room for any of it, for any
\* messages and any window.
THEOREM WindowStaysBestFit == WindowSpec => []WindowIsBestFit
<1>1. ASSUME WindowInv
      PROVE  WindowIsBestFit
  <2>0. /\ WindowTypeOK /\ Spent /\ LoopsInOrder /\ SystemsFit /\ RegularsFit
        /\ FirstTokens(systemsKept) \in Nat /\ LastTokens(regularsKept) \in Nat
        /\ cut \in Nat /\ remaining \in Nat /\ budget \in Nat
    BY <1>1, TokensAre DEF WindowInv, WindowTypeOK
  <2>1. Total <= budget
    BY <2>0 DEF Total, Spent
  <2> QED
    BY <2>0, <2>1 DEF WindowIsBestFit, SystemsFit, RegularsFit, Left, SystemCut
<1> QED
  BY <1>1, WindowInvHolds, PTL

----------------------------------------------------------------------------
(***************************************************************************)
(* Provider stream                                                         *)
(***************************************************************************)

Symbols == [char : {"text", "part", "CR", "LF"}, frame : 0 .. Len(frames)]

IsText(x) == x.char = "text"

\* The lines of data in s are those of the frames behind c up to d.
InOrder(s, c, d) ==
    /\ \A i \in DOMAIN s : IsText(s[i]) => s[i].frame \in c + 1 .. d
    /\ \A i, j \in DOMAIN s :
          (i < j /\ IsText(s[i]) /\ IsText(s[j])) => s[i].frame < s[j].frame
    /\ \A f \in c + 1 .. d : \E i \in DOMAIN s : IsText(s[i]) /\ s[i].frame = f

\* The lines of data among the first p symbols of the body.
Texts(p) == (p + FrameLength - 1) \div FrameLength

\* The first c frames were handled, and nothing behind them.
Got(c) ==
    /\ \A i \in 1 .. c : frames[i] \notin {"DONE", "broken"}
    /\ Received \subseteq Wanted /\ Received \subseteq 1 .. c
    /\ \A i, j \in DOMAIN got : i < j => got[i] < got[j]
    /\ \A w \in Wanted : w <= c => w \in Received

Reads ==
    phase \in {"request", "body"} =>
        \E c, d \in 0 .. Len(frames) :
            /\ c <= d /\ InOrder(buffer, c, d) /\ Got(c)
            /\ ~closed => d = Texts(arrived)

\* The body with LF line ends, and how much of it p symbols hold.
Plain(q) == IF (q - 1) % 3 = 0 THEN Symbol("text", (q - 1) \div 3 + 1) ELSE LF
Plainly(p) == IF eol = "CRLF" THEN 3 * (p \div 5) + ((p % 5) + 1) \div 2 ELSE p

\* Of the first p symbols s holds what is behind the first c frames.
HoldsPlain(s, c, p) ==
    /\ 3 * c + Len(s) = Plainly(p)
    /\ \A j \in DOMAIN s : s[j] = Plain(3 * c + j)

Exactly ==
    (phase \in {"request", "body"} /\ ~split /\ ~closed) =>
        \E c \in 0 .. Len(frames) : HoldsPlain(buffer, c, arrived)

Starts ==
    /\ phase = "request" => arrived = 0 /\ got = <<>> /\ buffer = <<>> /\ ~closed
    /\ phase \in {"request", "body"} => error = NoError
    /\ closed => arrived = BodyLength

Ends ==
    /\ Received \subseteq Wanted
    /\ \A i, j \in DOMAIN got : i < j => got[i] < got[j]
    /\ \A w \in Wanted, g \in Received : w < g => w \in Received
    /\ error.retry => got = <<>>
    /\ (phase = "done" /\ ~closed) => Wanted \subseteq Received

Refused ==
    (error.code = "MALFORMED_STREAM" /\ arrived > 0 /\ ~split /\ ~closed) =>
          \E i \in DOMAIN frames : frames[i] = "broken"

ProviderInv == ProviderTypeOK /\ Starts /\ Reads /\ Exactly /\ Ends /\ Refused

----------------------------------------------------------------------------
(* Cutting the buffer                                                      *)

LEMMA BoundaryIs ==
  ASSUME NEW s \in Seq(Symbols)
  PROVE  /\ Boundary(s) = 0 => \A i \in 1 .. Len(s) : ~(i < Len(s) /\ s[i] = LF /\ s[i + 1] = LF)
         /\ Boundary(s) # 0 => /\ Boundary(s) \in 1 .. Len(s) /\ Boundary(s) < Len(s)
                               /\ s[Boundary(s)] = LF /\ s[Boundary(s) + 1] = LF
                               /\ \A i \in 1 .. Len(s) : (i < Len(s) /\ s[i] = LF /\ s[i + 1] = LF)
                                                            => Boundary(s) <= i
<1> DEFINE places == {i \in 1 .. Len(s) : i < Len(s) /\ s[i] = LF /\ s[i + 1] = LF}
<1>0. Len(s) \in Nat /\ places \subseteq 1 .. Len(s) /\ places \subseteq Nat /\ 0 \notin places
  OBVIOUS
<1>1. Boundary(s) = IF places = {} THEN 0 ELSE CHOOSE i \in places : \A j \in places : i <= j
  BY DEF Boundary
<1>2. CASE places = {}
  <2>1. Boundary(s) = 0
    BY <1>1, <1>2
  <2> QED
    BY <1>2, <2>1
<1>3. CASE places # {}
  <2> HIDE DEF places
  <2>1. \E i \in places : \A j \in places : i <= j
    BY <1>0, <1>3, LeastElement
  <2>2. Boundary(s) \in places /\ \A j \in places : Boundary(s) <= j
    BY <1>1, <1>3, <2>1
  <2>3. Boundary(s) # 0
    BY <1>0, <2>2
  <2> USE DEF places
  <2> QED
    BY <2>2, <2>3
<1> QED
  BY <1>2, <1>3

\* Two line ends part the lines of data before them from those behind them.
LEMMA OrderIsCut ==
  ASSUME NEW s \in Seq(Symbols), NEW c \in Nat, NEW d \in Nat, c <= d, InOrder(s, c, d),
         NEW b \in 1 .. Len(s), b < Len(s), ~IsText(s[b]), ~IsText(s[b + 1])
  PROVE  \E m \in c .. d : /\ InOrder(SubSeq(s, 1, b - 1), c, m)
                           /\ InOrder(SubSeq(s, b + 2, Len(s)), m, d)
<1>0. PICK l \in Nat : l = Len(s) /\ DOMAIN s = 1 .. l
  OBVIOUS
<1> DEFINE T == {m \in Nat : c <= m /\ \A i \in 1 .. b - 1 : IsText(s[i]) => s[i].frame <= m}
           h == SubSeq(s, 1, b - 1)
           t == SubSeq(s, b + 2, l)
<1>1. \A i \in 1 .. l : IsText(s[i]) => s[i].frame \in c + 1 .. d
  BY <1>0 DEF InOrder
<1>2. \A i, j \in 1 .. l : (i < j /\ IsText(s[i]) /\ IsText(s[j])) => s[i].frame < s[j].frame
  BY <1>0 DEF InOrder
<1>3. \A f \in c + 1 .. d : \E i \in 1 .. l : IsText(s[i]) /\ s[i].frame = f
  BY <1>0 DEF InOrder
<1>4. DOMAIN h = 1 .. b - 1 /\ \A i \in 1 .. b - 1 : h[i] = s[i]
  BY <1>0
<1>5. DOMAIN t = 1 .. l - b - 1 /\ \A i \in 1 .. l - b - 1 : t[i] = s[b + 1 + i]
  BY <1>0
<1> HIDE DEF h, t
<1>6. d \in T
  <2>1. ASSUME NEW i \in 1 .. b - 1, IsText(s[i])
        PROVE  s[i].frame <= d
    <3>1. i \in 1 .. l
      BY <1>0
    <3> QED
      BY <1>1, <2>1, <3>1
  <2> QED
    BY <2>1
<1>7. T \subseteq Nat /\ T # {}
  BY <1>6
<1>8. PICK m \in T : \A n \in T : m <= n
  BY <1>7, LeastElement
<1>9. m \in Nat /\ m \in c .. d /\ \A i \in 1 .. b - 1 : IsText(s[i]) => s[i].frame <= m
  BY <1>6, <1>8
<1>10. ASSUME m # c
       PROVE  \E i \in 1 .. b - 1 : IsText(s[i]) /\ s[i].frame = m
  <2>1. m - 1 \in Nat /\ c <= m - 1 /\ m - 1 \notin T
    BY <1>8, <1>9, <1>10
  <2>2. PICK i \in 1 .. b - 1 : IsText(s[i]) /\ ~(s[i].frame <= m - 1)
    BY <2>1
  <2>3. i \in 1 .. l
    BY <1>0
  <2>4. s[i].frame \in c + 1 .. d
    BY <1>1, <2>2, <2>3
  <2>5. s[i].frame <= m
    BY <1>9, <2>2
  <2>6. s[i].frame = m
    BY <1>9, <2>2, <2>4, <2>5
  <2> QED
    BY <2>2, <2>6
<1>11. \A i \in 1 .. b - 1 : IsText(s[i]) => s[i].frame \in c + 1 .. m
  <2> SUFFICES ASSUME NEW i \in 1 .. b - 1, IsText(s[i]) PROVE s[i].frame \in c + 1 .. m
    OBVIOUS
  <2>1. i \in 1 .. l
    BY <1>0
  <2>2. s[i].frame \in c + 1 .. d /\ s[i].frame <= m
    BY <1>1, <1>9, <2>1
  <2> QED
    BY <1>9, <2>2
<1>12. \A i \in b + 2 .. l : IsText(s[i]) => s[i].frame \in m + 1 .. d
  <2> SUFFICES ASSUME NEW i \in b + 2 .. l, IsText(s[i]) PROVE s[i].frame \in m + 1 .. d
    OBVIOUS
  <2>1. i \in 1 .. l /\ s[i].frame \in c + 1 .. d
    BY <1>0, <1>1
  <2>2. CASE m = c
    BY <2>1, <2>2
  <2>3. CASE m # c
    <3>1. PICK j \in 1 .. b - 1 : IsText(s[j]) /\ s[j].frame = m
      BY <1>10, <2>3
    <3>2. j \in 1 .. l /\ j < i
      BY <1>0
    <3>3. m < s[i].frame
      BY <1>2, <2>1, <3>1, <3>2
    <3> QED
      BY <1>9, <2>1, <3>3
  <2> QED
    BY <2>2, <2>3
<1>13. \A i \in 1 .. l : IsText(s[i]) => i \in 1 .. b - 1 \/ i \in b + 2 .. l
  BY <1>0
<1>14. InOrder(h, c, m)
  <2>1. \A i \in DOMAIN h : IsText(h[i]) => h[i].frame \in c + 1 .. m
    BY <1>4, <1>11
  <2>2. ASSUME NEW i \in DOMAIN h, NEW j \in DOMAIN h, i < j, IsText(h[i]), IsText(h[j])
        PROVE  h[i].frame < h[j].frame
    <3>1. i \in 1 .. l /\ j \in 1 .. l /\ h[i] = s[i] /\ h[j] = s[j]
      BY <1>0, <1>4
    <3> QED
      BY <1>2, <2>2, <3>1
  <2>3. ASSUME NEW f \in c + 1 .. m
        PROVE  \E i \in DOMAIN h : IsText(h[i]) /\ h[i].frame = f
    <3>1. f \in c + 1 .. d /\ f <= m /\ f \in Nat
      BY <1>9
    <3>2. PICK i \in 1 .. l : IsText(s[i]) /\ s[i].frame = f
      BY <1>3, <3>1
    <3>3. ~(f \in m + 1 .. d)
      BY <1>9, <3>1
    <3>4. i \in 1 .. b - 1
      BY <1>12, <1>13, <3>2, <3>3
    <3> QED
      BY <1>4, <3>2, <3>4
  <2> QED
    BY <2>1, <2>2, <2>3 DEF InOrder
<1>15. InOrder(t, m, d)
  <2>0. \A i \in 1 .. l - b - 1 : b + 1 + i \in b + 2 .. l /\ b + 1 + i \in 1 .. l
    BY <1>0
  <2>1. \A i \in DOMAIN t : IsText(t[i]) => t[i].frame \in m + 1 .. d
    BY <1>5, <1>12, <2>0
  <2>2. ASSUME NEW i \in DOMAIN t, NEW j \in DOMAIN t, i < j, IsText(t[i]), IsText(t[j])
        PROVE  t[i].frame < t[j].frame
    <3>1. /\ b + 1 + i \in 1 .. l /\ b + 1 + j \in 1 .. l
          /\ t[i] = s[b + 1 + i] /\ t[j] = s[b + 1 + j]
      BY <1>5, <2>0
    <3>2. b + 1 + i < b + 1 + j
      BY <1>0, <1>5, <2>2
    <3> QED
      BY <1>2, <2>2, <3>1, <3>2
  <2>3. ASSUME NEW f \in m + 1 .. d
        PROVE  \E i \in DOMAIN t : IsText(t[i]) /\ t[i].frame = f
    <3>1. f \in c + 1 .. d /\ f \in Nat /\ ~(f \in c + 1 .. m)
      BY <1>9
    <3>2. PICK i \in 1 .. l : IsText(s[i]) /\ s[i].frame = f
      BY <1>3, <3>1
    <3>3. i \in b + 2 .. l
      BY <1>11, <1>13, <3>1, <3>2
    <3>4. i - b - 1 \in 1 .. l - b - 1 /\ b + 1 + (i - b - 1) = i
      BY <1>0, <3>3
    <3>5. t[i - b - 1] = s[i]
      BY <1>5, <3>4
    <3> QED
      BY <1>5, <3>2, <3>4, <3>5
  <2> QED
    BY <2>1, <2>2, <2>3 DEF InOrder
<1> QED
  BY <1>0, <1>9, <1>14, <1>15 DEF h, t

----------------------------------------------------------------------------
(* A frame is handled                                                      *)

LEMMA KeptText ==
  ASSUME NEW s \in Seq(Symbols), NEW i \in DOMAIN s
  PROVE  /\ i \in Data(s) <=> (s[i].char = "part" \/ (IsText(s[i]) /\ frames[s[i].frame] # "comment"))
         /\ s[i] \in Symbols
  BY DEF Data, IsText

\* What a frame of the body does to a call: it goes on with all that was wanted
\* so far, it is over and has all that was wanted, or it fails.
LEMMA FrameIsHandled ==
  ASSUME ProviderTypeOK, Starts, phase = "body",
         NEW otherwise, UNCHANGED frames,
         NEW s \in Seq(Symbols), NEW c \in Nat, NEW m \in Nat, c <= m, m <= Len(frames),
         InOrder(s, c, m), Got(c), Receive(s, otherwise)
  PROVE  \/ phase' = otherwise /\ error' = error /\ Got(m)' /\ got' \in Seq(1 .. Len(frames))
         \/ phase' = "done" /\ error' = error /\ got' = got /\ Wanted \subseteq Received
         \/ /\ phase' = "failed" /\ got' = got
            /\ error' = [code |-> "MALFORMED_STREAM", retry |-> got = <<>>]
<1>0. /\ Len(frames) \in Nat /\ DOMAIN frames = 1 .. Len(frames)
      /\ \A i \in 1 .. Len(frames) : frames[i] \in FrameKinds
      /\ got \in Seq(1 .. Len(frames))
  BY DEF ProviderTypeOK
<1>1. ASSUME NEW w \in c + 1 .. m, frames[w] # "comment"
      PROVE  \E i \in Data(s) : IsText(s[i]) /\ s[i].frame = w
  <2>1. PICK i \in DOMAIN s : IsText(s[i]) /\ s[i].frame = w
    BY DEF InOrder
  <2>2. i \in Data(s)
    BY <1>1, <2>1, KeptText
  <2> QED
    BY <2>1, <2>2
<1>2. \A w \in 1 .. m : w \in 1 .. c \/ w \in c + 1 .. m
  OBVIOUS
<1>2a. \A i \in 1 .. c : frames[i] \notin {"DONE", "broken"}
  BY DEF Got
<1>3. Wanted = {w \in 1 .. Len(frames) : /\ \A j \in 1 .. w : frames[j] \notin {"DONE", "broken"}
                                         /\ frames[w] = "delta"}
  BY <1>0 DEF Wanted, Readable
<1>4. Wanted' = Wanted
  BY DEF Wanted, Readable
<1>5. ASSUME got' = got, \A w \in c + 1 .. m : frames[w] \notin {"DONE", "broken", "delta"}
      PROVE  Got(m)' /\ got' \in Seq(1 .. Len(frames))
  <2>1. Received' = Received
    BY <1>5 DEF Received
  <2>2. \A i \in 1 .. m : frames[i] \notin {"DONE", "broken"}
    BY <1>2, <1>2a, <1>5
  <2>3. Received \subseteq Wanted /\ Received \subseteq 1 .. m
    <3>1. 1 .. c \subseteq 1 .. m
      OBVIOUS
    <3> QED
      BY <3>1 DEF Got
  <2>4. ASSUME NEW w \in Wanted, w <= m
        PROVE  w \in Received
    <3>1. w \in 1 .. m /\ frames[w] = "delta"
      BY <1>3, <2>4
    <3>2. w <= c
      BY <1>2, <1>5, <3>1
    <3> QED
      BY <3>2 DEF Got
  <2>5. \A i, j \in DOMAIN got : i < j => got[i] < got[j]
    BY DEF Got
  <2> QED
    BY <1>0, <1>4, <1>5, <2>1, <2>2, <2>3, <2>4, <2>5 DEF Got
<1>6. CASE Data(s) = {} /\ phase' = otherwise /\ UNCHANGED <<got, error>>
  <2>1. \A w \in c + 1 .. m : frames[w] = "comment"
    BY <1>1, <1>6
  <2>2. Got(m)' /\ got' \in Seq(1 .. Len(frames))
    BY <1>5, <1>6, <2>1
  <2> QED
    BY <1>6, <2>2
<1>7. CASE BodyFails("MALFORMED_STREAM", TRUE) /\ UNCHANGED got
  BY <1>7 DEF BodyFails, Fails
<1>8. ASSUME NEW place \in Data(s), Data(s) = {place},
             LET kind == IF s[place].char = "part" THEN "broken" ELSE frames[s[place].frame]
                 bare == ~(place < Len(s) /\ s[place + 1] = CR)
             IN  CASE kind = "broken" \/ (kind = "DONE" /\ ~bare) ->
                        BodyFails("MALFORMED_STREAM", TRUE) /\ UNCHANGED got
                   [] kind = "DONE" /\ bare -> phase' = "done" /\ UNCHANGED <<got, error>>
                   [] kind = "delta" ->
                        phase' = otherwise /\ got' = Append(got, s[place].frame) /\ UNCHANGED error
                   [] kind = "other" -> phase' = otherwise /\ UNCHANGED <<got, error>>
      PROVE  \/ phase' = otherwise /\ error' = error /\ Got(m)' /\ got' \in Seq(1 .. Len(frames))
             \/ phase' = "done" /\ error' = error /\ got' = got /\ Wanted \subseteq Received
             \/ /\ phase' = "failed" /\ got' = got
                /\ error' = [code |-> "MALFORMED_STREAM", retry |-> got = <<>>]
  <2> DEFINE k == s[place].frame
             kind == IF s[place].char = "part" THEN "broken" ELSE frames[k]
             bare == ~(place < Len(s) /\ s[place + 1] = CR)
  <2>1. place \in DOMAIN s
    BY DEF Data
  <2>2. CASE kind = "broken" \/ (kind = "DONE" /\ ~bare)
    <3>1. BodyFails("MALFORMED_STREAM", TRUE) /\ UNCHANGED got
      BY <1>8, <2>2
    <3> QED
      BY <3>1 DEF BodyFails, Fails
  <2>3. CASE ~(kind = "broken" \/ (kind = "DONE" /\ ~bare))
    <3>1. IsText(s[place]) /\ frames[k] # "comment" /\ kind = frames[k]
      BY <2>1, <2>3, KeptText DEF IsText
    <3>2. k \in c + 1 .. m /\ k \in 1 .. Len(frames)
      <4>1. k \in c + 1 .. m
        BY <2>1, <3>1 DEF InOrder
      <4> QED
        BY <1>0, <4>1
    <3>3. \A w \in c + 1 .. m : w # k => frames[w] = "comment"
      BY <1>1, <1>8
    <3>4. frames[k] \in {"delta", "other", "DONE"} /\ (frames[k] = "DONE" => bare)
      BY <1>0, <2>3, <3>1, <3>2 DEF FrameKinds
    <3>5. CASE frames[k] = "DONE"
      <4>1. phase' = "done" /\ UNCHANGED <<got, error>>
        BY <1>8, <2>3, <3>1, <3>4, <3>5
      <4>2. ASSUME NEW w \in Wanted
            PROVE  w \in Received
        <5>1. w \in 1 .. Len(frames) /\ \A j \in 1 .. w : frames[j] # "DONE"
          BY <1>3
        <5>2. ~(k \in 1 .. w)
          BY <3>5, <5>1
        <5>3. w < k /\ w \in 1 .. m
          BY <1>0, <3>2, <5>1, <5>2
        <5>4. frames[w] = "delta" /\ w # k
          BY <1>3, <5>3
        <5>5. w \in 1 .. c
          BY <1>2, <3>3, <5>3, <5>4
        <5> QED
          BY <5>5 DEF Got
      <4> QED
        BY <4>1, <4>2
    <3>6. CASE frames[k] = "other"
      <4>1. phase' = otherwise /\ UNCHANGED <<got, error>>
        BY <1>8, <2>3, <3>1, <3>6
      <4>2. \A w \in c + 1 .. m : frames[w] \notin {"DONE", "broken", "delta"}
        BY <3>3, <3>6
      <4> QED
        BY <1>5, <4>1, <4>2
    <3>7. CASE frames[k] = "delta"
      <4>1. phase' = otherwise /\ got' = Append(got, k) /\ UNCHANGED error
        BY <1>8, <2>3, <3>1, <3>7
      <4>2. got' \in Seq(1 .. Len(frames))
        BY <1>0, <3>2, <4>1
      <4>3. PICK g \in Nat : g = Len(got) /\ DOMAIN got = 1 .. g
        BY <1>0
      <4>4. /\ DOMAIN got' = 1 .. g + 1 /\ got'[g + 1] = k
            /\ \A i \in 1 .. g : got'[i] = got[i]
        BY <1>0, <3>2, <4>1, <4>3
      <4>5. Received' = Received \cup {k}
        <5>1. \A i \in 1 .. g + 1 : i \in 1 .. g \/ i = g + 1
          OBVIOUS
        <5>2. \A i \in 1 .. g : i \in 1 .. g + 1
          OBVIOUS
        <5>3. g + 1 \in 1 .. g + 1
          OBVIOUS
        <5> QED
          BY <4>3, <4>4, <5>1, <5>2, <5>3 DEF Received
      <4>6. \A w \in c + 1 .. m : frames[w] \notin {"DONE", "broken"}
        BY <3>3, <3>7
      <4>7. \A i \in 1 .. m : frames[i] \notin {"DONE", "broken"}
        BY <1>2, <1>2a, <4>6
      <4>8. k \in Wanted /\ k \in 1 .. m
        <5>1. k \in 1 .. m /\ \A j \in 1 .. k : j \in 1 .. m
          BY <3>2
        <5> QED
          BY <1>3, <3>2, <3>7, <4>7, <5>1
      <4>9. Received' \subseteq Wanted /\ Received' \subseteq 1 .. m
        <5>1. 1 .. c \subseteq 1 .. m
          OBVIOUS
        <5> QED
          BY <4>5, <4>8, <5>1 DEF Got
      <4>10. ASSUME NEW i \in DOMAIN got', NEW j \in DOMAIN got', i < j
             PROVE  got'[i] < got'[j]
        <5>1. i \in 1 .. g /\ (j \in 1 .. g \/ j = g + 1)
          BY <4>4, <4>10
        <5>2. CASE j \in 1 .. g
          BY <4>3, <4>4, <4>10, <5>1, <5>2 DEF Got
        <5>3. CASE j = g + 1
          <6>1. got[i] \in Received
            BY <4>3, <5>1 DEF Received
          <6>2. got[i] \in 1 .. c
            BY <6>1 DEF Got
          <6>3. got[i] < k
            BY <3>2, <6>2
          <6> QED
            BY <4>4, <5>1, <5>3, <6>3
        <5> QED
          BY <5>1, <5>2, <5>3
      <4>11. ASSUME NEW w \in Wanted, w <= m
             PROVE  w \in Received'
        <5>1. w \in 1 .. m /\ frames[w] = "delta"
          BY <1>3, <4>11
        <5>2. w = k \/ w \in 1 .. c
          BY <1>2, <3>3, <5>1
        <5> QED
          BY <4>5, <5>2 DEF Got
      <4>12. Got(m)'
        BY <1>4, <4>7, <4>9, <4>10, <4>11 DEF Got
      <4> QED
        BY <4>1, <4>2, <4>12
    <3> QED
      BY <3>4, <3>5, <3>6, <3>7
  <2> QED
    BY <2>2, <2>3
<1> QED
  BY <1>6, <1>7, <1>8 DEF Receive

----------------------------------------------------------------------------
(* The symbols of the body                                                 *)

LEMMA SymbolFields ==
  \A char, i : Symbol(char, i).char = char /\ Symbol(char, i).frame = i
  BY DEF Symbol

\* The next symbol is the line of the next frame, or a line end.
LEMMA NextSymbol ==
  ASSUME ProviderTypeOK, NEW p \in Nat
  PROVE  /\ Texts(p) \in Nat /\ Texts(0) = 0
         /\ IsText(At(p + 1)) => At(p + 1).frame = Texts(p) + 1 /\ Texts(p + 1) = Texts(p) + 1
         /\ ~IsText(At(p + 1)) => Texts(p + 1) = Texts(p)
         /\ At(p + 1).char \in {"text", "CR", "LF"}
         /\ ~IsText(At(p + 1)) => At(p + 1).frame = 0
<1>1. PICK n \in {3, 5} : FrameLength = n
  BY DEF ProviderTypeOK, FrameLength
<1>2. (p + 1) - 1 = p
  OBVIOUS
<1>3. At(p + 1) = IF p % n = 0 THEN Symbol("text", p \div n + 1)
                  ELSE IF eol = "CRLF" /\ (p % n) % 2 = 1 THEN CR ELSE LF
  BY <1>1, <1>2 DEF At
<1>4. IsText(At(p + 1)) <=> p % n = 0
  BY <1>3, SymbolFields DEF IsText, CR, LF
<1>5. Texts(p) = (p + n - 1) \div n /\ Texts(p + 1) = (p + n) \div n /\ Texts(0) = (n - 1) \div n
  <2>1. p + 1 + n - 1 = p + n /\ 0 + n - 1 = n - 1
    OBVIOUS
  <2> QED
    BY <1>1, <2>1 DEF Texts
<1>6. /\ (p + n - 1) \div n \in Nat /\ (n - 1) \div n = 0
      /\ p % n = 0 => (p + n - 1) \div n = p \div n /\ (p + n) \div n = p \div n + 1
      /\ p % n # 0 => (p + n - 1) \div n = (p + n) \div n
  <2>1. CASE n = 3
    BY <2>1
  <2>2. CASE n = 5
    BY <2>2
  <2> QED
    BY <2>1, <2>2
<1>7. At(p + 1).char \in {"text", "CR", "LF"} /\ (~IsText(At(p + 1)) => At(p + 1).frame = 0)
  BY <1>3, <1>4, SymbolFields DEF CR, LF
<1>8. p % n = 0 => At(p + 1).frame = p \div n + 1
  BY <1>3, SymbolFields
<1> QED
  BY <1>4, <1>5, <1>6, <1>7, <1>8

LEMMA TextsWithin ==
  ASSUME ProviderTypeOK
  PROVE  \A p \in 0 .. BodyLength : Texts(p) \in 0 .. Len(frames)
<1>1. PICK n \in {3, 5} : FrameLength = n
  BY DEF ProviderTypeOK, FrameLength
<1>2. PICK l \in Nat : l = Len(frames)
  BY DEF ProviderTypeOK
<1>3. ASSUME NEW p \in 0 .. l * n
      PROVE  (p + n - 1) \div n \in 0 .. l
  <2>1. CASE n = 3
    BY <2>1
  <2>2. CASE n = 5
    BY <2>2
  <2> QED
    BY <2>1, <2>2
<1> QED
  BY <1>1, <1>2, <1>3 DEF Texts, BodyLength

LEMMA BodyHasAll ==
  ASSUME ProviderTypeOK
  PROVE  BodyLength \in Nat /\ Texts(BodyLength) = Len(frames) /\ Plainly(BodyLength) = 3 * Len(frames)
<1>1. PICK l \in Nat : l = Len(frames)
  BY DEF ProviderTypeOK
<1>2. CASE eol = "CRLF"
  <2>1. FrameLength = 5
    BY <1>2 DEF FrameLength
  <2>2. BodyLength = l * 5 /\ Texts(l * 5) = (l * 5 + 5 - 1) \div 5
    BY <1>1, <2>1 DEF BodyLength, Texts
  <2>3. Plainly(l * 5) = 3 * ((l * 5) \div 5) + (((l * 5) % 5) + 1) \div 2
    BY <1>2 DEF Plainly
  <2>4. (l * 5 + 5 - 1) \div 5 = l /\ (l * 5) \div 5 = l /\ (l * 5) % 5 = 0 /\ l * 5 \in Nat
    OBVIOUS
  <2>5. (0 + 1) \div 2 = 0
    OBVIOUS
  <2> QED
    BY <1>1, <2>2, <2>3, <2>4, <2>5
<1>3. CASE eol = "LF"
  <2>1. FrameLength = 3
    BY <1>3 DEF FrameLength
  <2>2. BodyLength = l * 3 /\ Texts(l * 3) = (l * 3 + 3 - 1) \div 3
    BY <1>1, <2>1 DEF BodyLength, Texts
  <2>3. Plainly(l * 3) = l * 3
    BY <1>3 DEF Plainly
  <2> QED
    BY <1>1, <2>2, <2>3
<1> QED
  BY <1>2, <1>3 DEF ProviderTypeOK

LEMMA SymbolTyped ==
  ASSUME ProviderTypeOK, NEW p \in 1 .. BodyLength
  PROVE  At(p) \in Symbols
<1>0. BodyLength \in Nat
  BY BodyHasAll
<1>1. p - 1 \in Nat /\ (p - 1) + 1 = p /\ p \in 0 .. BodyLength /\ p \in Nat
  BY <1>0
<1>2. Texts(p) \in 0 .. Len(frames) /\ Len(frames) \in Nat
  BY <1>1, TextsWithin DEF ProviderTypeOK
<1>3. At(p).char \in {"text", "part", "CR", "LF"} /\ At(p).frame \in 0 .. Len(frames)
  <2>1. CASE IsText(At(p))
    BY <1>1, <1>2, <2>1, NextSymbol
  <2>2. CASE ~IsText(At(p))
    <3>1. At((p - 1) + 1).char \in {"text", "CR", "LF"} /\ (~IsText(At((p - 1) + 1)) => At((p - 1) + 1).frame = 0)
      BY <1>1, NextSymbol
    <3>2. At(p).char \in {"text", "CR", "LF"} /\ At(p).frame = 0
      BY <1>1, <2>2, <3>1
    <3> QED
      BY <1>2, <3>2
  <2> QED
    BY <2>1, <2>2
<1>4. At(p) = [char |-> At(p).char, frame |-> At(p).frame]
  BY DEF At, Symbol, CR, LF
<1> QED
  BY <1>3, <1>4 DEF Symbols

\* Without its CRs the body is the one with LF line ends, and an LF follows
\* each CR.
LEMMA PlainSymbol ==
  ASSUME ProviderTypeOK, NEW p \in Nat
  PROVE  /\ Plainly(p) \in Nat /\ Plainly(0) = 0
         /\ At(p + 1) = CR => Plainly(p + 1) = Plainly(p) /\ At(p + 2) = LF
         /\ At(p + 1) # CR => /\ Plainly(p + 1) = Plainly(p) + 1
                              /\ At(p + 1) = Plain(Plainly(p) + 1)
<1>0. (p + 1) - 1 = p /\ (p + 2) - 1 = p + 1
  OBVIOUS
<1>1. CASE eol = "LF"
  <2>1. FrameLength = 3 /\ Plainly(p) = p /\ Plainly(p + 1) = p + 1 /\ Plainly(0) = 0
    BY <1>1 DEF FrameLength, Plainly
  <2>2. At(p + 1) = IF p % 3 = 0 THEN Symbol("text", p \div 3 + 1) ELSE LF
    BY <1>0, <1>1, <2>1 DEF At
  <2>3. At(p + 1) # CR
    BY <2>2, SymbolFields DEF CR, LF
  <2>4. At(p + 1) = Plain(p + 1)
    BY <1>0, <2>2 DEF Plain
  <2> QED
    BY <2>1, <2>3, <2>4
<1>2. CASE eol = "CRLF"
  <2>1. FrameLength = 5 /\ Plainly(0) = 3 * (0 \div 5) + ((0 % 5) + 1) \div 2
    BY <1>2 DEF FrameLength, Plainly
  <2>2. /\ Plainly(p) = 3 * (p \div 5) + ((p % 5) + 1) \div 2
        /\ Plainly(p + 1) = 3 * ((p + 1) \div 5) + (((p + 1) % 5) + 1) \div 2
    BY <1>2 DEF Plainly
  <2>3. At(p + 1) = IF p % 5 = 0 THEN Symbol("text", p \div 5 + 1)
                    ELSE IF (p % 5) % 2 = 1 THEN CR ELSE LF
    BY <1>0, <1>2, <2>1 DEF At
  <2>4. At(p + 2) = IF (p + 1) % 5 = 0 THEN Symbol("text", (p + 1) \div 5 + 1)
                    ELSE IF ((p + 1) % 5) % 2 = 1 THEN CR ELSE LF
    BY <1>0, <1>2, <2>1 DEF At
  <2>5. PICK a \in Nat, r \in 0 .. 4 : p = 5 * a + r /\ a = p \div 5 /\ r = p % 5
    <3>1. p \div 5 \in Nat /\ p % 5 \in 0 .. 4 /\ p = 5 * (p \div 5) + (p % 5)
      OBVIOUS
    <3> QED
      BY <3>1
  <2>6. \A x : Symbol("text", x) # CR
    BY SymbolFields DEF CR
  <2>7. LF # CR
    BY SymbolFields DEF CR, LF
  <2>8. Plain(Plainly(p) + 1) = IF Plainly(p) % 3 = 0 THEN Symbol("text", Plainly(p) \div 3 + 1) ELSE LF
    <3>1. Plainly(p) \in Nat /\ (Plainly(p) + 1) - 1 = Plainly(p)
      BY <2>2
    <3> QED
      BY <3>1 DEF Plain
  <2>9. Plainly(0) = 0
    <3>1. 0 \div 5 = 0 /\ 0 % 5 = 0 /\ (0 + 1) \div 2 = 0
      OBVIOUS
    <3> QED
      BY <2>1, <3>1
  <2>10. CASE r = 0
    <3>1. /\ (0 + 1) \div 2 = 0 /\ (p + 1) \div 5 = a /\ (p + 1) % 5 = 1 /\ (1 + 1) \div 2 = 1
      BY <2>5, <2>10
    <3>2. Plainly(p) = 3 * a /\ Plainly(p + 1) = 3 * a + 1
      BY <2>2, <2>5, <2>10, <3>1
    <3>3. At(p + 1) = Symbol("text", a + 1)
      BY <2>3, <2>5, <2>10
    <3>4. (3 * a) % 3 = 0 /\ (3 * a) \div 3 = a
      OBVIOUS
    <3> QED
      BY <2>6, <2>8, <2>9, <3>2, <3>3, <3>4
  <2>11. CASE r = 1
    <3>1. /\ (1 + 1) \div 2 = 1 /\ (p + 1) \div 5 = a /\ (p + 1) % 5 = 2 /\ (2 + 1) \div 2 = 1
          /\ 2 % 2 = 0 /\ 1 % 2 = 1
      BY <2>5, <2>11
    <3>2. Plainly(p) = 3 * a + 1 /\ Plainly(p + 1) = 3 * a + 1
      BY <2>2, <2>5, <2>11, <3>1
    <3>3. At(p + 1) = CR /\ At(p + 2) = LF
      BY <2>3, <2>4, <2>5, <2>11, <3>1
    <3> QED
      BY <2>7, <2>9, <3>2, <3>3
  <2>12. CASE r = 2
    <3>1. /\ (2 + 1) \div 2 = 1 /\ (p + 1) \div 5 = a /\ (p + 1) % 5 = 3 /\ (3 + 1) \div 2 = 2
          /\ 2 % 2 = 0
      BY <2>5, <2>12
    <3>2. Plainly(p) = 3 * a + 1 /\ Plainly(p + 1) = 3 * a + 2
      BY <2>2, <2>5, <2>12, <3>1
    <3>3. At(p + 1) = LF
      BY <2>3, <2>5, <2>12, <3>1
    <3>4. (3 * a + 1) % 3 = 1
      OBVIOUS
    <3> QED
      BY <2>7, <2>8, <2>9, <3>2, <3>3, <3>4
  <2>13. CASE r = 3
    <3>1. /\ (3 + 1) \div 2 = 2 /\ (p + 1) \div 5 = a /\ (p + 1) % 5 = 4 /\ (4 + 1) \div 2 = 2
          /\ 4 % 2 = 0 /\ 3 % 2 = 1
      BY <2>5, <2>13
    <3>2. Plainly(p) = 3 * a + 2 /\ Plainly(p + 1) = 3 * a + 2
      BY <2>2, <2>5, <2>13, <3>1
    <3>3. At(p + 1) = CR /\ At(p + 2) = LF
      BY <2>3, <2>4, <2>5, <2>13, <3>1
    <3> QED
      BY <2>7, <2>9, <3>2, <3>3
  <2>14. CASE r = 4
    <3>1. /\ (4 + 1) \div 2 = 2 /\ (p + 1) \div 5 = a + 1 /\ (p + 1) % 5 = 0 /\ (0 + 1) \div 2 = 0
          /\ 4 % 2 = 0
      BY <2>5, <2>14
    <3>2. Plainly(p) = 3 * a + 2 /\ Plainly(p + 1) = 3 * a + 3
      BY <2>2, <2>5, <2>14, <3>1
    <3>3. At(p + 1) = LF
      BY <2>3, <2>5, <2>14, <3>1
    <3>4. (3 * a + 2) % 3 = 2
      OBVIOUS
    <3> QED
      BY <2>7, <2>8, <2>9, <3>2, <3>3, <3>4
  <2> QED
    BY <2>10, <2>11, <2>12, <2>13, <2>14
<1> QED
  BY <1>1, <1>2 DEF ProviderTypeOK

----------------------------------------------------------------------------
(* A chunk without its CR LF pairs                                         *)

Dropped(s, i) == s[i] = CR /\ i < Len(s) /\ s[i + 1] = LF

Cleans(f, s) ==
    f = [i \in 0 .. Len(s) |-> IF i = 0 THEN <<>>
                               ELSE IF Dropped(s, i) THEN f[i - 1]
                               ELSE Append(f[i - 1], s[i])]

CleansTo(f, s, k) ==
    /\ f \in [0 .. k -> Seq(Symbols)]
    /\ f[0] = <<>>
    /\ \A i \in 1 .. k : f[i] = IF Dropped(s, i) THEN f[i - 1] ELSE Append(f[i - 1], s[i])

\* It is defined, whatever comes in.
LEMMA Cleaned ==
  ASSUME NEW s \in Seq(Symbols)
  PROVE  \E f \in [0 .. Len(s) -> Seq(Symbols)] :
            /\ f[0] = <<>> /\ Normalised(s) = f[Len(s)]
            /\ \A i \in 1 .. Len(s) :
                  f[i] = IF Dropped(s, i) THEN f[i - 1] ELSE Append(f[i - 1], s[i])
<1>0. PICK n \in Nat : n = Len(s) /\ \A i \in 1 .. n : s[i] \in Symbols
  OBVIOUS
<1> DEFINE S == {k \in Nat : k <= n => \E f : CleansTo(f, s, k)}
<1>1. 0 \in S
  <2> DEFINE f == [i \in 0 .. 0 |-> <<>>]
  <2>1. f \in [0 .. 0 -> Seq(Symbols)] /\ f[0] = <<>> /\ 1 .. 0 = {}
    OBVIOUS
  <2> HIDE DEF f
  <2>2. CleansTo(f, s, 0)
    BY <2>1 DEF CleansTo
  <2> QED
    BY <2>2
<1>2. ASSUME NEW k \in Nat, k \in S
      PROVE  k + 1 \in S
  <2> SUFFICES ASSUME k + 1 <= n
               PROVE  \E f : CleansTo(f, s, k + 1)
    OBVIOUS
  <2>1. PICK f : CleansTo(f, s, k)
    BY <1>0, <1>2
  <2> DEFINE last == IF Dropped(s, k + 1) THEN f[k] ELSE Append(f[k], s[k + 1])
             h == [i \in 0 .. k + 1 |-> IF i = k + 1 THEN last ELSE f[i]]
  <2>2. last \in Seq(Symbols)
    <3>1. f[k] \in Seq(Symbols) /\ s[k + 1] \in Symbols
      BY <1>0, <2>1 DEF CleansTo
    <3>2. Append(f[k], s[k + 1]) \in Seq(Symbols)
      BY <3>1
    <3> QED
      BY <3>1, <3>2
  <2> HIDE DEF last
  <2>3. h \in [0 .. k + 1 -> Seq(Symbols)] /\ h[k + 1] = last
    BY <2>1, <2>2 DEF CleansTo
  <2>4. \A i \in 0 .. k : h[i] = f[i]
    OBVIOUS
  <2> HIDE DEF h
  <2>5. h[0] = <<>>
    BY <2>1, <2>4 DEF CleansTo
  <2>6. ASSUME NEW i \in 1 .. k + 1
        PROVE  h[i] = IF Dropped(s, i) THEN h[i - 1] ELSE Append(h[i - 1], s[i])
    <3>1. CASE i = k + 1
      <4>1. h[i] = last /\ h[i - 1] = f[k]
        BY <2>3, <2>4, <3>1
      <4> QED
        BY <3>1, <4>1 DEF last
    <3>2. CASE i # k + 1
      <4>1. i \in 1 .. k /\ i \in 0 .. k /\ i - 1 \in 0 .. k
        BY <3>2
      <4>2. h[i] = f[i] /\ h[i - 1] = f[i - 1]
        BY <2>4, <4>1
      <4> QED
        BY <2>1, <4>1, <4>2 DEF CleansTo
    <3> QED
      BY <3>1, <3>2
  <2>7. CleansTo(h, s, k + 1)
    BY <2>3, <2>5, <2>6 DEF CleansTo
  <2> QED
    BY <2>7
<1> HIDE DEF S
<1>3. n \in S
  BY <1>1, <1>2, Induction
<1> USE DEF S
<1>4. PICK f : CleansTo(f, s, n)
  BY <1>3
<1>5. Cleans(f, s)
  <2> DEFINE g == [i \in 0 .. n |-> IF i = 0 THEN <<>>
                                    ELSE IF Dropped(s, i) THEN f[i - 1]
                                    ELSE Append(f[i - 1], s[i])]
  <2>1. ASSUME NEW i \in 0 .. n
        PROVE  f[i] = g[i]
    <3>1. i = 0 \/ i \in 1 .. n
      OBVIOUS
    <3> QED
      BY <1>4, <3>1 DEF CleansTo
  <2>2. DOMAIN g = 0 .. n /\ g = [i \in DOMAIN g |-> g[i]]
    OBVIOUS
  <2> HIDE DEF g
  <2>3. f = g
    BY <1>4, <2>1, <2>2 DEF CleansTo
  <2> QED
    BY <1>0, <2>3 DEF g, Cleans
<1> DEFINE upto == CHOOSE f1 : Cleans(f1, s)
<1>6. Cleans(upto, s)
  BY <1>5
<1>7. Normalised(s) = upto[n]
  BY <1>0, Zenon DEF Normalised, Cleans, Dropped
<1> HIDE DEF upto
<1>8. \A i \in 0 .. n : upto[i] = IF i = 0 THEN <<>>
                                  ELSE IF Dropped(s, i) THEN upto[i - 1]
                                  ELSE Append(upto[i - 1], s[i])
  <2> TAKE i \in 0 .. n
  <2> QED
    BY <1>0, <1>6 DEF Cleans
<1> DEFINE E == {k \in Nat : k <= n => upto[k] = f[k]}
<1>9. 0 \in E
  BY <1>4, <1>8 DEF CleansTo
<1>10. ASSUME NEW k \in Nat, k \in E
       PROVE  k + 1 \in E
  <2> SUFFICES ASSUME k + 1 <= n PROVE upto[k + 1] = f[k + 1]
    OBVIOUS
  <2>1. upto[k] = f[k]
    BY <1>10
  <2>2. k + 1 \in 0 .. n /\ k + 1 \in 1 .. n /\ (k + 1) - 1 = k /\ k + 1 # 0
    OBVIOUS
  <2> QED
    BY <1>4, <1>8, <2>1, <2>2 DEF CleansTo
<1> HIDE DEF E
<1>11. n \in E
  BY <1>9, <1>10, Induction
<1>12. Normalised(s) = f[n]
  BY <1>7, <1>11 DEF E
<1> QED
  BY <1>0, <1>4, <1>12 DEF CleansTo

----------------------------------------------------------------------------
(* Reading a chunk                                                         *)

LEMMA OrderGrows ==
  ASSUME NEW s \in Seq(Symbols), NEW c \in Nat, NEW d \in Nat, c <= d, InOrder(s, c, d),
         NEW x \in Symbols
  PROVE  /\ Append(s, x) \in Seq(Symbols)
         /\ ~IsText(x) => InOrder(Append(s, x), c, d)
         /\ (IsText(x) /\ x.frame = d + 1) => InOrder(Append(s, x), c, d + 1)
<1>0. PICK l \in Nat : l = Len(s) /\ DOMAIN s = 1 .. l
  OBVIOUS
<1>1. PICK t \in Seq(Symbols) : t = Append(s, x)
  BY AppendProperties
<1>2. DOMAIN t = 1 .. l + 1 /\ t[l + 1] = x /\ \A i \in 1 .. l : t[i] = s[i]
  BY <1>0, <1>1
<1>3. \A i \in 1 .. l + 1 : i \in 1 .. l \/ i = l + 1
  OBVIOUS
<1>4. /\ \A i \in 1 .. l : IsText(s[i]) => s[i].frame \in c + 1 .. d
      /\ \A i, j \in 1 .. l : (i < j /\ IsText(s[i]) /\ IsText(s[j])) => s[i].frame < s[j].frame
      /\ \A f \in c + 1 .. d : \E i \in 1 .. l : IsText(s[i]) /\ s[i].frame = f
  BY <1>0 DEF InOrder
<1>5. ASSUME ~IsText(x) PROVE InOrder(t, c, d)
  <2>1. \A i \in DOMAIN t : IsText(t[i]) => i \in 1 .. l /\ t[i] = s[i]
    BY <1>2, <1>3, <1>5
  <2>2. \A i \in 1 .. l : i \in DOMAIN t /\ t[i] = s[i]
    BY <1>2
  <2>3. \A f \in c + 1 .. d : \E i \in DOMAIN t : IsText(t[i]) /\ t[i].frame = f
    BY <1>4, <2>2
  <2>4. \A i \in DOMAIN t : IsText(t[i]) => t[i].frame \in c + 1 .. d
    BY <1>4, <2>1
  <2>5. \A i, j \in DOMAIN t : (i < j /\ IsText(t[i]) /\ IsText(t[j])) => t[i].frame < t[j].frame
    BY <1>4, <2>1
  <2> QED
    BY <2>3, <2>4, <2>5 DEF InOrder
<1>6. ASSUME IsText(x), x.frame = d + 1 PROVE InOrder(t, c, d + 1)
  <2>1. \A i \in DOMAIN t : IsText(t[i]) => t[i].frame \in c + 1 .. d + 1
    <3> SUFFICES ASSUME NEW i \in DOMAIN t, IsText(t[i]) PROVE t[i].frame \in c + 1 .. d + 1
      OBVIOUS
    <3>1. CASE i = l + 1
      BY <1>2, <1>6, <3>1
    <3>2. CASE i \in 1 .. l
      <4>1. t[i].frame \in c + 1 .. d
        BY <1>2, <1>4, <3>2
      <4> QED
        BY <4>1
    <3> QED
      BY <1>2, <1>3, <3>1, <3>2
  <2>2. ASSUME NEW i \in DOMAIN t, NEW j \in DOMAIN t, i < j, IsText(t[i]), IsText(t[j])
        PROVE  t[i].frame < t[j].frame
    <3>1. i \in 1 .. l /\ (j \in 1 .. l \/ j = l + 1)
      BY <1>2, <2>2
    <3>2. CASE j \in 1 .. l
      BY <1>2, <1>4, <2>2, <3>1, <3>2
    <3>3. CASE j = l + 1
      <4>1. t[i].frame \in c + 1 .. d
        BY <1>2, <1>4, <2>2, <3>1
      <4>2. t[j].frame = d + 1
        BY <1>2, <1>6, <3>3
      <4> QED
        BY <4>1, <4>2
    <3> QED
      BY <3>1, <3>2, <3>3
  <2>3. ASSUME NEW f \in c + 1 .. d + 1
        PROVE  \E i \in DOMAIN t : IsText(t[i]) /\ t[i].frame = f
    <3>1. CASE f = d + 1
      <4>1. l + 1 \in DOMAIN t
        BY <1>2
      <4> QED
        BY <1>2, <1>6, <3>1, <4>1
    <3>2. CASE f # d + 1
      <4>1. f \in c + 1 .. d
        BY <3>2
      <4>2. PICK i \in 1 .. l : IsText(s[i]) /\ s[i].frame = f
        BY <1>4, <4>1
      <4>3. i \in DOMAIN t
        BY <1>2
      <4> QED
        BY <1>2, <4>2, <4>3
    <3> QED
      BY <3>1, <3>2
  <2> QED
    BY <2>1, <2>2, <2>3 DEF InOrder
<1> QED
  BY <1>1, <1>5, <1>6

LEMMA PlainGrows ==
  ASSUME NEW s \in Seq(Symbols), NEW c \in Nat, NEW p \in Nat, HoldsPlain(s, c, p),
         NEW x \in Symbols, x = Plain(Plainly(p) + 1), Plainly(p + 1) = Plainly(p) + 1
  PROVE  HoldsPlain(Append(s, x), c, p + 1)
<1>0. PICK l \in Nat : l = Len(s) /\ DOMAIN s = 1 .. l
  OBVIOUS
<1>1. PICK t \in Seq(Symbols) : t = Append(s, x)
  BY AppendProperties
<1>2. DOMAIN t = 1 .. l + 1 /\ Len(t) = l + 1 /\ t[l + 1] = x /\ \A i \in 1 .. l : t[i] = s[i]
  BY <1>0, <1>1
<1>3. 3 * c + l = Plainly(p) /\ 3 * c + (l + 1) = Plainly(p) + 1
  BY <1>0 DEF HoldsPlain
<1>4. ASSUME NEW j \in 1 .. l + 1
      PROVE  t[j] = Plain(3 * c + j)
  <2>1. CASE j = l + 1
    BY <1>2, <1>3, <2>1
  <2>2. CASE j # l + 1
    <3>1. j \in 1 .. l
      BY <2>2
    <3> QED
      BY <1>0, <1>2, <3>1 DEF HoldsPlain
  <2> QED
    BY <2>1, <2>2
<1> QED
  BY <1>1, <1>2, <1>3, <1>4 DEF HoldsPlain

LEMMA AppendBehind ==
  ASSUME NEW s \in Seq(Symbols), NEW t \in Seq(Symbols), NEW x \in Symbols
  PROVE  s \o Append(t, x) = Append(s \o t, x)
<1>1. s \o t \in Seq(Symbols) /\ <<x>> \in Seq(Symbols)
  BY ConcatProperties
<1>2. Append(t, x) = t \o <<x>>
  BY AppendIsConcat
<1>3. Append(s \o t, x) = (s \o t) \o <<x>>
  BY <1>1, AppendIsConcat
<1>4. (s \o t) \o <<x>> = s \o (t \o <<x>>)
  BY <1>1, ConcatAssociative
<1> QED
  BY <1>2, <1>3, <1>4

LEMMA ChunkIsRead ==
  ASSUME ProviderTypeOK, NEW n \in Nat \ {0}, arrived + n <= BodyLength,
         NEW read, read = buffer \o Normalised([i \in 1 .. n |-> At(arrived + i)])
  PROVE  /\ read \in Seq(Symbols)
         /\ \A c \in Nat : (c <= Texts(arrived) /\ InOrder(buffer, c, Texts(arrived)))
                              => c <= Texts(arrived + n) /\ InOrder(read, c, Texts(arrived + n))
         /\ \A c \in Nat : (At(arrived + n) # CR /\ HoldsPlain(buffer, c, arrived))
                              => HoldsPlain(read, c, arrived + n)
<1> DEFINE chunk == [i \in 1 .. n |-> At(arrived + i)]
<1>0. arrived \in Nat /\ BodyLength \in Nat /\ buffer \in Seq(Symbols)
  BY BodyHasAll DEF ProviderTypeOK, Symbols
<1>1. \A i \in 1 .. n : At(arrived + i) \in Symbols
  <2> TAKE i \in 1 .. n
  <2>1. arrived + i \in 1 .. BodyLength
    BY <1>0
  <2> QED
    BY <2>1, SymbolTyped
<1>2. /\ chunk \in Seq(Symbols) /\ Len(chunk) = n
      /\ \A i \in 1 .. n : chunk[i] = At(arrived + i)
  BY <1>1
<1> HIDE DEF chunk
<1>3. PICK f \in [0 .. n -> Seq(Symbols)] :
         /\ f[0] = <<>> /\ Normalised(chunk) = f[n]
         /\ \A i \in 1 .. n : f[i] = IF Dropped(chunk, i) THEN f[i - 1] ELSE Append(f[i - 1], chunk[i])
  BY <1>2, Cleaned
<1>4. read = buffer \o f[n]
  BY <1>3 DEF chunk
<1>5. \A i \in 0 .. n : f[i] \in Seq(Symbols) /\ buffer \o f[i] \in Seq(Symbols)
  BY <1>0, <1>3, ConcatProperties
<1>6. buffer \o f[0] = buffer
  BY <1>0, <1>3, ConcatEmptySeq
<1>7. ASSUME NEW i \in Nat, i + 1 <= n
      PROVE  /\ i \in 0 .. n /\ i + 1 \in 1 .. n /\ arrived + i \in Nat
             /\ arrived + (i + 1) = (arrived + i) + 1
             /\ At((arrived + i) + 1) \in Symbols
             /\ buffer \o f[i + 1] = IF Dropped(chunk, i + 1) THEN buffer \o f[i]
                                     ELSE Append(buffer \o f[i], At((arrived + i) + 1))
             /\ Dropped(chunk, i + 1) => At((arrived + i) + 1) = CR
  <2>1. i \in 0 .. n /\ i + 1 \in 1 .. n /\ (i + 1) - 1 = i
    BY <1>7
  <2>2. arrived + i \in Nat /\ arrived + (i + 1) = (arrived + i) + 1
    BY <1>0
  <2>3. At((arrived + i) + 1) \in Symbols /\ chunk[i + 1] = At((arrived + i) + 1)
    BY <1>1, <1>2, <2>1, <2>2
  <2>4. f[i + 1] = IF Dropped(chunk, i + 1) THEN f[i] ELSE Append(f[i], chunk[i + 1])
    BY <1>3, <2>1
  <2>5. f[i] \in Seq(Symbols) /\ buffer \o f[i] \in Seq(Symbols)
    BY <1>5, <2>1
  <2>6. buffer \o Append(f[i], chunk[i + 1]) = Append(buffer \o f[i], chunk[i + 1])
    <3>1. PICK t \in Seq(Symbols), x \in Symbols : t = f[i] /\ x = chunk[i + 1]
      BY <2>3, <2>5
    <3>2. buffer \o Append(t, x) = Append(buffer \o t, x)
      BY <1>0, AppendBehind
    <3> QED
      BY <3>1, <3>2
  <2> QED
    BY <2>1, <2>2, <2>3, <2>4, <2>6 DEF Dropped
<1>8. ASSUME NEW c \in Nat, c <= Texts(arrived), InOrder(buffer, c, Texts(arrived))
      PROVE  c <= Texts(arrived + n) /\ InOrder(read, c, Texts(arrived + n))
  <2> DEFINE S == {i \in Nat : i <= n => /\ c <= Texts(arrived + i)
                                         /\ InOrder(buffer \o f[i], c, Texts(arrived + i))}
  <2>1. 0 \in S
    <3>1. arrived + 0 = arrived
      BY <1>0
    <3> QED
      BY <1>6, <1>8, <3>1
  <2>2. ASSUME NEW i \in Nat, i \in S
        PROVE  i + 1 \in S
    <3> SUFFICES ASSUME i + 1 <= n
                 PROVE  /\ c <= Texts(arrived + (i + 1))
                        /\ InOrder(buffer \o f[i + 1], c, Texts(arrived + (i + 1)))
      OBVIOUS
    <3>1. c <= Texts(arrived + i) /\ InOrder(buffer \o f[i], c, Texts(arrived + i))
      BY <2>2
    <3> DEFINE p == arrived + i
               x == At(p + 1)
               b == buffer \o f[i]
    <3>2. /\ p \in Nat /\ arrived + (i + 1) = p + 1 /\ x \in Symbols /\ b \in Seq(Symbols)
          /\ buffer \o f[i + 1] = IF Dropped(chunk, i + 1) THEN b ELSE Append(b, x)
          /\ Dropped(chunk, i + 1) => x = CR
      BY <1>5, <1>7
    <3>3. /\ Texts(p) \in Nat
          /\ IsText(x) => x.frame = Texts(p) + 1 /\ Texts(p + 1) = Texts(p) + 1
          /\ ~IsText(x) => Texts(p + 1) = Texts(p)
      BY <3>2, NextSymbol
    <3>4. c <= Texts(p) /\ InOrder(b, c, Texts(p))
      BY <3>1
    <3>5. x = CR => ~IsText(x)
      BY SymbolFields DEF CR, IsText
    <3> HIDE DEF p, x, b
    <3>6. c <= Texts(p + 1)
      BY <3>3, <3>4
    <3>7. /\ ~IsText(x) => InOrder(Append(b, x), c, Texts(p))
          /\ (IsText(x) /\ x.frame = Texts(p) + 1) => InOrder(Append(b, x), c, Texts(p) + 1)
      BY <3>2, <3>3, <3>4, OrderGrows
    <3>8. CASE Dropped(chunk, i + 1)
      BY <3>2, <3>3, <3>4, <3>5, <3>6, <3>8
    <3>9. CASE ~Dropped(chunk, i + 1)
      BY <3>2, <3>3, <3>6, <3>7, <3>9
    <3> QED
      BY <3>8, <3>9
  <2> HIDE DEF S
  <2>3. n \in S
    BY <2>1, <2>2, Induction
  <2>4. c <= Texts(arrived + n) /\ InOrder(buffer \o f[n], c, Texts(arrived + n))
    <3>1. n <= n
      OBVIOUS
    <3> QED
      BY <2>3, <3>1 DEF S
  <2> QED
    BY <1>4, <2>4
<1>9. ASSUME NEW c \in Nat, At(arrived + n) # CR, HoldsPlain(buffer, c, arrived)
      PROVE  HoldsPlain(read, c, arrived + n)
  <2> DEFINE S == {i \in Nat : i <= n => HoldsPlain(buffer \o f[i], c, arrived + i)}
  <2>1. 0 \in S
    <3>1. arrived + 0 = arrived
      BY <1>0
    <3> QED
      BY <1>6, <1>9, <3>1
  <2>2. ASSUME NEW i \in Nat, i \in S
        PROVE  i + 1 \in S
    <3> SUFFICES ASSUME i + 1 <= n
                 PROVE  HoldsPlain(buffer \o f[i + 1], c, arrived + (i + 1))
      OBVIOUS
    <3>1. HoldsPlain(buffer \o f[i], c, arrived + i)
      BY <2>2
    <3> DEFINE p == arrived + i
               x == At(p + 1)
               b == buffer \o f[i]
    <3>2. /\ p \in Nat /\ arrived + (i + 1) = p + 1 /\ x \in Symbols /\ b \in Seq(Symbols)
          /\ buffer \o f[i + 1] = IF Dropped(chunk, i + 1) THEN b ELSE Append(b, x)
          /\ Dropped(chunk, i + 1) => x = CR
      BY <1>5, <1>7
    <3>3. /\ x = CR => Plainly(p + 1) = Plainly(p) /\ At(p + 2) = LF
          /\ x # CR => Plainly(p + 1) = Plainly(p) + 1 /\ x = Plain(Plainly(p) + 1)
      BY <3>2, PlainSymbol
    <3>4. x = CR => Dropped(chunk, i + 1)
      <4> SUFFICES ASSUME x = CR PROVE Dropped(chunk, i + 1)
        OBVIOUS
      <4>1. i + 1 # n
        BY <1>9, <3>2
      <4>2. i + 1 < n /\ (i + 1) + 1 \in 1 .. n /\ i + 1 \in 1 .. n
        BY <4>1
      <4>3. arrived + (i + 1) = p + 1 /\ arrived + ((i + 1) + 1) = p + 2
        BY <1>0
      <4>4. chunk[i + 1] = CR /\ chunk[(i + 1) + 1] = LF
        BY <1>2, <3>3, <4>2, <4>3
      <4> QED
        BY <1>2, <4>2, <4>4 DEF Dropped
    <3>5. HoldsPlain(b, c, p)
      BY <3>1
    <3> HIDE DEF p, x, b
    <3>6. CASE x = CR
      BY <3>2, <3>3, <3>4, <3>5, <3>6 DEF HoldsPlain
    <3>7. CASE x # CR
      <4>1. HoldsPlain(Append(b, x), c, p + 1)
        BY <3>2, <3>3, <3>5, <3>7, PlainGrows
      <4> QED
        BY <3>2, <3>7, <4>1
    <3> QED
      BY <3>6, <3>7
  <2> HIDE DEF S
  <2>3. n \in S
    BY <2>1, <2>2, Induction
  <2>4. HoldsPlain(buffer \o f[n], c, arrived + n)
    <3>1. n <= n
      OBVIOUS
    <3> QED
      BY <2>3, <3>1 DEF S
  <2> QED
    BY <1>4, <2>4
<1>10. read \in Seq(Symbols)
  <2>1. n \in 0 .. n
    OBVIOUS
  <2> QED
    BY <1>4, <1>5, <2>1
<1> QED
  BY <1>8, <1>9, <1>10

----------------------------------------------------------------------------
(* Frames of a body that was not cut between a CR and its LF               *)

LEMMA PlainLines ==
  \A c \in Nat, j \in 1 .. 3 :
     Plain(3 * c + j) = IF j = 1 THEN Symbol("text", c + 1) ELSE LF
<1> TAKE c \in Nat, j \in 1 .. 3
<1>1. Plain(3 * c + j) = IF (3 * c + j - 1) % 3 = 0 THEN Symbol("text", (3 * c + j - 1) \div 3 + 1) ELSE LF
  BY DEF Plain
<1>2. CASE j = 1
  <2>1. (3 * c + 1 - 1) % 3 = 0 /\ (3 * c + 1 - 1) \div 3 = c
    OBVIOUS
  <2> QED
    BY <1>1, <1>2, <2>1
<1>3. CASE j = 2
  <2>1. (3 * c + 2 - 1) % 3 = 1
    OBVIOUS
  <2> QED
    BY <1>1, <1>3, <2>1
<1>4. CASE j = 3
  <2>1. (3 * c + 3 - 1) % 3 = 2
    OBVIOUS
  <2> QED
    BY <1>1, <1>4, <2>1
<1> QED
  BY <1>2, <1>3, <1>4

LEMMA PlainFrame ==
  ASSUME NEW s \in Seq(Symbols), NEW c \in Nat, NEW p \in Nat, HoldsPlain(s, c, p)
  PROVE  /\ Boundary(s) = 0 => Len(s) < 3
         /\ Boundary(s) # 0 =>
              /\ Boundary(s) = 2 /\ s[1] = Symbol("text", c + 1)
              /\ HoldsPlain(SubSeq(s, Boundary(s) + 2, Len(s)), c + 1, p)
<1>0. PICK l \in Nat : l = Len(s) /\ DOMAIN s = 1 .. l
  OBVIOUS
<1>1. /\ l >= 1 => s[1] = Symbol("text", c + 1)
      /\ l >= 2 => s[2] = LF
      /\ l >= 3 => s[3] = LF
  <2>1. \A j \in 1 .. 3 : j <= l => s[j] = Plain(3 * c + j)
    <3> TAKE j \in 1 .. 3
    <3>1. j <= l => j \in 1 .. l
      BY <1>0
    <3> QED
      BY <1>0, <3>1 DEF HoldsPlain
  <2>2. 1 \in 1 .. 3 /\ 2 \in 1 .. 3 /\ 3 \in 1 .. 3
    OBVIOUS
  <2>3. Plain(3 * c + 1) = Symbol("text", c + 1) /\ Plain(3 * c + 2) = LF /\ Plain(3 * c + 3) = LF
    BY <2>2, PlainLines
  <2> QED
    BY <2>1, <2>2, <2>3
<1>2. Symbol("text", c + 1) # LF
  BY SymbolFields DEF LF
<1>3. CASE l < 3
  <2>1. \A i \in 1 .. l : ~(i < l /\ s[i] = LF)
    <3> SUFFICES ASSUME NEW i \in 1 .. l, i < l, s[i] = LF PROVE FALSE
      OBVIOUS
    <3>1. i = 1
      BY <1>3
    <3> QED
      BY <1>1, <1>2, <3>1
  <2>2. Boundary(s) = 0
    BY <1>0, <2>1, BoundaryIs
  <2> QED
    BY <1>0, <1>3, <2>2
<1>4. CASE l >= 3
  <2>1. 2 \in 1 .. l /\ 2 < l /\ s[2] = LF /\ s[2 + 1] = LF
    BY <1>1, <1>4
  <2>2. Boundary(s) # 0 /\ Boundary(s) <= 2
    BY <1>0, <2>1, BoundaryIs
  <2>3. Boundary(s) \in 1 .. l /\ s[Boundary(s)] = LF
    BY <1>0, <2>2, BoundaryIs
  <2>4. Boundary(s) # 1
    BY <1>1, <1>2, <1>4, <2>3
  <2>5. Boundary(s) = 2
    BY <2>2, <2>3, <2>4
  <2>6. PICK t \in Seq(Symbols) : /\ t = SubSeq(s, 4, l)
                                  /\ Len(t) = l - 3 /\ DOMAIN t = 1 .. l - 3
                                  /\ \A j \in 1 .. l - 3 : t[j] = s[3 + j]
    <3>0. \A i \in 4 .. l : s[i] \in Symbols
      BY <1>0
    <3>1. SubSeq(s, 4, l) \in Seq(Symbols)
      <4>1. 4 \in Int /\ l \in Int
        BY <1>0
      <4> QED
        BY <3>0, <4>1, SubSeqProperties, Zenon
    <3>2. PICK t \in Seq(Symbols) : t = SubSeq(s, 4, l)
      BY <3>1
    <3>3. Len(t) = l - 3
      BY <1>0, <1>4, <3>2
    <3>4. \A j \in 1 .. l - 3 : t[j] = s[3 + j]
      BY <1>0, <1>4, <3>2
    <3>5. DOMAIN t = 1 .. Len(t)
      OBVIOUS
    <3> QED
      BY <3>2, <3>3, <3>4, <3>5
  <2>7. 3 * (c + 1) + (l - 3) = 3 * c + l
    OBVIOUS
  <2>8. ASSUME NEW j \in 1 .. l - 3
        PROVE  t[j] = Plain(3 * (c + 1) + j)
    <3>1. 3 + j \in 1 .. l /\ 3 * c + (3 + j) = 3 * (c + 1) + j
      BY <1>0
    <3>2. s[3 + j] = Plain(3 * c + (3 + j))
      BY <1>0, <3>1 DEF HoldsPlain
    <3> QED
      BY <2>6, <3>1, <3>2
  <2>9. HoldsPlain(t, c + 1, p)
    BY <1>0, <2>6, <2>7, <2>8 DEF HoldsPlain
  <2> QED
    BY <1>0, <1>1, <1>4, <2>5, <2>6, <2>9
<1> QED
  BY <1>3, <1>4

\* A frame of one line is refused only if it is broken.
LEMMA OneLine ==
  ASSUME ProviderTypeOK, NEW s \in Seq(Symbols), Len(s) = 1, IsText(s[1]), s[1].frame # 0,
         NEW otherwise, Receive(s, otherwise), error' # error
  PROVE  \E i \in DOMAIN frames : frames[i] = "broken"
<1> DEFINE k == s[1].frame
<1>1. DOMAIN s = {1} /\ s[1] \in Symbols
  <2>1. 1 .. 1 = {1}
    OBVIOUS
  <2> QED
    BY <2>1
<1>2. k \in DOMAIN frames /\ frames[k] \in FrameKinds
  BY <1>1 DEF Symbols, ProviderTypeOK
<1>3. Data(s) \subseteq {1}
  BY <1>1 DEF Data
<1>4. PICK place \in Data(s) :
         /\ Data(s) = {place}
         /\ LET kind == IF s[place].char = "part" THEN "broken" ELSE frames[s[place].frame]
                bare == ~(place < Len(s) /\ s[place + 1] = CR)
            IN  CASE kind = "broken" \/ (kind = "DONE" /\ ~bare) ->
                       BodyFails("MALFORMED_STREAM", TRUE) /\ UNCHANGED got
                  [] kind = "DONE" /\ bare -> phase' = "done" /\ UNCHANGED <<got, error>>
                  [] kind = "delta" ->
                       phase' = otherwise /\ got' = Append(got, s[place].frame) /\ UNCHANGED error
                  [] kind = "other" -> phase' = otherwise /\ UNCHANGED <<got, error>>
  BY <1>3 DEF Receive
<1>5. place = 1 /\ 1 \in Data(s) /\ ~(place < Len(s))
  BY <1>3
<1>6. frames[k] # "comment" /\ s[1].char # "part"
  BY <1>5 DEF Data, IsText
<1>7. frames[k] = "broken"
  <2>1. frames[k] \in {"delta", "other", "broken", "DONE"}
    BY <1>2, <1>6 DEF FrameKinds
  <2>2. frames[k] = "DONE" => error' = error
    BY <1>4, <1>5, <1>6
  <2>3. frames[k] = "delta" => error' = error
    BY <1>4, <1>5, <1>6
  <2>4. frames[k] = "other" => error' = error
    BY <1>4, <1>5, <1>6
  <2> QED
    BY <2>1, <2>2, <2>3, <2>4
<1> QED
  BY <1>2, <1>7

----------------------------------------------------------------------------
(* One step                                                                *)

LEMMA SameBody ==
  ASSUME UNCHANGED <<frames, eol>>
  PROVE  /\ Symbols' = Symbols /\ FrameLength' = FrameLength /\ BodyLength' = BodyLength
         /\ Wanted' = Wanted
  BY DEF Symbols, FrameLength, BodyLength, Wanted, Readable

LEMMA GotIsInOrder ==
  ASSUME ProviderTypeOK, NEW c \in Nat, Got(c)
  PROVE  /\ Received \subseteq Wanted
         /\ \A i, j \in DOMAIN got : i < j => got[i] < got[j]
         /\ \A w \in Wanted, g \in Received : w < g => w \in Received
<1>1. ASSUME NEW w \in Wanted, NEW g \in Received, w < g
      PROVE  w \in Received
  <2>1. g \in 1 .. c /\ w \in 1 .. Len(frames)
    BY DEF Got, Wanted, Readable, ProviderTypeOK
  <2>2. w <= c
    BY <1>1, <2>1 DEF ProviderTypeOK
  <2> QED
    BY <2>2 DEF Got
<1> QED
  BY <1>1 DEF Got

LEMMA GotInOrder ==
  \A c \in Nat : ProviderTypeOK /\ Got(c) =>
     /\ Received \subseteq Wanted
     /\ \A i, j \in DOMAIN got : i < j => got[i] < got[j]
     /\ \A w \in Wanted, g \in Received : w < g => w \in Received
  BY GotIsInOrder

LEMMA GotInOrderNext ==
  (\A c \in Nat : ProviderTypeOK /\ Got(c) =>
     /\ Received \subseteq Wanted
     /\ \A i, j \in DOMAIN got : i < j => got[i] < got[j]
     /\ \A w \in Wanted, g \in Received : w < g => w \in Received)'
  BY GotInOrder, PTL

LEMMA TypedParts ==
  ASSUME ProviderTypeOK
  PROVE  /\ Len(frames) \in Nat /\ DOMAIN frames = 1 .. Len(frames)
         /\ arrived \in Nat /\ arrived <= BodyLength /\ BodyLength \in Nat
         /\ buffer \in Seq(Symbols) /\ Len(buffer) \in Nat
         /\ Texts(arrived) \in 0 .. Len(frames)
  BY BodyHasAll, TextsWithin DEF ProviderTypeOK, Symbols

LEMMA InitProvider ==
  ASSUME ProviderInit
  PROVE  ProviderInv
<1>1. frames \in Seq(FrameKinds)
  BY DEF ProviderInit
<1>2. /\ eol \in {"LF", "CRLF"} /\ arrived = 0 /\ buffer = <<>> /\ got = <<>>
      /\ phase = "request" /\ error = NoError /\ closed = FALSE /\ split = FALSE
  BY DEF ProviderInit
<1>3. BodyLength \in Nat
  <2>1. FrameLength \in {3, 5} /\ Len(frames) \in Nat
    BY <1>1 DEF FrameLength
  <2>2. Len(frames) * 3 \in Nat /\ Len(frames) * 5 \in Nat
    BY <2>1
  <2> QED
    BY <2>1, <2>2 DEF BodyLength
<1>4. ProviderTypeOK
  <2>1. arrived \in 0 .. BodyLength
    BY <1>2, <1>3
  <2>2. /\ buffer \in Seq([char : {"text", "part", "CR", "LF"}, frame : 0 .. Len(frames)])
        /\ got \in Seq(1 .. Len(frames))
    BY <1>2
  <2>3. error \in [code : {"none", "AUTHENTICATION_FAILED", "INSUFFICIENT_BALANCE",
                           "INVALID_REQUEST", "RATE_LIMITED", "OVERLOADED", "UNKNOWN",
                           "MALFORMED_STREAM", "TIMEOUT", "CONNECTION_LOST"},
                   retry : BOOLEAN]
    BY <1>2 DEF NoError
  <2> QED
    BY <1>1, <1>2, <2>1, <2>2, <2>3 DEF ProviderTypeOK
<1>5. Texts(0) = 0 /\ Plainly(0) = 0 /\ 0 \in 0 .. Len(frames)
  BY <1>1, <1>4, NextSymbol, PlainSymbol
<1>6. Received = {} /\ DOMAIN got = {} /\ DOMAIN buffer = {} /\ Len(buffer) = 0
  BY <1>2 DEF Received
<1>7. InOrder(buffer, 0, 0) /\ HoldsPlain(buffer, 0, 0)
  BY <1>5, <1>6 DEF InOrder, HoldsPlain
<1>8. Got(0)
  <2>1. \A w \in Wanted : ~(w <= 0)
    BY <1>4, TypedParts DEF Wanted, Readable
  <2>2. 1 .. 0 = {}
    OBVIOUS
  <2> QED
    BY <1>6, <2>1, <2>2 DEF Got
<1>9. Reads
  BY <1>2, <1>5, <1>7, <1>8 DEF Reads
<1>10. Exactly
  BY <1>2, <1>5, <1>7 DEF Exactly
<1>11. Starts /\ Ends /\ Refused
  BY <1>2, <1>6 DEF Starts, Ends, Refused, NoError
<1> QED
  BY <1>4, <1>9, <1>10, <1>11 DEF ProviderInv

LEMMA CallFails ==
  ASSUME ProviderInv, UNCHANGED <<frames, eol, arrived, buffer, got, closed, split>>,
         phase' = "failed",
         error' \in [code : {"AUTHENTICATION_FAILED", "INSUFFICIENT_BALANCE", "INVALID_REQUEST",
                             "RATE_LIMITED", "OVERLOADED", "UNKNOWN", "MALFORMED_STREAM",
                             "TIMEOUT", "CONNECTION_LOST"}, retry : BOOLEAN],
         error'.retry => got = <<>>,
         error'.code = "MALFORMED_STREAM" => arrived = 0
  PROVE  ProviderInv'
<1>0. BodyLength' = BodyLength /\ Wanted' = Wanted /\ Received' = Received
  BY SameBody DEF Received
<1>1. ProviderTypeOK'
  BY <1>0 DEF ProviderInv, ProviderTypeOK
<1>2. Starts' /\ Reads' /\ Exactly'
  BY <1>0 DEF ProviderInv, Starts, Reads, Exactly
<1>3. Ends'
  BY <1>0 DEF ProviderInv, Ends
<1>4. Refused'
  BY DEF ProviderInv, ProviderTypeOK, Refused
<1> QED
  BY <1>1, <1>2, <1>3, <1>4 DEF ProviderInv

LEMMA RespondKeepsInv ==
  ASSUME ProviderInv, Respond
  PROVE  ProviderInv'
<1>0. /\ phase = "request" /\ arrived = 0 /\ got = <<>> /\ buffer = <<>> /\ error = NoError
      /\ UNCHANGED <<frames, eol, arrived, buffer, got, closed, split>>
  BY DEF Respond, ProviderInv, Starts
<1>1. CASE phase' = "body" /\ UNCHANGED error
  <2>0. BodyLength' = BodyLength /\ Wanted' = Wanted /\ Received' = Received
    BY <1>0, SameBody DEF Received
  <2>1. ProviderTypeOK'
    BY <1>0, <1>1, <2>0 DEF ProviderInv, ProviderTypeOK
  <2>2. Starts' /\ Ends' /\ Refused'
    BY <1>0, <1>1, <2>0 DEF ProviderInv, Starts, Ends, Refused, NoError
  <2>3. Exactly'
    BY <1>0, <1>1 DEF ProviderInv, Exactly, HoldsPlain, Plainly, Plain
  <2>4. Reads'
    BY <1>0, <1>1 DEF ProviderInv, Reads, InOrder, Got, Received, Wanted, Readable, Texts, FrameLength
  <2> QED
    BY <2>1, <2>2, <2>3, <2>4 DEF ProviderInv
<1>2. ASSUME NEW status \in {400, 401, 402, 404, 422, 429, 500, 502, 503},
             Fails(Refusal(status)[1], Refusal(status)[2])
      PROVE  ProviderInv'
  <2>1. /\ Refusal(status)[1] \in {"AUTHENTICATION_FAILED", "INSUFFICIENT_BALANCE", "INVALID_REQUEST",
                                   "RATE_LIMITED", "OVERLOADED", "UNKNOWN"}
        /\ Refusal(status)[2] \in BOOLEAN
    <3>1. CASE status = 401
      BY <3>1 DEF Refusal
    <3>2. CASE status = 402
      BY <3>2 DEF Refusal
    <3>3. CASE status = 400
      BY <3>3 DEF Refusal
    <3>3a. CASE status = 422
      BY <3>3a DEF Refusal
    <3>4. CASE status = 429
      BY <3>4 DEF Refusal
    <3>5. CASE status \in {500, 503}
      BY <3>5 DEF Refusal
    <3>6. CASE status \in {404, 502}
      <4>1. Refusal(status) = <<"UNKNOWN", status >= 500>>
        BY <3>6 DEF Refusal
      <4> QED
        BY <4>1
    <3> QED
      BY <3>1, <3>2, <3>3, <3>3a, <3>4, <3>5, <3>6
  <2>2. phase' = "failed" /\ error' = [code |-> Refusal(status)[1], retry |-> Refusal(status)[2]]
    BY <1>2 DEF Fails
  <2> QED
    BY <1>0, <2>1, <2>2, CallFails
<1>3. CASE Fails("MALFORMED_STREAM", TRUE)
  <2>1. phase' = "failed" /\ error' = [code |-> "MALFORMED_STREAM", retry |-> TRUE]
    BY <1>3 DEF Fails
  <2> QED
    BY <1>0, <2>1, CallFails
<1> DEFINE Refuses == \E status \in {400, 401, 402, 404, 422, 429, 500, 502, 503} :
                          Fails(Refusal(status)[1], Refusal(status)[2])
<1>4. CASE Refuses
  BY <1>2, <1>4
<1>5. (phase' = "body" /\ UNCHANGED error) \/ Refuses \/ Fails("MALFORMED_STREAM", TRUE)
  BY DEF Respond
<1> HIDE DEF Refuses
<1> QED
  BY <1>1, <1>3, <1>4, <1>5

LEMMA BreaksKeepsInv ==
  ASSUME ProviderInv, Breaks
  PROVE  ProviderInv'
<1>1. PICK e \in FetchErrors : BodyFails(e[1], e[2])
  BY DEF Breaks
<1>2. e[1] \in {"TIMEOUT", "CONNECTION_LOST"} /\ e[2] \in BOOLEAN
  <2>1. CASE e = <<"TIMEOUT", TRUE>>
    BY <2>1
  <2>2. CASE e = <<"CONNECTION_LOST", FALSE>>
    BY <2>2
  <2>3. CASE e = <<"CONNECTION_LOST", TRUE>>
    BY <2>3
  <2> QED
    BY <2>1, <2>2, <2>3 DEF FetchErrors
<1>3. phase' = "failed" /\ error' = [code |-> e[1], retry |-> e[2] /\ got = <<>>]
  BY <1>1 DEF BodyFails, Fails
<1>4. (e[2] /\ got = <<>>) \in BOOLEAN /\ ((e[2] /\ got = <<>>) => got = <<>>)
  OBVIOUS
<1>5. UNCHANGED <<frames, eol, arrived, buffer, got, closed, split>>
  BY DEF Breaks
<1> QED
  BY <1>2, <1>3, <1>4, <1>5, CallFails

LEMMA ReadChunkKeepsInv ==
  ASSUME ProviderInv, NEW n \in 1 .. MaxFrames * 5, ReadChunk(n)
  PROVE  ProviderInv'
<1>0. /\ phase = "body" /\ arrived + n <= BodyLength /\ arrived' = arrived + n
      /\ buffer' = buffer \o Normalised([i \in 1 .. n |-> At(arrived + i)])
      /\ split' = (split \/ At(arrived + n) = CR)
      /\ UNCHANGED <<frames, eol, got, phase, error, closed>>
  BY DEF ReadChunk, Reading
<1>1. ProviderTypeOK /\ n \in Nat \ {0} /\ UNCHANGED <<frames, eol>>
  BY <1>0 DEF ProviderInv
<1>2. /\ Symbols' = Symbols /\ BodyLength' = BodyLength /\ Wanted' = Wanted /\ Received' = Received
      /\ FrameLength' = FrameLength
  BY <1>0, SameBody DEF Received
<1>3. /\ buffer' \in Seq(Symbols)
      /\ \A c \in Nat : (c <= Texts(arrived) /\ InOrder(buffer, c, Texts(arrived)))
                            => c <= Texts(arrived + n) /\ InOrder(buffer', c, Texts(arrived + n))
      /\ \A c \in Nat : (At(arrived + n) # CR /\ HoldsPlain(buffer, c, arrived))
                            => HoldsPlain(buffer', c, arrived + n)
  BY <1>0, <1>1, ChunkIsRead
<1>4. arrived + n \in 0 .. BodyLength /\ arrived \in Nat /\ arrived + n \in Nat
  BY <1>0, <1>1, TypedParts
<1>5. ProviderTypeOK'
  <2>1. split' \in BOOLEAN
    BY <1>0
  <2>2. buffer' \in Seq([char : {"text", "part", "CR", "LF"}, frame : 0 .. Len(frames)])
    BY <1>3 DEF Symbols
  <2> QED
    BY <1>0, <1>1, <1>2, <1>4, <2>1, <2>2 DEF ProviderTypeOK
<1>6. Starts' /\ Ends'
  <2>1. ~closed
    BY <1>0, <1>1, <1>4 DEF ProviderInv, Starts
  <2> QED
    BY <1>0, <1>2, <2>1 DEF ProviderInv, Starts, Ends
<1>7. Refused'
  BY <1>0 DEF ProviderInv, Starts, Refused, NoError
<1>8. Reads'
  <2>1. PICK c \in 0 .. Len(frames), d \in 0 .. Len(frames) :
           c <= d /\ InOrder(buffer, c, d) /\ Got(c) /\ (~closed => d = Texts(arrived))
    BY <1>0 DEF ProviderInv, Reads
  <2>2. Got(c)' /\ Len(frames') = Len(frames)
    BY <1>0, <1>2, <2>1 DEF Got
  <2>3. CASE ~closed
    <3>1. c \in Nat /\ InOrder(buffer', c, Texts(arrived + n)) /\ Texts(arrived + n) \in 0 .. Len(frames)
      BY <1>1, <1>3, <1>4, <2>1, <2>3, TextsWithin
    <3>2. c <= Texts(arrived + n)
      BY <1>3, <2>1, <2>3, <3>1
    <3>3. Texts(arrived)' = Texts(arrived + n)
      BY <1>0, <1>2 DEF Texts
    <3> QED
      BY <1>0, <2>2, <3>1, <3>2, <3>3 DEF Reads, InOrder
  <2>4. CASE closed
    <3>1. arrived = BodyLength
      BY <2>4 DEF ProviderInv, Starts
    <3> QED
      BY <1>0, <1>1, <1>4, <3>1
  <2> QED
    BY <2>3, <2>4
<1>9. Exactly'
  <2>1. CASE ~split' /\ ~closed
    <3>1. PICK c \in 0 .. Len(frames) : HoldsPlain(buffer, c, arrived)
      BY <1>0, <2>1 DEF ProviderInv, Exactly
    <3>2. HoldsPlain(buffer', c, arrived + n)
      <4>1. c \in Nat /\ At(arrived + n) # CR
        <5>1. Len(frames) \in Nat
          BY <1>1, TypedParts
        <5>2. ~(split \/ At(arrived + n) = CR)
          BY <1>0, <2>1
        <5> QED
          BY <5>1, <5>2
      <4> QED
        BY <1>3, <3>1, <4>1
    <3>3. HoldsPlain(buffer, c, arrived)' /\ c \in 0 .. Len(frames')
      BY <1>0, <3>2 DEF HoldsPlain, Plainly, Plain
    <3> QED
      BY <3>3 DEF Exactly
  <2>2. CASE split' \/ closed
    BY <1>0, <2>2 DEF Exactly
  <2> QED
    BY <2>1, <2>2
<1> QED
  BY <1>5, <1>6, <1>7, <1>8, <1>9 DEF ProviderInv

LEMMA ClosesEarlyKeepsInv ==
  ASSUME ProviderInv, ClosesEarly
  PROVE  ProviderInv'
<1>0. /\ phase = "body" /\ ~closed /\ closed' = TRUE /\ arrived' = BodyLength
      /\ UNCHANGED <<frames, eol, got, phase, error, split>>
  BY DEF ClosesEarly, Reading
<1>1. ProviderTypeOK
  BY DEF ProviderInv
<1>2. /\ Symbols' = Symbols /\ BodyLength' = BodyLength /\ Wanted' = Wanted /\ Received' = Received
  BY <1>0, SameBody DEF Received
<1>3. \/ buffer' = buffer
      \/ \E x \in Symbols : ~IsText(x) /\ buffer' = Append(buffer, x)
  <2>1. CASE buffer' = buffer
    BY <2>1
  <2>2. ASSUME NEW i \in DOMAIN frames, buffer' = Append(buffer, Symbol("part", i))
        PROVE  \E x \in Symbols : ~IsText(x) /\ buffer' = Append(buffer, x)
    <3>1. Symbol("part", i) \in Symbols
      BY <1>1, TypedParts DEF Symbol, Symbols
    <3>2. ~IsText(Symbol("part", i))
      BY SymbolFields DEF IsText
    <3> QED
      BY <2>2, <3>1, <3>2
  <2> QED
    BY <2>1, <2>2 DEF ClosesEarly
<1>4. PICK c \in 0 .. Len(frames), d \in 0 .. Len(frames) :
         c <= d /\ InOrder(buffer, c, d) /\ Got(c)
  BY <1>0 DEF ProviderInv, Reads
<1>5. buffer' \in Seq(Symbols) /\ InOrder(buffer', c, d)
  <2>1. c \in Nat /\ d \in Nat /\ buffer \in Seq(Symbols)
    BY <1>1, TypedParts
  <2>2. CASE buffer' = buffer
    BY <1>4, <2>1, <2>2
  <2>3. ASSUME NEW x \in Symbols, ~IsText(x), buffer' = Append(buffer, x)
        PROVE  buffer' \in Seq(Symbols) /\ InOrder(buffer', c, d)
    BY <1>4, <2>1, <2>3, OrderGrows
  <2> QED
    BY <1>3, <2>2, <2>3
<1>6. ProviderTypeOK'
  <2>1. arrived' \in 0 .. BodyLength
    BY <1>0, <1>1, TypedParts
  <2>2. buffer' \in Seq([char : {"text", "part", "CR", "LF"}, frame : 0 .. Len(frames)])
    BY <1>5 DEF Symbols
  <2> QED
    BY <1>0, <1>1, <1>2, <2>1, <2>2 DEF ProviderTypeOK
<1>7. Starts' /\ Ends' /\ Refused' /\ Exactly'
  BY <1>0, <1>2 DEF ProviderInv, Starts, Ends, Refused, Exactly
<1>8. Reads'
  <2>1. Got(c)' /\ Len(frames') = Len(frames)
    BY <1>0, <1>2, <1>4 DEF Got
  <2> QED
    BY <1>0, <1>4, <1>5, <2>1 DEF Reads, InOrder
<1> QED
  BY <1>6, <1>7, <1>8 DEF ProviderInv

\* What a frame leaves behind.
LEMMA FrameKeepsInv ==
  ASSUME ProviderInv, phase = "body",
         UNCHANGED <<frames, eol, arrived, closed, split>>,
         NEW s \in Seq(Symbols), NEW c \in Nat, NEW m \in 0 .. Len(frames), c <= m,
         InOrder(s, c, m), Got(c),
         buffer' \in Seq(Symbols),
         NEW otherwise \in {"body", "done"}, Receive(s, otherwise),
         otherwise = "done" /\ ~closed => m = Len(frames),
         (~split /\ ~closed /\ error' # error) => \E i \in DOMAIN frames : frames[i] = "broken"
  PROVE  /\ ProviderTypeOK' /\ Starts' /\ Ends' /\ Refused'
         /\ phase' \in {"body", "done", "failed"}
         /\ phase' = "body" => Got(m)'
<1>0. /\ ProviderTypeOK /\ Starts /\ Ends /\ Refused /\ UNCHANGED frames
      /\ error = NoError
  BY DEF ProviderInv, Starts
<1>1. /\ Symbols' = Symbols /\ BodyLength' = BodyLength /\ Wanted' = Wanted
  BY SameBody
<1>2. m \in Nat /\ m <= Len(frames) /\ Len(frames) \in Nat
  <2>1. Len(frames) \in Nat
    BY <1>0, TypedParts
  <2> QED
    BY <2>1
<1>3. \/ phase' = otherwise /\ error' = error /\ Got(m)' /\ got' \in Seq(1 .. Len(frames))
      \/ phase' = "done" /\ error' = error /\ got' = got /\ Wanted \subseteq Received
      \/ /\ phase' = "failed" /\ got' = got
         /\ error' = [code |-> "MALFORMED_STREAM", retry |-> got = <<>>]
  BY <1>0, <1>2, FrameIsHandled
<1>4. /\ phase' \in {"body", "done", "failed"} /\ got' \in Seq(1 .. Len(frames))
      /\ phase' # "failed" => error' = error
      /\ phase' = "failed" => error' = [code |-> "MALFORMED_STREAM", retry |-> got = <<>>] /\ got' = got
  BY <1>0, <1>3 DEF ProviderTypeOK
<1>5. ProviderTypeOK'
  <2>1. /\ buffer' \in Seq([char : {"text", "part", "CR", "LF"}, frame : 0 .. Len(frames)])
    BY DEF Symbols
  <2>2. error' \in [code : {"none", "AUTHENTICATION_FAILED", "INSUFFICIENT_BALANCE",
                            "INVALID_REQUEST", "RATE_LIMITED", "OVERLOADED", "UNKNOWN",
                            "MALFORMED_STREAM", "TIMEOUT", "CONNECTION_LOST"},
                    retry : BOOLEAN]
    <3>1. PICK r \in BOOLEAN : r = (got = <<>>)
      OBVIOUS
    <3>2. CASE phase' = "failed"
      <4>1. error' = [code |-> "MALFORMED_STREAM", retry |-> r]
        BY <1>4, <3>1, <3>2, Zenon
      <4> QED
        BY <4>1
    <3>3. CASE phase' # "failed"
      BY <1>0, <1>4, <3>3 DEF ProviderTypeOK
    <3> QED
      BY <3>2, <3>3
  <2> QED
    BY <1>0, <1>1, <1>4, <2>1, <2>2 DEF ProviderTypeOK
<1>6. Starts'
  BY <1>0, <1>1, <1>4 DEF Starts
<1>7. Refused'
  BY <1>0 DEF Refused, NoError
<1>8. Ends'
  <2>1. CASE phase' = otherwise /\ error' = error /\ Got(m)'
    <3>1. /\ Received' \subseteq Wanted'
          /\ \A i, j \in DOMAIN got' : i < j => got'[i] < got'[j]
          /\ \A w \in Wanted', g \in Received' : w < g => w \in Received'
      BY <1>2, <1>5, <2>1, GotInOrderNext
    <3>2. ~error'.retry
      BY <1>0, <2>1 DEF NoError
    <3>3. (phase' = "done" /\ ~closed') => Wanted' \subseteq Received'
      <4> SUFFICES ASSUME phase' = "done", ~closed' PROVE Wanted' \subseteq Received'
        OBVIOUS
      <4>1. m = Len(frames)
        BY <2>1
      <4>2. \A w \in Wanted : w <= m
        BY <1>0, <1>2, <4>1 DEF Wanted, Readable, ProviderTypeOK
      <4> QED
        BY <1>1, <2>1, <4>2 DEF Got
    <3> QED
      BY <3>1, <3>2, <3>3 DEF Ends
  <2>2. CASE phase' = "done" /\ error' = error /\ got' = got /\ Wanted \subseteq Received
    <3>1. Received' = Received
      BY <2>2 DEF Received
    <3> QED
      BY <1>0, <1>1, <2>2, <3>1 DEF Ends
  <2>3. CASE /\ phase' = "failed" /\ got' = got
             /\ error' = [code |-> "MALFORMED_STREAM", retry |-> got = <<>>]
    <3>1. Received' = Received
      BY <2>3 DEF Received
    <3> QED
      BY <1>0, <1>1, <2>3, <3>1 DEF Ends
  <2> QED
    BY <1>3, <2>1, <2>2, <2>3
<1>9. phase' = "body" => Got(m)'
  BY <1>3
<1> QED
  BY <1>4, <1>5, <1>6, <1>7, <1>8, <1>9

LEMMA TakeFrameKeepsInv ==
  ASSUME ProviderInv, TakeFrame
  PROVE  ProviderInv'
<1> DEFINE b == Boundary(buffer)
           s == SubSeq(buffer, 1, b - 1)
<1>0. /\ phase = "body" /\ b # 0 /\ buffer' = SubSeq(buffer, b + 2, Len(buffer))
      /\ Receive(s, "body") /\ UNCHANGED <<frames, eol, arrived, closed, split>>
  BY DEF TakeFrame
<1>1. /\ ProviderTypeOK /\ buffer \in Seq(Symbols) /\ Len(buffer) \in Nat
      /\ \A i \in 1 .. Len(buffer) : buffer[i] \in Symbols
  BY TypedParts DEF ProviderInv
<1>2. b \in 1 .. Len(buffer) /\ b < Len(buffer) /\ buffer[b] = LF /\ buffer[b + 1] = LF
  BY <1>0, <1>1, BoundaryIs
<1> HIDE DEF b
<1>3. s \in Seq(Symbols) /\ buffer' \in Seq(Symbols)
  <2>1. b - 1 \in Int /\ b + 2 \in Int /\ Len(buffer) \in Int /\ 1 \in Int
    BY <1>1, <1>2
  <2>2. /\ \A i \in 1 .. b - 1 : buffer[i] \in Symbols
        /\ \A i \in b + 2 .. Len(buffer) : buffer[i] \in Symbols
    BY <1>1, <1>2
  <2>3. s \in Seq(Symbols)
    BY <2>1, <2>2, SubSeqProperties, Zenon
  <2>4. SubSeq(buffer, b + 2, Len(buffer)) \in Seq(Symbols)
    BY <2>1, <2>2, SubSeqProperties, Zenon
  <2> QED
    BY <1>0, <2>3, <2>4
<1>4. PICK c \in 0 .. Len(frames), d \in 0 .. Len(frames) :
         c <= d /\ InOrder(buffer, c, d) /\ Got(c) /\ (~closed => d = Texts(arrived))
  BY <1>0 DEF ProviderInv, Reads
<1>5. c \in Nat /\ d \in Nat /\ Len(frames) \in Nat
  BY <1>1, TypedParts
<1>6. ~IsText(LF)
  BY SymbolFields DEF IsText, LF
<1>7. PICK m \in c .. d : InOrder(s, c, m) /\ InOrder(buffer', m, d)
  BY <1>0, <1>1, <1>2, <1>4, <1>5, <1>6, OrderIsCut
<1>8. m \in 0 .. Len(frames) /\ c <= m /\ m <= d
  BY <1>4, <1>5
<1>9. ASSUME ~split, ~closed
      PROVE  /\ \E k \in 0 .. Len(frames) : HoldsPlain(buffer', k, arrived)
             /\ error' # error => \E i \in DOMAIN frames : frames[i] = "broken"
  <2>1. PICK k \in 0 .. Len(frames) : HoldsPlain(buffer, k, arrived)
    BY <1>0, <1>9 DEF ProviderInv, Exactly
  <2>2. k \in Nat /\ arrived \in Nat
    BY <1>1, <1>5, TypedParts
  <2>3. b = 2 /\ buffer[1] = Symbol("text", k + 1) /\ HoldsPlain(buffer', k + 1, arrived)
    BY <1>0, <1>1, <2>1, <2>2, PlainFrame DEF b
  <2>4. buffer[1] \in Symbols /\ buffer[1].frame = k + 1
    BY <1>1, <1>2, <2>3, SymbolFields
  <2>5. k + 1 \in 0 .. Len(frames)
    BY <2>4 DEF Symbols
  <2>6. Len(s) = 1 /\ s[1] = buffer[1]
    BY <1>1, <1>2, <2>3
  <2>7. IsText(s[1]) /\ s[1].frame # 0
    BY <2>2, <2>3, <2>6, SymbolFields DEF IsText
  <2> HIDE DEF s
  <2>8. error' # error => \E i \in DOMAIN frames : frames[i] = "broken"
    BY <1>0, <1>1, <1>3, <2>6, <2>7, OneLine
  <2> QED
    BY <2>3, <2>5, <2>8
<1> HIDE DEF s
<1>10. /\ ProviderTypeOK' /\ Starts' /\ Ends' /\ Refused'
       /\ phase' \in {"body", "done", "failed"}
       /\ phase' = "body" => Got(m)'
  <2>1. "body" \in {"body", "done"} /\ "body" # "done"
    OBVIOUS
  <2> QED
    BY <1>0, <1>3, <1>4, <1>5, <1>7, <1>8, <1>9, <2>1, FrameKeepsInv
<1>11. Reads'
  <2>1. Texts(arrived)' = Texts(arrived) /\ Len(frames') = Len(frames) /\ closed' = closed
    BY <1>0 DEF Texts, FrameLength
  <2> QED
    BY <1>4, <1>7, <1>8, <1>10, <2>1 DEF Reads, InOrder
<1>12. Exactly'
  <2>1. CASE ~split /\ ~closed
    <3>1. PICK k \in 0 .. Len(frames) : HoldsPlain(buffer', k, arrived)
      BY <1>9, <2>1
    <3>2. HoldsPlain(buffer, k, arrived)' /\ k \in 0 .. Len(frames')
      BY <1>0, <3>1 DEF HoldsPlain, Plainly, Plain
    <3> QED
      BY <3>2 DEF Exactly
  <2>2. CASE split \/ closed
    BY <1>0, <2>2 DEF Exactly
  <2> QED
    BY <2>1, <2>2
<1> QED
  BY <1>10, <1>11, <1>12 DEF ProviderInv

LEMMA BodyEndsKeepsInv ==
  ASSUME ProviderInv, BodyEnds
  PROVE  ProviderInv'
<1>0. /\ phase = "body" /\ Boundary(buffer) = 0 /\ (arrived = BodyLength \/ closed)
      /\ Receive(buffer, "done") /\ buffer' = <<>>
      /\ UNCHANGED <<frames, eol, arrived, closed, split>>
  BY DEF BodyEnds, Reading
<1>1. /\ ProviderTypeOK /\ buffer \in Seq(Symbols) /\ Len(buffer) \in Nat /\ Len(frames) \in Nat
      /\ arrived \in Nat
  BY TypedParts DEF ProviderInv
<1>2. PICK c \in 0 .. Len(frames), d \in 0 .. Len(frames) :
         c <= d /\ InOrder(buffer, c, d) /\ Got(c) /\ (~closed => d = Texts(arrived))
  BY <1>0 DEF ProviderInv, Reads
<1>3. ~closed => d = Len(frames)
  BY <1>0, <1>1, <1>2, BodyHasAll
<1>4. ASSUME ~split, ~closed
      PROVE  error' = error
  <2>1. PICK k \in 0 .. Len(frames) : HoldsPlain(buffer, k, arrived)
    BY <1>0, <1>4 DEF ProviderInv, Exactly
  <2>2. Len(buffer) < 3
    BY <1>0, <1>1, <2>1, PlainFrame
  <2>3. 3 * k + Len(buffer) = 3 * Len(frames)
    BY <1>0, <1>1, <1>4, <2>1, BodyHasAll DEF HoldsPlain
  <2>4. Len(buffer) = 0
    BY <1>1, <2>2, <2>3
  <2>5. Data(buffer) = {}
    BY <1>1, <2>4 DEF Data
  <2> QED
    BY <1>0, <2>5 DEF Receive
<1>5. /\ ProviderTypeOK' /\ Starts' /\ Ends' /\ Refused'
      /\ phase' \in {"body", "done", "failed"}
      /\ phase' # "body"
  <2>1. "done" \in {"body", "done"} /\ c \in Nat /\ <<>> \in Seq(Symbols)
    BY <1>1
  <2>2. /\ ProviderTypeOK' /\ Starts' /\ Ends' /\ Refused' /\ phase' \in {"body", "done", "failed"}
    BY <1>0, <1>1, <1>2, <1>3, <1>4, <2>1, FrameKeepsInv
  <2>3. phase' # "body"
    <3>1. d \in Nat /\ d <= Len(frames) /\ UNCHANGED frames /\ Starts
      BY <1>0, <1>1 DEF ProviderInv
    <3> QED
      BY <1>0, <1>1, <1>2, <2>1, <3>1, FrameIsHandled
  <2> QED
    BY <2>2, <2>3
<1>6. Reads' /\ Exactly'
  BY <1>5 DEF Reads, Exactly
<1> QED
  BY <1>5, <1>6 DEF ProviderInv

LEMMA ProviderStep ==
  ASSUME ProviderInv, [ProviderNext]_providerVars
  PROVE  ProviderInv'
<1>1. CASE UNCHANGED providerVars
  <2>0. /\ BodyLength' = BodyLength /\ Wanted' = Wanted /\ Received' = Received
        /\ FrameLength' = FrameLength
        /\ UNCHANGED <<frames, eol, arrived, buffer, got, phase, error, closed, split>>
    BY <1>1, SameBody DEF providerVars, Received
  <2>1. ProviderTypeOK'
    BY <2>0 DEF ProviderInv, ProviderTypeOK
  <2>2. Starts' /\ Ends' /\ Refused'
    BY <2>0 DEF ProviderInv, Starts, Ends, Refused
  <2>3. Exactly'
    BY <2>0 DEF ProviderInv, Exactly, HoldsPlain, Plainly, Plain
  <2>4. Reads'
    BY <2>0 DEF ProviderInv, Reads, InOrder, Got, Texts
  <2> QED
    BY <2>1, <2>2, <2>3, <2>4 DEF ProviderInv
<1>2. CASE ProviderNext
  BY <1>2, RespondKeepsInv, TakeFrameKeepsInv, BodyEndsKeepsInv, ClosesEarlyKeepsInv,
     BreaksKeepsInv, ReadChunkKeepsInv DEF ProviderNext
<1> QED
  BY <1>1, <1>2

LEMMA ProviderInvHolds == ProviderSpec => []ProviderInv
<1>1. ProviderInit => ProviderInv
  BY InitProvider
<1>2. ProviderInv /\ [ProviderNext]_providerVars => ProviderInv'
  BY ProviderStep
<1> QED
  BY <1>1, <1>2, PTL DEF ProviderSpec

\* Everything keeps its type.
THEOREM ProviderTyped == ProviderSpec => []ProviderTypeOK
<1>1. ProviderInv => ProviderTypeOK
  BY DEF ProviderInv
<1> QED
  BY <1>1, ProviderInvHolds, PTL

\* However the body is cut into chunks, the deltas arrive once, in order and
\* without a gap, and nothing is retried behind one.
THEOREM FramesSurvive == ProviderSpec => []FramesSurviveChunks
<1>1. ProviderInv => FramesSurviveChunks
  BY DEF ProviderInv, Ends, Refused, FramesSurviveChunks
<1> QED
  BY <1>1, ProviderInvHolds, PTL

----------------------------------------------------------------------------
(***************************************************************************)
(* All services                                                            *)
(***************************************************************************)

\* What each service adds to its own initial state only narrows it.
LEMMA ServicesStart ==
  ServicesInit => TaskInit /\ SessionInit /\ LeaseInit /\ WindowInit /\ ProviderInit
  BY DEF ServicesInit

\* A step of one service leaves every other one as it is.
LEMMA ServicesMove ==
  [ServicesNext]_serviceVars =>
     /\ [TaskNext]_taskVars /\ [SessionNext]_sessionVars /\ [LeaseNext]_leaseVars
     /\ [WindowNext]_windowVars /\ [ProviderNext]_providerVars
<1> SUFFICES ASSUME [ServicesNext]_serviceVars
             PROVE  /\ [TaskNext]_taskVars /\ [SessionNext]_sessionVars /\ [LeaseNext]_leaseVars
                    /\ [WindowNext]_windowVars /\ [ProviderNext]_providerVars
  OBVIOUS
<1>1. CASE UNCHANGED serviceVars
  BY <1>1 DEF serviceVars
<1>2. CASE service = "tasks" /\ TaskNext
           /\ UNCHANGED <<service, sessionVars, leaseVars, windowVars, providerVars>>
  BY <1>2
<1>3. CASE service = "sessions" /\ SessionNext
           /\ UNCHANGED <<service, taskVars, leaseVars, windowVars, providerVars>>
  BY <1>3
<1>4. CASE service = "leases" /\ LeaseNext
           /\ UNCHANGED <<service, taskVars, sessionVars, windowVars, providerVars>>
  BY <1>4
<1>5. CASE service = "window" /\ WindowNext
           /\ UNCHANGED <<service, taskVars, sessionVars, leaseVars, providerVars>>
  BY <1>5
<1>6. CASE service = "provider" /\ ProviderNext
           /\ UNCHANGED <<service, taskVars, sessionVars, leaseVars, windowVars>>
  BY <1>6
<1> QED
  BY <1>1, <1>2, <1>3, <1>4, <1>5, <1>6 DEF ServicesNext

\* The instance of all services is one of each of them.
THEOREM ServicesRunEach ==
  ServicesSpec => TaskSpec /\ SessionSpec /\ LeaseSpec /\ WindowSpec /\ ProviderSpec
  BY ServicesStart, ServicesMove, PTL
     DEF ServicesSpec, TaskSpec, SessionSpec, LeaseSpec, WindowSpec, ProviderSpec

\* Every variable of the services keeps its type.
THEOREM ServicesTyped == ServicesSpec => []ServicesTypeOK
<1>1. TaskTypeOK /\ SessionTypeOK /\ LeaseTypeOK /\ WindowTypeOK /\ ProviderTypeOK
         => ServicesTypeOK
  BY DEF ServicesTypeOK
<1> QED
  BY <1>1, ServicesRunEach, TasksTyped, SessionsTyped, LeasesTyped, WindowTyped, ProviderTyped, PTL

\* What is proved of the services one by one holds where they are together.
THEOREM ServicesKeepTheirPromises ==
  ServicesSpec =>
     [](/\ ClaimedOnce /\ EveryDueTimeAccounted /\ OverlapIsBounded
        /\ OneLiveSession /\ StaysSignedIn
        /\ PlacesAreOfStreams /\ OpenWithinLimit
        /\ WindowIsBestFit /\ FramesSurviveChunks)
  BY ServicesRunEach, EachClaimedOnce, NoDueTimeLost, OverlapStaysBounded, LiveSessionIsUnique,
     BrowserStaysSignedIn, NoPlaceIsForgotten, OpenStaysWithinLimit, WindowStaysBestFit,
     FramesSurvive, PTL
=============================================================================
