---------------------------- MODULE StreamLeases ----------------------------
(***************************************************************************)
(* The event streams of one user, in any number of API processes, and the  *)
(* leases in Redis that limit them: a stream takes a lease, takes it again *)
(* before every read, and gives it up at its end.  What a stream reads and *)
(* writes is in EventStream.  Time is reduced to whether a lease has ended *)
(* since it was last renewed.                                              *)
(***************************************************************************)
EXTENDS Naturals, FiniteSets

CONSTANTS
    Streams,         \* streams that can be open at once
    StreamLimit,     \* SSE_MAX_CONNECTIONS_PER_USER
    MaxLeaseFaults   \* bound: lost releases, crashes and leases that end while held

ASSUME LeaseAssumption ==
    IsFiniteSet(Streams) /\ StreamLimit \in Nat /\ MaxLeaseFaults \in Nat

VARIABLES
    leases,     \* the members of the sorted set
    ended,      \* those whose score is in the past
    stream,     \* where each stream is
    closing,    \* streams whose client has gone
    leaseFaults

leaseVars == <<leases, ended, stream, closing, leaseFaults>>

LeaseInit ==
    /\ leases = {} /\ ended = {}
    /\ stream = [s \in Streams |-> "closed"]
    /\ closing = {} /\ leaseFaults = 0

LeaseFault == leaseFaults < MaxLeaseFaults /\ leaseFaults' = leaseFaults + 1
Move(s, place) == stream' = [stream EXCEPT ![s] = place]

----------------------------------------------------------------------------

\* A script that counts one stream too many.
GrantedAbove(s) == s \in leases \ ended \/ Cardinality(leases \ ended) <= StreamLimit

\* acquireConnectionLease: a lease that has not ended is renewed, or there is
\* room once those that have ended are removed.
Granted(s) == s \in leases \ ended \/ Cardinality(leases \ ended) < StreamLimit

Acquired(s) ==
    /\ leases' = (leases \ ended) \cup (IF Granted(s) THEN {s} ELSE {})
    /\ ended' = {}

\* stream: a first lease, or the request is refused.  The token is new: what
\* an earlier stream left behind has ended before the model reuses its name.
Open(s) ==
    /\ stream[s] = "closed" /\ s \notin leases \ ended
    /\ Acquired(s)
    /\ IF Granted(s) THEN Move(s, "turn") ELSE UNCHANGED stream
    /\ UNCHANGED <<closing, leaseFaults>>

\* Top of the loop: the client has gone, or the lease is taken again; without
\* one the stream ends.
Turn(s) ==
    /\ stream[s] = "turn"
    /\ \/ s \in closing /\ Move(s, "release") /\ UNCHANGED <<leases, ended>>
       \/ s \notin closing /\ Acquired(s) /\ Move(s, IF Granted(s) THEN "read" ELSE "release")
    /\ UNCHANGED <<closing, leaseFaults>>

\* Events or a heartbeat are written, or the client is too slow or has gone
\* and the stream ends.
ReadAndWrite(s) ==
    /\ stream[s] = "read"
    /\ Move(s, "turn") \/ Move(s, "release")
    /\ UNCHANGED <<leases, ended, closing, leaseFaults>>

\* A stream that ends without giving its lease up when the client has gone.
ReleaseForgotten(s) ==
    /\ stream[s] = "release"
    /\ leases' = IF s \in closing THEN leases ELSE leases \ {s}
    /\ ended' = ended \cap leases'
    /\ Move(s, "closed") /\ closing' = closing \ {s}
    /\ UNCHANGED leaseFaults

\* The finally block; a lost call is only counted.
Release(s) ==
    /\ stream[s] = "release"
    /\ \/ leases' = leases \ {s} /\ ended' = ended \ {s} /\ UNCHANGED leaseFaults
       \/ UNCHANGED <<leases, ended>> /\ LeaseFault
    /\ Move(s, "closed") /\ closing' = closing \ {s}

ClientGoes(s) ==
    /\ stream[s] # "closed" /\ s \notin closing
    /\ closing' = closing \cup {s}
    /\ UNCHANGED <<leases, ended, stream, leaseFaults>>

\* The process of the stream dies.
ProcessDies(s) ==
    /\ stream[s] # "closed" /\ LeaseFault
    /\ Move(s, "closed") /\ closing' = closing \ {s}
    /\ UNCHANGED <<leases, ended>>

\* A lease ends: nobody renews it any more, or its stream was held up.
LeaseEnds(s) ==
    /\ s \in leases \ ended
    /\ ended' = ended \cup {s}
    /\ IF stream[s] = "closed" THEN UNCHANGED leaseFaults ELSE LeaseFault
    /\ UNCHANGED <<leases, stream, closing>>

StreamStep(s) ==
    \/ Open(s) \/ Turn(s) \/ ReadAndWrite(s) \/ Release(s)
    \/ ClientGoes(s) \/ ProcessDies(s) \/ LeaseEnds(s)

LeaseNext == \E s \in Streams : StreamStep(s)

LeaseSpec == LeaseInit /\ [][LeaseNext]_leaseVars

----------------------------------------------------------------------------
(* Properties                                                              *)

Held == leases \ ended

\* Everything keeps its type.
LeaseTypeOK ==
    /\ leases \subseteq Streams /\ ended \subseteq leases
    /\ stream \in [Streams -> {"closed", "turn", "read", "release"}]
    /\ closing \subseteq Streams /\ leaseFaults \in Nat

\* As long as nothing fails, every place taken is that of an open stream:
\* no way out of a stream, wherever its client left it, keeps a place, so no
\* page is refused for streams that are gone.
PlacesAreOfStreams == leaseFaults = 0 => \A s \in Held : stream[s] # "closed"

\* However leases end, are renewed late or outlive their streams, the streams
\* that read under a lease of their own never exceed the limit; one that has
\* lost its lease ends at its next turn unless there is room for it.
OpenWithinLimit == Cardinality({s \in Held : stream[s] # "closed"}) <= StreamLimit
=============================================================================
