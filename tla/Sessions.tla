------------------------------ MODULE Sessions ------------------------------
(***************************************************************************)
(* The sessions of one user: a browser whose pages share one cookie jar    *)
(* and call the API at the same time, each refreshing when its access      *)
(* token has expired; one more device that is signed in throughout; and    *)
(* the transactions of the API.  A session is a row of refresh_sessions,   *)
(* its number stands for its token.  Passwords, CSRF tokens, audit rows    *)
(* and inactive users are left out.                                        *)
(***************************************************************************)
EXTENDS Naturals, Sequences

CONSTANTS
    Pages,              \* the requests of the browser that can be under way at once
    MaxSessions,        \* bound: rows
    MaxSessionFaults    \* bound: lost answers and failing transactions

ASSUME SessionAssumption == MaxSessions \in Nat /\ MaxSessionFaults \in Nat

VARIABLES
    sessions,   \* the rows: the first of the family, revoked, expired, rotated from
    locked,     \* rows that an open transaction has updated
    jar,        \* the cookies of the browser: refresh (0: none), and whether access is valid
    request,    \* what each request of the browser waits for
    sessionFaults,
    overlapped  \* history: two requests of the browser refreshed with one token

sessionVars == <<sessions, locked, jar, request, sessionFaults, overlapped>>

Ids == DOMAIN sessions
Live(i) == ~sessions[i].revoked /\ ~sessions[i].expired

NewFamily == [family |-> Len(sessions) + 1, revoked |-> FALSE, expired |-> FALSE, from |-> 0]
Idle == [pc |-> "idle", token |-> 0, next |-> 0, family |-> {}]

\* The other device is signed in, the browser is not.
SessionInit ==
    /\ sessions = <<[family |-> 1, revoked |-> FALSE, expired |-> FALSE, from |-> 0]>>
    /\ locked = {}
    /\ jar = [refresh |-> 0, access |-> FALSE]
    /\ request = [r \in Pages |-> Idle]
    /\ sessionFaults = 0 /\ overlapped = FALSE

Go(r, pc) == request' = [request EXCEPT ![r].pc = pc]
Done(r) == request' = [request EXCEPT ![r] = Idle]

----------------------------------------------------------------------------
(* Time                                                                    *)

AccessExpires ==
    /\ jar.access /\ jar' = [jar EXCEPT !.access = FALSE]
    /\ UNCHANGED <<sessions, locked, request, sessionFaults, overlapped>>

SessionExpires ==
    /\ \E i \in Ids : Live(i) /\ sessions' = [sessions EXCEPT ![i].expired = TRUE]
    /\ UNCHANGED <<locked, jar, request, sessionFaults, overlapped>>

----------------------------------------------------------------------------
(* Signing in and out                                                      *)

\* register, login: a family of its own; the browser stores the cookies,
\* whatever other requests of it are under way.
Login ==
    /\ Len(sessions) < MaxSessions
    /\ sessions' = Append(sessions, NewFamily)
    /\ jar' = [refresh |-> Len(sessions) + 1, access |-> TRUE]
    /\ UNCHANGED <<locked, request, sessionFaults, overlapped>>

\* logout revokes only the session of its cookie.
RevokeOne(i) == sessions' = [sessions EXCEPT ![i].revoked = TRUE]

\* logout needs a valid access token and is not repeated after a refresh; it
\* waits for a transaction on its row; the cookies are cleared.
Logout(r) ==
    /\ request[r].pc = "idle" /\ jar.access
    /\ jar.refresh \in Ids \ locked /\ RevokeOne(jar.refresh)
    /\ jar' = [refresh |-> 0, access |-> FALSE]
    /\ UNCHANGED <<locked, request, sessionFaults, overlapped>>

----------------------------------------------------------------------------
(* apiRequest: 401, one refresh, one more try                              *)

\* The guard refuses a request that carries no valid access token.
Unauthenticated(r) ==
    /\ request[r].pc = "idle" /\ ~jar.access
    /\ Go(r, "refused")
    /\ UNCHANGED <<sessions, locked, jar, sessionFaults, overlapped>>

\* The refresh goes out with the cookie of this moment, even if another request
\* has renewed the access token meanwhile; without a cookie it is refused.
SendRefresh(r) ==
    /\ request[r].pc = "refused"
    /\ IF jar.refresh = 0 THEN Done(r) /\ UNCHANGED overlapped
       ELSE /\ request' = [request EXCEPT ![r].pc = "read", ![r].token = jar.refresh]
            /\ overlapped' = (overlapped \/ \E q \in Pages : request[q].token = jar.refresh)
    /\ UNCHANGED <<sessions, locked, jar, sessionFaults>>

\* refresh reads the session; a revoked one is a replay.
Read(r) ==
    /\ request[r].pc = "read"
    /\ LET s == sessions[request[r].token]
       IN  CASE s.revoked -> Go(r, "family")
             [] ~s.revoked /\ s.expired -> Done(r)
             [] ~s.revoked /\ ~s.expired -> Go(r, "rotate")
    /\ UNCHANGED <<sessions, locked, jar, sessionFaults, overlapped>>

\* RateLimitGuard refuses the refresh: a counter of the address or of the token
\* is used up, or Redis does not answer.  The cookies stay.
Limited(r) ==
    /\ request[r].pc = "read"
    /\ Done(r)
    /\ UNCHANGED <<sessions, locked, jar, sessionFaults, overlapped>>

\* A rotation that trusts what was read.
StillValidAsRead(i) == TRUE

\* updateMany: the session must not be revoked.  Its end is compared with the
\* time of the read again, so it may run out in between.
StillValid(i) == ~sessions[i].revoked

\* The transaction updates the old row, or finds it gone and rolls back; it
\* waits for a transaction that has updated the row.
Rotate(r) ==
    /\ request[r].pc = "rotate" /\ request[r].token \notin locked
    /\ IF StillValid(request[r].token)
       THEN locked' = locked \cup {request[r].token} /\ Go(r, "commit")
       ELSE UNCHANGED locked /\ Go(r, "family")
    /\ UNCHANGED <<sessions, jar, sessionFaults, overlapped>>

\* The transaction commits: the old row is revoked, its successor is there.
Commit(r) ==
    /\ request[r].pc = "commit" /\ Len(sessions) < MaxSessions
    /\ LET old == request[r].token
           revoked == [sessions EXCEPT ![old].revoked = TRUE]
       IN  /\ sessions' = Append(revoked, [family |-> sessions[old].family, revoked |-> FALSE,
                                           expired |-> FALSE, from |-> old])
           /\ locked' = locked \ {old}
    /\ request' = [request EXCEPT ![r].pc = "answer", ![r].next = Len(sessions) + 1]
    /\ UNCHANGED <<jar, sessionFaults, overlapped>>

\* The transaction fails otherwise: nothing changes and the request fails.
RollsBack(r) ==
    /\ request[r].pc = "commit" /\ sessionFaults < MaxSessionFaults
    /\ sessionFaults' = sessionFaults + 1
    /\ locked' = locked \ {request[r].token}
    /\ Done(r)
    /\ UNCHANGED <<sessions, jar, overlapped>>

\* An answer of which only the access cookie is stored.
AnsweredAccess(r) ==
    /\ request[r].pc = "answer"
    /\ jar' = [jar EXCEPT !.access = TRUE]
    /\ Done(r)
    /\ UNCHANGED <<sessions, locked, sessionFaults, overlapped>>

\* The cookies of the answer are stored; the request is repeated once.
Answered(r) ==
    /\ request[r].pc = "answer"
    /\ jar' = [refresh |-> request[r].next, access |-> TRUE]
    /\ Done(r)
    /\ UNCHANGED <<sessions, locked, sessionFaults, overlapped>>

AnswerIsLost(r) ==
    /\ request[r].pc = "answer" /\ sessionFaults < MaxSessionFaults
    /\ sessionFaults' = sessionFaults + 1
    /\ Done(r)
    /\ UNCHANGED <<sessions, locked, jar, overlapped>>

\* Rows that descend from i by rotations: later rows of its family.
Descendants(i) == {j \in Ids : j >= i /\ sessions[j].family = sessions[i].family}

\* revokeRotationDescendants: one statement; it collects the committed rows
\* first and waits for the transactions that have updated one of them.
Collect(r) ==
    /\ request[r].pc = "family"
    /\ request' = [request EXCEPT ![r].pc = "revoke",
                                  ![r].family = Descendants(request[r].token)]
    /\ UNCHANGED <<sessions, locked, jar, sessionFaults, overlapped>>

\* The rows are revoked and the request fails; the cookies stay.
Revoke(r) ==
    /\ request[r].pc = "revoke" /\ request[r].family \cap locked = {}
    /\ sessions' = [i \in Ids |-> [sessions[i] EXCEPT
                      !.revoked = @ \/ i \in request[r].family]]
    /\ Done(r)
    /\ UNCHANGED <<locked, jar, sessionFaults, overlapped>>

RequestStep(r) ==
    \/ Unauthenticated(r) \/ SendRefresh(r) \/ Limited(r) \/ Read(r) \/ Rotate(r) \/ Commit(r)
    \/ RollsBack(r) \/ Answered(r) \/ AnswerIsLost(r) \/ Collect(r) \/ Revoke(r) \/ Logout(r)

SessionNext ==
    \/ AccessExpires \/ SessionExpires \/ Login
    \/ \E r \in Pages : RequestStep(r)

SessionSpec == SessionInit /\ [][SessionNext]_sessionVars

----------------------------------------------------------------------------
(* Properties                                                              *)

\* Everything keeps its type.
SessionRow == [family : Nat, revoked : BOOLEAN, expired : BOOLEAN, from : Nat]
SessionTypeOK ==
    /\ sessions \in Seq(SessionRow)
    /\ locked \subseteq Ids
    /\ jar \in [refresh : Ids \cup {0}, access : BOOLEAN]
    /\ request \in [Pages -> [pc : {"idle", "refused", "read", "rotate", "commit", "answer", "family",
                                    "revoke"},
                              token : Ids \cup {0}, next : Ids \cup {0}, family : SUBSET Ids]]
    /\ sessionFaults \in Nat /\ overlapped \in BOOLEAN

\* A sign-in never has two usable refresh tokens, however its refreshes,
\* replays and logouts meet.
OneLiveSession ==
    \A i, j \in Ids :
        (sessions[i].family = sessions[j].family /\ Live(i) /\ Live(j)) => i = j

\* Only its own browser ends a session: neither a logout nor a replayed token
\* reaches the family of another device (logout: "other devices stay").
OtherDevicesStay == ~sessions[1].revoked

\* The browser stays signed in: its refresh token is usable or about to be
\* replaced, unless it expired, an answer was lost or two of its requests
\* refreshed with one token, which counts as a replay and ends the session.
StaysSignedIn ==
    (jar.refresh # 0 /\ sessionFaults = 0 /\ ~overlapped) =>
        \/ ~sessions[jar.refresh].revoked
        \/ \E r \in Pages : request[r].pc = "answer" /\ request[r].token = jar.refresh
=============================================================================
