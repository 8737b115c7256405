--------------------------- MODULE Sessions_proofs ---------------------------
(***************************************************************************)
(* Proofs about the sessions, for any requests, rows and faults.           *)
(***************************************************************************)
EXTENDS Sessions, TLAPS

Pcs == {"idle", "refused", "read", "rotate", "commit", "answer", "family", "revoke"}
Req == [pc : Pcs, token : Ids \cup {0}, next : Ids \cup {0}, family : SUBSET Ids]

\* A request that refreshes.
Holds(x) == x.pc \notin {"idle", "refused"}

\* What a request holds is of the browser: never row 1, the other device.
Own(x) == /\ x.token \in IF Holds(x) THEN Ids \ {1} ELSE {0}
          /\ x.next # 1 /\ 1 \notin x.family

\* A row's family is that of the row or an earlier one, so Login starts a new one.
Families == \A i \in Ids : sessions[i].family \in 1 .. i

\* Stronger than OneLiveSession: expiry does not matter, so a rotation of a
\* row that expires meanwhile keeps it.
OneUnrevoked ==
    \A i, j \in Ids :
        (sessions[i].family = sessions[j].family /\ ~sessions[i].revoked
         /\ ~sessions[j].revoked) => i = j

\* A transaction that has updated its row keeps the others off it.
LockHolds ==
    /\ \A r \in Pages : request[r].pc = "commit" =>
          request[r].token \in locked /\ ~sessions[request[r].token].revoked
    /\ \A r, q \in Pages :
          (request[r].pc = "commit" /\ request[q].pc = "commit"
           /\ request[r].token = request[q].token) => r = q

TheirsOnly == jar.refresh # 1 /\ \A r \in Pages : Own(request[r])

SessionInv ==
    /\ SessionTypeOK /\ 1 \in Ids
    /\ Families /\ OneUnrevoked /\ LockHolds /\ TheirsOnly /\ OtherDevicesStay

----------------------------------------------------------------------------
(* Rows                                                                    *)

LEMMA IdsAre ==
  ASSUME SessionTypeOK
  PROVE  /\ Ids = 1 .. Len(sessions) /\ Len(sessions) \in Nat
         /\ \A i \in Ids : sessions[i] \in SessionRow
         /\ request \in [Pages -> Req]
BY DEF SessionTypeOK, Ids, Req, Pcs

\* A row that is added: the others stay where they are.
LEMMA Added ==
  ASSUME NEW s \in Seq(SessionRow), NEW row \in SessionRow
  PROVE  /\ Append(s, row) \in Seq(SessionRow)
         /\ Len(Append(s, row)) = Len(s) + 1
         /\ DOMAIN Append(s, row) = DOMAIN s \cup {Len(s) + 1}
         /\ Len(s) + 1 \notin DOMAIN s
         /\ Append(s, row)[Len(s) + 1] = row
         /\ \A i \in DOMAIN s : Append(s, row)[i] = s[i]
OBVIOUS

\* Rows that change in place.
LEMMA Changed ==
  ASSUME NEW s \in Seq(SessionRow), NEW f \in [DOMAIN s -> SessionRow]
  PROVE  f \in Seq(SessionRow) /\ Len(f) = Len(s) /\ DOMAIN f = DOMAIN s
OBVIOUS

----------------------------------------------------------------------------
(* Steps of a request that leave the rows alone                            *)

LEMMA RowsAlone ==
  ASSUME SessionInv, NEW r \in Pages, NEW x \in Req,
         request' = [request EXCEPT ![r] = x], Own(x), x.pc # "commit",
         sessions' = sessions, locked' \subseteq Ids,
         \A q \in Pages \ {r} : request[q].pc = "commit" =>
            (request[q].token \in locked => request[q].token \in locked'),
         jar' \in [refresh : Ids \cup {0}, access : BOOLEAN], jar'.refresh # 1,
         sessionFaults' \in Nat, overlapped' \in BOOLEAN
  PROVE  SessionInv'
<1>1. request \in [Pages -> Req] /\ Ids' = Ids
  BY IdsAre DEF SessionInv, Ids
<1>2. /\ request' \in [Pages -> Req]
      /\ request'[r] = x
      /\ \A q \in Pages \ {r} : request'[q] = request[q]
  BY <1>1
<1>3. SessionTypeOK'
  BY <1>1, <1>2 DEF SessionInv, SessionTypeOK, Req, Pcs
<1>4. LockHolds'
  BY <1>1, <1>2 DEF SessionInv, LockHolds
<1>5. TheirsOnly'
  BY <1>1, <1>2 DEF SessionInv, TheirsOnly, Own
<1> QED
  BY <1>1, <1>3, <1>4, <1>5 DEF SessionInv, Families, OneUnrevoked, OtherDevicesStay

LEMMA IdleIsOwn == Idle \in Req /\ Own(Idle) /\ Idle.pc # "commit"
BY DEF Idle, Req, Pcs, Own, Holds

LEMMA GoneOn ==
  ASSUME SessionInv, NEW r \in Pages, NEW pc \in Pcs \ {"idle", "refused", "commit"},
         Holds(request[r])
  PROVE  LET x == [request[r] EXCEPT !.pc = pc]
         IN  x \in Req /\ Own(x) /\ x.pc # "commit"
<1>1. request[r] \in Req
  BY IdsAre DEF SessionInv
<1> QED
  BY <1>1 DEF SessionInv, TheirsOnly, Own, Req, Pcs, Holds

----------------------------------------------------------------------------
(* One step                                                                *)

LEMMA InitSession == SessionInit => SessionInv
<1> SUFFICES ASSUME SessionInit
             PROVE  SessionInv
  OBVIOUS
<1> DEFINE row == [family |-> 1, revoked |-> FALSE, expired |-> FALSE, from |-> 0]
<1>1. sessions = <<row>> /\ row \in SessionRow
  BY DEF SessionInit, SessionRow
<1>2. Ids = {1} /\ sessions[1] = row /\ sessions \in Seq(SessionRow)
  BY <1>1 DEF Ids
<1>3. SessionTypeOK
  BY <1>2 DEF SessionInit, SessionTypeOK, Idle
<1> QED
  BY <1>2, <1>3 DEF SessionInit, SessionInv, Families, OneUnrevoked, LockHolds, TheirsOnly,
     Own, Holds, OtherDevicesStay, Idle

LEMMA ExpiryStep ==
  ASSUME SessionInv, AccessExpires \/ SessionExpires
  PROVE  SessionInv'
<1>1. CASE AccessExpires
  <2>1. Ids' = Ids
    BY <1>1 DEF AccessExpires, Ids
  <2>2. jar' \in [refresh : Ids \cup {0}, access : BOOLEAN] /\ jar'.refresh # 1
    BY <1>1 DEF AccessExpires, SessionInv, SessionTypeOK, TheirsOnly
  <2> QED
    BY <1>1, <2>1, <2>2 DEF AccessExpires, SessionInv, SessionTypeOK, Families, OneUnrevoked,
       LockHolds, TheirsOnly, Own, OtherDevicesStay
<1>2. CASE SessionExpires
  <2>1. PICK i \in Ids : sessions' = [sessions EXCEPT ![i].expired = TRUE]
    BY <1>2 DEF SessionExpires
  <2>2. sessions \in Seq(SessionRow) /\ sessions \in [Ids -> SessionRow]
    BY IdsAre DEF SessionInv, SessionTypeOK, Ids
  <2>3. /\ sessions' \in [Ids -> SessionRow] /\ DOMAIN sessions' = Ids
        /\ \A j \in Ids : /\ sessions'[j].revoked = sessions[j].revoked
                          /\ sessions'[j].family = sessions[j].family
    BY <2>1, <2>2 DEF SessionRow
  <2>4. sessions' \in Seq(SessionRow) /\ Ids' = Ids
    BY <2>2, <2>3, Changed DEF Ids
  <2>5. UNCHANGED <<locked, jar, request, sessionFaults, overlapped>>
    BY <1>2 DEF SessionExpires
  <2>6. SessionTypeOK'
    BY <2>4, <2>5 DEF SessionInv, SessionTypeOK
  <2>7. LockHolds'
    <3>1. \A r \in Pages : request[r].pc = "commit" => request[r].token \in Ids
      BY DEF SessionInv, LockHolds, SessionTypeOK
    <3> QED
      BY <2>3, <2>5, <3>1 DEF SessionInv, LockHolds
  <2> QED
    BY <2>3, <2>4, <2>5, <2>6, <2>7 DEF SessionInv, Families, OneUnrevoked, TheirsOnly, Own,
       OtherDevicesStay
<1> QED
  BY <1>1, <1>2

\* A new family has one row, and no other row is of it.
LEMMA LoginStep ==
  ASSUME SessionInv, Login
  PROVE  SessionInv'
<1>0. Ids = 1 .. Len(sessions) /\ Len(sessions) \in Nat /\ sessions \in Seq(SessionRow)
  BY IdsAre DEF SessionInv, SessionTypeOK
<1> DEFINE n == Len(sessions) + 1
<1>1. NewFamily \in SessionRow /\ NewFamily.family = n
  BY <1>0 DEF NewFamily, SessionRow
<1>2. sessions' = Append(sessions, NewFamily) /\ jar' = [refresh |-> n, access |-> TRUE]
      /\ UNCHANGED <<locked, request, sessionFaults, overlapped>>
  BY DEF Login
<1>3. /\ sessions' \in Seq(SessionRow) /\ Ids' = Ids \cup {n} /\ n \notin Ids
      /\ sessions'[n] = NewFamily /\ \A i \in Ids : sessions'[i] = sessions[i]
  BY <1>0, <1>1, <1>2, Added DEF Ids
<1>4. SessionTypeOK'
  BY <1>2, <1>3 DEF SessionInv, SessionTypeOK
<1>5. Families'
  BY <1>0, <1>1, <1>3 DEF SessionInv, Families
<1>6. OneUnrevoked'
  <2>1. \A i \in Ids : sessions[i].family # n
    BY <1>0 DEF SessionInv, Families
  <2> QED
    BY <1>1, <1>3, <2>1 DEF SessionInv, OneUnrevoked
<1>7. LockHolds'
  <2>1. \A r \in Pages : request[r].pc = "commit" => request[r].token \in Ids
    BY DEF SessionInv, LockHolds, SessionTypeOK
  <2> QED
    BY <1>2, <1>3, <2>1 DEF SessionInv, LockHolds
<1>8. TheirsOnly' /\ OtherDevicesStay' /\ (1 \in Ids)'
  BY <1>0, <1>2, <1>3 DEF SessionInv, TheirsOnly, Own, OtherDevicesStay
<1> QED
  BY <1>4, <1>5, <1>6, <1>7, <1>8 DEF SessionInv

\* Rows that nobody has updated are revoked, none of them the other device's.
LEMMA Revoking ==
  ASSUME SessionInv, NEW S \in SUBSET (Ids \ {1}), S \cap locked = {},
         sessions' \in [Ids -> SessionRow],
         \A i \in Ids : /\ sessions'[i].family = sessions[i].family
                        /\ sessions'[i].revoked = (sessions[i].revoked \/ i \in S),
         UNCHANGED locked, request' \in [Pages -> Req],
         \A q \in Pages : request'[q] = request[q] \/ request'[q] = Idle,
         jar' \in [refresh : Ids \cup {0}, access : BOOLEAN], jar'.refresh # 1,
         UNCHANGED <<sessionFaults, overlapped>>
  PROVE  SessionInv'
<1>1. sessions \in Seq(SessionRow)
  BY DEF SessionInv, SessionTypeOK
<1>2. sessions' \in Seq(SessionRow) /\ Ids' = Ids
  BY <1>1, Changed DEF Ids
<1>3. SessionTypeOK'
  BY <1>2 DEF SessionInv, SessionTypeOK, Req, Pcs
<1>4. LockHolds'
  <2>1. \A q \in Pages : request'[q].pc = "commit" => request'[q] = request[q]
    BY DEF Idle
  <2>2. \A q \in Pages : request[q].pc = "commit" =>
           request[q].token \in locked /\ request[q].token \in Ids
    BY DEF SessionInv, LockHolds, SessionTypeOK
  <2> QED
    BY <2>1, <2>2 DEF SessionInv, LockHolds
<1>5. TheirsOnly'
  BY <1>2, IdleIsOwn DEF SessionInv, TheirsOnly, Own
<1>6. OneUnrevoked'
  BY <1>2 DEF SessionInv, OneUnrevoked
<1> QED
  BY <1>2, <1>3, <1>4, <1>5, <1>6 DEF SessionInv, Families, OtherDevicesStay

LEMMA LogoutStep ==
  ASSUME SessionInv, NEW r \in Pages, Logout(r)
  PROVE  SessionInv'
<1> DEFINE i == jar.refresh
<1>1. i \in Ids \ locked /\ i # 1 /\ sessions' = [sessions EXCEPT ![i].revoked = TRUE]
  BY DEF Logout, RevokeOne, SessionInv, TheirsOnly
<1>2. sessions \in [Ids -> SessionRow]
  BY IdsAre DEF SessionInv, SessionTypeOK, Ids
<1>3. /\ sessions' \in [Ids -> SessionRow]
      /\ \A j \in Ids : /\ sessions'[j].family = sessions[j].family
                        /\ sessions'[j].revoked = (sessions[j].revoked \/ j \in {i})
  BY <1>1, <1>2 DEF SessionRow
<1>4. /\ jar' \in [refresh : Ids \cup {0}, access : BOOLEAN] /\ jar'.refresh # 1
      /\ UNCHANGED <<locked, request, sessionFaults, overlapped>>
  BY DEF Logout
<1>5. request' \in [Pages -> Req]
  BY <1>4, IdsAre DEF SessionInv
<1>6. {i} \in SUBSET (Ids \ {1}) /\ {i} \cap locked = {}
  BY <1>1
<1> QED
  BY <1>3, <1>4, <1>5, <1>6, Revoking

LEMMA RevokeStep ==
  ASSUME SessionInv, NEW r \in Pages, Revoke(r)
  PROVE  SessionInv'
<1> DEFINE S == request[r].family
<1>1. request \in [Pages -> Req] /\ S \in SUBSET (Ids \ {1})
  BY IdsAre DEF SessionInv, TheirsOnly, Own, Req
<1>2. sessions \in [Ids -> SessionRow]
  BY IdsAre DEF SessionInv, SessionTypeOK, Ids
<1>3. /\ sessions' \in [Ids -> SessionRow]
      /\ \A j \in Ids : /\ sessions'[j].family = sessions[j].family
                        /\ sessions'[j].revoked = (sessions[j].revoked \/ j \in S)
  BY <1>2 DEF Revoke, SessionRow
<1>4. /\ S \cap locked = {} /\ UNCHANGED <<locked, jar, sessionFaults, overlapped>>
      /\ request' = [request EXCEPT ![r] = Idle]
  BY DEF Revoke, Done
<1>5. jar' \in [refresh : Ids \cup {0}, access : BOOLEAN] /\ jar'.refresh # 1
  BY <1>4 DEF SessionInv, SessionTypeOK, TheirsOnly
<1>6. request' \in [Pages -> Req] /\ \A q \in Pages : request'[q] = request[q] \/ request'[q] = Idle
  BY <1>1, <1>4, IdleIsOwn
<1> QED
  BY <1>1, <1>3, <1>4, <1>5, <1>6, Revoking

\* The update of the old row takes it from every other transaction.
LEMMA RotateStep ==
  ASSUME SessionInv, NEW r \in Pages, Rotate(r)
  PROVE  SessionInv'
<1> DEFINE t == request[r].token
<1>0. /\ request \in [Pages -> Req] /\ request[r].pc = "rotate" /\ t \notin locked
      /\ UNCHANGED <<sessions, jar, sessionFaults, overlapped>> /\ t \in Ids \ {1}
      /\ Ids' = Ids
  BY IdsAre DEF Rotate, SessionInv, TheirsOnly, Own, Holds, Ids
<1>1. CASE StillValid(t)
  <2>1. /\ locked' = locked \cup {t} /\ ~sessions[t].revoked
        /\ request' = [request EXCEPT ![r].pc = "commit"]
    BY <1>1 DEF Rotate, Go, StillValid
  <2>2. /\ request' \in [Pages -> Req]
        /\ request'[r] = [request[r] EXCEPT !.pc = "commit"]
        /\ \A q \in Pages \ {r} : request'[q] = request[q]
    BY <1>0, <2>1 DEF Req, Pcs
  <2>3. /\ request'[r].token = t /\ request'[r].next = request[r].next
        /\ request'[r].family = request[r].family
    BY <1>0, <2>2 DEF Req
  <2>4. SessionTypeOK'
    BY <1>0, <2>1, <2>2 DEF SessionInv, SessionTypeOK, Req, Pcs
  <2>5. LockHolds'
    BY <1>0, <2>1, <2>2, <2>3 DEF SessionInv, LockHolds
  <2>6. TheirsOnly'
    BY <1>0, <2>1, <2>2, <2>3 DEF SessionInv, TheirsOnly, Own, Holds
  <2> QED
    BY <1>0, <2>4, <2>5, <2>6 DEF SessionInv, Families, OneUnrevoked, OtherDevicesStay
<1>2. CASE ~StillValid(t)
  <2>1. UNCHANGED locked /\ request' = [request EXCEPT ![r] = [@ EXCEPT !.pc = "family"]]
    BY <1>2 DEF Rotate, Go
  <2> QED
    <3>1. "family" \in Pcs \ {"idle", "refused", "commit"} /\ Holds(request[r])
      BY <1>0 DEF Pcs, Holds
    <3> QED
      BY <1>0, <2>1, <3>1, GoneOn, RowsAlone DEF SessionInv, SessionTypeOK, TheirsOnly
<1> QED
  BY <1>1, <1>2

\* The successor takes the place of the only row of the family that is not
\* revoked.
LEMMA CommitStep ==
  ASSUME SessionInv, NEW r \in Pages, Commit(r)
  PROVE  SessionInv'
<1>0. /\ Ids = 1 .. Len(sessions) /\ Len(sessions) \in Nat
      /\ sessions \in Seq(SessionRow) /\ sessions \in [Ids -> SessionRow]
      /\ request \in [Pages -> Req] /\ locked \subseteq Ids
  BY IdsAre DEF SessionInv, SessionTypeOK, Ids
<1> DEFINE old == request[r].token
           n == Len(sessions) + 1
           revoked == [sessions EXCEPT ![old].revoked = TRUE]
           row == [family |-> sessions[old].family, revoked |-> FALSE, expired |-> FALSE,
                   from |-> old]
<1>1. /\ request[r].pc = "commit" /\ old \in Ids \ {1} /\ old \in locked
      /\ ~sessions[old].revoked
  BY DEF Commit, SessionInv, TheirsOnly, Own, Holds, LockHolds
<1>2. row \in SessionRow /\ row.family = sessions[old].family /\ ~row.revoked
  BY <1>0, <1>1 DEF SessionRow
<1>3. /\ revoked \in [Ids -> SessionRow]
      /\ \A i \in Ids : /\ revoked[i].family = sessions[i].family
                        /\ revoked[i].revoked = (sessions[i].revoked \/ i = old)
  BY <1>0, <1>1 DEF SessionRow
<1>4. revoked \in Seq(SessionRow) /\ Len(revoked) = Len(sessions) /\ DOMAIN revoked = Ids
  BY <1>0, <1>3, Changed DEF Ids
<1>5. sessions' = Append(revoked, row) /\ locked' = locked \ {old}
      /\ UNCHANGED <<jar, sessionFaults, overlapped>>
  BY DEF Commit
<1>6. /\ sessions' \in Seq(SessionRow) /\ Ids' = Ids \cup {n} /\ n \notin Ids
      /\ sessions'[n] = row /\ \A i \in Ids : sessions'[i] = revoked[i]
  BY <1>0, <1>2, <1>4, <1>5, Added DEF Ids
<1>7. request' = [request EXCEPT ![r].pc = "answer", ![r].next = n]
  BY DEF Commit
<1> HIDE DEF revoked, row
<1>8. /\ request'[r] = [request[r] EXCEPT !.pc = "answer", !.next = n]
      /\ \A q \in Pages \ {r} : request'[q] = request[q]
      /\ request' \in [Pages -> Req']
  <2>1. request[r] \in Req
    BY <1>0
  <2>2. [request[r] EXCEPT !.pc = "answer", !.next = n] \in Req'
    BY <1>6, <2>1 DEF Req, Pcs
  <2>3. \A q \in Pages : request[q] \in Req'
    BY <1>0, <1>6 DEF Req
  <2>4. request' = [request EXCEPT ![r] = [request[r] EXCEPT !.pc = "answer", !.next = n]]
    BY <1>0, <1>7, <2>1 DEF Req
  <2> QED
    BY <1>0, <2>2, <2>3, <2>4
<1>9. SessionTypeOK'
  BY <1>5, <1>6, <1>8 DEF SessionInv, SessionTypeOK, Req, Pcs
<1>10. Families'
  <2>1. sessions[old].family \in 1 .. old
    BY <1>1 DEF SessionInv, Families
  <2>2. \A i \in Ids : sessions'[i].family \in 1 .. i
    BY <1>3, <1>6 DEF SessionInv, Families
  <2>3. sessions'[n].family \in 1 .. n
    BY <1>0, <1>1, <1>2, <1>6, <2>1
  <2> QED
    BY <1>6, <2>2, <2>3 DEF Families
<1>11. OneUnrevoked'
  <2>1. \A i \in Ids : sessions[i].family = sessions[old].family => revoked[i].revoked
    BY <1>1, <1>3 DEF SessionInv, OneUnrevoked
  <2>2. \A i \in Ids : ~sessions'[i].revoked => ~sessions[i].revoked
    BY <1>3, <1>6
  <2>3. \A i \in Ids : sessions'[i].family = row.family => sessions'[i].revoked
    BY <1>2, <1>3, <1>6, <2>1
  <2>4. \A i, j \in Ids :
           (sessions'[i].family = sessions'[j].family /\ ~sessions'[i].revoked
            /\ ~sessions'[j].revoked) => i = j
    BY <1>3, <1>6, <2>2 DEF SessionInv, OneUnrevoked
  <2> QED
    BY <1>6, <2>3, <2>4 DEF OneUnrevoked
<1>12. LockHolds'
  <2>1. \A q \in Pages \ {r} : request[q].pc = "commit" =>
           /\ request[q].token # old /\ request[q].token \in locked
           /\ ~sessions[request[q].token].revoked
    BY <1>1 DEF SessionInv, LockHolds
  <2>2. request'[r].pc = "answer"
    BY <1>0, <1>8 DEF Req
  <2>3. \A q \in Pages : request'[q].pc = "commit" => q # r /\ request'[q] = request[q]
    BY <1>8, <2>2
  <2>4. \A q \in Pages \ {r} : request[q].pc = "commit" =>
           /\ request[q].token \in locked' /\ request[q].token \in Ids
           /\ ~sessions'[request[q].token].revoked
    BY <1>0, <1>3, <1>5, <1>6, <2>1
  <2>5. \A p, q \in Pages :
           (request[p].pc = "commit" /\ request[q].pc = "commit"
            /\ request[p].token = request[q].token) => p = q
    BY DEF SessionInv, LockHolds
  <2> QED
    BY <2>3, <2>4, <2>5 DEF LockHolds
<1>13. TheirsOnly'
  <2>1. Own(request[r])'
    BY <1>0, <1>1, <1>6, <1>8 DEF SessionInv, TheirsOnly, Own, Holds, Req
  <2> QED
    BY <1>5, <1>6, <1>8, <2>1 DEF SessionInv, TheirsOnly, Own
<1>14. OtherDevicesStay' /\ (1 \in Ids)'
  BY <1>0, <1>1, <1>3, <1>6 DEF SessionInv, OtherDevicesStay
<1> QED
  BY <1>9, <1>10, <1>11, <1>12, <1>13, <1>14 DEF SessionInv

LEMMA OtherStep ==
  ASSUME SessionInv, NEW r \in Pages,
         \/ Unauthenticated(r) \/ SendRefresh(r) \/ Limited(r) \/ Read(r) \/ RollsBack(r)
         \/ Answered(r) \/ AnswerIsLost(r) \/ Collect(r)
  PROVE  SessionInv'
<1>0. /\ request \in [Pages -> Req] /\ request[r] \in Req /\ locked \subseteq Ids
      /\ jar \in [refresh : Ids \cup {0}, access : BOOLEAN] /\ jar.refresh # 1
      /\ sessionFaults \in Nat /\ overlapped \in BOOLEAN
      /\ Own(request[r])
  BY IdsAre DEF SessionInv, SessionTypeOK, TheirsOnly
<1>1. CASE Unauthenticated(r)
  <2> DEFINE x == [request[r] EXCEPT !.pc = "refused"]
  <2>1. /\ request' = [request EXCEPT ![r] = x] /\ request[r].pc = "idle"
        /\ UNCHANGED <<sessions, locked, jar, sessionFaults, overlapped>>
    BY <1>0, <1>1 DEF Unauthenticated, Go
  <2>2. x \in Req /\ Own(x) /\ x.pc # "commit"
    BY <1>0, <2>1 DEF Req, Pcs, Own, Holds
  <2> QED
    BY <1>0, <2>1, <2>2, RowsAlone
<1>8. CASE SendRefresh(r)
  <2>1. CASE jar.refresh = 0
    <3>1. /\ request' = [request EXCEPT ![r] = Idle]
          /\ UNCHANGED <<sessions, locked, jar, sessionFaults, overlapped>>
      BY <1>8, <2>1 DEF SendRefresh, Done
    <3> QED
      BY <1>0, <3>1, IdleIsOwn, RowsAlone
  <2>2. CASE jar.refresh # 0
    <3> DEFINE x == [request[r] EXCEPT !.pc = "read", !.token = jar.refresh]
    <3>1. /\ request' = [request EXCEPT ![r] = x]
          /\ UNCHANGED <<sessions, locked, jar, sessionFaults>> /\ overlapped' \in BOOLEAN
      BY <1>0, <1>8, <2>2 DEF SendRefresh, Req
    <3>2. jar.refresh \in Ids \ {1}
      BY <1>0, <2>2
    <3>3. x \in Req /\ Own(x) /\ x.pc # "commit"
      BY <1>0, <3>2 DEF Req, Pcs, Own, Holds
    <3> QED
      BY <1>0, <3>1, <3>3, RowsAlone
  <2> QED
    BY <2>1, <2>2
<1>2. CASE Limited(r) \/ AnswerIsLost(r) \/ RollsBack(r)
  <2>1. /\ request' = [request EXCEPT ![r] = Idle]
        /\ UNCHANGED <<sessions, jar, overlapped>> /\ sessionFaults' \in Nat
        /\ locked' = locked \/ (request[r].pc = "commit" /\ locked' = locked \ {request[r].token})
    BY <1>0, <1>2 DEF Limited, AnswerIsLost, RollsBack, Done
  <2>2. \A q \in Pages \ {r} : request[q].pc = "commit" =>
           (request[q].token \in locked => request[q].token \in locked')
    BY <2>1 DEF SessionInv, LockHolds
  <2> QED
    BY <1>0, <2>1, <2>2, IdleIsOwn, RowsAlone
<1>3. CASE Read(r)
  <2>1. /\ UNCHANGED <<sessions, locked, jar, sessionFaults, overlapped>>
        /\ request[r].pc = "read"
        /\ \/ request' = [request EXCEPT ![r] = Idle]
           \/ \E pc \in {"family", "rotate"} :
                 request' = [request EXCEPT ![r] = [request[r] EXCEPT !.pc = pc]]
    <3>1. request[r].token \in Ids
      BY <1>0, <1>3 DEF Read, Own, Holds
    <3>2. sessions[request[r].token] \in SessionRow
      BY <3>1, IdsAre DEF SessionInv
    <3> QED
      BY <1>0, <1>3, <3>2 DEF Read, Go, Done, SessionRow, Req
  <2>2. CASE request' = [request EXCEPT ![r] = Idle]
    BY <1>0, <2>1, <2>2, IdleIsOwn, RowsAlone
  <2>3. ASSUME NEW pc \in {"family", "rotate"},
               request' = [request EXCEPT ![r] = [request[r] EXCEPT !.pc = pc]]
        PROVE  SessionInv'
    <3>1. pc \in Pcs \ {"idle", "refused", "commit"} /\ Holds(request[r])
      BY <2>1 DEF Pcs, Holds
    <3> QED
      BY <1>0, <2>1, <2>3, <3>1, GoneOn, RowsAlone
  <2> QED
    BY <2>1, <2>2, <2>3
<1>4. CASE Answered(r)
  <2>1. /\ request' = [request EXCEPT ![r] = Idle]
        /\ UNCHANGED <<sessions, locked, sessionFaults, overlapped>>
        /\ jar' = [refresh |-> request[r].next, access |-> TRUE]
    BY <1>4 DEF Answered, Done
  <2>2. jar' \in [refresh : Ids \cup {0}, access : BOOLEAN] /\ jar'.refresh # 1
    BY <1>0, <2>1 DEF Req, Own
  <2> QED
    BY <1>0, <2>1, <2>2, IdleIsOwn, RowsAlone
<1>5. CASE Collect(r)
  <2> DEFINE S == Descendants(request[r].token)
             x == [request[r] EXCEPT !.pc = "revoke", !.family = S]
  <2>1. /\ UNCHANGED <<sessions, locked, jar, sessionFaults, overlapped>>
        /\ request[r].pc = "family"
        /\ request' = [request EXCEPT ![r].pc = "revoke", ![r].family = S]
    BY <1>5 DEF Collect
  <2>2. request' = [request EXCEPT ![r] = x]
    BY <1>0, <2>1 DEF Req
  <2>3. request[r].token \in Ids \ {1} /\ Ids = 1 .. Len(sessions) /\ Len(sessions) \in Nat
    BY <1>0, <2>1, IdsAre DEF Own, Holds, SessionInv
  <2>4. S \in SUBSET Ids /\ 1 \notin S
    BY <2>3 DEF Descendants
  <2>5. x \in Req /\ Own(x) /\ x.pc # "commit"
    BY <1>0, <2>1, <2>3, <2>4 DEF Req, Pcs, Own, Holds
  <2> QED
    BY <1>0, <2>1, <2>2, <2>5, RowsAlone
<1> QED
  BY <1>1, <1>2, <1>3, <1>4, <1>5, <1>8

LEMMA SessionStep ==
  ASSUME SessionInv, [SessionNext]_sessionVars
  PROVE  SessionInv'
<1>1. CASE UNCHANGED sessionVars
  BY <1>1 DEF sessionVars, SessionInv, SessionTypeOK, Ids, Families, OneUnrevoked, LockHolds,
     TheirsOnly, Own, OtherDevicesStay
<1>2. CASE SessionNext
  BY <1>2, ExpiryStep, LoginStep, LogoutStep, RevokeStep, RotateStep, CommitStep, OtherStep
     DEF SessionNext, RequestStep
<1> QED
  BY <1>1, <1>2

LEMMA SessionInvHolds == SessionSpec => []SessionInv
BY InitSession, SessionStep, PTL DEF SessionSpec

----------------------------------------------------------------------------
(* Staying signed in                                                       *)

\* The last row of its family.
Last(t) == \A i \in Ids : sessions[i].family = sessions[t].family => i <= t

\* The same of the rows after the step, for a row of before it.
LastThen(t) == \A i \in Ids' : sessions'[i].family = sessions'[t].family => i <= t

\* No two requests refresh with the same token.
OneHolder ==
    \A r, q \in Pages :
        (Holds(request[r]) /\ Holds(request[q]) /\ request[r].token = request[q].token) => r = q

\* The successor of the browser's token is on its way.
InAnswer == \E r \in Pages : request[r].pc = "answer" /\ request[r].token = jar.refresh

\* Nobody refreshes with a token that was rotated already.
NewestTokens ==
    /\ \A r \in Pages : Holds(request[r]) /\ request[r].pc # "answer" => Last(request[r].token)
    /\ \A r \in Pages : request[r].pc = "answer" => Last(request[r].next)
    /\ jar.refresh # 0 => Last(jar.refresh) \/ InAnswer

\* A successor is usable, and nobody has it before its answer is stored.
OnTheirWay ==
    \A r \in Pages : request[r].pc = "answer" =>
        /\ request[r].next \in Ids /\ ~sessions[request[r].next].revoked
        /\ request[r].next # jar.refresh
        /\ \A q \in Pages : /\ Holds(request[q]) => request[q].token # request[r].next
                            /\ request[q].pc = "answer" /\ request[q].next = request[r].next => q = r

\* A replayed token (logged out while its refresh was under way) is not the
\* browser's any more, and has no successor.
Replays ==
    \A r \in Pages :
        /\ request[r].pc \in {"family", "revoke"} => request[r].token # jar.refresh
        /\ request[r].pc = "revoke" => request[r].family = {request[r].token}

Usable == jar.refresh # 0 => ~sessions[jar.refresh].revoked \/ InAnswer

SignedIn == OneHolder /\ NewestTokens /\ OnTheirWay /\ Replays /\ Usable
SignedInInv == ~overlapped /\ sessionFaults = 0 => SignedIn

LEMMA InitSignedIn == SessionInit => SignedInInv
BY DEF SessionInit, SignedInInv, SignedIn, OneHolder, NewestTokens, OnTheirWay, Replays, Usable, Idle, Holds

LEMMA SessionValues ==
  ASSUME SessionInv
  PROVE  /\ request \in [Pages -> Req] /\ sessions \in [Ids -> SessionRow]
         /\ sessions \in Seq(SessionRow) /\ Ids = 1 .. Len(sessions) /\ Len(sessions) \in Nat
         /\ jar \in [refresh : Ids \cup {0}, access : BOOLEAN] /\ sessionFaults \in Nat
         /\ \A r \in Pages : /\ Holds(request[r]) => request[r].token \in Ids
                             /\ ~Holds(request[r]) => request[r].token = 0
BY IdsAre DEF SessionInv, SessionTypeOK, Ids, TheirsOnly, Own

\* Rows may be revoked that neither the browser nor an answer has.
LEMMA SignedInRows ==
  ASSUME SessionInv, SignedIn, UNCHANGED request, jar'.refresh = jar.refresh,
         DOMAIN sessions' = Ids,
         \A i \in Ids : /\ sessions'[i].family = sessions[i].family
                        /\ sessions'[i].revoked = sessions[i].revoked
  PROVE  SignedIn'
<1>0. /\ Ids' = Ids /\ jar.refresh \in Ids \cup {0}
      /\ \A r \in Pages : Holds(request[r]) => request[r].token \in Ids
  BY SessionValues DEF Ids
<1>1. \A t \in Ids : Last(t)' <=> Last(t)
  BY <1>0 DEF Last
<1>2. \A r \in Pages : request[r].pc = "answer" => request[r].next \in Ids
  BY DEF SignedIn, OnTheirWay
<1>3. InAnswer' <=> InAnswer
  BY DEF InAnswer
<1>4. NewestTokens'
  BY <1>0, <1>1, <1>2, <1>3 DEF SignedIn, NewestTokens
<1> QED
  BY <1>0, <1>3, <1>4 DEF SignedIn, OneHolder, OnTheirWay, Replays, Usable

\* A request goes on, or is over, before it has an answer; rows of requests
\* that are over may be revoked.
LEMMA SignedInGoes ==
  ASSUME SessionInv, SignedIn, NEW r \in Pages, NEW x \in Req,
         request' = [request EXCEPT ![r] = x], UNCHANGED jar,
         request[r].pc # "answer", x.pc # "answer",
         Holds(x) => Holds(request[r]) /\ x.token = request[r].token,
         x.pc \in {"family", "revoke"} => x.token # jar.refresh,
         x.pc = "revoke" => x.family = {x.token},
         DOMAIN sessions' = Ids,
         \A i \in Ids : /\ sessions'[i].family = sessions[i].family
                        /\ sessions'[i].revoked =
                             (sessions[i].revoked \/ (request[r].pc = "revoke" /\ i \in request[r].family))
  PROVE  SignedIn'
<1>0. /\ Ids' = Ids /\ jar.refresh \in Ids \cup {0} /\ request \in [Pages -> Req]
      /\ \A q \in Pages : Holds(request[q]) => request[q].token \in Ids
  BY SessionValues DEF Ids
<1>1. request'[r] = x /\ \A q \in Pages \ {r} : request'[q] = request[q]
  BY <1>0
<1>2. \A t \in Ids : Last(t)' <=> Last(t)
  BY <1>0 DEF Last
<1>3. InAnswer' <=> InAnswer
  BY <1>1 DEF InAnswer
<1>4. OneHolder'
  BY <1>1 DEF SignedIn, OneHolder
<1>5. NewestTokens'
  <2>1. \A q \in Pages : request'[q].pc = "answer" => request'[q] = request[q] /\ request[q].next \in Ids
    BY <1>1 DEF SignedIn, OnTheirWay
  <2>2. \A q \in Pages : Holds(request'[q]) => Holds(request[q]) /\ request'[q].token = request[q].token
    BY <1>1
  <2>3. \A q \in Pages : request'[q].pc # "answer" => request[q].pc # "answer"
    BY <1>1
  <2> QED
    BY <1>0, <1>2, <1>3, <2>1, <2>2, <2>3 DEF SignedIn, NewestTokens
<1>6. ASSUME NEW i \in Ids, sessions'[i].revoked, ~sessions[i].revoked
      PROVE  Holds(request[r]) /\ i = request[r].token /\ i # jar.refresh
  BY <1>6 DEF SignedIn, Replays, Holds
<1>7. OnTheirWay'
  <2>1. \A q \in Pages : request'[q].pc = "answer" => request'[q] = request[q]
    BY <1>1
  <2>2. \A q \in Pages : Holds(request'[q]) => Holds(request[q]) /\ request'[q].token = request[q].token
    BY <1>1
  <2> QED
    BY <1>0, <1>6, <2>1, <2>2 DEF SignedIn, OnTheirWay
<1>8. Replays'
  BY <1>1 DEF SignedIn, Replays
<1>9. Usable'
  BY <1>0, <1>3, <1>6 DEF SignedIn, Usable
<1> QED
  BY <1>4, <1>5, <1>7, <1>8, <1>9 DEF SignedIn

\* A sign-in replaces whatever token the browser had.
LEMMA SignedInLogin ==
  ASSUME SessionInv, SignedIn, Login
  PROVE  SignedIn'
<1>0. /\ request \in [Pages -> Req] /\ sessions \in Seq(SessionRow)
      /\ Ids = 1 .. Len(sessions) /\ Len(sessions) \in Nat /\ UNCHANGED request
      /\ \A r \in Pages : Holds(request[r]) => request[r].token \in Ids
      /\ \A r \in Pages : request[r].pc = "answer" => request[r].next \in Ids
  BY SessionValues DEF Login, SignedIn, OnTheirWay
<1> DEFINE n == Len(sessions) + 1
<1>1. NewFamily \in SessionRow /\ NewFamily.family = n /\ ~NewFamily.revoked
  BY <1>0 DEF NewFamily, SessionRow
<1>2. sessions' = Append(sessions, NewFamily) /\ jar'.refresh = n
  BY DEF Login
<1>3. /\ Ids' = Ids \cup {n} /\ n \notin Ids /\ n # 0
      /\ sessions'[n] = NewFamily /\ \A i \in Ids : sessions'[i] = sessions[i]
  BY <1>0, <1>1, <1>2, Added DEF Ids
<1>4. \A i \in Ids : sessions[i].family # n
  BY <1>0 DEF SessionInv, Families
<1>5. (\A t \in Ids : Last(t) => LastThen(t)) /\ LastThen(n)
  <2>1. sessions'[n].family = n /\ \A i \in Ids : sessions'[i].family = sessions[i].family
    BY <1>1, <1>3
  <2>2. \A i \in Ids' : i <= n
    BY <1>0, <1>3
  <2> HIDE DEF n
  <2>3. LastThen(n)
    BY <2>2 DEF LastThen
  <2>4. ASSUME NEW t \in Ids, Last(t)
        PROVE  LastThen(t)
    BY <1>3, <1>4, <2>1, <2>4 DEF Last, LastThen
  <2> QED
    BY <2>3, <2>4
<1> HIDE DEF n
<1>6. NewestTokens'
  <2>1. \A r \in Pages : Holds(request[r]) /\ request[r].pc # "answer" => LastThen(request[r].token)
    BY <1>0, <1>5 DEF SignedIn, NewestTokens
  <2>2. \A r \in Pages : request[r].pc = "answer" => LastThen(request[r].next)
    BY <1>0, <1>5 DEF SignedIn, NewestTokens
  <2>3. LastThen(jar'.refresh)
    BY <1>2, <1>5
  <2> QED
    BY <1>0, <2>1, <2>2, <2>3 DEF NewestTokens, Last, LastThen
<1>7. OnTheirWay'
  BY <1>0, <1>2, <1>3 DEF SignedIn, OnTheirWay
<1>8. Replays'
  BY <1>0, <1>2, <1>3 DEF SignedIn, Replays, Holds
<1>9. Usable'
  BY <1>1, <1>2, <1>3 DEF Usable
<1> QED
  BY <1>0, <1>6, <1>7, <1>8, <1>9 DEF SignedIn, OneHolder

LEMMA SignedInLogout ==
  ASSUME SessionInv, SignedIn, NEW r \in Pages, Logout(r)
  PROVE  SignedIn'
<1>0. /\ sessions \in [Ids -> SessionRow] /\ UNCHANGED request /\ jar'.refresh = 0
      /\ sessions' = [sessions EXCEPT ![jar.refresh].revoked = TRUE]
      /\ \A q \in Pages : Holds(request[q]) => request[q].token \in Ids
      /\ \A q \in Pages : request[q].pc = "answer" => request[q].next \in Ids
      /\ Ids = 1 .. Len(sessions) /\ Len(sessions) \in Nat
  BY SessionValues DEF Logout, RevokeOne, SignedIn, OnTheirWay
<1>i. jar.refresh \in Ids
  BY DEF Logout
<1>1. /\ Ids' = Ids /\ 0 \notin Ids
      /\ \A i \in Ids : /\ sessions'[i].family = sessions[i].family
                        /\ i # jar.refresh => sessions'[i].revoked = sessions[i].revoked
  <2>1. DOMAIN sessions' = Ids /\ \A i \in Ids : i # jar.refresh => sessions'[i] = sessions[i]
    BY <1>0, <1>i DEF Ids
  <2>2. sessions'[jar.refresh] = [sessions[jar.refresh] EXCEPT !.revoked = TRUE]
    BY <1>0, <1>i DEF Ids
  <2>3. sessions'[jar.refresh].family = sessions[jar.refresh].family
    BY <1>0, <1>i, <2>2 DEF SessionRow
  <2>4. \A i \in Ids : /\ sessions'[i].family = sessions[i].family
                       /\ i # jar.refresh => sessions'[i].revoked = sessions[i].revoked
    BY <2>1, <2>3
  <2>5. Ids' = Ids
    BY <2>1 DEF Ids
  <2>6. 0 \notin Ids
    BY <1>0
  <2> QED
    BY <2>4, <2>5, <2>6
<1>2. \A t \in Ids : Last(t)' <=> Last(t)
  BY <1>1 DEF Last
<1>3. NewestTokens'
  BY <1>0, <1>1, <1>2 DEF SignedIn, NewestTokens
<1>4. OnTheirWay'
  BY <1>0, <1>1 DEF SignedIn, OnTheirWay
<1>5. Replays'
  BY <1>0, <1>1 DEF SignedIn, Replays, Holds
<1> QED
  BY <1>0, <1>3, <1>4, <1>5 DEF SignedIn, OneHolder, Usable

\* A refresh that does not overlap with another takes the newest token.
LEMMA SignedInSends ==
  ASSUME SessionInv, SignedIn, NEW r \in Pages, SendRefresh(r), ~overlapped'
  PROVE  SignedIn'
<1>0. /\ request \in [Pages -> Req] /\ UNCHANGED <<sessions, jar>>
      /\ \A q \in Pages : Holds(request[q]) => request[q].token \in Ids
      /\ request[r].pc = "refused" /\ Ids' = Ids
  BY SessionValues DEF SendRefresh, Ids
<1>1. CASE jar.refresh = 0
  <2>1. request' = [request EXCEPT ![r] = Idle]
    BY <1>1 DEF SendRefresh, Done
  <2> QED
    <3>1. Idle \in Req /\ Idle.pc = "idle" /\ ~Holds(Idle) /\ request[r].pc \notin {"answer", "revoke"}
      BY <1>0, IdleIsOwn DEF Idle, Holds
    <3>2. /\ DOMAIN sessions' = Ids
          /\ \A i \in Ids : /\ sessions'[i].family = sessions[i].family
                            /\ sessions'[i].revoked =
                                 (sessions[i].revoked \/ (request[r].pc = "revoke" /\ i \in request[r].family))
      BY <1>0, <3>1, SessionValues DEF Ids, SessionRow
    <3> QED
      BY <1>0, <2>1, <3>1, <3>2, SignedInGoes
<1>2. CASE jar.refresh # 0
  <2> DEFINE x == [request[r] EXCEPT !.pc = "read", !.token = jar.refresh]
  <2>1. request' = [request EXCEPT ![r] = x]
    BY <1>0, <1>2 DEF SendRefresh, Req
  <2>2. x.pc = "read" /\ x.token = jar.refresh /\ Holds(x) /\ ~Holds(request[r])
    BY <1>0 DEF Req, Holds
  <2>3. \A q \in Pages : request[q].token # jar.refresh
    BY <1>2 DEF SendRefresh
  <2> HIDE DEF x
  <2>4. request'[r] = x /\ \A q \in Pages \ {r} : request'[q] = request[q]
    BY <1>0, <2>1
  <2>5. ~InAnswer
    BY <2>3 DEF InAnswer
  <2>6. OneHolder'
    BY <2>2, <2>3, <2>4 DEF SignedIn, OneHolder
  <2>7. Last(jar.refresh) /\ \A t : Last(t)' <=> Last(t)
    BY <1>0, <1>2, <2>5 DEF SignedIn, NewestTokens, Last
  <2>8. NewestTokens'
    BY <1>0, <2>2, <2>4, <2>7 DEF SignedIn, NewestTokens
  <2>9. OnTheirWay'
    BY <1>0, <2>2, <2>4 DEF SignedIn, OnTheirWay
  <2>10. Replays' /\ Usable'
    BY <1>0, <1>2, <2>2, <2>4, <2>5 DEF SignedIn, Replays, Usable
  <2> QED
    BY <2>6, <2>8, <2>9, <2>10 DEF SignedIn
<1> QED
  BY <1>1, <1>2

\* A request meets a revoked row only if the browser has given it up.
LEMMA MeetsRevoked ==
  ASSUME SessionInv, SignedIn, NEW r \in Pages, Holds(request[r]), request[r].pc # "answer",
         sessions[request[r].token].revoked
  PROVE  request[r].token # jar.refresh
<1> SUFFICES ASSUME request[r].token = jar.refresh
             PROVE  FALSE
  OBVIOUS
<1>1. jar.refresh \in Ids /\ jar.refresh # 0
  BY SessionValues
<1>2. PICK q \in Pages : request[q].pc = "answer" /\ request[q].token = jar.refresh
  BY <1>1 DEF SignedIn, Usable, InAnswer
<1>3. Holds(request[q])
  BY <1>2 DEF Holds
<1> QED
  BY <1>2, <1>3 DEF SignedIn, OneHolder

\* The successor becomes the last row of its family; no other request is of it.
LEMMA SignedInCommits ==
  ASSUME SessionInv, SignedIn, NEW r \in Pages, Commit(r)
  PROVE  SignedIn'
<1> DEFINE old == request[r].token
           n == Len(sessions) + 1
           revoked == [sessions EXCEPT ![old].revoked = TRUE]
           row == [family |-> sessions[old].family, revoked |-> FALSE,
                   expired |-> FALSE, from |-> old]
           x == [request[r] EXCEPT !.pc = "answer", !.next = n]
<1>0. /\ request \in [Pages -> Req] /\ sessions \in [Ids -> SessionRow]
      /\ Ids = 1 .. Len(sessions) /\ Len(sessions) \in Nat
      /\ jar.refresh \in Ids \cup {0} /\ UNCHANGED jar
      /\ \A q \in Pages : Holds(request[q]) => request[q].token \in Ids
      /\ \A q \in Pages : request[q].pc = "answer" => request[q].next \in Ids
  BY SessionValues DEF Commit, SignedIn, OnTheirWay
<1>1. /\ request[r].pc = "commit" /\ Holds(request[r]) /\ old \in Ids
      /\ sessions' = Append(revoked, row) /\ request' = [request EXCEPT ![r] = x]
  <2>1. request[r].pc = "commit" /\ Holds(request[r])
    BY DEF Commit, Holds
  <2> QED
    BY <1>0, <2>1 DEF Commit, Req
<1>2. /\ revoked \in [Ids -> SessionRow] /\ row \in SessionRow
      /\ row.family = sessions[old].family /\ ~row.revoked
      /\ \A i \in Ids : /\ revoked[i].family = sessions[i].family
                        /\ i # old => revoked[i].revoked = sessions[i].revoked
  <2>1. sessions[old] \in SessionRow /\ old \in Nat
    BY <1>0, <1>1
  <2>2. row \in SessionRow /\ row.family = sessions[old].family /\ ~row.revoked
    BY <2>1 DEF SessionRow
  <2>3. [sessions[old] EXCEPT !.revoked = TRUE] \in SessionRow
    BY <2>1 DEF SessionRow
  <2>4. /\ revoked \in [Ids -> SessionRow]
        /\ revoked[old] = [sessions[old] EXCEPT !.revoked = TRUE]
        /\ \A i \in Ids : i # old => revoked[i] = sessions[i]
    BY <1>0, <1>1, <2>3
  <2>5. revoked[old].family = sessions[old].family
    BY <2>1, <2>4 DEF SessionRow
  <2> QED
    BY <2>2, <2>4, <2>5
<1>3. revoked \in Seq(SessionRow) /\ Len(revoked) = Len(sessions) /\ DOMAIN revoked = Ids
  <2>1. sessions \in Seq(SessionRow)
    BY SessionValues
  <2> QED
    BY <1>2, <2>1, Changed DEF Ids
<1>4. x.pc = "answer" /\ x.token = old /\ x.next = n /\ Holds(x)
  BY <1>0 DEF Req, Holds
<1> HIDE DEF revoked, row, x
<1>5. /\ Ids' = Ids \cup {n} /\ n \notin Ids /\ n # 0
      /\ sessions'[n] = row /\ \A i \in Ids : sessions'[i] = revoked[i]
  BY <1>0, <1>1, <1>2, <1>3, Added DEF Ids
<1>6. request'[r] = x /\ \A q \in Pages \ {r} : request'[q] = request[q]
  BY <1>0, <1>1
<1>n. n \in Nat /\ \A i \in Ids : i \in Nat /\ i < n
  BY <1>0
<1> HIDE DEF n
<1>7. /\ LastThen(n)
      /\ \A t \in Ids : Last(t) /\ t # old => LastThen(t)
  <2>1. Last(old)
    BY <1>1 DEF SignedIn, NewestTokens
  <2>2. LastThen(n)
    <3>1. \A i \in Ids' : i <= n
      BY <1>5, <1>n
    <3> QED
      BY <3>1 DEF LastThen
  <2>3. ASSUME NEW t \in Ids, Last(t), t # old
        PROVE  LastThen(t)
    <3>1. sessions[t].family # sessions[old].family
      <4> SUFFICES ASSUME sessions[t].family = sessions[old].family
                   PROVE  FALSE
        OBVIOUS
      <4>1. old <= t /\ t <= old
        BY <1>1, <2>1, <2>3 DEF Last
      <4> QED
        BY <1>1, <1>n, <2>3, <4>1
    <3> QED
      BY <1>2, <1>5, <2>3, <3>1 DEF Last, LastThen
  <2> QED
    BY <2>2, <2>3
<1>8. \A q \in Pages \ {r} : Holds(request[q]) => request[q].token # old
  BY <1>1 DEF SignedIn, OneHolder
<1>9. \A q \in Pages : request[q].pc = "answer" => request[q].next # old
  BY <1>1 DEF SignedIn, OnTheirWay
<1>a. InAnswer => InAnswer'
  BY <1>0, <1>1, <1>6 DEF InAnswer
<1>b. jar.refresh = old => InAnswer'
  BY <1>0, <1>4, <1>6 DEF InAnswer
<1>10. OneHolder'
  BY <1>4, <1>6, <1>8 DEF SignedIn, OneHolder
<1>11. NewestTokens'
  <2>1. ASSUME NEW q \in Pages, Holds(request'[q]), request'[q].pc # "answer"
        PROVE  LastThen(request'[q].token)
    <3>1. q # r /\ request'[q] = request[q]
      BY <1>4, <1>6, <2>1
    <3>2. Last(request[q].token) /\ request[q].token \in Ids /\ request[q].token # old
      BY <1>0, <1>8, <2>1, <3>1 DEF SignedIn, NewestTokens
    <3> QED
      BY <1>7, <3>1, <3>2
  <2>2. ASSUME NEW q \in Pages, request'[q].pc = "answer"
        PROVE  LastThen(request'[q].next)
    <3>1. CASE q = r
      BY <1>4, <1>6, <1>7, <3>1
    <3>2. CASE q # r
      <4>1. request'[q] = request[q] /\ request[q].pc = "answer"
        BY <1>6, <2>2, <3>2
      <4>2. Last(request[q].next) /\ request[q].next \in Ids /\ request[q].next # old
        BY <1>0, <1>9, <4>1 DEF SignedIn, NewestTokens
      <4> QED
        BY <1>7, <4>1, <4>2
    <3> QED
      BY <3>1, <3>2
  <2>3. jar.refresh # 0 => LastThen(jar.refresh) \/ InAnswer'
    BY <1>0, <1>7, <1>a, <1>b DEF SignedIn, NewestTokens
  <2>4. jar' = jar
    BY <1>0
  <2> QED
    BY <2>1, <2>2, <2>3, <2>4 DEF NewestTokens, Last, LastThen
<1>12. OnTheirWay'
  <2>1. ASSUME NEW q \in Pages, request'[q].pc = "answer"
        PROVE  /\ request'[q].next \in Ids' /\ ~sessions'[request'[q].next].revoked
               /\ request'[q].next # jar'.refresh
    <3>1. CASE q = r
      BY <1>0, <1>2, <1>4, <1>5, <1>6, <3>1
    <3>2. CASE q # r
      <4>1. request'[q] = request[q] /\ request[q].next \in Ids /\ request[q].next # old
        BY <1>0, <1>6, <1>9, <2>1, <3>2
      <4> QED
        BY <1>0, <1>2, <1>5, <2>1, <4>1 DEF SignedIn, OnTheirWay
    <3> QED
      BY <3>1, <3>2
  <2>2. ASSUME NEW q \in Pages, request'[q].pc = "answer", NEW p \in Pages
        PROVE  /\ Holds(request'[p]) => request'[p].token # request'[q].next
               /\ request'[p].pc = "answer" /\ request'[p].next = request'[q].next => p = q
    <3>1. Holds(request'[p]) => request'[p].token \in Ids
      BY <1>0, <1>1, <1>4, <1>6
    <3>2. CASE q = r
      <4>1. request'[q].next = n
        BY <1>4, <1>6, <3>2
      <4>2. p # r /\ request'[p].pc = "answer" => request'[p].next \in Ids
        BY <1>0, <1>6
      <4> QED
        BY <1>5, <3>1, <3>2, <4>1, <4>2
    <3>3. CASE q # r
      <4>1. request'[q] = request[q] /\ request[q].next \in Ids /\ request[q].pc = "answer"
        BY <1>0, <1>6, <2>2, <3>3
      <4>2. CASE p = r
        BY <1>4, <1>5, <1>6, <1>9, <4>1, <4>2
      <4>3. CASE p # r
        <5>1. request'[p] = request[p]
          BY <1>6, <4>3
        <5> QED
          BY <4>1, <5>1 DEF SignedIn, OnTheirWay
      <4> QED
        BY <4>2, <4>3
    <3> QED
      BY <3>2, <3>3
  <2> QED
    BY <2>1, <2>2 DEF OnTheirWay
<1>13. Replays'
  BY <1>0, <1>4, <1>6 DEF SignedIn, Replays
<1>14. Usable'
  BY <1>0, <1>2, <1>5, <1>a, <1>b DEF SignedIn, Usable
<1> QED
  BY <1>10, <1>11, <1>12, <1>13, <1>14 DEF SignedIn

LEMMA SignedInAnswered ==
  ASSUME SessionInv, SignedIn, NEW r \in Pages, Answered(r)
  PROVE  SignedIn'
<1>0. /\ request \in [Pages -> Req] /\ UNCHANGED sessions /\ Ids' = Ids
      /\ request[r].pc = "answer" /\ request' = [request EXCEPT ![r] = Idle]
      /\ jar'.refresh = request[r].next
  BY SessionValues DEF Answered, Done, Ids
<1>1. /\ request'[r] = Idle /\ \A q \in Pages \ {r} : request'[q] = request[q]
      /\ Idle.pc = "idle" /\ ~Holds(Idle)
  BY <1>0 DEF Idle, Holds
<1>2. \A t : Last(t)' <=> Last(t)
  BY <1>0 DEF Last
<1>3. Holds(request[r])
  BY <1>0 DEF Holds
<1>4. OneHolder'
  BY <1>1 DEF SignedIn, OneHolder
<1>5. NewestTokens'
  BY <1>0, <1>1, <1>2 DEF SignedIn, NewestTokens
<1>6. OnTheirWay'
  BY <1>0, <1>1 DEF SignedIn, OnTheirWay
<1>7. Replays' /\ Usable'
  BY <1>0, <1>1 DEF SignedIn, OnTheirWay, Replays, Usable, Holds
<1> QED
  BY <1>4, <1>5, <1>6, <1>7 DEF SignedIn

LEMMA SignedInStep ==
  ASSUME SessionInv, SignedInInv, [SessionNext]_sessionVars
  PROVE  SignedInInv'
<1> SUFFICES ASSUME ~overlapped', sessionFaults' = 0
             PROVE  SignedIn'
  BY DEF SignedInInv
<1>0. /\ request \in [Pages -> Req] /\ sessionFaults \in Nat
      /\ sessions \in [Ids -> SessionRow]
  BY SessionValues
<1>1. SignedIn
  <2>1. overlapped => overlapped'
    <3>1. CASE UNCHANGED overlapped
      BY <3>1
    <3>2. CASE \E r \in Pages : SendRefresh(r)
      BY <3>2 DEF SendRefresh
    <3> QED
      BY <3>1, <3>2 DEF SessionNext, AccessExpires, SessionExpires, Login, RequestStep,
         Unauthenticated, Limited, Read, Rotate, Commit, RollsBack, Answered, AnswerIsLost,
         Collect, Revoke, Logout, sessionVars
  <2>2. sessionFaults' = sessionFaults \/ sessionFaults' = sessionFaults + 1
    BY DEF SessionNext, AccessExpires, SessionExpires, Login, RequestStep,
       Unauthenticated, SendRefresh, Limited, Read, Rotate, Commit, RollsBack, Answered,
       AnswerIsLost, Collect, Revoke, Logout, sessionVars
  <2>3. sessionFaults = 0
    BY <1>0, <2>2
  <2> QED
    BY <2>1, <2>3 DEF SignedInInv
<1>2. CASE AccessExpires \/ SessionExpires \/ UNCHANGED sessionVars
  <2>1. UNCHANGED request /\ jar'.refresh = jar.refresh
    BY <1>2, SessionValues DEF AccessExpires, SessionExpires, sessionVars
  <2>2. /\ DOMAIN sessions' = Ids
        /\ \A i \in Ids : /\ sessions'[i].family = sessions[i].family
                          /\ sessions'[i].revoked = sessions[i].revoked
    <3>1. CASE UNCHANGED sessions
      BY <3>1 DEF Ids
    <3>2. CASE \E i \in Ids : sessions' = [sessions EXCEPT ![i].expired = TRUE]
      BY <1>0, <3>2 DEF SessionRow
    <3> QED
      BY <1>2, <3>1, <3>2 DEF AccessExpires, SessionExpires, sessionVars
  <2> QED
    BY <1>1, <2>1, <2>2, SignedInRows
<1>3. CASE Login
  BY <1>1, <1>3, SignedInLogin
<1>4. ASSUME NEW r \in Pages, Logout(r) \/ SendRefresh(r) \/ Commit(r) \/ Answered(r)
      PROVE  SignedIn'
  BY <1>1, <1>4, SignedInLogout, SignedInSends, SignedInCommits, SignedInAnswered
\* The other steps leave the rows alone and change one request.
<1>5. ASSUME NEW r \in Pages, NEW x \in Req, request' = [request EXCEPT ![r] = x],
             UNCHANGED <<sessions, jar>>, request[r].pc # "answer", x.pc # "answer",
             request[r].pc # "revoke",
             Holds(x) => Holds(request[r]) /\ x.token = request[r].token,
             x.pc \in {"family", "revoke"} => x.token # jar.refresh,
             x.pc = "revoke" => x.family = {x.token}
      PROVE  SignedIn'
  <2>1. /\ DOMAIN sessions' = Ids
        /\ \A i \in Ids : /\ sessions'[i].family = sessions[i].family
                          /\ sessions'[i].revoked =
                               (sessions[i].revoked \/ (request[r].pc = "revoke" /\ i \in request[r].family))
    BY <1>0, <1>5 DEF Ids, SessionRow
  <2> QED
    BY <1>1, <1>5, <2>1, SignedInGoes
<1>6. ASSUME NEW r \in Pages, Unauthenticated(r) \/ Limited(r)
      PROVE  SignedIn'
  <2>1. /\ UNCHANGED <<sessions, jar>> /\ request[r].pc \in {"idle", "read"}
        /\ \/ request' = [request EXCEPT ![r] = Idle]
           \/ request' = [request EXCEPT ![r] = [request[r] EXCEPT !.pc = "refused"]]
    BY <1>0, <1>6 DEF Unauthenticated, Limited, Go, Done
  <2>2. ASSUME NEW x \in {Idle, [request[r] EXCEPT !.pc = "refused"]}
        PROVE  x \in Req /\ x.pc \in {"idle", "refused"} /\ ~Holds(x)
    BY <1>0, IdleIsOwn DEF Idle, Req, Pcs, Holds
  <2> QED
    BY <1>5, <2>1, <2>2
<1>7. ASSUME NEW r \in Pages, Read(r) \/ Rotate(r)
      PROVE  SignedIn'
  <2>1. /\ UNCHANGED <<sessions, jar>> /\ request[r].pc \in {"read", "rotate"}
        /\ Holds(request[r])
    BY <1>7 DEF Read, Rotate, Holds
  <2>2. \/ request' = [request EXCEPT ![r] = Idle]
        \/ \E pc \in {"rotate", "commit", "family"} :
              /\ request' = [request EXCEPT ![r] = [request[r] EXCEPT !.pc = pc]]
              /\ pc = "family" => sessions[request[r].token].revoked
    <3>1. sessions[request[r].token] \in SessionRow
      BY <1>0, <2>1, SessionValues
    <3> QED
      BY <1>0, <1>7, <3>1 DEF Read, Rotate, StillValid, Go, Done, SessionRow
  <2>3. CASE request' = [request EXCEPT ![r] = Idle]
    <3>1. Idle \in Req /\ Idle.pc = "idle" /\ ~Holds(Idle)
      BY IdleIsOwn DEF Idle, Holds
    <3> QED
      BY <1>5, <2>1, <2>3, <3>1
  <2>4. ASSUME NEW pc \in {"rotate", "commit", "family"},
               request' = [request EXCEPT ![r] = [request[r] EXCEPT !.pc = pc]],
               pc = "family" => sessions[request[r].token].revoked
        PROVE  SignedIn'
    <3> DEFINE x == [request[r] EXCEPT !.pc = pc]
    <3>1. x \in Req /\ x.pc = pc /\ x.token = request[r].token
      BY <1>0 DEF Req, Pcs
    <3>2. pc = "family" => x.token # jar.refresh
      BY <1>1, <2>1, <2>4, <3>1, MeetsRevoked
    <3> HIDE DEF x
    <3>3. request' = [request EXCEPT ![r] = x]
      BY <2>4 DEF x
    <3> QED
      BY <1>5, <2>1, <3>1, <3>2, <3>3
  <2> QED
    BY <2>2, <2>3, <2>4
<1>8. ASSUME NEW r \in Pages, Collect(r)
      PROVE  SignedIn'
  <2> DEFINE t == request[r].token
             x == [request[r] EXCEPT !.pc = "revoke", !.family = Descendants(t)]
  <2>1. /\ UNCHANGED <<sessions, jar>> /\ request[r].pc = "family" /\ Holds(request[r])
        /\ request' = [request EXCEPT ![r] = x]
    BY <1>0, <1>8 DEF Collect, Holds, Req
  <2>2. t \in Ids /\ Ids = 1 .. Len(sessions) /\ Len(sessions) \in Nat /\ t # jar.refresh /\ Last(t)
    BY <1>1, <2>1, SessionValues DEF SignedIn, Replays, NewestTokens
  <2>3. Descendants(t) = {t}
    BY <2>2 DEF Descendants, Last
  <2>4. /\ x \in Req /\ x.pc = "revoke" /\ x.token = t /\ x.family = {t}
    BY <1>0, <2>2, <2>3 DEF Req, Pcs
  <2> HIDE DEF x
  <2> QED
    BY <1>5, <2>1, <2>2, <2>4
<1>9. ASSUME NEW r \in Pages, Revoke(r)
      PROVE  SignedIn'
  <2>1. /\ UNCHANGED jar /\ request[r].pc = "revoke" /\ request' = [request EXCEPT ![r] = Idle]
        /\ sessions' = [i \in Ids |-> [sessions[i] EXCEPT !.revoked = @ \/ i \in request[r].family]]
    BY <1>9 DEF Revoke, Done
  <2>2. /\ DOMAIN sessions' = Ids
        /\ \A i \in Ids : /\ sessions'[i].family = sessions[i].family
                          /\ sessions'[i].revoked = (sessions[i].revoked \/ i \in request[r].family)
    BY <1>0, <2>1 DEF SessionRow
  <2>3. Idle \in Req /\ Idle.pc = "idle" /\ ~Holds(Idle)
    BY IdleIsOwn DEF Idle, Holds
  <2>4. \A i \in Ids : sessions'[i].revoked =
           (sessions[i].revoked \/ (request[r].pc = "revoke" /\ i \in request[r].family))
    BY <2>1, <2>2
  <2> QED
    BY <1>1, <2>1, <2>2, <2>3, <2>4, SignedInGoes
<1>10. ASSUME NEW r \in Pages, RollsBack(r) \/ AnswerIsLost(r)
       PROVE  FALSE
  BY <1>0, <1>10 DEF RollsBack, AnswerIsLost
<1> QED
  BY <1>2, <1>3, <1>4, <1>6, <1>7, <1>8, <1>9, <1>10 DEF SessionNext, RequestStep

----------------------------------------------------------------------------
(* The theorems                                                            *)

\* Everything keeps its type: rows, locks, cookies and requests stay well formed.
THEOREM SessionsTyped == SessionSpec => []SessionTypeOK
<1>1. SessionInv => SessionTypeOK
  BY DEF SessionInv
<1> QED
  BY <1>1, SessionInvHolds, PTL

\* A sign-in never has two usable refresh tokens, for any number of requests
\* that refresh, replay and log out at once (refresh, revokeRotationDescendants).
THEOREM LiveSessionIsUnique == SessionSpec => []OneLiveSession
<1>1. SessionInv => OneLiveSession
  BY DEF SessionInv, OneUnrevoked, OneLiveSession, Live
<1> QED
  BY <1>1, SessionInvHolds, PTL

\* No logout and no replay of one browser revokes the session of another
\* device (logout, revokeRotationDescendants).
THEOREM OthersStaySignedIn == SessionSpec => []OtherDevicesStay
<1>1. SessionInv => OtherDevicesStay
  BY DEF SessionInv
<1> QED
  BY <1>1, SessionInvHolds, PTL

\* A browser keeps a usable refresh token, or one that is about to be replaced,
\* however its requests, sign-ins and sign-outs meet, unless two of them refresh
\* with one token or an answer is lost (refreshSession, refresh).
THEOREM BrowserStaysSignedIn == SessionSpec => []StaysSignedIn
<1>1. SessionInv /\ SignedInInv /\ [SessionNext]_sessionVars => SignedInInv'
  BY SignedInStep
<1>2. SessionInv /\ SignedInInv => StaysSignedIn
  BY DEF SignedInInv, SignedIn, Usable, InAnswer, StaysSignedIn
<1> QED
  BY <1>1, <1>2, InitSignedIn, SessionInvHolds, PTL DEF SessionSpec
=============================================================================
