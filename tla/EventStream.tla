----------------------------- MODULE EventStream -----------------------------
(***************************************************************************)
(* How the text of one generation reaches one browser page: the worker     *)
(* buffers the provider's deltas, publishes them as numbered events and    *)
(* saves checkpoints; the relay announces the end; the API serves the      *)
(* user's event stream, the history of a generation and a first snapshot;  *)
(* the page's store merges all of it into a projection.                    *)
(* One script numbers an event, replaces the state key and appends to both *)
(* streams, so all four are one variable, log: an event's sequence is its  *)
(* place.  Other generations of the user only interleave and are left out. *)
(* A frame under way is not told apart from an event not read yet: frames  *)
(* are handled in order, one at a time.                                    *)
(* Reasoning is taken to be enabled (LLM_REASONING_MODE): otherwise it is  *)
(* published when it arrives all the same and saved as null.               *)
(* Attempts, retries before the first delta, tokens and heartbeats are in  *)
(* GenerationLifecycle, the relay's own races in OutboxRelay.              *)
(***************************************************************************)
EXTENDS Naturals, Sequences

CONSTANTS
    Content, Reasoning,   \* the kinds of delta
    MaxDeltas,     \* bound: deltas the provider sends
    MaxTroubles    \* bound: failing calls, repeated create calls, cancel
                   \* calls and trims of the user stream, all together

Kinds == {Content, Reasoning}
NoKind == "none"

ASSUME StreamAssumption ==
    /\ Content # Reasoning /\ NoKind \notin Kinds
    /\ MaxDeltas \in Nat /\ MaxTroubles \in Nat

Texts == [Kinds -> Seq(Nat)]
NoText == [k \in Kinds |-> <<>>]
Terminal == {"COMPLETED", "STOPPED"}   \* STOPPED: FAILED or CANCELLED
Active == {"QUEUED", "STARTING", "STREAMING", "CANCEL_REQUESTED"}
\* Everything the worker and the relay publish; nothing sends the reducer's
\* message.snapshot.
EventTypes == {"started", "delta", "usage", "ended"}

VARIABLES
    \* Redis
    log,       \* events; "shown" is the state key as the event left it
    trimmed,   \* events up to this one have left the user stream
    expired,   \* every key of the generation has expired
    \* PostgreSQL
    row,       \* the generation with its message: status, text, seq
    notice,    \* its terminal outbox row
    \* the worker's run: what it waits for, and its local variables
    wpc, text, sequence, bufferedType, bufferedDelta, arriving, after,
    \* the page
    local,     \* the store's entry for the generation
    cursor,    \* stored position in the user stream
    cpc,       \* where the connection loop is
    seen,      \* what the API has read for the sync or history call under way
    reply,     \* the answer of a create or cancel call, on its way
    faults, replays, cancels, trims

streamVars == <<log, trimmed, expired, trims>>
rowVars == <<row, notice>>
bufferVars == <<bufferedType, bufferedDelta, arriving>>
writerVars == <<wpc, text, sequence, bufferVars, after>>
storeVars == <<local, reply, replays, cancels>>
loopVars == <<cursor, cpc, seen>>
pageVars == <<storeVars, loopVars>>
vars == <<streamVars, rowVars, writerVars, pageVars, faults>>

Absent == [status |-> "absent", text |-> NoText, last |-> 0, gap |-> FALSE]
NothingSeen ==
    [cursor |-> 0, known |-> FALSE, row |-> Absent, from |-> 0, upto |-> 0]
NoReply == [call |-> "none", status |-> "absent", last |-> 0]
NoNotice == [state |-> "none", text |-> NoText, status |-> "absent", seq |-> 0]

Init ==
    /\ log = <<>> /\ trimmed = 0 /\ expired = FALSE
    /\ row = [status |-> "QUEUED", text |-> NoText, seq |-> 0]
    /\ notice = NoNotice
    /\ wpc = "queued" /\ text = NoText /\ sequence = 0 /\ after = "start"
    /\ bufferedType = NoKind /\ bufferedDelta = <<>> /\ arriving = NoKind
    /\ local = Absent /\ cursor = 0 /\ cpc = "sync" /\ seen = NothingSeen
    /\ reply = [call |-> "create", status |-> "QUEUED", last |-> 0]
    /\ faults = 0 /\ replays = 0 /\ cancels = 0 /\ trims = 0

Quiet == faults + replays + cancels + trims < MaxTroubles
Fault == Quiet /\ faults' = faults + 1

----------------------------------------------------------------------------
(* The streams                                                             *)

\* The state key as event n left it.
Shown(n) == IF n = 0 THEN NoText ELSE log[n].shown

\* A trim that is off by one.
TrimBeyond ==
    /\ Quiet
    /\ trims' = trims + 1
    /\ trimmed' \in trimmed + 1 .. Len(log) + 1
    /\ UNCHANGED <<log, expired, rowVars, writerVars, pageVars, faults>>

\* XTRIM MINID: a publication for the user, of this generation or another,
\* drops what the retention time has passed.
Trim ==
    /\ Quiet
    /\ trims' = trims + 1
    /\ trimmed' \in trimmed + 1 .. Len(log)
    /\ UNCHANGED <<log, expired, rowVars, writerVars, pageVars, faults>>

\* publish: up to three calls of the script under one event id, so however
\* many replies are lost the event is appended once.
Publish(event) ==
    /\ log' = Append(log, event)
    /\ UNCHANGED <<trimmed, expired, trims>>

\* publish throws: the worker saw three calls fail, and perhaps one did not.
PublishThrows(event) == Fault /\ (Publish(event) \/ UNCHANGED streamVars)

\* PEXPIRE: nothing was published for the retention time, long after the end.
Expire ==
    /\ ~expired /\ notice.state = "acknowledged" /\ wpc = "gone"
    /\ expired' = TRUE
    /\ trimmed' = Len(log)
    /\ UNCHANGED <<log, trims, rowVars, writerVars, pageVars, faults>>

----------------------------------------------------------------------------
(* The worker                                                              *)

StartedEvent ==
    [type |-> "started", kind |-> NoKind, delta |-> <<>>, shown |-> text, status |-> "STARTING"]
DeltaEvent ==
    [type |-> "delta", kind |-> bufferedType, delta |-> bufferedDelta, shown |-> text,
     status |-> "STREAMING"]
UsageEvent ==
    [type |-> "usage", kind |-> NoKind, delta |-> <<>>, shown |-> text, status |-> "STREAMING"]
EndedEvent ==
    [type |-> "ended", kind |-> NoKind, delta |-> <<>>, shown |-> notice.text,
     status |-> notice.status]

\* A terminal transaction: the row, the message and the outbox row at once.
Settle(status, saved, seq) ==
    /\ row' = [status |-> status, text |-> saved, seq |-> seq]
    /\ notice' = [NoNotice EXCEPT !.state = "pending", !.text = saved, !.status = status]

\* The run is over: its local variables are gone.
Leave ==
    /\ wpc' = "gone" /\ after' = "start"
    /\ text' = NoText /\ sequence' = 0
    /\ bufferedType' = NoKind /\ bufferedDelta' = <<>> /\ arriving' = NoKind

\* process: the claim, or a cancellation that came first.
Claim ==
    /\ wpc = "queued"
    /\ \/ /\ row.status = "QUEUED"
          /\ row' = [row EXCEPT !.status = "STARTING"]
          /\ wpc' = "publish"
          /\ UNCHANGED <<notice, text, sequence, bufferVars, after>>
       \/ /\ row.status = "CANCEL_REQUESTED"
          /\ Settle("STOPPED", text, sequence)
          /\ Leave
    /\ UNCHANGED <<streamVars, pageVars, faults>>

\* An end that leaves the buffer.
ReachUnflushed(phase) == after' = phase /\ wpc' = "finish"

\* What flushDelta does next: nothing when the buffer is empty.
Reach(phase) ==
    /\ after' = phase
    /\ wpc' = IF bufferedType = NoKind THEN "finish" ELSE "publish"

\* An error before the try block or in the catch block ends the run; in the
\* try block it leads to the catch block, which flushes first.
Raise(phase) ==
    IF phase \in {"start", "rescue"} THEN Leave
    ELSE Reach("rescue") /\ UNCHANGED <<text, sequence, bufferVars>>

Length(t) == Len(t[Content]) + Len(t[Reasoning])
DeltaCount == Length(text)

\* A delta of the provider: it joins the text before anything is flushed.
\* A flush is due when the kind changes, or by size or time.
Receive(k) ==
    /\ wpc = "stream" /\ DeltaCount < MaxDeltas
    /\ text' = [text EXCEPT ![k] = Append(@, DeltaCount + 1)]
    /\ row' = [row EXCEPT !.status = IF @ = "STARTING" THEN "STREAMING" ELSE @]
    /\ IF bufferedType \in {NoKind, k}
       THEN /\ bufferedType' = k
            /\ bufferedDelta' = Append(bufferedDelta, DeltaCount + 1)
            /\ wpc' \in {"stream", "publish"} /\ after' = "stream"
            /\ UNCHANGED arriving
       ELSE /\ arriving' = k
            /\ wpc' = "publish" /\ after' = "switch"
            /\ UNCHANGED <<bufferedType, bufferedDelta>>
    /\ UNCHANGED <<streamVars, notice, sequence, pageVars, faults>>

\* markStreaming throws: the delta is in the text and in no buffer.
ReceiveThrows(k) ==
    /\ wpc = "stream" /\ DeltaCount = 0 /\ MaxDeltas > 0
    /\ Fault
    /\ text' = [text EXCEPT ![k] = Append(@, 1)]
    /\ Reach("rescue")
    /\ UNCHANGED <<streamVars, rowVars, sequence, bufferVars, pageVars>>

\* A flush that leaves what it sent in the buffer.
FlushedKeeps ==
    /\ bufferedDelta' = IF after = "switch" THEN Append(bufferedDelta, DeltaCount) ELSE bufferedDelta
    /\ bufferedType' = IF after = "switch" THEN arriving ELSE bufferedType
    /\ arriving' = NoKind
    /\ wpc' = IF after \in {"last", "rescue"} THEN "finish" ELSE "stream"
    /\ after' = IF after \in {"last", "rescue"} THEN after ELSE "stream"

\* The end of flushDelta: the buffer is empty, then what comes after it.  A
\* delta of the new kind goes into the buffer and may be due at once.
Flushed ==
    /\ IF after = "switch"
       THEN /\ bufferedType' = arriving
            /\ bufferedDelta' = <<DeltaCount>>
            /\ wpc' \in {"stream", "publish"}
       ELSE /\ bufferedType' = NoKind
            /\ bufferedDelta' = <<>>
            /\ wpc' = IF after \in {"last", "rescue"} THEN "finish" ELSE "stream"
    /\ arriving' = NoKind
    /\ after' = IF after \in {"last", "rescue"} THEN after ELSE "stream"

\* generation.started, or flushDelta with something in the buffer; the start
\* is always checkpointed, a delta when enough was added or time has passed.
Flush ==
    /\ wpc = "publish"
    /\ LET event == IF after = "start" THEN StartedEvent ELSE DeltaEvent
       IN  \/ /\ Publish(event)
              /\ sequence' = Len(log')
              /\ \/ wpc' = "save" /\ UNCHANGED <<bufferVars, after>>
                 \/ after # "start" /\ Flushed
              /\ UNCHANGED <<text, faults>>
           \/ /\ PublishThrows(event)
              /\ Raise(after)
    /\ UNCHANGED <<rowVars, pageVars>>

\* writeCheckpoint: only forwards, and only while the row is in flight.
Saved ==
    row' = IF row.status \in {"STARTING", "STREAMING"} /\ row.seq < sequence
           THEN [row EXCEPT !.text = text, !.seq = sequence] ELSE row

Save ==
    /\ wpc = "save"
    /\ \/ Saved /\ Flushed /\ UNCHANGED <<text, sequence, faults>>
       \/ /\ Fault /\ (Saved \/ UNCHANGED row)
          /\ Raise(after)
    /\ UNCHANGED <<streamVars, notice, pageVars>>

\* The stream ends, or the provider, a cancellation or a lost claim breaks it.
StreamEnds ==
    /\ wpc = "stream"
    /\ Reach("last") \/ Reach("rescue")
    /\ UNCHANGED <<streamVars, rowVars, text, sequence, bufferVars, pageVars, faults>>

Usage ==
    /\ wpc = "finish" /\ after = "last"
    /\ \/ /\ Publish(UsageEvent)
          /\ sequence' = Len(log')
          /\ after' = "usage"
          /\ UNCHANGED <<wpc, text, bufferVars, faults>>
       \/ /\ PublishThrows(UsageEvent)
          /\ Reach("rescue")
          /\ UNCHANGED <<text, sequence, bufferVars>>
    /\ UNCHANGED <<rowVars, pageVars>>

\* finalizeCompleted, finalizeFailed and finalizeCancelled: the first to
\* find the row active wins.
Finalize ==
    /\ wpc = "finish"
    /\ IF row.status \in Active
       THEN Settle(IF after = "rescue" \/ row.status = "CANCEL_REQUESTED"
                   THEN "STOPPED" ELSE "COMPLETED", text, sequence)
       ELSE UNCHANGED rowVars
    /\ Leave
    /\ UNCHANGED <<streamVars, pageVars, faults>>

\* The monitor fails the generation of a run that is gone, or (which counts
\* as a fault) of one whose heartbeats are late.
MonitorSettles ==
    /\ row.status \in {"STARTING", "STREAMING"}
    /\ IF wpc = "gone" THEN UNCHANGED faults ELSE Fault
    /\ Settle("STOPPED", row.text, row.seq)
    /\ UNCHANGED <<streamVars, writerVars, pageVars>>

----------------------------------------------------------------------------
(* The relay (its races are in OutboxRelay)                                *)

Announce ==
    /\ notice.state = "pending"
    /\ Publish(EndedEvent)
    /\ notice' = [notice EXCEPT !.state = "announced", !.seq = Len(log')]
    /\ UNCHANGED <<row, writerVars, pageVars, faults>>

Acknowledge ==
    /\ notice.state = "announced"
    /\ notice' = [notice EXCEPT !.state = "acknowledged"]
    /\ row' = IF row.seq < notice.seq THEN [row EXCEPT !.seq = notice.seq] ELSE row
    /\ UNCHANGED <<streamVars, writerVars, pageVars, faults>>

----------------------------------------------------------------------------
(* The store of the page                                                   *)

Fresh == [status |-> "QUEUED", text |-> NoText, last |-> 0, gap |-> FALSE]

Applied(l, n) ==
    LET e == log[n]
    IN  [status |-> CASE e.type = "started" -> "STARTING"
                      [] e.type = "delta" -> "STREAMING"
                      [] e.type = "usage" -> l.status
                      [] e.type = "ended" -> e.status,
         text |-> [k \in Kinds |-> IF e.kind = k THEN l.text[k] \o e.delta ELSE l.text[k]],
         last |-> n,
         gap |-> FALSE]

\* A reducer that only looks for gaps.
ReduceAgain(l, n) ==
    LET base == IF l.status = "absent" THEN Fresh ELSE l
    IN  IF n > base.last + 1 THEN [base EXCEPT !.gap = TRUE] ELSE Applied(base, n)

\* reduceGenerationEvent for event n.
Reduce(l, n) ==
    LET base == IF l.status = "absent" THEN Fresh ELSE l
    IN  CASE n <= base.last -> base
          [] n > base.last + 1 -> [base EXCEPT !.gap = TRUE]
          [] n = base.last + 1 -> Applied(base, n)

\* register and replaceSnapshot.
Registered(l, s) == IF l.status # "absent" /\ l.last >= s.last THEN l ELSE s
ReplacedAlways(l, s) == IF l.status = "absent" THEN l ELSE s
Replaced(l, s) == IF l.status = "absent" \/ s.last < l.last THEN l ELSE s

\* The entry goes: a finished one is pruned after a while or by number, and
\* the task setup removes its questionnaire's.
Forget ==
    /\ cpc # "replay" /\ local.status \in Terminal
    /\ reply = NoReply   \* long answered
    /\ local' = Absent
    /\ UNCHANGED <<streamVars, rowVars, writerVars, reply, replays, cancels, loopVars, faults>>

----------------------------------------------------------------------------
(* Calls of the page to create and to cancel                               *)

\* A create call repeated under its key answers with the generation as it is.
CreateAgain ==
    /\ cpc # "replay" /\ reply = NoReply /\ Quiet
    /\ reply' = [call |-> "create", status |-> row.status, last |-> row.seq]
    /\ replays' = replays + 1
    /\ UNCHANGED <<streamVars, rowVars, writerVars, local, cancels, loopVars, faults>>

\* cancel: the update of a row that is still active.
CallCancel ==
    /\ cpc # "replay" /\ reply = NoReply /\ Quiet /\ local.status \in Active
    /\ row' = [row EXCEPT !.status = IF @ \in Active THEN "CANCEL_REQUESTED" ELSE @]
    /\ reply' = [NoReply EXCEPT !.call = "cancelling"]
    /\ cancels' = cancels + 1
    /\ UNCHANGED <<streamVars, notice, writerVars, local, replays, loopVars, faults>>

\* cancel: the read of the generation it answers with.
CancelRead ==
    /\ reply.call = "cancelling"
    /\ reply' = [call |-> "cancel", status |-> row.status, last |-> 0]
    /\ UNCHANGED <<streamVars, rowVars, writerVars, local, replays, cancels, loopVars, faults>>

\* The create answer registers an empty text at the answered sequence; the
\* cancel answer overwrites the status.
Answer ==
    /\ cpc # "replay" /\ reply.call \in {"create", "cancel"}
    /\ reply' = NoReply
    /\ local' = IF reply.call = "create"
                THEN Registered(local, [status |-> reply.status, text |-> NoText,
                                        last |-> reply.last, gap |-> FALSE])
                ELSE IF local.status = "absent" THEN local
                ELSE [local EXCEPT !.status = reply.status]
    /\ UNCHANGED <<streamVars, rowVars, writerVars, replays, cancels, loopVars, faults>>

AnswerLost ==
    /\ reply # NoReply /\ Fault
    /\ reply' = NoReply
    /\ UNCHANGED <<streamVars, rowVars, writerVars, local, replays, cancels, loopVars>>


----------------------------------------------------------------------------
(* The connection loop of the page and the calls it makes                  *)

RowState == [status |-> row.status, text |-> row.text, last |-> row.seq, gap |-> FALSE]
KeyState ==
    [status |-> log[Len(log)].status, text |-> Shown(Len(log)), last |-> Len(log), gap |-> FALSE]

LoopOnly == UNCHANGED <<streamVars, rowVars, writerVars, reply, replays, cancels, faults>>

\* sync: the tail of the user stream, before anything else is read.
SyncCursor ==
    /\ cpc = "sync"
    /\ cpc' = "rows"
    /\ seen' = [NothingSeen EXCEPT !.cursor = IF trimmed = Len(log) THEN 0 ELSE Len(log),
                                   !.known = local.status \in Active]
    /\ LoopOnly /\ UNCHANGED <<local, cursor>>

\* sync: the active and the known generations.  The two queries run in
\* parallel; one read of the row stands for both.
SyncRows ==
    /\ cpc = "rows"
    /\ cpc' = "states"
    /\ seen' = [seen EXCEPT !.row = RowState]
    /\ LoopOnly /\ UNCHANGED <<local, cursor>>

\* A sync that keeps the rows and reads the cursor last.
SyncStatesLast ==
    /\ cpc = "states"
    /\ cpc' = "live"
    /\ local' = IF seen.row.status \in Active THEN Registered(local, seen.row)
                ELSE IF seen.known THEN Replaced(local, seen.row) ELSE local
    /\ cursor' = Len(log)
    /\ seen' = NothingSeen
    /\ LoopOnly

\* sync: the state keys and sequences of the active ones, in one script; the
\* page registers what is active, then replaces what it knew.  From here on
\* it reads the stream, and reconnects at the stored cursor when it must.
SyncStates ==
    /\ cpc = "states"
    /\ cpc' = "live"
    /\ LET state == IF log = <<>> \/ expired THEN seen.row ELSE KeyState
           active == IF seen.row.status \in Active THEN Registered(local, state) ELSE local
       IN  local' = IF seen.known THEN Replaced(active, seen.row) ELSE active
    /\ cursor' = seen.cursor
    /\ seen' = NothingSeen
    /\ LoopOnly

Larger(a, b) == IF a >= b THEN a ELSE b

\* The next event behind the cursor in what is left of the user stream.
Following == Larger(cursor, trimmed) + 1

\* One frame: apply it, and ask for the history first if events are missing.
Deliver ==
    /\ cpc = "live" /\ ~expired /\ Following <= Len(log)
    /\ local' = Reduce(local, Following)
    /\ IF local'.last < Following
       THEN /\ cpc' = "history"
            /\ seen' = [NothingSeen EXCEPT !.cursor = Following, !.from = local'.last]
            /\ UNCHANGED cursor
       ELSE cursor' = Following /\ UNCHANGED <<cpc, seen>>
    /\ LoopOnly

\* The end of resync: unless the entry has caught up with the frame, the page
\* reads again from the old cursor.
Resynced(entry) ==
    /\ cpc' = "live"
    /\ cursor' = IF entry.status # "absent" /\ ~entry.gap /\ entry.last >= seen.cursor
                 THEN seen.cursor ELSE cursor
    /\ seen' = NothingSeen

\* history: the API reads the row, then the events behind "from", the state
\* key and the sequence in one script.  The row counts only when the keys have
\* expired, and nothing changes it then.  The answer is the whole rest of the
\* events, or a snapshot in their place.
History ==
    /\ cpc = "history"
    /\ LET latest == IF expired THEN row.seq ELSE Len(log)
           events == seen.from = latest \/ (~expired /\ seen.from < latest)
           snapshot == Replaced(local, IF expired THEN RowState ELSE KeyState)
       IN  \/ /\ events
              /\ seen' = [seen EXCEPT !.upto = latest]
              /\ cpc' = "replay"
              /\ UNCHANGED <<local, cursor>>
           \/ ~events /\ local' = snapshot /\ Resynced(snapshot)
    /\ LoopOnly

\* resync applies the events one after the other and waits for nothing.
Replay ==
    /\ cpc = "replay"
    /\ \/ /\ seen.from < seen.upto
          /\ local' = Reduce(local, seen.from + 1)
          /\ seen' = [seen EXCEPT !.from = @ + 1]
          /\ UNCHANGED <<cpc, cursor>>
       \/ seen.from >= seen.upto /\ Resynced(local) /\ UNCHANGED local
    /\ LoopOnly

\* A call fails, or the connection does while a history call is under way: a
\* sync starts again, a stream goes on at the stored cursor.
Break ==
    /\ cpc \in {"rows", "states", "history"} /\ Fault
    /\ cpc' = IF cpc \in {"rows", "states"} THEN "sync" ELSE "live"
    /\ seen' = NothingSeen
    /\ UNCHANGED <<streamVars, rowVars, writerVars, storeVars, cursor>>

PageLoop ==
    SyncCursor \/ SyncRows \/ SyncStates \/ Deliver \/ History \/ Replay

WriterStep ==
    \/ Claim \/ Flush \/ Save \/ StreamEnds \/ Usage \/ Finalize
    \/ \E k \in Kinds : Receive(k) \/ ReceiveThrows(k)

Next ==
    \/ Trim \/ Expire
    \/ WriterStep
    \/ MonitorSettles \/ Announce \/ Acknowledge
    \/ Forget \/ CreateAgain \/ CallCancel \/ CancelRead \/ Answer \/ AnswerLost
    \/ PageLoop \/ Break

Spec == Init /\ [][Next]_vars

\* The relay polls for ever and the page reconnects for ever; a provider, a
\* worker and a user owe nothing.
FairSpec == Spec /\ WF_vars(Announce) /\ WF_vars(Acknowledge) /\ WF_vars(PageLoop)

----------------------------------------------------------------------------
(* Properties                                                              *)

\* Everything keeps its type.
Statuses == {"absent"} \cup Active \cup Terminal
Entry == [status : Statuses, text : Texts, last : Nat, gap : BOOLEAN]
Event ==
    [type : EventTypes, kind : Kinds \cup {NoKind}, delta : Seq(Nat), shown : Texts,
     status : Statuses]
Replies == [call : {"none", "create", "cancelling", "cancel"}, status : Statuses, last : Nat]
TypeOK ==
    /\ log \in Seq(Event)
    /\ trimmed \in 0 .. Len(log)
    /\ expired \in BOOLEAN
    /\ row \in [status : Statuses, text : Texts, seq : Nat]
    /\ notice \in [state : {"none", "pending", "announced", "acknowledged"}, text : Texts,
                   status : Statuses, seq : Nat]
    /\ wpc \in {"queued", "publish", "save", "stream", "finish", "gone"}
    /\ text \in Texts /\ sequence \in Nat
    /\ bufferedType \in Kinds \cup {NoKind} /\ bufferedDelta \in Seq(Nat)
    /\ arriving \in Kinds \cup {NoKind}
    /\ after \in {"start", "stream", "switch", "last", "usage", "rescue"}
    /\ local \in Entry /\ cursor \in Nat
    /\ cpc \in {"sync", "rows", "states", "live", "history", "replay"}
    /\ seen \in [cursor : Nat, known : BOOLEAN, row : Entry, from : Nat, upto : Nat]
    /\ reply \in Replies
    /\ faults \in Nat /\ replays \in Nat /\ cancels \in Nat /\ trims \in Nat

\* The deltas of the events behind n up to m.
Between(n, m) ==
    LET upto[i \in 0 .. m] ==
          IF i <= n THEN NoText
          ELSE [k \in Kinds |-> upto[i - 1][k] \o
                                IF log[i].kind = k THEN log[i].delta ELSE <<>>]
    IN  upto[m]

Followed(base, n, m) == [k \in Kinds |-> base[k] \o Between(n, m)[k]]

Elems(s) == {s[i] : i \in 1 .. Len(s)}

\* The page shows no delta of the answer twice: "refreshes, lost connections
\* and gaps must not repeat or damage the generated text"
\* (docs/adr/0004-replay-and-snapshot-recovery.md:8).  The code breaks it in
\* two ways.  bufferDelta adds a delta to the state key of the event before
\* (generation.processor.ts:359), so a page that starts from that state gets
\* the delta again with its own event; no call need fail for it.  And a flush
\* whose checkpoint throws (472) is published again by the catch block.
NoDeltaTwice ==
    \A k \in Kinds : \A i, j \in 1 .. Len(local.text[k]) :
        i # j => local.text[k][i] # local.text[k][j]

\* What holds of ADR-0004:8 instead: whatever snapshots, histories, frames
\* and repeated answers meet in the page, a delta that it shows twice was
\* told by an event the page has merged, although the state key had shown it
\* since an earlier one.  The API and the page double nothing themselves.
OnlyThePublisherDoubles ==
    \A k \in Kinds : \A i, j \in 1 .. Len(local.text[k]) :
        (local.status # "absent" /\ i # j /\ local.text[k][i] = local.text[k][j]) =>
            \E m \in 2 .. local.last : \E n \in 1 .. m - 1 :
                /\ log[m].kind = k
                /\ local.text[k][i] \in Elems(log[m].delta) \cap Elems(Shown(n)[k])

\* As long as nothing fails, the worker's events leave in the state key the
\* deltas published so far and at most one more, of the other kind, that is
\* about to be buffered.  That one is what a page may show twice against
\* docs/adr/0004-replay-and-snapshot-recovery.md:8 (NoDeltaTwice); the
\* property bounds how much that is.
StateRunsAheadByOne ==
    (faults = 0 /\ log # <<>> /\ log[Len(log)].type # "ended") =>
        LET told == Between(0, Len(log))
            shown == Shown(Len(log))
        IN  /\ \A k \in Kinds : /\ Len(told[k]) <= Len(shown[k])
                                 /\ told[k] = SubSeq(shown[k], 1, Len(told[k]))
            /\ Length(shown) <= Length(told) + 1

EndedAt == {n \in DOMAIN log : log[n].type = "ended"}
EndSeen == local.status # "absent" /\ \E n \in EndedAt : n <= local.last

\* A page that has merged the end of a completed generation lacks none of its
\* text, however often it reconnected, missed events or loaded a snapshot,
\* unless a repeated create call emptied it.
NoDeltaLost ==
    (EndSeen /\ row.status = "COMPLETED" /\ replays = 0) =>
        \A k \in Kinds : \A i \in 1 .. Len(row.text[k]) :
            \E j \in 1 .. Len(local.text[k]) : local.text[k][j] = row.text[k][i]

\* No late answer, snapshot or event takes the page back to an earlier one.
NeverBackwards ==
    [][local.status # "absent" /\ local'.status # "absent" => local'.last >= local.last]_vars

\* The worker published after the end was announced (the monitor ended a
\* generation whose worker was alive).
LateEvent == \E n \in EndedAt : n < Len(log)
\* The announcement left the user stream before the page read it.
Missed == \E n \in EndedAt : n <= trimmed /\ cursor < n
\* The answer to a cancel call came after the end and brought an old status.
Overtaken ==
    local.status = "CANCEL_REQUESTED" /\ \E n \in EndedAt : n <= Larger(cursor, local.last)

\* The answer to a create call came after a sync that had seen the end: the
\* page keeps an entry at the answered sequence and is behind it for ever.
Belated ==
    /\ local.text = NoText /\ (local.last = 0 \/ replays > 0)
    /\ \E n \in EndedAt : local.last < n /\ n <= cursor

\* A page does not show a generation as active again once it has shown its
\* end, except for a late event or an overtaken answer.
EndIsShownForGood ==
    [][EndSeen /\ local.status \in Terminal =>
         \/ local'.status \in {local.status, "absent"}
         \/ LateEvent' \/ Overtaken']_vars

\* Every end in the database reaches the page, through lost connections,
\* reloads, gaps and resynchronisation, and stays.
Settled == local.status \in {"absent"} \cup Terminal
EndReachesPage ==
    row.status \in Terminal ~> [](Settled \/ LateEvent \/ Missed \/ Overtaken \/ Belated)
=============================================================================
