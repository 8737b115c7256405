------------------------- MODULE EventStream_proofs -------------------------
(***************************************************************************)
(* Proofs about the event stream of a generation and the page that follows *)
(* it, for any number of deltas and of troubles.                           *)
(***************************************************************************)
EXTENDS EventStream, SequenceTheorems, WellFoundedInduction, TLAPS

USE StreamAssumption

RowRecord == [status : Statuses, text : Texts, seq : Nat]
NoticeRecord ==
    [state : {"none", "pending", "announced", "acknowledged"}, text : Texts,
     status : Statuses, seq : Nat]
SeenRecord == [cursor : Nat, known : BOOLEAN, row : Entry, from : Nat, upto : Nat]

\* The invariant by the variables it is about.
StreamPart ==
    /\ log \in Seq(Event) /\ trimmed \in 0 .. Len(log) /\ expired \in BOOLEAN
    /\ trims \in Nat /\ faults \in Nat /\ replays \in Nat /\ cancels \in Nat
RowPart == row \in RowRecord /\ notice \in NoticeRecord
WriterPart ==
    /\ wpc \in {"queued", "publish", "save", "stream", "finish", "gone"}
    /\ text \in Texts /\ sequence \in Nat
    /\ bufferedType \in Kinds \cup {NoKind} /\ bufferedDelta \in Seq(Nat)
    /\ arriving \in Kinds \cup {NoKind}
    /\ after \in {"start", "stream", "switch", "last", "usage", "rescue"}
StorePart == local \in Entry /\ reply \in Replies
LoopPart ==
    /\ cursor \in Nat /\ seen \in SeenRecord
    /\ cpc \in {"sync", "rows", "states", "live", "history", "replay"}

\* A history call is made for an event that was read, so the state key exists;
\* and the events still to be applied are events of the log.
CallsReadEvents ==
    /\ cpc = "history" => log # <<>>
    /\ cpc = "replay" => seen.from >= seen.upto \/ seen.upto <= Len(log)

StreamInv == StreamPart /\ RowPart /\ WriterPart /\ StorePart /\ LoopPart /\ CallsReadEvents

----------------------------------------------------------------------------
(* Values                                                                  *)

LEMMA KindsOfDelta ==
    /\ Content \in Kinds /\ Reasoning \in Kinds
    /\ NoText \in Texts /\ Active \subseteq Statuses /\ Terminal \subseteq Statuses
    /\ Absent \in Entry /\ Fresh \in Entry
BY DEF Kinds, NoText, Texts, Active, Terminal, Statuses, Absent, Fresh, Entry

LEMMA EventsTyped ==
  ASSUME WriterPart, RowPart
  PROVE  /\ StartedEvent \in Event /\ DeltaEvent \in Event
         /\ UsageEvent \in Event /\ EndedEvent \in Event
<1>1. /\ text \in Texts /\ bufferedType \in Kinds \cup {NoKind} /\ bufferedDelta \in Seq(Nat)
      /\ notice.text \in Texts /\ notice.status \in Statuses /\ <<>> \in Seq(Nat)
  BY DEF WriterPart, RowPart, NoticeRecord
<1>2. {"STARTING", "STREAMING"} \subseteq Statuses
  BY DEF Statuses, Active
<1> QED
  BY <1>1, <1>2 DEF StartedEvent, DeltaEvent, UsageEvent, EndedEvent, Event, EventTypes

LEMMA Published ==
  ASSUME StreamPart, NEW event \in Event, Publish(event)
  PROVE  /\ log' \in Seq(Event) /\ Len(log') = Len(log) + 1 /\ Len(log') \in Nat
         /\ trimmed' \in 0 .. Len(log')
BY DEF StreamPart, Publish

LEMMA LogEntries ==
  ASSUME StreamPart, NEW n \in 1 .. Len(log)
  PROVE  log[n] \in Event
BY DEF StreamPart

LEMMA CountTyped ==
  ASSUME WriterPart
  PROVE  DeltaCount \in Nat
BY KindsOfDelta DEF WriterPart, Texts, DeltaCount, Length

\* What the store makes of an event: an entry that is no older.
LEMMA ReduceKeeps ==
  ASSUME StreamPart, NEW l \in Entry, NEW n \in 1 .. Len(log)
  PROVE  /\ Reduce(l, n) \in Entry
         /\ l.status # "absent" => Reduce(l, n).last >= l.last
<1> DEFINE base == IF l.status = "absent" THEN Fresh ELSE l
<1>1. base \in Entry
  BY KindsOfDelta
<1>2. base.last \in Nat /\ base.text \in Texts /\ n \in Nat
  BY <1>1 DEF Entry, StreamPart
<1> HIDE DEF base
<1>3. Applied(base, n) \in Entry /\ Applied(base, n).last = n
  <2> DEFINE e == log[n]
  <2>1. e \in Event
    BY LogEntries
  <2> HIDE DEF e
  <2> DEFINE status == CASE e.type = "started" -> "STARTING"
                         [] e.type = "delta" -> "STREAMING"
                         [] e.type = "usage" -> base.status
                         [] e.type = "ended" -> e.status
             txt == [k \in Kinds |-> IF e.kind = k THEN base.text[k] \o e.delta
                                     ELSE base.text[k]]
  <2>2. status \in Statuses
    <3>1. base.status \in Statuses /\ e.status \in Statuses /\ e.type \in EventTypes
      BY <1>1, <2>1 DEF Entry, Event
    <3>2. "STARTING" \in Statuses /\ "STREAMING" \in Statuses
      BY DEF Statuses, Active
    <3> QED
      BY <3>1, <3>2 DEF EventTypes
  <2>3. txt \in Texts
    BY <1>2, <2>1 DEF Texts, Event
  <2>4. Applied(base, n) = [status |-> status, text |-> txt, last |-> n, gap |-> FALSE]
    BY DEF Applied, e
  <2> HIDE DEF status, txt
  <2> QED
    BY <1>2, <2>2, <2>3, <2>4 DEF Entry
<1>4. [base EXCEPT !.gap = TRUE] \in Entry /\ [base EXCEPT !.gap = TRUE].last = base.last
  BY <1>1 DEF Entry
<1>5. Reduce(l, n) = CASE n <= base.last -> base
                       [] n > base.last + 1 -> [base EXCEPT !.gap = TRUE]
                       [] n = base.last + 1 -> Applied(base, n)
  BY DEF Reduce, base
<1>6. CASE n <= base.last
  <2>1. Reduce(l, n) = base
    BY <1>2, <1>5, <1>6
  <2> QED
    BY <1>1, <1>2, <2>1 DEF base
<1>7. CASE n > base.last + 1
  <2>1. Reduce(l, n) = [base EXCEPT !.gap = TRUE]
    BY <1>2, <1>5, <1>7
  <2>2. Reduce(l, n).last = base.last
    BY <1>4, <2>1
  <2> QED
    BY <1>2, <1>4, <2>1, <2>2 DEF base
<1>8. CASE n = base.last + 1
  <2>1. Reduce(l, n) = Applied(base, n)
    BY <1>2, <1>5, <1>8
  <2>2. Reduce(l, n).last = n /\ n >= base.last
    BY <1>2, <1>3, <1>8, <2>1
  <2> QED
    BY <1>3, <2>1, <2>2 DEF base
<1> QED
  BY <1>2, <1>6, <1>7, <1>8

\* The same of a snapshot.
LEMMA SnapshotsKeep ==
  ASSUME NEW l \in Entry, NEW s \in Entry
  PROVE  /\ Registered(l, s) \in Entry /\ Replaced(l, s) \in Entry
         /\ l.status # "absent" => /\ Registered(l, s).last >= l.last
                                   /\ Replaced(l, s).last >= l.last
<1>1. l.last \in Nat /\ s.last \in Nat
  BY DEF Entry
<1> QED
  BY <1>1 DEF Registered, Replaced

LEMMA StatesTyped ==
  ASSUME StreamPart, RowPart
  PROVE  RowState \in Entry /\ (log # <<>> => KeyState \in Entry)
<1>1. RowState \in Entry
  BY DEF RowPart, RowRecord, RowState, Entry
<1>2. ASSUME log # <<>>
      PROVE  KeyState \in Entry
  <2>1. Len(log) \in Nat /\ Len(log) # 0 /\ Len(log) \in 1 .. Len(log)
    BY <1>2 DEF StreamPart
  <2>2. log[Len(log)] \in Event
    BY <2>1, LogEntries
  <2>3. Shown(Len(log)) = log[Len(log)].shown
    BY <2>1 DEF Shown
  <2> QED
    BY <2>1, <2>2, <2>3 DEF KeyState, Entry, Event
<1> QED
  BY <1>1, <1>2

----------------------------------------------------------------------------
(* Initially                                                               *)

LEMMA InitStream == Init => StreamInv
<1> SUFFICES ASSUME Init
             PROVE  StreamInv
  OBVIOUS
<1>0. "QUEUED" \in Statuses /\ "absent" \in Statuses
  BY DEF Statuses, Active
<1>1. StreamPart
  <2>1. log \in Seq(Event) /\ Len(log) = 0
    BY DEF Init
  <2>2. trimmed \in 0 .. Len(log)
    <3>1. trimmed = 0
      BY DEF Init
    <3> QED
      BY <2>1, <3>1
  <2>4. expired \in BOOLEAN
    BY DEF Init
  <2>3. trims \in Nat /\ faults \in Nat /\ replays \in Nat /\ cancels \in Nat
    BY DEF Init
  <2> QED
    BY <2>1, <2>2, <2>3, <2>4 DEF StreamPart
<1>2. RowPart
  BY <1>0, KindsOfDelta DEF Init, RowPart, RowRecord, NoticeRecord, NoNotice
<1>3. WriterPart
  BY KindsOfDelta DEF Init, WriterPart
<1>4. StorePart
  BY <1>0, KindsOfDelta DEF Init, StorePart, Replies
<1>5. LoopPart /\ CallsReadEvents
  BY KindsOfDelta DEF Init, LoopPart, CallsReadEvents, SeenRecord, NothingSeen
<1> QED
  BY <1>1, <1>2, <1>3, <1>4, <1>5 DEF StreamInv

----------------------------------------------------------------------------
(* The streams                                                             *)

\* What a step does to the log: nothing, a trim, or one event more.
LEMMA LogFrame ==
  ASSUME StreamInv, [Next]_vars
  PROVE  /\ \/ UNCHANGED <<log, trimmed, expired, trims>>
            \/ UNCHANGED log /\ trimmed' \in 0 .. Len(log) /\ expired' \in BOOLEAN /\ trims' \in Nat
            \/ \E event \in Event : Publish(event)
         /\ faults' \in Nat /\ replays' \in Nat /\ cancels' \in Nat
<1>0. /\ StreamPart /\ trims \in Nat /\ faults \in Nat /\ replays \in Nat /\ cancels \in Nat
      /\ trimmed \in 0 .. Len(log) /\ Len(log) \in Nat /\ expired \in BOOLEAN
  BY DEF StreamInv, StreamPart
<1>a. faults' \in Nat /\ replays' \in Nat /\ cancels' \in Nat
  <2>1. faults' \in {faults, faults + 1}
    BY DEF Next, Trim, Expire, WriterStep, Claim, Flush, Save, StreamEnds, Usage, Finalize,
           Receive, ReceiveThrows, MonitorSettles, Announce, Acknowledge, Forget, CreateAgain,
           CallCancel, CancelRead, Answer, AnswerLost, PageLoop, SyncCursor, SyncRows, SyncStates, Deliver,
           History, Replay, LoopOnly, Break, Fault, PublishThrows, vars
  <2>2. replays' \in {replays, replays + 1} /\ cancels' \in {cancels, cancels + 1}
    BY DEF Next, Trim, Expire, WriterStep, Claim, Flush, Save, StreamEnds, Usage, Finalize,
           Receive, ReceiveThrows, MonitorSettles, Announce, Acknowledge, Forget, CreateAgain,
           CallCancel, CancelRead, Answer, AnswerLost, PageLoop, SyncCursor, SyncRows, SyncStates, Deliver,
           History, Replay, LoopOnly, Break, vars, pageVars, storeVars
  <2> QED
    BY <1>0, <2>1, <2>2
<1>1. CASE Trim
  <2>1. trims' = trims + 1 /\ trimmed' \in trimmed + 1 .. Len(log) /\ UNCHANGED <<log, expired>>
    BY <1>1 DEF Trim
  <2>2. trims' \in Nat /\ trimmed' \in 0 .. Len(log)
    BY <1>0, <2>1
  <2> QED
    BY <1>0, <1>a, <2>1, <2>2
<1>2. CASE Expire
  <2>1. expired' = TRUE /\ trimmed' = Len(log) /\ UNCHANGED <<log, trims>>
    BY <1>2 DEF Expire
  <2>2. trimmed' \in 0 .. Len(log)
    BY <1>0, <2>1
  <2> QED
    BY <1>0, <1>a, <2>1, <2>2
<1>3. CASE Flush \/ Usage
  <2>1. /\ StartedEvent \in Event /\ DeltaEvent \in Event /\ UsageEvent \in Event
    BY EventsTyped DEF StreamInv
  <2>2. \/ UNCHANGED streamVars
        \/ Publish(StartedEvent) \/ Publish(DeltaEvent) \/ Publish(UsageEvent)
    BY <1>3 DEF Flush, Usage, PublishThrows
  <2>3. (\E event \in Event : Publish(event)) \/ UNCHANGED streamVars
    BY <2>1, <2>2
  <2> QED
    BY <1>a, <2>3 DEF streamVars
<1>4. CASE Announce
  <2>1. EndedEvent \in Event /\ Publish(EndedEvent)
    BY <1>4, EventsTyped DEF StreamInv, Announce
  <2> QED
    BY <1>a, <2>1
<1>5. CASE \/ Claim \/ Save \/ StreamEnds \/ Finalize
           \/ \E k \in Kinds : Receive(k) \/ ReceiveThrows(k)
           \/ MonitorSettles \/ Acknowledge \/ UNCHANGED vars
  <2>1. UNCHANGED streamVars
    BY <1>5 DEF Claim, Save, StreamEnds, Finalize, Receive, ReceiveThrows, MonitorSettles,
                Acknowledge, vars
  <2> QED
    BY <1>a, <2>1 DEF streamVars
<1>6. CASE \/ Forget \/ CreateAgain \/ CallCancel \/ CancelRead \/ Answer \/ AnswerLost \/ PageLoop \/ Break
  <2>1. UNCHANGED streamVars
    BY <1>6 DEF Forget, CreateAgain, CallCancel, CancelRead, Answer, AnswerLost, PageLoop, SyncCursor,
                SyncRows, SyncStates, Deliver, History, Replay, LoopOnly, Break
  <2> QED
    BY <1>a, <2>1 DEF streamVars
<1> QED
  BY <1>a, <1>1, <1>2, <1>3, <1>4, <1>5, <1>6 DEF Next, WriterStep

LEMMA StreamKept ==
  ASSUME StreamInv, [Next]_vars
  PROVE  /\ StreamPart' /\ Len(log') >= Len(log) /\ Len(log) \in Nat /\ Len(log') \in Nat
         /\ log # <<>> => log' # <<>>
<1>0. StreamPart /\ Len(log) \in Nat
  BY DEF StreamInv, StreamPart
<1>1. CASE \E event \in Event : Publish(event)
  <2>1. PICK event \in Event : Publish(event)
    BY <1>1
  <2>2. /\ log' \in Seq(Event) /\ Len(log') = Len(log) + 1 /\ Len(log') \in Nat
        /\ trimmed' \in 0 .. Len(log')
    BY <1>0, <2>1, Published
  <2>3. log' # <<>>
    BY <1>0, <2>2
  <2> QED
    BY <1>0, <2>1, <2>2, <2>3, LogFrame DEF StreamPart, Publish
<1> QED
  BY <1>0, <1>1, LogFrame DEF StreamPart

----------------------------------------------------------------------------
(* The row                                                                 *)

LEMMA RowMoves ==
  ASSUME RowPart, NEW status \in Statuses, NEW seq \in Nat, NEW txt \in Texts,
         \/ row' = [row EXCEPT !.status = status]
         \/ row' = [row EXCEPT !.seq = seq]
         \/ row' = [row EXCEPT !.text = txt, !.seq = seq]
         \/ row' = [status |-> status, text |-> txt, seq |-> seq]
         \/ UNCHANGED row
  PROVE  row' \in RowRecord
<1>0. row \in RowRecord
  BY DEF RowPart
<1>1. CASE row' = [row EXCEPT !.status = status]
  BY <1>0, <1>1 DEF RowRecord
<1>2. CASE row' = [row EXCEPT !.seq = seq]
  BY <1>0, <1>2 DEF RowRecord
<1>3. CASE row' = [row EXCEPT !.text = txt, !.seq = seq]
  BY <1>0, <1>3 DEF RowRecord
<1>4. CASE row' = [status |-> status, text |-> txt, seq |-> seq]
  BY <1>4 DEF RowRecord
<1> QED
  BY <1>0, <1>1, <1>2, <1>3, <1>4

LEMMA SettleTyped ==
  ASSUME NEW status \in Statuses, NEW txt \in Texts, NEW seq \in Nat, Settle(status, txt, seq)
  PROVE  RowPart'
BY DEF Settle, RowPart, RowRecord, NoticeRecord, NoNotice

LEMMA RowKept ==
  ASSUME StreamInv, [Next]_vars
  PROVE  RowPart'
<1>0. /\ RowPart /\ row \in RowRecord /\ notice \in NoticeRecord /\ text \in Texts
      /\ sequence \in Nat /\ row.text \in Texts /\ row.seq \in Nat /\ notice.seq \in Nat
      /\ row.status \in Statuses
  BY DEF StreamInv, RowPart, WriterPart, RowRecord, NoticeRecord
<1>s. {"STARTING", "STREAMING", "STOPPED", "COMPLETED", "CANCEL_REQUESTED"} \subseteq Statuses
  BY DEF Statuses, Active, Terminal
<1>u. UNCHANGED rowVars => RowPart'
  BY <1>0 DEF rowVars, RowPart
<1>1. CASE Claim
  <2>1. CASE Settle("STOPPED", text, sequence)
    BY <1>0, <1>s, <2>1, SettleTyped
  <2>2. CASE row' = [row EXCEPT !.status = "STARTING"] /\ UNCHANGED notice
    <3>1. row' \in RowRecord
      BY <1>0, <1>s, <2>2, RowMoves
    <3> QED
      BY <1>0, <2>2, <3>1 DEF RowPart
  <2> QED
    BY <1>1, <2>1, <2>2 DEF Claim
<1>2. ASSUME NEW k \in Kinds, Receive(k)
      PROVE  RowPart'
  <2>1. row' = [row EXCEPT !.status = IF row.status = "STARTING" THEN "STREAMING" ELSE row.status]
    BY <1>2 DEF Receive
  <2>2. row' \in RowRecord
    BY <1>0, <1>s, <2>1 DEF RowRecord
  <2> QED
    BY <1>0, <1>2, <2>2 DEF Receive, RowPart
<1>3. CASE Save
  <2>1. row' = [row EXCEPT !.text = text, !.seq = sequence] \/ UNCHANGED row
    BY <1>3 DEF Save, Saved, rowVars
  <2>2. row' \in RowRecord
    BY <1>0, <2>1, RowMoves
  <2> QED
    BY <1>0, <1>3, <2>2 DEF Save, RowPart
<1>4. CASE Finalize
  <2>1. \/ Settle("STOPPED", text, sequence) \/ Settle("COMPLETED", text, sequence)
        \/ UNCHANGED rowVars
    BY <1>4 DEF Finalize
  <2> QED
    BY <1>0, <1>s, <1>u, <2>1, SettleTyped
<1>5. CASE MonitorSettles
  BY <1>0, <1>s, <1>5, SettleTyped DEF MonitorSettles
<1>6. CASE Announce
  <2>1. EndedEvent \in Event
    BY EventsTyped DEF StreamInv
  <2>2. Len(log') \in Nat
    BY <1>6, <2>1, Published DEF StreamInv, Announce
  <2>3. notice' = [notice EXCEPT !.state = "announced", !.seq = Len(log')] /\ UNCHANGED row
    BY <1>6 DEF Announce
  <2> QED
    BY <1>0, <2>2, <2>3 DEF RowPart, NoticeRecord
<1>7. CASE Acknowledge
  <2>1. /\ notice' = [notice EXCEPT !.state = "acknowledged"]
        /\ row' = [row EXCEPT !.seq = notice.seq] \/ UNCHANGED row
    BY <1>7 DEF Acknowledge
  <2>2. row' \in RowRecord
    BY <1>0, <2>1, RowMoves
  <2> QED
    BY <1>0, <2>1, <2>2 DEF RowPart, NoticeRecord
<1>8. CASE CallCancel
  <2>1. row' = [row EXCEPT !.status = IF row.status \in Active THEN "CANCEL_REQUESTED" ELSE row.status]
    BY <1>8 DEF CallCancel
  <2>2. row' \in RowRecord
    BY <1>0, <1>s, <2>1 DEF RowRecord
  <2> QED
    BY <1>0, <1>8, <2>2 DEF CallCancel, RowPart
<1>9. CASE \/ Trim \/ Expire \/ Flush \/ StreamEnds \/ Usage \/ UNCHANGED vars
           \/ \E k \in Kinds : ReceiveThrows(k)
  BY <1>u, <1>9 DEF Trim, Expire, Flush, StreamEnds, Usage, vars, ReceiveThrows
<1>10. CASE Forget \/ CreateAgain \/ CancelRead \/ Answer \/ AnswerLost \/ PageLoop \/ Break
  BY <1>u, <1>10 DEF Forget, CreateAgain, CancelRead, Answer, AnswerLost, PageLoop, SyncCursor, SyncRows,
                     SyncStates, Deliver, History, Replay, LoopOnly, Break
<1> QED
  BY <1>1, <1>2, <1>3, <1>4, <1>5, <1>6, <1>7, <1>8, <1>9, <1>10 DEF Next, WriterStep

----------------------------------------------------------------------------
(* The worker                                                              *)

LEMMA LeaveTyped ==
  ASSUME Leave
  PROVE  WriterPart'
BY KindsOfDelta DEF Leave, WriterPart

LEMMA ReachTyped ==
  ASSUME WriterPart, NEW phase \in {"last", "rescue"}, Reach(phase), text' \in Texts,
         UNCHANGED <<sequence, bufferVars>>
  PROVE  WriterPart'
BY DEF WriterPart, Reach, bufferVars

LEMMA RaiseTyped ==
  ASSUME WriterPart, Raise(after)
  PROVE  WriterPart'
<1>1. CASE Leave
  BY <1>1, LeaveTyped
<1>2. CASE Reach("rescue") /\ UNCHANGED <<text, sequence, bufferVars>>
  BY <1>2, ReachTyped DEF WriterPart
<1> QED
  BY <1>1, <1>2 DEF Raise

LEMMA FlushedTyped ==
  ASSUME WriterPart, Flushed, UNCHANGED text, sequence' \in Nat
  PROVE  WriterPart'
<1>1. DeltaCount \in Nat
  BY CountTyped
<1>2. <<DeltaCount>> \in Seq(Nat) /\ <<>> \in Seq(Nat)
  BY <1>1
<1>3. bufferedType' \in Kinds \cup {NoKind} /\ bufferedDelta' \in Seq(Nat)
  BY <1>2 DEF WriterPart, Flushed
<1>4. wpc' \in {"stream", "publish", "finish"}
  BY DEF Flushed
<1>5. after' \in {"last", "rescue", "stream"} /\ arriving' \in Kinds \cup {NoKind}
  BY DEF Flushed
<1> QED
  BY <1>3, <1>4, <1>5 DEF WriterPart

LEMMA WriterKept ==
  ASSUME StreamInv, [Next]_vars
  PROVE  WriterPart'
<1>0. WriterPart /\ text \in Texts /\ sequence \in Nat /\ DeltaCount \in Nat
  BY CountTyped DEF StreamInv, WriterPart
<1>n. Len(log') \in Nat
  BY StreamKept
<1>u. UNCHANGED writerVars => WriterPart'
  BY <1>0 DEF writerVars, bufferVars, WriterPart
<1>a. ASSUME NEW k \in Kinds, NEW n \in Nat
      PROVE  [text EXCEPT ![k] = Append(@, n)] \in Texts
  BY <1>0 DEF Texts
<1>1. CASE Claim
  <2>1. CASE Leave
    BY <2>1, LeaveTyped
  <2>2. CASE wpc' = "publish" /\ UNCHANGED <<text, sequence, bufferVars, after>>
    BY <1>0, <2>2 DEF bufferVars, WriterPart
  <2> QED
    BY <1>1, <2>1, <2>2 DEF Claim
<1>2. ASSUME NEW k \in Kinds, Receive(k)
      PROVE  WriterPart'
  <2>0. DeltaCount + 1 \in Nat
    BY <1>0
  <2>1. text' \in Texts /\ UNCHANGED sequence
    <3> DEFINE n == DeltaCount + 1
    <3>1. text' = [text EXCEPT ![k] = Append(@, n)] /\ UNCHANGED sequence
      BY <1>2 DEF Receive
    <3>2. n \in Nat
      BY <2>0
    <3> HIDE DEF n
    <3> QED
      BY <1>a, <3>1, <3>2
  <2>2. bufferedType' \in Kinds \cup {NoKind} /\ arriving' \in Kinds \cup {NoKind}
    BY <1>0, <1>2 DEF Receive, WriterPart
  <2>3. bufferedDelta' \in Seq(Nat)
    <3>1. Append(bufferedDelta, DeltaCount + 1) \in Seq(Nat)
      BY <1>0 DEF WriterPart
    <3> QED
      BY <1>0, <1>2, <3>1 DEF Receive, WriterPart
  <2>4. wpc' \in {"stream", "publish"} /\ after' \in {"stream", "switch"}
    BY <1>2 DEF Receive
  <2> QED
    BY <1>0, <2>1, <2>2, <2>3, <2>4 DEF WriterPart
<1>3. ASSUME NEW k \in Kinds, ReceiveThrows(k)
      PROVE  WriterPart'
  <2>1. text' \in Texts
    BY <1>3, <1>a DEF ReceiveThrows
  <2> QED
    BY <1>0, <1>3, <2>1, ReachTyped DEF ReceiveThrows
<1>4. CASE Flush
  <2>1. CASE Raise(after)
    BY <1>0, <2>1, RaiseTyped
  <2>2. CASE sequence' = Len(log') /\ UNCHANGED text /\ wpc' = "save" /\ UNCHANGED <<bufferVars, after>>
    BY <1>0, <1>n, <2>2 DEF bufferVars, WriterPart
  <2>3. CASE sequence' = Len(log') /\ UNCHANGED text /\ Flushed
    BY <1>0, <1>n, <2>3, FlushedTyped
  <2> QED
    BY <1>4, <2>1, <2>2, <2>3 DEF Flush
<1>5. CASE Save
  <2>1. CASE Raise(after)
    BY <1>0, <2>1, RaiseTyped
  <2>2. CASE Flushed /\ UNCHANGED <<text, sequence>>
    BY <1>0, <2>2, FlushedTyped
  <2> QED
    BY <1>5, <2>1, <2>2 DEF Save
<1>6. CASE StreamEnds
  BY <1>0, <1>6, ReachTyped DEF StreamEnds
<1>7. CASE Usage
  <2>1. CASE Reach("rescue") /\ UNCHANGED <<text, sequence, bufferVars>>
    BY <1>0, <2>1, ReachTyped
  <2>2. CASE sequence' = Len(log') /\ after' = "usage" /\ UNCHANGED <<wpc, text, bufferVars>>
    BY <1>0, <1>n, <2>2 DEF bufferVars, WriterPart
  <2> QED
    BY <1>7, <2>1, <2>2 DEF Usage
<1>8. CASE Finalize
  BY <1>8, LeaveTyped DEF Finalize
<1>9. CASE \/ Trim \/ Expire \/ MonitorSettles \/ Announce \/ Acknowledge \/ UNCHANGED vars
  BY <1>u, <1>9 DEF Trim, Expire, MonitorSettles, Announce, Acknowledge, vars
<1>10. CASE Forget \/ CreateAgain \/ CallCancel \/ CancelRead \/ Answer \/ AnswerLost \/ PageLoop \/ Break
  BY <1>u, <1>10 DEF Forget, CreateAgain, CallCancel, CancelRead, Answer, AnswerLost, PageLoop, SyncCursor,
                     SyncRows, SyncStates, Deliver, History, Replay, LoopOnly, Break
<1> QED
  BY <1>1, <1>2, <1>3, <1>4, <1>5, <1>6, <1>7, <1>8, <1>9, <1>10 DEF Next, WriterStep

----------------------------------------------------------------------------
(* The page                                                                *)

\* What a step does to the store's entry: a value of its type, and one that
\* is no older than an entry that was there.
Entries(l) == l \in Entry /\ (local.status # "absent" /\ l.status # "absent" => l.last >= local.last)

LEMMA FollowingTyped ==
  ASSUME StreamInv
  PROVE  Following \in Nat /\ Following >= 1
BY DEF StreamInv, StreamPart, LoopPart, Following, Larger

LEMMA EntryKept ==
  ASSUME StreamInv, [Next]_vars
  PROVE  Entries(local')
<1>0. /\ local \in Entry /\ reply \in Replies /\ seen \in SeenRecord /\ StreamPart /\ RowPart
      /\ local.last \in Nat /\ Len(log) \in Nat
  BY DEF StreamInv, StorePart, LoopPart, Entry, StreamPart
<1>u. UNCHANGED local => Entries(local')
  BY <1>0 DEF Entries
<1>r. ASSUME NEW l \in Entry, NEW s \in Entry, Entries(l), l.status = "absent" => local.status = "absent"
      PROVE  Entries(Registered(l, s)) /\ Entries(Replaced(l, s))
  <2>1. l.last \in Nat /\ s.last \in Nat
    BY DEF Entry
  <2> QED
    BY <1>0, <1>r, <2>1 DEF Registered, Replaced, Entries
<1>1. CASE Forget
  BY <1>1, KindsOfDelta DEF Forget, Entries, Absent
<1>2. CASE Answer
  <2> DEFINE s == [status |-> reply.status, text |-> NoText, last |-> reply.last, gap |-> FALSE]
  <2>1. s \in Entry
    BY <1>0, KindsOfDelta DEF Replies, Entry
  <2>2. CASE reply.call = "create"
    <3>1. local' = Registered(local, s)
      BY <1>2, <2>2 DEF Answer
    <3> HIDE DEF s
    <3> QED
      BY <1>0, <1>r, <2>1, <3>1 DEF Entries
  <2>3. CASE reply.call # "create"
    <3>1. local' = [local EXCEPT !.status = reply.status] \/ UNCHANGED local
      BY <1>2, <2>3 DEF Answer
    <3>2. reply.status \in Statuses
      BY <1>0 DEF Replies
    <3> QED
      BY <1>0, <1>u, <3>1, <3>2 DEF Entry, Entries
  <2> QED
    BY <2>2, <2>3
<1>3. CASE SyncStates
  <2> DEFINE state == IF log = <<>> \/ expired THEN seen.row ELSE KeyState
             active == IF seen.row.status \in Active THEN Registered(local, state) ELSE local
  <2>1. state \in Entry /\ seen.row \in Entry
    BY <1>0, StatesTyped DEF SeenRecord
  <2>2. local' = IF seen.known THEN Replaced(active, seen.row) ELSE active
    BY <1>3 DEF SyncStates
  <2> HIDE DEF state
  <2>3. active \in Entry /\ Entries(active)
    BY <1>0, <1>r, <2>1, SnapshotsKeep DEF Entries
  <2>4. active.status = "absent" => local.status = "absent" \/ local' = active \/ active = state
    BY DEF Registered
  <2>5. seen.known => Entries(Replaced(active, seen.row))
    <3>1. CASE active.status = "absent"
      BY <2>3, <3>1 DEF Replaced
    <3>2. CASE active.status # "absent"
      BY <1>r, <2>1, <2>3, <3>2
    <3> QED
      BY <3>1, <3>2
  <2> QED
    BY <2>2, <2>3, <2>5
<1>4. CASE Deliver
  <2>1. Following \in 1 .. Len(log) /\ local' = Reduce(local, Following)
    BY <1>0, <1>4, FollowingTyped DEF Deliver
  <2> QED
    BY <1>0, <2>1, ReduceKeeps DEF Entries
<1>5. CASE History
  <2>1. UNCHANGED local \/ local' = Replaced(local, IF expired THEN RowState ELSE KeyState)
    BY <1>5 DEF History
  <2>2. (IF expired THEN RowState ELSE KeyState) \in Entry
    BY <1>0, <1>5, StatesTyped DEF StreamInv, CallsReadEvents, History
  <2> QED
    BY <1>0, <1>r, <1>u, <2>1, <2>2 DEF Entries
<1>6. CASE Replay
  <2>1. CASE seen.from < seen.upto /\ local' = Reduce(local, seen.from + 1)
    <3>1. seen.from \in Nat /\ seen.upto \in Nat
      BY <1>0 DEF SeenRecord
    <3>2. seen.from + 1 \in 1 .. Len(log)
      BY <1>0, <1>6, <2>1, <3>1 DEF StreamInv, CallsReadEvents, Replay
    <3> QED
      BY <1>0, <2>1, <3>2, ReduceKeeps DEF Entries
  <2> QED
    BY <1>6, <1>u, <2>1 DEF Replay
<1>7. CASE CreateAgain \/ CallCancel \/ CancelRead \/ AnswerLost \/ SyncCursor \/ SyncRows \/ Break
  BY <1>u, <1>7 DEF CreateAgain, CallCancel, CancelRead, AnswerLost, SyncCursor, SyncRows, Break, storeVars
<1>8. CASE \/ Trim \/ Expire \/ WriterStep \/ MonitorSettles \/ Announce \/ Acknowledge
           \/ UNCHANGED vars
  BY <1>u, <1>8 DEF Trim, Expire, WriterStep, Claim, Flush, Save, StreamEnds, Usage, Finalize,
                    Receive, ReceiveThrows, MonitorSettles, Announce, Acknowledge, vars,
                    pageVars, storeVars
<1> QED
  BY <1>1, <1>2, <1>3, <1>4, <1>5, <1>6, <1>7, <1>8 DEF Next, PageLoop

LEMMA ReplyKept ==
  ASSUME StreamInv, [Next]_vars
  PROVE  reply' \in Replies
<1>0. reply \in Replies /\ row.status \in Statuses /\ row.seq \in Nat
  BY DEF StreamInv, StorePart, RowPart, RowRecord
<1>1. row'.status \in Statuses
  BY RowKept DEF RowPart, RowRecord
<1>2. NoReply \in Replies
  BY DEF NoReply, Replies, Statuses
<1>3. CASE CreateAgain
  BY <1>0, <1>3 DEF CreateAgain, Replies
<1>4. CASE CallCancel
  BY <1>2, <1>4 DEF CallCancel, NoReply, Replies
<1>8. CASE CancelRead
  BY <1>0, <1>8 DEF CancelRead, Replies
<1>5. CASE Answer \/ AnswerLost
  BY <1>2, <1>5 DEF Answer, AnswerLost
<1>6. CASE Forget \/ PageLoop \/ Break
  BY <1>0, <1>6 DEF Forget, PageLoop, SyncCursor, SyncRows, SyncStates, Deliver, History, Replay,
                    LoopOnly, Break, storeVars
<1>7. CASE \/ Trim \/ Expire \/ WriterStep \/ MonitorSettles \/ Announce \/ Acknowledge
           \/ UNCHANGED vars
  BY <1>0, <1>7 DEF Trim, Expire, WriterStep, Claim, Flush, Save, StreamEnds, Usage, Finalize,
                    Receive, ReceiveThrows, MonitorSettles, Announce, Acknowledge, vars,
                    pageVars, storeVars
<1> QED
  BY <1>3, <1>4, <1>5, <1>6, <1>7, <1>8 DEF Next

LEMMA LoopKept ==
  ASSUME StreamInv, [Next]_vars
  PROVE  LoopPart' /\ CallsReadEvents'
<1>0. /\ LoopPart /\ CallsReadEvents /\ cursor \in Nat /\ seen \in SeenRecord
      /\ seen.cursor \in Nat /\ seen.from \in Nat /\ seen.upto \in Nat /\ Len(log) \in Nat
      /\ local \in Entry
  BY DEF StreamInv, LoopPart, SeenRecord, StreamPart, StorePart
<1>k. /\ Len(log') >= Len(log) /\ Len(log') \in Nat
      /\ log # <<>> => log' # <<>>
  BY StreamKept
<1>n. NothingSeen \in SeenRecord
  BY KindsOfDelta DEF NothingSeen, SeenRecord
<1>u. UNCHANGED loopVars => LoopPart' /\ CallsReadEvents'
  BY <1>0, <1>k DEF loopVars, LoopPart, CallsReadEvents
<1>1. CASE SyncCursor
  <2>1. /\ cpc' = "rows" /\ UNCHANGED cursor
        /\ seen' = [NothingSeen EXCEPT !.cursor = IF trimmed = Len(log) THEN 0 ELSE Len(log),
                                       !.known = local.status \in Active]
    BY <1>1 DEF SyncCursor
  <2>2. (IF trimmed = Len(log) THEN 0 ELSE Len(log)) \in Nat
    BY <1>0
  <2>3. (local.status \in Active) \in BOOLEAN
    OBVIOUS
  <2>4. seen' \in SeenRecord
    <3> DEFINE n == IF trimmed = Len(log) THEN 0 ELSE Len(log)
               b == local.status \in Active
    <3>1. n \in Nat /\ b \in BOOLEAN /\ seen' = [NothingSeen EXCEPT !.cursor = n, !.known = b]
      BY <2>1, <2>2, <2>3
    <3> HIDE DEF n, b
    <3> QED
      BY <1>n, <3>1 DEF SeenRecord
  <2> QED
    BY <1>0, <2>1, <2>4 DEF LoopPart, CallsReadEvents
<1>2. CASE SyncRows
  <2>1. cpc' = "states" /\ UNCHANGED cursor /\ seen' = [seen EXCEPT !.row = RowState]
    BY <1>2 DEF SyncRows
  <2>2. RowState \in Entry
    BY StatesTyped DEF StreamInv
  <2>3. seen' \in SeenRecord
    BY <1>0, <2>1, <2>2 DEF SeenRecord
  <2> QED
    BY <1>0, <2>1, <2>3 DEF LoopPart, CallsReadEvents
<1>3. CASE SyncStates
  <2>1. cpc' = "live" /\ cursor' = seen.cursor /\ seen' = NothingSeen
    BY <1>3 DEF SyncStates
  <2> QED
    BY <1>0, <1>n, <2>1 DEF LoopPart, CallsReadEvents
<1>4. CASE Deliver
  <2>1. Following \in Nat /\ Following >= 1 /\ Following <= Len(log) /\ cpc = "live"
    BY <1>4, FollowingTyped DEF Deliver
  <2>2. CASE cursor' = Following /\ UNCHANGED <<cpc, seen>>
    BY <1>0, <2>1, <2>2 DEF LoopPart, CallsReadEvents
  <2>3. CASE /\ cpc' = "history" /\ UNCHANGED cursor
             /\ seen' = [NothingSeen EXCEPT !.cursor = Following, !.from = local'.last]
    <3>1. local'.last \in Nat
      BY EntryKept DEF Entries, Entry
    <3>2. seen' \in SeenRecord
      BY <1>n, <2>1, <2>3, <3>1 DEF SeenRecord
    <3>3. log' # <<>>
      BY <1>0, <1>k, <2>1
    <3> QED
      BY <1>0, <2>3, <3>2, <3>3 DEF LoopPart, CallsReadEvents
  <2> QED
    BY <1>4, <2>2, <2>3 DEF Deliver
<1>r. ASSUME NEW entry, Resynced(entry)
      PROVE  LoopPart' /\ CallsReadEvents'
  <2>1. cpc' = "live" /\ seen' = NothingSeen /\ cursor' \in {seen.cursor, cursor}
    BY <1>r DEF Resynced
  <2> QED
    BY <1>0, <1>n, <2>1 DEF LoopPart, CallsReadEvents
<1>5. CASE History
  <2> DEFINE latest == IF expired THEN row.seq ELSE Len(log)
  <2>1. \/ /\ seen.from = latest \/ (~expired /\ seen.from < latest)
           /\ seen' = [seen EXCEPT !.upto = latest] /\ cpc' = "replay" /\ UNCHANGED cursor
        \/ \E entry : Resynced(entry)
    BY <1>5 DEF History
  <2>2. CASE /\ seen.from = latest \/ (~expired /\ seen.from < latest)
             /\ seen' = [seen EXCEPT !.upto = latest] /\ cpc' = "replay" /\ UNCHANGED cursor
    <3>1. latest \in Nat /\ (~expired => latest = Len(log))
      BY <1>0 DEF StreamInv, RowPart, RowRecord
    <3> HIDE DEF latest
    <3>2. seen' \in SeenRecord /\ seen'.from = seen.from /\ seen'.upto = latest
      BY <1>0, <2>2, <3>1 DEF SeenRecord
    <3>3. seen'.from >= seen'.upto \/ seen'.upto <= Len(log')
      BY <1>0, <1>k, <2>2, <3>1, <3>2
    <3> QED
      BY <1>0, <2>2, <3>2, <3>3 DEF LoopPart, CallsReadEvents
  <2> QED
    BY <1>r, <2>1, <2>2
<1>6. CASE Replay
  <2>1. CASE seen.from < seen.upto /\ seen' = [seen EXCEPT !.from = @ + 1] /\ UNCHANGED <<cpc, cursor>>
    <3>1. seen' \in SeenRecord /\ seen'.upto = seen.upto /\ cpc = "replay"
      BY <1>0, <1>6, <2>1 DEF SeenRecord, Replay
    <3>2. seen.upto <= Len(log')
      BY <1>0, <1>k, <2>1, <3>1 DEF CallsReadEvents
    <3> QED
      BY <1>0, <2>1, <3>1, <3>2 DEF LoopPart, CallsReadEvents
  <2> QED
    BY <1>6, <1>r, <2>1 DEF Replay
<1>7. CASE Break
  <2>1. cpc' \in {"sync", "live"} /\ seen' = NothingSeen /\ UNCHANGED cursor
    BY <1>7 DEF Break
  <2> QED
    BY <1>0, <1>n, <2>1 DEF LoopPart, CallsReadEvents
<1>8. CASE Forget \/ CreateAgain \/ CallCancel \/ CancelRead \/ Answer \/ AnswerLost
  BY <1>u, <1>8 DEF Forget, CreateAgain, CallCancel, CancelRead, Answer, AnswerLost
<1>9. CASE \/ Trim \/ Expire \/ WriterStep \/ MonitorSettles \/ Announce \/ Acknowledge
           \/ UNCHANGED vars
  BY <1>u, <1>9 DEF Trim, Expire, WriterStep, Claim, Flush, Save, StreamEnds, Usage, Finalize,
                    Receive, ReceiveThrows, MonitorSettles, Announce, Acknowledge, vars, pageVars
<1> QED
  BY <1>1, <1>2, <1>3, <1>4, <1>5, <1>6, <1>7, <1>8, <1>9 DEF Next, PageLoop

----------------------------------------------------------------------------
(* The theorems                                                            *)

LEMMA StreamInvHolds == Spec => []StreamInv
<1>1. StreamInv /\ [Next]_vars => StreamInv'
  BY StreamKept, RowKept, WriterKept, EntryKept, ReplyKept, LoopKept
     DEF StreamInv, StorePart, Entries
<1> QED
  BY <1>1, InitStream, PTL DEF Spec

\* Streams, row, worker and page keep their types: a snapshot is only taken
\* from a state key that is there, an event only applied if it was published.
THEOREM StreamTyped == Spec => []TypeOK
<1>1. StreamInv => TypeOK
  BY DEF StreamInv, StreamPart, RowPart, WriterPart, StorePart, LoopPart, TypeOK,
         RowRecord, NoticeRecord, SeenRecord
<1> QED
  BY <1>1, StreamInvHolds, PTL

\* The page's entry never falls behind what it has shown, whatever answers,
\* snapshots, histories and events reach it and in whatever order (register,
\* replaceSnapshot, reduceGenerationEvent).
THEOREM PageNeverGoesBack == Spec => NeverBackwards
<1>1. StreamInv /\ [Next]_vars =>
         [local.status # "absent" /\ local'.status # "absent" => local'.last >= local.last]_vars
  BY EntryKept DEF Entries
<1> QED
  BY <1>1, StreamInvHolds, PTL DEF Spec, NeverBackwards

----------------------------------------------------------------------------
(* The end of a generation                                                 *)

\* The row ends once, and notice and row agree on how; nobody has numbered
\* an event that is not in the log.
RowEnds ==
    /\ row.status \in Active \cup Terminal
    /\ row.status \in Active <=> notice.state = "none"
    /\ notice.state # "none" => notice.status = row.status
    /\ expired => row.status \in Terminal
    /\ row.seq <= Len(log) /\ notice.seq <= Len(log) /\ sequence <= Len(log)

\* Every end in the log is the row's; no other event says that it is over.
LogEnds ==
    \A n \in DOMAIN log :
        IF log[n].type = "ended"
        THEN log[n].status = row.status /\ row.status \in Terminal
        ELSE log[n].status \in Active

\* Whatever end the page knows of, from whatever source, is the row's.
PageEnds ==
    /\ local.status \in Terminal => local.status = row.status
    /\ seen.row.status \in Terminal => seen.row.status = row.status
    /\ reply.status \in Terminal => reply.status = row.status
    /\ reply.call = "cancel" => reply.status \in Terminal \cup {"CANCEL_REQUESTED"}
    /\ reply.call = "cancelling" => row.status \in Terminal \cup {"CANCEL_REQUESTED"}
    /\ reply.call = "none" => reply = NoReply

\* A row or an answer is no newer than the log, and a row read before the end
\* is older than its event.
ReadsAreOld ==
    /\ seen.row.last <= Len(log) /\ reply.last <= Len(log)
    /\ seen.row.status \in Active => \A n \in EndedAt : seen.row.last < n

EndInv == RowEnds /\ LogEnds /\ PageEnds /\ ReadsAreOld

LEMMA StatusesApart ==
    /\ Active \cap Terminal = {}
    /\ "absent" \notin Active \cup Terminal
    /\ Statuses = {"absent"} \cup Active \cup Terminal
    /\ {"QUEUED", "STARTING", "STREAMING", "CANCEL_REQUESTED"} = Active
    /\ "STOPPED" \in Terminal /\ "COMPLETED" \in Terminal
BY DEF Active, Terminal, Statuses

LEMMA InitEnds == Init => EndInv
<1> SUFFICES ASSUME Init
             PROVE  EndInv
  OBVIOUS
<1>1. log = <<>> /\ Len(log) = 0 /\ DOMAIN log = {} /\ expired = FALSE
  BY DEF Init
<1>2. RowEnds
  BY <1>1, StatusesApart DEF Init, RowEnds, NoNotice
<1>3. LogEnds /\ EndedAt = {}
  BY <1>1 DEF LogEnds, EndedAt
<1>4. PageEnds
  BY StatusesApart DEF Init, PageEnds, Absent, NothingSeen
<1>5. ReadsAreOld
  BY <1>1, <1>3 DEF Init, ReadsAreOld, Absent, NothingSeen
<1> QED
  BY <1>2, <1>3, <1>4, <1>5 DEF EndInv

\* An end is written once: no step changes the status of a row that has one.
LEMMA EndStays ==
  ASSUME StreamInv, [Next]_vars, row.status \in Terminal
  PROVE  row'.status = row.status
<1>0. row \in RowRecord /\ row.status \notin Active
  BY StatusesApart DEF StreamInv, RowPart
<1>1. CASE Claim
  BY <1>0, <1>1, StatusesApart DEF Claim
<1>2. ASSUME NEW k \in Kinds, Receive(k)
      PROVE  row'.status = row.status
  BY <1>0, <1>2, StatusesApart DEF Receive, RowRecord
<1>3. CASE Save
  BY <1>0, <1>3, StatusesApart DEF Save, Saved, RowRecord, rowVars
<1>4. CASE Finalize \/ MonitorSettles
  BY <1>0, <1>4, StatusesApart DEF Finalize, MonitorSettles, rowVars
<1>5. CASE Acknowledge
  BY <1>0, <1>5 DEF Acknowledge, RowRecord
<1>6. CASE CallCancel
  BY <1>0, <1>6 DEF CallCancel, RowRecord
<1>7. CASE \/ Trim \/ Expire \/ Flush \/ StreamEnds \/ Usage \/ UNCHANGED vars \/ Announce
           \/ \E k \in Kinds : ReceiveThrows(k)
  BY <1>7 DEF Trim, Expire, Flush, StreamEnds, Usage, vars, Announce, ReceiveThrows, rowVars
<1>8. CASE Forget \/ CreateAgain \/ CancelRead \/ Answer \/ AnswerLost \/ PageLoop \/ Break
  BY <1>8 DEF Forget, CreateAgain, CancelRead, Answer, AnswerLost, PageLoop, SyncCursor, SyncRows,
              SyncStates, Deliver, History, Replay, LoopOnly, Break, rowVars
<1> QED
  BY <1>1, <1>2, <1>3, <1>4, <1>5, <1>6, <1>7, <1>8 DEF Next, WriterStep

\* A cancellation is taken back by nothing but the end.
LEMMA CancelStays ==
  ASSUME StreamInv, [Next]_vars, row.status = "CANCEL_REQUESTED"
  PROVE  row'.status \in Terminal \cup {"CANCEL_REQUESTED"}
<1>0. row \in RowRecord /\ row.status \notin {"QUEUED", "STARTING", "STREAMING"}
  BY DEF StreamInv, RowPart
<1>s. ASSUME NEW status \in Terminal, NEW txt, NEW seq, Settle(status, txt, seq)
      PROVE  row'.status \in Terminal
  BY <1>s DEF Settle
<1>1. CASE Claim
  BY <1>0, <1>1, <1>s, StatusesApart DEF Claim
<1>2. ASSUME NEW k \in Kinds, Receive(k)
      PROVE  row'.status = row.status
  BY <1>0, <1>2 DEF Receive, RowRecord
<1>3. CASE Save
  BY <1>0, <1>3 DEF Save, Saved, RowRecord, rowVars
<1>4. CASE Finalize \/ MonitorSettles
  BY <1>0, <1>4, <1>s, StatusesApart DEF Finalize, MonitorSettles, rowVars
<1>5. CASE Acknowledge
  BY <1>0, <1>5 DEF Acknowledge, RowRecord
<1>6. CASE CallCancel
  BY <1>0, <1>6 DEF CallCancel, RowRecord
<1>7. CASE \/ Trim \/ Expire \/ Flush \/ StreamEnds \/ Usage \/ UNCHANGED vars \/ Announce
           \/ \E k \in Kinds : ReceiveThrows(k)
  BY <1>7 DEF Trim, Expire, Flush, StreamEnds, Usage, vars, Announce, ReceiveThrows, rowVars
<1>8. CASE Forget \/ CreateAgain \/ CancelRead \/ Answer \/ AnswerLost \/ PageLoop \/ Break
  BY <1>8 DEF Forget, CreateAgain, CancelRead, Answer, AnswerLost, PageLoop, SyncCursor, SyncRows,
              SyncStates, Deliver, History, Replay, LoopOnly, Break, rowVars
<1> QED
  BY <1>1, <1>2, <1>3, <1>4, <1>5, <1>6, <1>7, <1>8 DEF Next, WriterStep

\* The number of an event never exceeds the number of events.
LEMMA SequenceKept ==
  ASSUME StreamInv, RowEnds, [Next]_vars
  PROVE  sequence' \in Nat /\ sequence' <= Len(log')
<1>0. /\ sequence \in Nat /\ sequence <= Len(log)
      /\ Len(log') >= Len(log) /\ Len(log) \in Nat /\ Len(log') \in Nat
  BY StreamKept DEF StreamInv, WriterPart, RowEnds
<1>1. sequence' \in {sequence, 0, Len(log')}
  <2>1. CASE WriterStep
    BY <2>1 DEF WriterStep, Claim, Flush, Save, StreamEnds, Usage, Finalize, Receive,
                ReceiveThrows, Raise, Leave
  <2>2. CASE \/ Trim \/ Expire \/ MonitorSettles \/ Announce \/ Acknowledge \/ Forget
             \/ CreateAgain \/ CallCancel \/ CancelRead \/ Answer \/ AnswerLost \/ PageLoop \/ Break
             \/ UNCHANGED vars
    BY <2>2 DEF Trim, Expire, MonitorSettles, Announce, Acknowledge, Forget, CreateAgain,
                CallCancel, CancelRead, Answer, AnswerLost, PageLoop, SyncCursor, SyncRows, SyncStates,
                Deliver, History, Replay, LoopOnly, Break, vars, writerVars
  <2> QED
    BY <2>1, <2>2 DEF Next
<1> QED
  BY <1>0, <1>1

\* A settled row: its notice is new and says the same.
LEMMA SettleEnds ==
  ASSUME RowEnds, NEW status \in Terminal, NEW txt, NEW seq \in Nat,
         Settle(status, txt, seq), seq <= Len(log), Len(log) \in Nat, Len(log') \in Nat,
         Len(log') >= Len(log), UNCHANGED expired, sequence' <= Len(log')
  PROVE  RowEnds'
<1>1. /\ row' = [status |-> status, text |-> txt, seq |-> seq]
      /\ notice' = [state |-> "pending", text |-> txt, status |-> status, seq |-> 0]
  BY DEF Settle, NoNotice
<1> QED
  BY <1>1, StatusesApart DEF RowEnds

LEMMA RowEndsStep ==
  ASSUME StreamInv, RowEnds, [Next]_vars
  PROVE  RowEnds'
<1>0. /\ row \in RowRecord /\ notice \in NoticeRecord /\ row.seq \in Nat /\ notice.seq \in Nat
      /\ sequence \in Nat /\ row.seq <= Len(log) /\ notice.seq <= Len(log)
      /\ sequence <= Len(log)
  BY DEF StreamInv, RowPart, WriterPart, RowRecord, NoticeRecord, RowEnds
<1>k. /\ Len(log') >= Len(log) /\ Len(log) \in Nat /\ Len(log') \in Nat
      /\ sequence' \in Nat /\ sequence' <= Len(log')
  BY StreamKept, SequenceKept
<1>u. ASSUME UNCHANGED <<row, notice, expired>>
      PROVE  RowEnds'
  BY <1>0, <1>k, <1>u DEF RowEnds
<1>a. ASSUME row.status \in Active, row'.status \in Active, UNCHANGED <<notice, expired>>,
             row'.seq \in Nat, row'.seq <= Len(log)
      PROVE  RowEnds'
  BY <1>0, <1>k, <1>a, StatusesApart DEF RowEnds
<1>1. CASE Claim
  <2>1. UNCHANGED expired
    BY <1>1 DEF Claim, streamVars
  <2>2. CASE Settle("STOPPED", text, sequence)
    BY <1>0, <1>k, <2>1, <2>2, SettleEnds, StatusesApart
  <2>3. CASE row.status = "QUEUED" /\ row' = [row EXCEPT !.status = "STARTING"] /\ UNCHANGED notice
    <3>1. row'.status = "STARTING" /\ row'.seq = row.seq
      BY <1>0, <2>3 DEF RowRecord
    <3> QED
      BY <1>0, <1>a, <2>1, <2>3, <3>1, StatusesApart
  <2> QED
    BY <1>1, <2>2, <2>3 DEF Claim
<1>2. ASSUME NEW k \in Kinds, Receive(k)
      PROVE  RowEnds'
  <2>1. row' = [row EXCEPT !.status = IF row.status = "STARTING" THEN "STREAMING" ELSE row.status]
    BY <1>2 DEF Receive
  <2>2. /\ row'.status = IF row.status = "STARTING" THEN "STREAMING" ELSE row.status
        /\ row'.seq = row.seq /\ UNCHANGED <<notice, expired>>
    BY <1>0, <1>2, <2>1 DEF RowRecord, Receive, streamVars
  <2>3. CASE row.status = "STARTING"
    BY <1>0, <1>a, <2>2, <2>3, StatusesApart
  <2>4. CASE row.status # "STARTING"
    BY <1>0, <1>k, <2>2, <2>4 DEF RowEnds
  <2> QED
    BY <2>3, <2>4
<1>3. CASE Save
  <2>1. UNCHANGED <<notice, expired>>
    BY <1>3 DEF Save, streamVars, rowVars
  <2>2. row' = [row EXCEPT !.text = text, !.seq = sequence] \/ UNCHANGED row
    BY <1>3 DEF Save, Saved, rowVars
  <2>3. row'.status = row.status /\ row'.seq \in {row.seq, sequence}
    BY <1>0, <2>2 DEF RowRecord
  <2> QED
    BY <1>0, <1>k, <2>1, <2>3 DEF RowEnds
<1>4. CASE Finalize
  <2>1. UNCHANGED expired
    BY <1>4 DEF Finalize, streamVars
  <2>2. CASE Settle("STOPPED", text, sequence) \/ Settle("COMPLETED", text, sequence)
    BY <1>0, <1>k, <2>1, <2>2, SettleEnds, StatusesApart
  <2>3. CASE UNCHANGED rowVars
    BY <1>u, <2>1, <2>3 DEF rowVars
  <2> QED
    BY <1>4, <2>2, <2>3 DEF Finalize
<1>5. CASE MonitorSettles
  <2>1. UNCHANGED expired /\ Settle("STOPPED", row.text, row.seq)
    BY <1>5 DEF MonitorSettles, streamVars
  <2> QED
    BY <1>0, <1>k, <2>1, SettleEnds, StatusesApart
<1>6. CASE Announce
  <2>1. /\ notice.state = "pending" /\ UNCHANGED <<row, expired>>
        /\ notice' = [notice EXCEPT !.state = "announced", !.seq = Len(log')]
    BY <1>6 DEF Announce, Publish
  <2>2. /\ notice'.state = "announced" /\ notice'.status = notice.status
        /\ notice'.seq = Len(log')
    BY <1>0, <2>1 DEF NoticeRecord
  <2> QED
    BY <1>0, <1>k, <2>1, <2>2 DEF RowEnds
<1>7. CASE Acknowledge
  <2>1. /\ notice.state = "announced" /\ UNCHANGED expired
        /\ notice' = [notice EXCEPT !.state = "acknowledged"]
        /\ row' = [row EXCEPT !.seq = notice.seq] \/ UNCHANGED row
    BY <1>7 DEF Acknowledge, streamVars
  <2>2. /\ notice'.state = "acknowledged" /\ notice'.status = notice.status
        /\ notice'.seq = notice.seq
        /\ row'.status = row.status /\ row'.seq \in {row.seq, notice.seq}
    BY <1>0, <2>1 DEF NoticeRecord, RowRecord
  <2> QED
    BY <1>0, <1>k, <2>1, <2>2 DEF RowEnds
<1>8. CASE CallCancel
  <2>1. row' = [row EXCEPT !.status = IF row.status \in Active THEN "CANCEL_REQUESTED" ELSE row.status]
    BY <1>8 DEF CallCancel
  <2>2. /\ row'.status = IF row.status \in Active THEN "CANCEL_REQUESTED" ELSE row.status
        /\ row'.seq = row.seq /\ UNCHANGED <<notice, expired>>
    BY <1>0, <1>8, <2>1 DEF RowRecord, CallCancel, streamVars
  <2>3. CASE row.status \in Active
    BY <1>0, <1>a, <2>2, <2>3, StatusesApart
  <2>4. CASE row.status \notin Active
    BY <1>0, <1>k, <2>2, <2>4 DEF RowEnds
  <2> QED
    BY <2>3, <2>4
<1>9. CASE Expire
  <2>1. notice.state = "acknowledged" /\ UNCHANGED <<row, notice, log>>
    BY <1>9 DEF Expire, rowVars
  <2>2. row.status \in Terminal
    BY <2>1 DEF RowEnds
  <2> QED
    BY <1>0, <1>k, <2>1, <2>2 DEF RowEnds
<1>10. CASE Flush \/ Usage
  <2>1. UNCHANGED <<row, notice>>
    BY <1>10 DEF Flush, Usage, rowVars
  <2>2. UNCHANGED expired
    BY <1>10 DEF Flush, Usage, PublishThrows, Publish, streamVars
  <2> QED
    BY <1>u, <2>1, <2>2
<1>11. CASE \/ Trim \/ StreamEnds \/ UNCHANGED vars \/ \E k \in Kinds : ReceiveThrows(k)
  BY <1>u, <1>11 DEF Trim, StreamEnds, vars, ReceiveThrows, rowVars, streamVars
<1>12. CASE Forget \/ CreateAgain \/ CancelRead \/ Answer \/ AnswerLost \/ PageLoop \/ Break
  BY <1>u, <1>12 DEF Forget, CreateAgain, CancelRead, Answer, AnswerLost, PageLoop, SyncCursor, SyncRows,
                     SyncStates, Deliver, History, Replay, LoopOnly, Break, rowVars, streamVars
<1> QED
  BY <1>1, <1>2, <1>3, <1>4, <1>5, <1>6, <1>7, <1>8, <1>9, <1>10, <1>11, <1>12
     DEF Next, WriterStep

\* The log grows by one event at a time, and says that it is over only when
\* the notice is announced.
LEMMA EventFrame ==
  ASSUME StreamInv, RowEnds, [Next]_vars
  PROVE  \/ UNCHANGED log
         \/ \E e \in Event :
               /\ log' = Append(log, e)
               /\ IF e.type = "ended"
                  THEN /\ row.status \in Terminal /\ e.status = row.status
                       /\ UNCHANGED row
                  ELSE e.status \in Active
<1>0. /\ StartedEvent \in Event /\ DeltaEvent \in Event
      /\ UsageEvent \in Event /\ EndedEvent \in Event
  BY EventsTyped DEF StreamInv
<1>1. CASE Flush \/ Usage
  <2>1. \/ UNCHANGED log
        \/ log' = Append(log, StartedEvent) \/ log' = Append(log, DeltaEvent)
        \/ log' = Append(log, UsageEvent)
    BY <1>1 DEF Flush, Usage, PublishThrows, Publish, streamVars
  <2>2. \A e \in {StartedEvent, DeltaEvent, UsageEvent} : e.type # "ended" /\ e.status \in Active
    BY StatusesApart DEF StartedEvent, DeltaEvent, UsageEvent
  <2> QED
    BY <1>0, <2>1, <2>2
<1>2. CASE Announce
  <2>1. log' = Append(log, EndedEvent) /\ UNCHANGED row /\ notice.state = "pending"
    BY <1>2 DEF Announce, Publish
  <2>2. EndedEvent.type = "ended" /\ EndedEvent.status = notice.status
    BY DEF EndedEvent
  <2>3. row.status \in Terminal /\ notice.status = row.status
    BY <2>1 DEF RowEnds
  <2> QED
    BY <1>0, <2>1, <2>2, <2>3
<1>3. CASE \/ Trim \/ Expire \/ Claim \/ Save \/ StreamEnds \/ Finalize
           \/ \E k \in Kinds : Receive(k) \/ ReceiveThrows(k)
           \/ MonitorSettles \/ Acknowledge \/ UNCHANGED vars
  BY <1>3 DEF Trim, Expire, Claim, Save, StreamEnds, Finalize, Receive, ReceiveThrows,
              MonitorSettles, Acknowledge, vars, streamVars
<1>4. CASE \/ Forget \/ CreateAgain \/ CallCancel \/ CancelRead \/ Answer \/ AnswerLost \/ PageLoop \/ Break
  BY <1>4 DEF Forget, CreateAgain, CallCancel, CancelRead, Answer, AnswerLost, PageLoop, SyncCursor,
              SyncRows, SyncStates, Deliver, History, Replay, LoopOnly, Break, streamVars
<1> QED
  BY <1>1, <1>2, <1>3, <1>4 DEF Next, WriterStep

LEMMA Grown ==
  ASSUME NEW s \in Seq(Event), NEW e \in Event
  PROVE  /\ DOMAIN Append(s, e) = DOMAIN s \cup {Len(s) + 1} /\ Len(s) \in Nat
         /\ DOMAIN s = 1 .. Len(s)
         /\ \A n \in DOMAIN s : Append(s, e)[n] = s[n]
         /\ Append(s, e)[Len(s) + 1] = e
OBVIOUS

LEMMA LogEndsStep ==
  ASSUME StreamInv, RowEnds, LogEnds, [Next]_vars
  PROVE  /\ LogEnds'
         /\ \A n \in EndedAt' : n \in EndedAt \/ n = Len(log) + 1
<1>0. log \in Seq(Event) /\ Len(log) \in Nat
  BY DEF StreamInv, StreamPart
<1>1. CASE UNCHANGED log
  BY <1>1, EndStays DEF LogEnds, EndedAt
<1>2. ASSUME NEW e \in Event, log' = Append(log, e),
             IF e.type = "ended"
             THEN row.status \in Terminal /\ e.status = row.status /\ UNCHANGED row
             ELSE e.status \in Active
      PROVE  /\ LogEnds'
             /\ \A n \in EndedAt' : n \in EndedAt \/ n = Len(log) + 1
  <2>1. /\ DOMAIN log' = DOMAIN log \cup {Len(log) + 1}
        /\ \A n \in DOMAIN log : log'[n] = log[n]
        /\ log'[Len(log) + 1] = e
    BY <1>0, <1>2, Grown
  <2> QED
    BY <1>2, <2>1, EndStays DEF LogEnds, EndedAt
<1> QED
  BY <1>1, <1>2, EventFrame

\* An entry, a row or a snapshot that says it is over says so with the row.
Agrees(l) == l.status \in Terminal => l.status = row.status

LEMMA ReduceAgrees ==
  ASSUME StreamInv, LogEnds, NEW l \in Entry, Agrees(l), NEW n \in 1 .. Len(log)
  PROVE  Agrees(Reduce(l, n))
<1> DEFINE base == IF l.status = "absent" THEN Fresh ELSE l
<1>1. base \in Entry /\ Agrees(base)
  BY KindsOfDelta, StatusesApart DEF Agrees, Fresh
<1>2. base.last \in Nat /\ n \in Nat /\ n \in DOMAIN log /\ log[n] \in Event
  BY <1>1, LogEntries DEF Entry, StreamInv, StreamPart
<1> HIDE DEF base
<1>3. Agrees([base EXCEPT !.gap = TRUE])
  BY <1>1 DEF Agrees, Entry
<1>4. Agrees(Applied(base, n))
  <2>1. log[n].type \in EventTypes /\ (log[n].type = "ended" => log[n].status = row.status)
    BY <1>2 DEF Event, LogEnds
  <2>2. Applied(base, n).status = CASE log[n].type = "started" -> "STARTING"
                                    [] log[n].type = "delta" -> "STREAMING"
                                    [] log[n].type = "usage" -> base.status
                                    [] log[n].type = "ended" -> log[n].status
    BY DEF Applied
  <2> QED
    BY <1>1, <2>1, <2>2, StatusesApart DEF Agrees, EventTypes
<1>5. Reduce(l, n) = CASE n <= base.last -> base
                       [] n > base.last + 1 -> [base EXCEPT !.gap = TRUE]
                       [] n = base.last + 1 -> Applied(base, n)
  BY DEF Reduce, base
<1>6. Reduce(l, n) \in {base, [base EXCEPT !.gap = TRUE], Applied(base, n)}
  BY <1>2, <1>5
<1> QED
  BY <1>1, <1>3, <1>4, <1>6

LEMMA StatesAgree ==
  ASSUME StreamInv, LogEnds
  PROVE  Agrees(RowState) /\ (log # <<>> => Agrees(KeyState))
<1>1. log # <<>> => Len(log) \in DOMAIN log
  BY DEF StreamInv, StreamPart
<1> QED
  BY <1>1, StatusesApart DEF Agrees, RowState, KeyState, LogEnds

LEMMA EntryAgrees ==
  ASSUME StreamInv, LogEnds, PageEnds, [Next]_vars
  PROVE  UNCHANGED local \/ (Agrees(local') /\ UNCHANGED row)
<1>0. /\ local \in Entry /\ reply \in Replies /\ seen \in SeenRecord /\ Len(log) \in Nat
      /\ Agrees(local) /\ Agrees(seen.row) /\ Agrees(reply)
  BY DEF StreamInv, StorePart, LoopPart, StreamPart, PageEnds, Agrees
<1>r. ASSUME NEW l, NEW s, Agrees(l), Agrees(s)
      PROVE  Agrees(Registered(l, s)) /\ Agrees(Replaced(l, s))
  BY <1>r DEF Registered, Replaced
<1>1. CASE Forget
  BY <1>1, StatusesApart DEF Forget, Agrees, Absent, rowVars
<1>2. CASE Answer
  <2> DEFINE s == [status |-> reply.status, text |-> NoText, last |-> reply.last, gap |-> FALSE]
  <2>1. Agrees(s) /\ UNCHANGED row
    BY <1>0, <1>2 DEF Agrees, Answer, rowVars
  <2>2. CASE reply.call = "create"
    <3>1. local' = Registered(local, s)
      BY <1>2, <2>2 DEF Answer
    <3> HIDE DEF s
    <3> QED
      BY <1>0, <1>r, <2>1, <3>1
  <2>3. CASE reply.call # "create"
    <3>1. local' = [local EXCEPT !.status = reply.status] \/ UNCHANGED local
      BY <1>2, <2>3 DEF Answer
    <3>2. [local EXCEPT !.status = reply.status].status = reply.status
      BY <1>0 DEF Entry
    <3> QED
      BY <1>0, <2>1, <3>1, <3>2 DEF Agrees
  <2> QED
    BY <2>2, <2>3
<1>3. CASE SyncStates
  <2> DEFINE state == IF log = <<>> \/ expired THEN seen.row ELSE KeyState
             active == IF seen.row.status \in Active THEN Registered(local, state) ELSE local
  <2>1. Agrees(state)
    BY <1>0, StatesAgree
  <2>2. local' = IF seen.known THEN Replaced(active, seen.row) ELSE active
    BY <1>3 DEF SyncStates
  <2> HIDE DEF state
  <2>3. Agrees(active)
    BY <1>0, <1>r, <2>1
  <2> HIDE DEF active
  <2>4. UNCHANGED row
    BY <1>3 DEF SyncStates, LoopOnly, rowVars
  <2> QED
    BY <1>0, <1>r, <2>2, <2>3, <2>4
<1>4. CASE Deliver
  <2>1. Following \in 1 .. Len(log) /\ local' = Reduce(local, Following) /\ UNCHANGED row
    BY <1>0, <1>4, FollowingTyped DEF Deliver, LoopOnly, rowVars
  <2> QED
    BY <1>0, <2>1, ReduceAgrees
<1>5. CASE History
  <2>1. UNCHANGED local \/ local' = Replaced(local, IF expired THEN RowState ELSE KeyState)
    BY <1>5 DEF History
  <2>2. Agrees(IF expired THEN RowState ELSE KeyState)
    BY <1>5, StatesAgree DEF StreamInv, CallsReadEvents, History
  <2>3. UNCHANGED row
    BY <1>5 DEF History, LoopOnly, rowVars
  <2> QED
    BY <1>0, <1>r, <2>1, <2>2, <2>3
<1>6. CASE Replay
  <2>1. UNCHANGED row
    BY <1>6 DEF Replay, LoopOnly, rowVars
  <2>2. CASE seen.from < seen.upto /\ local' = Reduce(local, seen.from + 1)
    <3>1. seen.from \in Nat /\ seen.upto \in Nat
      BY <1>0 DEF SeenRecord
    <3>2. seen.from + 1 \in 1 .. Len(log)
      BY <1>0, <1>6, <2>2, <3>1 DEF StreamInv, CallsReadEvents, Replay
    <3> QED
      BY <1>0, <2>1, <2>2, <3>2, ReduceAgrees
  <2> QED
    BY <1>6, <2>2 DEF Replay
<1>7. CASE CreateAgain \/ CallCancel \/ CancelRead \/ AnswerLost \/ SyncCursor \/ SyncRows \/ Break
  BY <1>7 DEF CreateAgain, CallCancel, CancelRead, AnswerLost, SyncCursor, SyncRows, Break, storeVars
<1>8. CASE \/ Trim \/ Expire \/ WriterStep \/ MonitorSettles \/ Announce \/ Acknowledge
           \/ UNCHANGED vars
  BY <1>8 DEF Trim, Expire, WriterStep, Claim, Flush, Save, StreamEnds, Usage, Finalize,
              Receive, ReceiveThrows, MonitorSettles, Announce, Acknowledge, vars,
              pageVars, storeVars
<1> QED
  BY <1>1, <1>2, <1>3, <1>4, <1>5, <1>6, <1>7, <1>8 DEF Next, PageLoop

\* What a page's calls have read changes only by reading, or is dropped.
LEMMA ReadFrame ==
  ASSUME StreamInv, RowEnds, [Next]_vars
  PROVE  /\ \/ seen'.row = seen.row \/ seen'.row = Absent
            \/ seen'.row = RowState /\ UNCHANGED <<row, log>>
         /\ \/ UNCHANGED reply \/ reply' = NoReply
            \/ /\ reply'.call = "create" /\ reply'.status = row.status
               /\ reply'.last = row.seq /\ UNCHANGED <<row, log>>
            \/ /\ reply'.call = "cancelling" /\ reply'.status = "absent" /\ reply'.last = 0
               /\ row'.status \in Terminal \cup {"CANCEL_REQUESTED"}
            \/ /\ reply.call = "cancelling" /\ UNCHANGED row
               /\ reply'.call = "cancel" /\ reply'.status = row.status /\ reply'.last = 0
<1>0. row \in RowRecord /\ seen \in SeenRecord /\ NothingSeen.row = Absent
  BY DEF StreamInv, RowPart, LoopPart, NothingSeen
<1>1. CASE SyncCursor
  <2>1. \E n, b : seen' = [NothingSeen EXCEPT !.cursor = n, !.known = b]
    BY <1>1 DEF SyncCursor
  <2>2. seen'.row = Absent
    BY <2>1 DEF NothingSeen
  <2> QED
    BY <1>1, <2>2 DEF SyncCursor, LoopOnly
<1>2. CASE SyncRows
  <2>1. seen'.row = RowState
    BY <1>0, <1>2 DEF SyncRows, SeenRecord
  <2> QED
    BY <1>2, <2>1 DEF SyncRows, LoopOnly, rowVars, streamVars
<1>3. CASE SyncStates
  BY <1>0, <1>3 DEF SyncStates, LoopOnly
<1>4. CASE Deliver
  <2>1. UNCHANGED seen \/ \E n, m : seen' = [NothingSeen EXCEPT !.cursor = n, !.from = m]
    BY <1>4 DEF Deliver
  <2>2. seen'.row \in {seen.row, Absent}
    BY <2>1 DEF NothingSeen
  <2> QED
    BY <1>4, <2>2 DEF Deliver, LoopOnly
<1>5. CASE History
  <2>1. \/ seen' = [seen EXCEPT !.upto = IF expired THEN row.seq ELSE Len(log)]
        \/ seen' = NothingSeen
    BY <1>5 DEF History, Resynced
  <2>2. seen'.row \in {seen.row, Absent}
    BY <1>0, <2>1 DEF SeenRecord
  <2> QED
    BY <1>5, <2>2 DEF History, LoopOnly
<1>6. CASE Replay
  <2>1. seen' = [seen EXCEPT !.from = @ + 1] \/ seen' = NothingSeen
    BY <1>6 DEF Replay, Resynced
  <2>2. seen'.row \in {seen.row, Absent}
    BY <1>0, <2>1 DEF SeenRecord
  <2> QED
    BY <1>6, <2>2 DEF Replay, LoopOnly
<1>7. CASE Break
  BY <1>0, <1>7 DEF Break, storeVars
<1>8. CASE CreateAgain
  <2>1. UNCHANGED <<seen, row, log>>
    BY <1>8 DEF CreateAgain, loopVars, rowVars, streamVars
  <2>2. reply' = [call |-> "create", status |-> row.status, last |-> row.seq]
    BY <1>8 DEF CreateAgain
  <2> QED
    BY <2>1, <2>2
<1>9. CASE CallCancel
  <2>1. row' = [row EXCEPT !.status = IF row.status \in Active THEN "CANCEL_REQUESTED" ELSE row.status]
    BY <1>9 DEF CallCancel
  <2>2. row'.status \in Terminal \cup {"CANCEL_REQUESTED"}
    BY <1>0, <2>1 DEF RowRecord, RowEnds
  <2>3. reply' = [call |-> "cancelling", status |-> "absent", last |-> 0] /\ UNCHANGED seen
    BY <1>9 DEF CallCancel, NoReply, loopVars
  <2> QED
    BY <2>2, <2>3
<1>12. CASE CancelRead
  <2>1. /\ reply' = [call |-> "cancel", status |-> row.status, last |-> 0]
        /\ reply.call = "cancelling" /\ UNCHANGED <<row, seen>>
    BY <1>12 DEF CancelRead, loopVars, rowVars
  <2> QED
    BY <2>1
<1>10. CASE Answer \/ AnswerLost \/ Forget
  BY <1>10 DEF Answer, AnswerLost, Forget, loopVars
<1>11. CASE \/ Trim \/ Expire \/ WriterStep \/ MonitorSettles \/ Announce \/ Acknowledge
            \/ UNCHANGED vars
  BY <1>11 DEF Trim, Expire, WriterStep, Claim, Flush, Save, StreamEnds, Usage, Finalize,
               Receive, ReceiveThrows, MonitorSettles, Announce, Acknowledge, vars,
               pageVars, storeVars, loopVars
<1> QED
  BY <1>1, <1>2, <1>3, <1>4, <1>5, <1>6, <1>7, <1>8, <1>9, <1>10, <1>11,
     <1>12 DEF Next, PageLoop

LEMMA PageEndsStep ==
  ASSUME StreamInv, RowEnds, LogEnds, PageEnds, [Next]_vars
  PROVE  PageEnds'
<1>0. "absent" \notin Terminal
  BY StatusesApart
<1>1. local'.status \in Terminal => local'.status = row'.status
  BY EntryAgrees, EndStays DEF PageEnds, Agrees
<1>2. seen'.row.status \in Terminal => seen'.row.status = row'.status
  BY <1>0, ReadFrame, EndStays DEF PageEnds, RowState, Absent
<1>3. /\ reply'.status \in Terminal => reply'.status = row'.status
      /\ reply'.call = "cancel" => reply'.status \in Terminal \cup {"CANCEL_REQUESTED"}
      /\ reply'.call = "none" => reply' = NoReply
  BY <1>0, ReadFrame, EndStays DEF PageEnds, NoReply
<1>4. reply'.call = "cancelling" => row'.status \in Terminal \cup {"CANCEL_REQUESTED"}
  BY ReadFrame, EndStays, CancelStays DEF PageEnds, NoReply
<1> QED
  BY <1>1, <1>2, <1>3, <1>4 DEF PageEnds

LEMMA ReadsStep ==
  ASSUME StreamInv, RowEnds, LogEnds, ReadsAreOld, [Next]_vars
  PROVE  ReadsAreOld'
<1>0. /\ seen.row.last \in Nat /\ reply.last \in Nat /\ row.seq \in Nat
      /\ Len(log') >= Len(log) /\ Len(log) \in Nat /\ Len(log') \in Nat
      /\ row.seq <= Len(log) /\ seen.row.last <= Len(log) /\ reply.last <= Len(log)
  BY StreamKept DEF StreamInv, LoopPart, SeenRecord, Entry, StorePart, Replies, RowPart, RowRecord,
                    RowEnds, ReadsAreOld
<1>1. seen'.row.last \in {seen.row.last, 0, row.seq} /\ reply'.last \in {reply.last, 0, row.seq}
  BY ReadFrame DEF RowState, Absent, NoReply
<1>2. ASSUME seen'.row.status \in Active, NEW n \in EndedAt'
      PROVE  seen'.row.last < n
  <2>1. n \in EndedAt \/ n = Len(log) + 1
    BY LogEndsStep
  <2>2. CASE seen'.row = seen.row
    <3>1. n \in EndedAt => seen.row.last < n
      BY <1>2, <2>2 DEF ReadsAreOld
    <3> QED
      BY <1>0, <2>1, <2>2, <3>1
  <2>3. CASE seen'.row = Absent
    BY <1>2, <2>3, StatusesApart DEF Absent
  <2>4. CASE seen'.row = RowState /\ UNCHANGED <<row, log>>
    <3>1. row.status \in Active /\ n \in EndedAt
      BY <1>2, <2>4 DEF RowState, EndedAt
    <3>2. row.status \in Terminal
      BY <3>1 DEF EndedAt, LogEnds
    <3> QED
      BY <3>1, <3>2, StatusesApart
  <2> QED
    BY <2>2, <2>3, <2>4, ReadFrame
<1>3. seen'.row.last <= Len(log') /\ reply'.last <= Len(log')
  BY <1>0, <1>1
<1> QED
  BY <1>2, <1>3 DEF ReadsAreOld

LEMMA EndInvHolds == Spec => [](StreamInv /\ EndInv)
<1>1. StreamInv /\ EndInv /\ [Next]_vars => EndInv'
  BY RowEndsStep, LogEndsStep, PageEndsStep, ReadsStep DEF EndInv
<1> QED
  BY <1>1, InitEnds, StreamInvHolds, PTL DEF Spec

----------------------------------------------------------------------------
(* What the page shows after the end                                       *)

\* Without a late event, nothing the page reads is newer than the end it has
\* merged; only the answer of a cancel call may still touch its status.
LEMMA EndIsKept ==
  ASSUME StreamInv, EndInv, [Next]_vars, EndSeen, local.status \in Terminal
  PROVE  local'.status \in {local.status, "absent"} \/ LateEvent' \/ Overtaken'
<1>0. /\ local \in Entry /\ local.last \in Nat /\ reply \in Replies /\ seen \in SeenRecord
      /\ Len(log) \in Nat /\ local.status = row.status /\ local.status # "absent"
      /\ local.status \notin Active /\ DOMAIN log = 1 .. Len(log)
      /\ seen.row \in Entry /\ seen.row.last \in Nat /\ reply.last \in Nat
      /\ seen.row.last <= Len(log) /\ reply.last <= Len(log)
  BY StatusesApart DEF StreamInv, StorePart, LoopPart, StreamPart, SeenRecord, Entry, Replies,
                       EndInv, PageEnds, ReadsAreOld
<1>1. CASE UNCHANGED local
  BY <1>1
<1>2. CASE LateEvent /\ UNCHANGED log
  BY <1>2 DEF LateEvent, EndedAt
<1>3. ASSUME ~LateEvent
      PROVE  /\ Len(log) \in EndedAt /\ Len(log) <= local.last /\ log # <<>>
             /\ log[Len(log)].status = row.status
             /\ \A l \in Entry : l.last <= Len(log) => Registered(local, l) = local
             /\ \A n \in 1 .. Len(log) : Reduce(local, n) = local
  <2>1. PICK n \in EndedAt : n <= local.last
    BY DEF EndSeen
  <2>2. n \in 1 .. Len(log) /\ ~(n < Len(log))
    BY <1>0, <1>3, <2>1 DEF EndedAt, LateEvent
  <2>3. n = Len(log)
    BY <1>0, <2>2
  <2>4. Len(log) \in EndedAt /\ Len(log) <= local.last /\ log # <<>>
    BY <1>0, <2>1, <2>2, <2>3
  <2>5. log[Len(log)].status = row.status
    BY <2>4 DEF EndedAt, EndInv, LogEnds
  <2>6. ASSUME NEW l \in Entry, l.last <= Len(log)
        PROVE  Registered(local, l) = local
    <3>1. l.last \in Nat /\ local.last >= l.last
      BY <1>0, <2>4, <2>6 DEF Entry
    <3> QED
      BY <1>0, <3>1 DEF Registered
  <2>7. ASSUME NEW m \in 1 .. Len(log)
        PROVE  Reduce(local, m) = local
    <3>1. m <= local.last
      BY <1>0, <2>4
    <3>2. ~(m > local.last + 1) /\ m # local.last + 1
      BY <1>0, <3>1
    <3> QED
      BY <1>0, <3>1, <3>2 DEF Reduce
  <2> QED
    BY <2>4, <2>5, <2>6, <2>7
<1>4. CASE Forget
  BY <1>4 DEF Forget, Absent
<1>5. CASE Answer /\ ~LateEvent
  <2> DEFINE s == [status |-> reply.status, text |-> NoText, last |-> reply.last, gap |-> FALSE]
  <2>1. s \in Entry /\ s.last <= Len(log)
    BY <1>0, KindsOfDelta DEF Replies, Entry
  <2>2. CASE reply.call = "create"
    <3>1. local' = Registered(local, s)
      BY <1>5, <2>2 DEF Answer
    <3> HIDE DEF s
    <3> QED
      BY <1>3, <1>5, <2>1, <3>1
  <2>3. CASE reply.call # "create"
    <3>1. reply.call = "cancel"
      BY <1>0, <1>5, <2>3 DEF Answer, Replies, NoReply, EndInv, PageEnds
    <3>2. reply.status \in {row.status, "CANCEL_REQUESTED"}
      BY <3>1 DEF EndInv, PageEnds
    <3>3. /\ local' = [local EXCEPT !.status = reply.status]
          /\ UNCHANGED log
      BY <1>0, <1>5, <2>3 DEF Answer, streamVars
    <3>4. local'.status = reply.status /\ local'.last = local.last
      BY <1>0, <3>3 DEF Entry
    <3>5. local'.status = "CANCEL_REQUESTED" => Overtaken'
      <4>1. cursor' \in Nat
        BY LoopKept DEF LoopPart
      <4>2. Len(log) <= Larger(cursor', local'.last)
        BY <1>0, <1>3, <1>5, <3>4, <4>1 DEF Larger
      <4>3. Len(log) \in EndedAt'
        BY <1>3, <1>5, <3>3 DEF EndedAt
      <4> QED
        BY <4>2, <4>3 DEF Overtaken, Larger
    <3> QED
      BY <1>0, <3>2, <3>4, <3>5
  <2> QED
    BY <2>2, <2>3
<1>6. CASE SyncStates /\ ~LateEvent
  <2> DEFINE state == IF log = <<>> \/ expired THEN seen.row ELSE KeyState
             active == IF seen.row.status \in Active THEN Registered(local, state) ELSE local
  <2>1. state \in Entry /\ state.last <= Len(log)
    BY <1>0, StatesTyped DEF KeyState, StreamInv
  <2>2. local' = IF seen.known THEN Replaced(active, seen.row) ELSE active
    BY <1>6 DEF SyncStates
  <2> HIDE DEF state
  <2>3. active = local
    BY <1>3, <1>6, <2>1
  <2> HIDE DEF active
  <2>4. seen.row.last >= local.last => seen.row.status \notin Active
    <3>1. seen.row.status \in Active => seen.row.last < Len(log)
      BY <1>3, <1>6 DEF EndInv, ReadsAreOld
    <3> QED
      BY <1>0, <1>3, <1>6, <3>1
  <2>5. seen.row.last >= local.last => seen.row.status \in {row.status, "absent"}
    BY <1>0, <2>4, StatusesApart DEF Entry, EndInv, PageEnds
  <2>6. Replaced(local, seen.row) = local \/ seen.row.last >= local.last
    BY <1>0 DEF Replaced
  <2>7. Replaced(local, seen.row) \in {local, seen.row}
    BY DEF Replaced
  <2> QED
    BY <1>0, <2>2, <2>3, <2>5, <2>6, <2>7
<1>7. CASE Deliver /\ ~LateEvent
  <2>1. Following \in 1 .. Len(log) /\ local' = Reduce(local, Following)
    BY <1>0, <1>7, FollowingTyped DEF Deliver
  <2> QED
    BY <1>3, <1>7, <2>1
<1>8. CASE History /\ ~LateEvent
  <2>1. UNCHANGED local \/ local' = Replaced(local, IF expired THEN RowState ELSE KeyState)
    BY <1>8 DEF History
  <2>2. (IF expired THEN RowState ELSE KeyState).status = row.status
    BY <1>3, <1>8 DEF RowState, KeyState
  <2>3. local'.status \in {local.status, row.status}
    BY <2>1, <2>2 DEF Replaced
  <2> QED
    BY <1>0, <2>3
<1>9. CASE Replay /\ ~LateEvent
  <2>1. CASE seen.from < seen.upto /\ local' = Reduce(local, seen.from + 1)
    <3>1. seen.from \in Nat /\ seen.upto \in Nat
      BY <1>0 DEF SeenRecord
    <3>2. seen.from + 1 \in 1 .. Len(log)
      BY <1>0, <1>9, <2>1, <3>1 DEF StreamInv, CallsReadEvents, Replay
    <3> QED
      BY <1>3, <1>9, <2>1, <3>2
  <2> QED
    BY <1>1, <1>9, <2>1 DEF Replay
<1>10. CASE CreateAgain \/ CallCancel \/ CancelRead \/ AnswerLost \/ SyncCursor \/ SyncRows \/ Break
  BY <1>1, <1>10 DEF CreateAgain, CallCancel, CancelRead, AnswerLost, SyncCursor, SyncRows, Break, storeVars
<1>11. CASE \/ Trim \/ Expire \/ WriterStep \/ MonitorSettles \/ Announce \/ Acknowledge
            \/ UNCHANGED vars
  BY <1>1, <1>11 DEF Trim, Expire, WriterStep, Claim, Flush, Save, StreamEnds, Usage, Finalize,
                     Receive, ReceiveThrows, MonitorSettles, Announce, Acknowledge, vars,
                     pageVars, storeVars
<1>12. CASE Answer \/ SyncStates \/ Deliver \/ History \/ Replay
  <2>1. UNCHANGED log
    BY <1>12 DEF Answer, SyncStates, Deliver, History, Replay, LoopOnly, streamVars
  <2> QED
    BY <1>2, <1>5, <1>6, <1>7, <1>8, <1>9, <1>12, <2>1
<1> QED
  BY <1>4, <1>10, <1>11, <1>12 DEF Next, PageLoop

\* Once it has shown the end of a generation, a page shows it as active again
\* only after a late event or an overtaken cancel answer: no reconnect, no
\* history, no repeated create call and no old snapshot brings it back.
THEOREM EndStaysShown == Spec => EndIsShownForGood
<1>1. StreamInv /\ EndInv /\ [Next]_vars =>
         [EndSeen /\ local.status \in Terminal =>
            \/ local'.status \in {local.status, "absent"}
            \/ LateEvent' \/ Overtaken']_vars
  BY EndIsKept
<1> QED
  BY <1>1, EndInvHolds, PTL DEF Spec, EndIsShownForGood

----------------------------------------------------------------------------
(* Induction over the natural numbers, by the least counterexample         *)

LEMMA LeastElement ==
  ASSUME NEW T, T \subseteq Nat, T # {}
  PROVE  \E m \in T : \A n \in T : m <= n
<1> DEFINE R == OpToRel(<, Nat)
<1>1. IsWellFoundedOn(R, Nat)
  BY NatLessThanWellFounded
<1>2. \A m, n \in Nat : m < n => <<m, n>> \in R
  BY DEF OpToRel
<1> HIDE DEF R
<1>3. PICK m \in T : \A n \in T : ~(<<n, m>> \in R)
  BY <1>1, WFMin
<1>4. \A n \in T : m <= n
  <2> TAKE n \in T
  <2>1. m \in Nat /\ n \in Nat /\ ~(n < m)
    BY <1>2, <1>3
  <2> QED
    BY <2>1
<1> QED
  BY <1>4

LEMMA Induction ==
  ASSUME NEW S, 0 \in S, \A n \in Nat : n \in S => n + 1 \in S
  PROVE  \A n \in Nat : n \in S
<1> SUFFICES ASSUME NEW n \in Nat, n \notin S PROVE FALSE
  OBVIOUS
<1> DEFINE T == {i \in Nat : i \notin S}
<1>1. T \subseteq Nat /\ T # {}
  OBVIOUS
<1>2. PICK m \in T : \A i \in T : m <= i
  BY <1>1, LeastElement
<1>3. m \in Nat /\ m # 0 /\ m - 1 \in Nat /\ m - 1 \notin T
  BY <1>2
<1>4. m - 1 \in S /\ m = (m - 1) + 1
  BY <1>3
<1> QED
  BY <1>2, <1>3, <1>4

----------------------------------------------------------------------------
(* The text of a run of events                                             *)

\* The delta of event i, and the texts of the events behind n up to i.
Delta(es, i, k) == IF es[i].kind = k THEN es[i].delta ELSE <<>>
Extends(es, f, n, m) ==
    f = [i \in 0 .. m |-> IF i <= n THEN NoText
                          ELSE [k \in Kinds |-> f[i - 1][k] \o Delta(es, i, k)]]

LEMMA DeltaTyped ==
  ASSUME NEW es \in Seq(Event), NEW i \in 1 .. Len(es), NEW k \in Kinds
  PROVE  Delta(es, i, k) \in Seq(Nat)
<1>1. es[i] \in Event /\ <<>> \in Seq(Nat)
  OBVIOUS
<1> QED
  BY <1>1 DEF Delta, Event

LEMMA ExtendsExists ==
  ASSUME NEW es \in Seq(Event), NEW n \in Nat, NEW m \in Nat, m <= Len(es)
  PROVE  \E f \in [0 .. m -> Texts] : Extends(es, f, n, m)
<1> DEFINE S == {i \in Nat : i <= Len(es) => \E f \in [0 .. i -> Texts] : Extends(es, f, n, i)}
<1>0. Len(es) \in Nat /\ NoText \in Texts
  BY DEF NoText, Texts
<1>1. 0 \in S
  <2> DEFINE f == [i \in 0 .. 0 |-> NoText]
  <2>1. f \in [0 .. 0 -> Texts]
    BY <1>0
  <2>2. f = [i \in 0 .. 0 |-> IF i <= n THEN NoText
                              ELSE [k \in Kinds |-> f[i - 1][k] \o Delta(es, i, k)]]
    OBVIOUS
  <2> HIDE DEF f
  <2> QED
    BY <2>1, <2>2 DEF Extends
<1>2. ASSUME NEW i \in Nat, i \in S
      PROVE  i + 1 \in S
  <2> SUFFICES ASSUME i + 1 <= Len(es)
               PROVE  \E f \in [0 .. i + 1 -> Texts] : Extends(es, f, n, i + 1)
    OBVIOUS
  <2>1. PICK f \in [0 .. i -> Texts] : Extends(es, f, n, i)
    BY <1>0, <1>2
  <2> DEFINE last == IF i + 1 <= n THEN NoText ELSE [k \in Kinds |-> f[i][k] \o Delta(es, i + 1, k)]
             h == [j \in 0 .. i + 1 |-> IF j = i + 1 THEN last ELSE f[j]]
  <2>2. last \in Texts
    <3>1. f[i] \in Texts /\ i + 1 \in 1 .. Len(es)
      BY <1>0, <2>1
    <3>2. ASSUME NEW k \in Kinds PROVE f[i][k] \o Delta(es, i + 1, k) \in Seq(Nat)
      <4>1. f[i][k] \in Seq(Nat) /\ Delta(es, i + 1, k) \in Seq(Nat)
        BY <3>1, DeltaTyped DEF Texts
      <4> QED
        BY <4>1, ConcatProperties
    <3> QED
      BY <1>0, <3>2 DEF Texts
  <2> HIDE DEF last
  <2>3. h \in [0 .. i + 1 -> Texts] /\ h[i + 1] = last
    BY <2>1, <2>2
  <2>4. \A j \in 0 .. i : h[j] = f[j]
    OBVIOUS
  <2> HIDE DEF h
  <2>5. ASSUME NEW j \in 0 .. i + 1
        PROVE  h[j] = IF j <= n THEN NoText ELSE [k \in Kinds |-> h[j - 1][k] \o Delta(es, j, k)]
    <3>1. CASE j = i + 1
      <4>1. j - 1 = i /\ h[i] = f[i]
        BY <2>4, <3>1
      <4> QED
        BY <2>3, <3>1, <4>1 DEF last
    <3>2. CASE j # i + 1
      <4>1. j \in 0 .. i /\ h[j] = f[j]
        BY <2>4, <3>2
      <4>2. f[j] = IF j <= n THEN NoText ELSE [k \in Kinds |-> f[j - 1][k] \o Delta(es, j, k)]
        BY <2>1, <4>1 DEF Extends
      <4>3. CASE j <= n
        BY <4>1, <4>2, <4>3
      <4>4. CASE ~(j <= n)
        <5>1. j - 1 \in 0 .. i
          BY <4>1, <4>4
        <5> QED
          BY <2>4, <4>1, <4>2, <4>4, <5>1
      <4> QED
        BY <4>3, <4>4
    <3> QED
      BY <3>1, <3>2
  <2>6. h = [j \in 0 .. i + 1 |-> IF j <= n THEN NoText
                                   ELSE [k \in Kinds |-> h[j - 1][k] \o Delta(es, j, k)]]
    <3> DEFINE g == [j \in 0 .. i + 1 |-> IF j <= n THEN NoText
                                   ELSE [k \in Kinds |-> h[j - 1][k] \o Delta(es, j, k)]]
    <3>1. \A j \in 0 .. i + 1 : h[j] = g[j]
      BY <2>5
    <3>2. DOMAIN g = 0 .. i + 1 /\ g = [j \in DOMAIN g |-> g[j]]
      OBVIOUS
    <3> HIDE DEF g
    <3>3. h = g
      BY <2>3, <3>1, <3>2
    <3> QED
      BY <3>3 DEF g
  <2> QED
    BY <2>3, <2>6 DEF Extends
<1> HIDE DEF S
<1>3. m \in S
  BY <1>1, <1>2, Induction
<1> QED
  BY <1>3 DEF S

SameUpTo(m, es, ds) == \A i \in 1 .. m : es[i] = ds[i]

\* Where two logs agree, so do their texts.
LEMMA ExtendsSame ==
  ASSUME NEW es, NEW ds, NEW n \in Nat, NEW m \in Nat, NEW l \in Nat, m <= l,
         SameUpTo(m, es, ds),
         NEW f, Extends(es, f, n, m), NEW g, Extends(ds, g, n, l)
  PROVE  f[m] = g[m]
<1> DEFINE S == {i \in Nat : i <= m => f[i] = g[i]}
<1>0. \A i \in 0 .. m :
        /\ f[i] = IF i <= n THEN NoText ELSE [k \in Kinds |-> f[i - 1][k] \o Delta(es, i, k)]
        /\ g[i] = IF i <= n THEN NoText ELSE [k \in Kinds |-> g[i - 1][k] \o Delta(ds, i, k)]
  <2> TAKE i \in 0 .. m
  <2>1. i \in 0 .. l
    OBVIOUS
  <2> QED
    BY <2>1 DEF Extends
<1>1. 0 \in S
  <2>1. 0 \in 0 .. m /\ 0 <= n
    OBVIOUS
  <2>2. f[0] = NoText /\ g[0] = NoText
    BY <1>0, <2>1
  <2> QED
    BY <2>2
<1>2. ASSUME NEW i \in Nat, i \in S
      PROVE  i + 1 \in S
  <2> SUFFICES ASSUME i + 1 <= m
               PROVE  f[i + 1] = g[i + 1]
    OBVIOUS
  <2>1. f[i] = g[i] /\ es[i + 1] = ds[i + 1] /\ i + 1 \in 0 .. m /\ (i + 1) - 1 = i
    BY <1>2 DEF SameUpTo
  <2>2. \A k \in Kinds : Delta(es, i + 1, k) = Delta(ds, i + 1, k)
    BY <2>1 DEF Delta
  <2>3. CASE i + 1 <= n
    BY <1>0, <2>1, <2>3
  <2>4. CASE ~(i + 1 <= n)
    <3>1. /\ f[i + 1] = [k \in Kinds |-> f[i][k] \o Delta(es, i + 1, k)]
          /\ g[i + 1] = [k \in Kinds |-> g[i][k] \o Delta(ds, i + 1, k)]
      BY <1>0, <2>1, <2>4
    <3> QED
      BY <2>1, <2>2, <3>1
  <2> QED
    BY <2>3, <2>4
<1> HIDE DEF S
<1>3. m \in S
  BY <1>1, <1>2, Induction
<1> QED
  BY <1>3 DEF S

\* Between by a function that extends event by event.
LEMMA BetweenIs ==
  ASSUME log \in Seq(Event), NEW n \in Nat, NEW m \in Nat, m <= Len(log)
  PROVE  \E f \in [0 .. m -> Texts] : Extends(log, f, n, m) /\ Between(n, m) = f[m]
<1> DEFINE g == CHOOSE f : Extends(log, f, n, m)
<1>1. PICK f \in [0 .. m -> Texts] : Extends(log, f, n, m)
  BY ExtendsExists
<1>2. Extends(log, g, n, m)
  BY <1>1
<1>3. Between(n, m) = g[m]
  BY DEF Between, Extends, Delta
<1> HIDE DEF g
<1>4. f[m] = g[m]
  BY <1>1, <1>2, ExtendsSame DEF SameUpTo
<1> QED
  BY <1>1, <1>3, <1>4

LEMMA BetweenIsNext ==
  ASSUME log' \in Seq(Event), NEW n \in Nat, NEW m \in Nat, m <= Len(log')
  PROVE  \E f \in [0 .. m -> Texts] : Extends(log', f, n, m) /\ Between(n, m)' = f[m]
<1> DEFINE g == CHOOSE f : Extends(log', f, n, m)
<1>1. PICK f \in [0 .. m -> Texts] : Extends(log', f, n, m)
  BY ExtendsExists
<1>2. Extends(log', g, n, m)
  BY <1>1
<1>3. Between(n, m)' = g[m]
  BY DEF Between, Extends, Delta
<1> HIDE DEF g
<1>4. f[m] = g[m]
  BY <1>1, <1>2, ExtendsSame DEF SameUpTo
<1> QED
  BY <1>1, <1>3, <1>4

\* The texts up to an event do not change when the log grows behind it.
LEMMA BetweenStays ==
  ASSUME log \in Seq(Event), log' \in Seq(Event), NEW n \in Nat, NEW m \in Nat,
         m <= Len(log), m <= Len(log'), \A i \in 1 .. m : log'[i] = log[i]
  PROVE  Between(n, m)' = Between(n, m)
<1>1. PICK f \in [0 .. m -> Texts] : Extends(log, f, n, m) /\ Between(n, m) = f[m]
  BY BetweenIs
<1>2. PICK g \in [0 .. m -> Texts] : Extends(log', g, n, m) /\ Between(n, m)' = g[m]
  BY BetweenIsNext
<1>3. m <= m /\ SameUpTo(m, log, log')
  BY DEF SameUpTo
<1>4. f[m] = g[m]
  BY <1>1, <1>2, <1>3, ExtendsSame
<1> QED
  BY <1>1, <1>2, <1>4

LEMMA BetweenTyped ==
  ASSUME log \in Seq(Event), NEW n \in Nat, NEW m \in Nat, m <= Len(log)
  PROVE  Between(n, m) \in Texts
BY BetweenIs

\* One event more.
LEMMA BetweenGrows ==
  ASSUME log \in Seq(Event), NEW n \in Nat, NEW i \in Nat, NEW m \in 1 .. Len(log),
         m = i + 1
  PROVE  Between(n, m) = IF m <= n THEN NoText
                         ELSE [k \in Kinds |-> Between(n, i)[k] \o Delta(log, m, k)]
<1>0. /\ i \in Nat /\ m \in Nat /\ Len(log) \in Nat /\ i <= Len(log) /\ m <= Len(log)
      /\ i <= m /\ m \in 0 .. m /\ m - 1 = i
  OBVIOUS
<1>1. PICK f \in [0 .. m -> Texts] : Extends(log, f, n, m) /\ Between(n, m) = f[m]
  BY <1>0, BetweenIs
<1>2. PICK g \in [0 .. i -> Texts] : Extends(log, g, n, i) /\ Between(n, i) = g[i]
  BY <1>0, BetweenIs
<1>3. g[i] = f[i]
  <2>1. SameUpTo(i, log, log)
    BY DEF SameUpTo
  <2> QED
    BY <1>0, <1>1, <1>2, <2>1, ExtendsSame
<1>4. f[m] = IF m <= n THEN NoText ELSE [k \in Kinds |-> f[i][k] \o Delta(log, m, k)]
  <2>1. f = [j \in 0 .. m |-> IF j <= n THEN NoText
                              ELSE [k \in Kinds |-> f[j - 1][k] \o Delta(log, j, k)]]
    BY <1>1 DEF Extends
  <2> QED
    BY <1>0, <2>1
<1> QED
  BY <1>1, <1>2, <1>3, <1>4

LEMMA BetweenNone ==
  ASSUME log \in Seq(Event), NEW n \in Nat, NEW m \in Nat, m <= n, m <= Len(log)
  PROVE  Between(n, m) = NoText
<1>1. PICK f \in [0 .. m -> Texts] : Extends(log, f, n, m) /\ Between(n, m) = f[m]
  BY BetweenIs
<1>2. f[m] = IF m <= n THEN NoText ELSE [k \in Kinds |-> f[m - 1][k] \o Delta(log, m, k)]
  BY <1>1 DEF Extends
<1> QED
  BY <1>1, <1>2

LEMMA BetweenNext ==
  ASSUME log \in Seq(Event), NEW n \in Nat, NEW m \in Nat, n <= m, m + 1 <= Len(log),
         NEW k \in Kinds
  PROVE  Between(n, m + 1)[k] = Between(n, m)[k] \o Delta(log, m + 1, k)
<1> DEFINE j == m + 1
<1>1. j \in 1 .. Len(log) /\ j = m + 1 /\ ~(j <= n)
  OBVIOUS
<1> HIDE DEF j
<1>2. Between(n, j) = [kk \in Kinds |-> Between(n, m)[kk] \o Delta(log, j, kk)]
  BY <1>1, BetweenGrows, ZenonT(60)
<1>3. Between(n, j)[k] = Between(n, m)[k] \o Delta(log, j, k)
  BY <1>2
<1> QED
  BY <1>3 DEF j

LEMMA Joined ==
  ASSUME NEW s \in Seq(Nat), NEW t \in Seq(Nat), NEW u \in Seq(Nat)
  PROVE  (s \o t) \o u = s \o (t \o u)
BY ConcatAssociative, SMTT(60)

\* The deltas up to m are those up to n and those behind it.
LEMMA BetweenSplits ==
  ASSUME log \in Seq(Event), NEW n \in Nat, NEW m \in Nat, n <= m, m <= Len(log),
         NEW k \in Kinds
  PROVE  Between(0, m)[k] = Between(0, n)[k] \o Between(n, m)[k]
<1>0. Len(log) \in Nat /\ n <= Len(log) /\ 0 \in Nat
  OBVIOUS
<1> DEFINE P(i) == n <= i /\ i <= Len(log) =>
                   Between(0, i)[k] = Between(0, n)[k] \o Between(n, i)[k]
           S == {i \in Nat : P(i)}
<1>n. Between(0, n)[k] \in Seq(Nat)
  BY <1>0, BetweenTyped DEF Texts
<1>e. Between(0, n)[k] \o Between(n, n)[k] = Between(0, n)[k]
  <2>1. Between(n, n)[k] = <<>>
    BY <1>0, BetweenNone DEF NoText
  <2> QED
    BY <1>n, <2>1, ConcatEmptySeq
<1>1. P(0)
  <2> SUFFICES ASSUME n <= 0
               PROVE  Between(0, 0)[k] = Between(0, n)[k] \o Between(n, 0)[k]
    OBVIOUS
  <2>1. n = 0
    OBVIOUS
  <2> QED
    BY <1>e, <2>1
<1>2. ASSUME NEW i \in Nat, P(i)
      PROVE  P(i + 1)
  <2> SUFFICES ASSUME n <= i + 1, i + 1 <= Len(log)
               PROVE  Between(0, i + 1)[k] = Between(0, n)[k] \o Between(n, i + 1)[k]
    OBVIOUS
  <2>1. CASE n = i + 1
    BY <1>e, <2>1
  <2>2. CASE n <= i
    <3> DEFINE d == Delta(log, i + 1, k)
               s == Between(0, n)[k]
               t == Between(n, i)[k]
    <3>0. i + 1 \in 1 .. Len(log) /\ i <= Len(log) /\ 0 <= i
      BY <1>0, <2>2
    <3>1. Between(0, i + 1)[k] = Between(0, i)[k] \o d
      BY <1>0, <3>0, BetweenNext
    <3>2. Between(n, i + 1)[k] = t \o d
      BY <1>0, <2>2, <3>0, BetweenNext
    <3>3. Between(0, i)[k] = s \o t
      BY <1>2, <2>2, <3>0
    <3>4. d \in Seq(Nat)
      BY <3>0, DeltaTyped
    <3>5. t \in Seq(Nat)
      BY <3>0, BetweenTyped DEF Texts
    <3>6. s \in Seq(Nat)
      BY <1>n
    <3> HIDE DEF s, t, d
    <3>7. (s \o t) \o d = s \o (t \o d)
      BY <3>4, <3>5, <3>6, Joined
    <3>8. Between(0, i + 1)[k] = s \o Between(n, i + 1)[k]
      BY <3>1, <3>2, <3>3, <3>7
    <3> QED
      BY <3>8 DEF s
  <2>3. n = i + 1 \/ n <= i
    OBVIOUS
  <2> QED
    BY <2>1, <2>2, <2>3
<1> HIDE DEF P
<1>3. 0 \in S
  BY <1>1
<1>4. \A i \in Nat : i \in S => i + 1 \in S
  BY <1>2
<1> HIDE DEF S
<1>5. m \in S
  BY <1>3, <1>4, Induction
<1>6. P(m)
  BY <1>5 DEF S
<1> QED
  BY <1>6 DEF P

----------------------------------------------------------------------------
(* The text on its way: worker, events, row and page                       *)

LEMMA ElemsJoined ==
  ASSUME NEW s \in Seq(Nat), NEW t \in Seq(Nat)
  PROVE  s \o t \in Seq(Nat) /\ Elems(s \o t) = Elems(s) \cup Elems(t)
<1>1. /\ s \o t \in Seq(Nat) /\ Len(s \o t) = Len(s) + Len(t) /\ Len(s) \in Nat /\ Len(t) \in Nat
      /\ \A i \in 1 .. Len(s) + Len(t) :
            (s \o t)[i] = IF i <= Len(s) THEN s[i] ELSE t[i - Len(s)]
  BY ConcatProperties
<1>2. ASSUME NEW i \in 1 .. Len(s \o t)
      PROVE  (s \o t)[i] \in Elems(s) \cup Elems(t)
  <2>1. CASE i <= Len(s)
    BY <1>1, <2>1 DEF Elems
  <2>2. CASE ~(i <= Len(s))
    <3>1. i - Len(s) \in 1 .. Len(t) /\ (s \o t)[i] = t[i - Len(s)]
      BY <1>1, <2>2
    <3> QED
      BY <3>1 DEF Elems
  <2> QED
    BY <2>1, <2>2
<1>3. ASSUME NEW i \in 1 .. Len(s)
      PROVE  s[i] \in Elems(s \o t)
  <2>1. i \in 1 .. Len(s \o t) /\ (s \o t)[i] = s[i]
    BY <1>1
  <2> QED
    BY <2>1 DEF Elems
<1>4. ASSUME NEW i \in 1 .. Len(t)
      PROVE  t[i] \in Elems(s \o t)
  <2>1. /\ Len(s) + i \in 1 .. Len(s \o t) /\ ~(Len(s) + i <= Len(s))
        /\ (Len(s) + i) - Len(s) = i
    BY <1>1
  <2>2. (s \o t)[Len(s) + i] = t[i]
    BY <1>1, <2>1
  <2> QED
    BY <2>1, <2>2 DEF Elems
<1>5. Elems(s \o t) \subseteq Elems(s) \cup Elems(t)
  BY <1>2 DEF Elems
<1>6. Elems(s) \subseteq Elems(s \o t) /\ Elems(t) \subseteq Elems(s \o t)
  BY <1>3, <1>4 DEF Elems
<1> QED
  BY <1>1, <1>5, <1>6

LEMMA ElemsOne ==
  ASSUME NEW x \in Nat
  PROVE  <<x>> \in Seq(Nat) /\ Elems(<<x>>) = {x} /\ Elems(<<>>) = {}
BY DEF Elems

LEMMA Appended ==
  ASSUME NEW s \in Seq(Nat), NEW x \in Nat
  PROVE  Append(s, x) = s \o <<x>> /\ Append(s, x) \in Seq(Nat)
<1>1. Append(s, x) = s \o <<x>>
  BY AppendIsConcat
<1>2. Append(s, x) \in Seq(Nat)
  OBVIOUS
<1> QED
  BY <1>1, <1>2

LEMMA Joins ==
  ASSUME NEW s \in Seq(Nat), NEW t \in Seq(Nat)
  PROVE  s \o t \in Seq(Nat) /\ s \o <<>> = s /\ <<>> \o s = s
BY ConcatProperties, ConcatEmptySeq

\* All deltas that events have told.
Told(n) == Between(0, n)
AllTold == Told(Len(log))
Piece(e, k) == IF e.kind = k THEN e.delta ELSE <<>>

LEMMA PieceTyped ==
  ASSUME NEW e \in Event, NEW k \in Kinds
  PROVE  Piece(e, k) \in Seq(Nat)
<1>1. e.delta \in Seq(Nat) /\ <<>> \in Seq(Nat)
  BY DEF Event
<1> QED
  BY <1>1 DEF Piece

LEMMA ToldTyped ==
  ASSUME log \in Seq(Event), NEW n \in 0 .. Len(log)
  PROVE  Told(n) \in Texts /\ AllTold \in Texts
<1>1. Len(log) \in Nat /\ n \in Nat /\ n <= Len(log) /\ 0 \in Nat
  OBVIOUS
<1> QED
  BY <1>1, BetweenTyped DEF Told, AllTold

LEMMA ToldGrows ==
  ASSUME log \in Seq(Event), NEW e \in Event, log' = Append(log, e), NEW k \in Kinds
  PROVE  AllTold'[k] = AllTold[k] \o Piece(e, k)
<1>l. PICK l \in Nat : l = Len(log)
  OBVIOUS
<1>m. PICK m \in Nat : m = l + 1
  BY <1>l
<1>0. /\ log' \in Seq(Event) /\ l \in Nat /\ m = Len(log') /\ m <= Len(log') /\ l <= Len(log)
      /\ m = l + 1 /\ 0 \in Nat /\ log'[m] = e
      /\ \A i \in 1 .. l : log[i] = log'[i]
  BY <1>l, <1>m, Grown
<1>1. PICK f \in [0 .. m -> Texts] : Extends(log', f, 0, m) /\ Between(0, m)' = f[m]
  BY <1>0, BetweenIsNext
<1>2. PICK g \in [0 .. l -> Texts] : Extends(log, g, 0, l) /\ Between(0, l) = g[l]
  BY <1>0, BetweenIs
<1>3. g[l] = f[l]
  <2>1. SameUpTo(l, log, log') /\ l <= m
    BY <1>0 DEF SameUpTo
  <2> QED
    BY <1>0, <1>1, <1>2, <2>1, ExtendsSame
<1>4. f[m][k] = f[l][k] \o Piece(e, k)
  <2>1. f = [i \in 0 .. m |-> IF i <= 0 THEN NoText
                              ELSE [kk \in Kinds |-> f[i - 1][kk] \o Delta(log', i, kk)]]
    BY <1>1 DEF Extends
  <2>2. m \in 0 .. m /\ ~(m <= 0) /\ m - 1 = l
    BY <1>0
  <2>3. Delta(log', m, k) = Piece(e, k)
    BY <1>0 DEF Delta, Piece
  <2>4. f[m] = [kk \in Kinds |-> f[l][kk] \o Delta(log', m, kk)]
    BY <2>1, <2>2
  <2> QED
    BY <2>3, <2>4
<1>5. AllTold' = f[m] /\ AllTold = g[l]
  BY <1>0, <1>l, <1>1, <1>2 DEF AllTold, Told
<1> QED
  BY <1>3, <1>4, <1>5

\* What events have told and shown, they told and showed for good.
LEMMA TextsKept ==
  ASSUME StreamInv, [Next]_vars
  PROVE  /\ log \in Seq(Event) /\ log' \in Seq(Event)
         /\ Len(log) \in Nat /\ Len(log') \in Nat /\ Len(log) <= Len(log')
         /\ \A i \in DOMAIN log : i \in DOMAIN log' /\ log'[i] = log[i]
         /\ \A n \in 0 .. Len(log) : Shown(n)' = Shown(n)
         /\ \A n, m \in 0 .. Len(log) : Between(n, m)' = Between(n, m)
<1>0. /\ log \in Seq(Event) /\ log' \in Seq(Event)
      /\ Len(log) \in Nat /\ Len(log') \in Nat /\ Len(log) <= Len(log')
      /\ DOMAIN log = 1 .. Len(log) /\ DOMAIN log' = 1 .. Len(log')
  BY StreamKept DEF StreamInv, StreamPart
<1>1. \A i \in 1 .. Len(log) : log'[i] = log[i]
  <2>1. CASE UNCHANGED log
    BY <2>1
  <2>2. CASE \E event \in Event : Publish(event)
    BY <1>0, <2>2, Grown DEF Publish
  <2> QED
    BY <2>1, <2>2, LogFrame
<1>2. ASSUME NEW n \in 0 .. Len(log), NEW m \in 0 .. Len(log)
      PROVE  Between(n, m)' = Between(n, m)
  <2>1. n \in Nat /\ m \in Nat /\ m <= Len(log) /\ m <= Len(log')
    BY <1>0
  <2> QED
    BY <1>0, <1>1, <2>1, BetweenStays
<1>3. ASSUME NEW n \in 0 .. Len(log)
      PROVE  Shown(n)' = Shown(n)
  BY <1>0, <1>1 DEF Shown
<1> QED
  BY <1>0, <1>1, <1>2, <1>3

\* The worker's local variables: which of them are set in which place.
Buffers ==
    /\ wpc = "queued" => after = "start"
    /\ wpc \in {"publish", "save"} => after # "usage"
    /\ wpc = "stream" => after = "stream"
    /\ wpc = "finish" => after \in {"last", "usage", "rescue"}
    /\ after = "start" => text = NoText /\ bufferedType = NoKind /\ (wpc = "save" \/ sequence = 0)
    /\ wpc \in {"publish", "save"} /\ after # "start" => bufferedType # NoKind
    /\ wpc = "finish" /\ after # "rescue" => bufferedType = NoKind
    /\ wpc \in {"publish", "save"} /\ after = "switch" => arriving # NoKind
    /\ arriving # NoKind => wpc \in {"publish", "save"} /\ after \in {"switch", "rescue"}
    /\ bufferedType = NoKind => bufferedDelta = <<>>

\* Nothing is published for a run that has not begun.
Waiting ==
    wpc = "queued" => log = <<>> /\ row.status \in {"QUEUED", "CANCEL_REQUESTED"}

LEMMA OthersWrite ==
  ASSUME [Next]_vars, ~WriterStep
  PROVE  UNCHANGED writerVars
BY DEF Next, Trim, Expire, MonitorSettles, Announce, Acknowledge, Forget, CreateAgain, CallCancel,
       CancelRead, Answer, AnswerLost, PageLoop, SyncCursor, SyncRows, SyncStates, Deliver, History,
       Replay, LoopOnly, Break, vars

LEMMA WriterValues ==
  ASSUME StreamInv
  PROVE  /\ wpc \in {"queued", "publish", "save", "stream", "finish", "gone"}
         /\ text \in Texts /\ sequence \in Nat /\ DeltaCount \in Nat
         /\ bufferedType \in Kinds \cup {NoKind} /\ bufferedDelta \in Seq(Nat)
         /\ arriving \in Kinds \cup {NoKind} /\ NoKind \notin Kinds
         /\ after \in {"start", "stream", "switch", "last", "usage", "rescue"}
BY CountTyped, StreamAssumption DEF StreamInv, WriterPart

LEMMA BuffersRaise ==
  ASSUME StreamInv, Buffers, wpc \in {"publish", "save"}, Raise(after)
  PROVE  Buffers'
<1>1. CASE Leave
  BY <1>1 DEF Leave, Buffers, NoText
<1>2. CASE Reach("rescue") /\ UNCHANGED <<text, sequence, bufferVars>> /\ after # "start"
  BY <1>2, WriterValues DEF Reach, Buffers, bufferVars
<1> QED
  BY <1>1, <1>2 DEF Raise

LEMMA BuffersFlushed ==
  ASSUME StreamInv, Buffers, wpc \in {"publish", "save"}, Flushed, UNCHANGED text
  PROVE  Buffers'
BY WriterValues DEF Flushed, Buffers

LEMMA BuffersStep ==
  ASSUME StreamInv, Buffers, [Next]_vars
  PROVE  Buffers'
<1>0. /\ text \in Texts /\ bufferedType \in Kinds \cup {NoKind}
      /\ arriving \in Kinds \cup {NoKind} /\ NoKind \notin Kinds
  BY WriterValues
<1>1. CASE Claim
  BY <1>1 DEF Claim, Leave, Buffers, bufferVars, NoText
<1>2. ASSUME NEW k \in Kinds, Receive(k)
      PROVE  Buffers'
  BY <1>0, <1>2 DEF Receive, Buffers
<1>3. ASSUME NEW k \in Kinds, ReceiveThrows(k)
      PROVE  Buffers'
  BY <1>0, <1>3 DEF ReceiveThrows, Reach, Buffers, bufferVars
<1>4. CASE Flush
  <2>1. CASE Raise(after)
    BY <1>4, <2>1, BuffersRaise DEF Flush
  <2>2. CASE Flushed /\ UNCHANGED text /\ after # "start"
    BY <1>4, <2>2, BuffersFlushed DEF Flush
  <2>3. CASE wpc' = "save" /\ UNCHANGED <<text, bufferVars, after>>
    BY <1>4, <2>3 DEF Flush, Buffers, bufferVars
  <2> QED
    BY <1>4, <2>1, <2>2, <2>3 DEF Flush
<1>5. CASE Save
  <2>1. CASE Raise(after)
    BY <1>5, <2>1, BuffersRaise DEF Save
  <2>2. CASE Flushed /\ UNCHANGED text
    BY <1>5, <2>2, BuffersFlushed DEF Save
  <2> QED
    BY <1>5, <2>1, <2>2 DEF Save
<1>6. CASE StreamEnds
  BY <1>0, <1>6 DEF StreamEnds, Reach, Buffers, bufferVars
<1>7. CASE Usage
  BY <1>0, <1>7 DEF Usage, Reach, Buffers, bufferVars
<1>8. CASE Finalize
  BY <1>8 DEF Finalize, Leave, Buffers, NoText
<1>9. CASE UNCHANGED writerVars
  BY <1>9 DEF writerVars, bufferVars, Buffers, NoText
<1> QED
  BY <1>1, <1>2, <1>3, <1>4, <1>5, <1>6, <1>7, <1>8, <1>9, OthersWrite DEF WriterStep

LEMMA WaitingStep ==
  ASSUME StreamInv, RowEnds, Waiting, [Next]_vars
  PROVE  Waiting'
<1> SUFFICES ASSUME wpc' = "queued"
             PROVE  log' = <<>> /\ row'.status \in {"QUEUED", "CANCEL_REQUESTED"}
  BY DEF Waiting
<1>0. row \in RowRecord
  BY DEF StreamInv, RowPart
<1>1. ~WriterStep
  BY DEF WriterStep, Claim, Receive, ReceiveThrows, Reach, Flush, Raise, Flushed, Leave, Save,
         StreamEnds, Usage, Finalize
<1>2. wpc = "queued"
  BY <1>1, OthersWrite DEF writerVars
<1>3. log = <<>> /\ row.status \in {"QUEUED", "CANCEL_REQUESTED"} /\ notice.state = "none"
  BY <1>2, StatusesApart DEF Waiting, RowEnds
<1>4. CASE CallCancel
  BY <1>0, <1>3, <1>4 DEF CallCancel, streamVars, RowRecord
<1>5. CASE \/ Trim \/ Expire \/ UNCHANGED vars \/ Forget \/ CreateAgain \/ CancelRead \/ Answer \/ AnswerLost
           \/ PageLoop \/ Break
  <2>1. UNCHANGED <<log, row>>
    BY <1>5 DEF Trim, Expire, vars, Forget, CreateAgain, CancelRead, Answer, AnswerLost, PageLoop, SyncCursor,
              SyncRows, SyncStates, Deliver, History, Replay, LoopOnly, Break, streamVars, rowVars
  <2> QED
    BY <1>3, <2>1
<1>6. CASE MonitorSettles \/ Announce \/ Acknowledge
  BY <1>3, <1>6 DEF MonitorSettles, Announce, Acknowledge
<1> QED
  BY <1>1, <1>4, <1>5, <1>6 DEF Next

\* No delta was published behind event n.
Silent(n) == \A j \in DOMAIN log : j > n => log[j].kind = NoKind

\* A checkpoint saves the text of its sequence; and while the worker runs no
\* delta is behind the sequence, unless its last publication threw.
Sequenced ==
    /\ wpc = "save" => Shown(sequence) = text
    /\ wpc \in {"stream", "save", "finish"} \/ (wpc = "publish" /\ after # "rescue") =>
         Silent(sequence)

\* Who publishes: the worker in two places, and the relay an end.
LEMMA Publishers ==
  ASSUME StreamInv, RowEnds, [Next]_vars
  PROVE  \/ UNCHANGED log
         \/ /\ Announce /\ log' = Append(log, EndedEvent) /\ UNCHANGED <<row, writerVars, faults>>
            /\ notice.state = "pending" /\ row.status \in Terminal
         \/ Flush \/ Usage
<1>1. CASE Announce
  BY <1>1 DEF Announce, Publish, RowEnds
<1>2. CASE \/ Trim \/ Expire \/ Claim \/ Save \/ StreamEnds \/ Finalize
           \/ \E k \in Kinds : Receive(k) \/ ReceiveThrows(k)
           \/ MonitorSettles \/ Acknowledge \/ UNCHANGED vars
  BY <1>2 DEF Trim, Expire, Claim, Save, StreamEnds, Finalize, Receive, ReceiveThrows,
              MonitorSettles, Acknowledge, vars, streamVars
<1>3. CASE \/ Forget \/ CreateAgain \/ CallCancel \/ CancelRead \/ Answer \/ AnswerLost \/ PageLoop \/ Break
  BY <1>3 DEF Forget, CreateAgain, CallCancel, CancelRead, Answer, AnswerLost, PageLoop, SyncCursor,
              SyncRows, SyncStates, Deliver, History, Replay, LoopOnly, Break, streamVars
<1> QED
  BY <1>1, <1>2, <1>3 DEF Next, WriterStep

LEMMA SilentKept ==
  ASSUME StreamInv, NEW n, Silent(n),
         \/ UNCHANGED log
         \/ \E e \in Event : log' = Append(log, e) /\ e.kind = NoKind
  PROVE  Silent(n)'
<1>0. log \in Seq(Event)
  BY DEF StreamInv, StreamPart
<1>1. CASE UNCHANGED log
  BY <1>1 DEF Silent
<1>2. ASSUME NEW e \in Event, log' = Append(log, e), e.kind = NoKind
      PROVE  Silent(n)'
  BY <1>0, <1>2, Grown DEF Silent
<1> QED
  BY <1>1, <1>2

LEMMA SilentAtEnd ==
  ASSUME StreamInv, [Next]_vars
  PROVE  Silent(Len(log)) /\ Silent(Len(log))'
<1>1. DOMAIN log = 1 .. Len(log) /\ DOMAIN log' = 1 .. Len(log') /\ Len(log) \in Nat /\ Len(log') \in Nat
  BY TextsKept
<1> QED
  BY <1>1 DEF Silent

LEMMA EventKinds ==
  ASSUME StreamInv
  PROVE  /\ StartedEvent \in Event /\ StartedEvent.kind = NoKind /\ StartedEvent.shown = text
         /\ StartedEvent.type = "started"
         /\ UsageEvent \in Event /\ UsageEvent.kind = NoKind /\ UsageEvent.shown = text
         /\ UsageEvent.type = "usage"
         /\ DeltaEvent \in Event /\ DeltaEvent.kind = bufferedType
         /\ DeltaEvent.delta = bufferedDelta /\ DeltaEvent.shown = text
         /\ DeltaEvent.type = "delta"
         /\ EndedEvent \in Event /\ EndedEvent.kind = NoKind /\ EndedEvent.shown = notice.text
         /\ EndedEvent.type = "ended"
<1>1. /\ StartedEvent \in Event /\ DeltaEvent \in Event
      /\ UsageEvent \in Event /\ EndedEvent \in Event
  BY EventsTyped DEF StreamInv
<1>2. /\ StartedEvent.kind = NoKind /\ StartedEvent.shown = text /\ StartedEvent.type = "started"
      /\ UsageEvent.kind = NoKind /\ UsageEvent.shown = text /\ UsageEvent.type = "usage"
  BY DEF StartedEvent, UsageEvent
<1>3. /\ DeltaEvent.kind = bufferedType /\ DeltaEvent.delta = bufferedDelta
      /\ DeltaEvent.shown = text /\ DeltaEvent.type = "delta"
      /\ EndedEvent.kind = NoKind /\ EndedEvent.shown = notice.text /\ EndedEvent.type = "ended"
  BY DEF DeltaEvent, EndedEvent
<1> QED
  BY <1>1, <1>2, <1>3

\* A publication puts its event last.
LEMMA PublishedLast ==
  ASSUME StreamInv, [Next]_vars, NEW e \in Event, Publish(e)
  PROVE  /\ log' = Append(log, e) /\ Len(log') = Len(log) + 1 /\ Len(log') \in Nat
         /\ Shown(Len(log))' = e.shown
<1>1. log \in Seq(Event) /\ log' = Append(log, e) /\ Len(log) \in Nat
  BY DEF StreamInv, StreamPart, Publish
<1>2. Len(log') = Len(log) + 1 /\ log'[Len(log) + 1] = e
  BY <1>1, Grown
<1> QED
  BY <1>1, <1>2 DEF Shown

LEMMA SequencedStep ==
  ASSUME StreamInv, RowEnds, Buffers, Waiting, Sequenced, [Next]_vars
  PROVE  Sequenced'
<1>0. sequence \in 0 .. Len(log) /\ Len(log) \in Nat /\ Len(log') \in Nat /\ NoKind \notin Kinds
  BY TextsKept, WriterValues DEF RowEnds
<1>k. ASSUME UNCHANGED sequence, Silent(sequence),
             \/ UNCHANGED log
             \/ \E e \in Event : log' = Append(log, e) /\ e.kind = NoKind
      PROVE  Silent(sequence)'
  BY <1>k, SilentKept DEF Silent
<1>r. ASSUME wpc \in {"publish", "save"}, Raise(after)
      PROVE  Sequenced'
  BY <1>r DEF Raise, Leave, Reach, Buffers, Sequenced
<1>1. CASE Claim
  <2>1. CASE wpc' = "publish"
    <3>1. log' = <<>> /\ DOMAIN log' = {}
      BY <1>1 DEF Claim, Waiting, streamVars
    <3> QED
      BY <2>1, <3>1 DEF Sequenced, Silent
  <2> QED
    BY <1>1, <2>1 DEF Claim, Leave, Sequenced
<1>2. ASSUME NEW k \in Kinds, Receive(k)
      PROVE  Sequenced'
  <2>1. wpc = "stream" /\ wpc' \in {"stream", "publish"} /\ UNCHANGED <<log, sequence>>
    BY <1>2 DEF Receive, streamVars
  <2> QED
    BY <1>k, <2>1 DEF Sequenced
<1>3. ASSUME NEW k \in Kinds, ReceiveThrows(k)
      PROVE  Sequenced'
  <2>1. wpc = "stream" /\ wpc' \in {"finish", "publish"} /\ UNCHANGED <<log, sequence>>
    BY <1>3 DEF ReceiveThrows, Reach, streamVars
  <2> QED
    BY <1>k, <2>1 DEF Sequenced
<1>4. CASE Flush
  <2>1. CASE Raise(after)
    BY <1>4, <1>r, <2>1 DEF Flush
  <2>2. ASSUME NEW e \in {StartedEvent, DeltaEvent}, Publish(e), sequence' = Len(log'), UNCHANGED text
        PROVE  Sequenced'
    <3>1. Shown(sequence)' = text'
      BY <2>2, EventKinds, PublishedLast DEF Shown
    <3>2. Silent(sequence)'
      BY <2>2, SilentAtEnd DEF Silent
    <3> QED
      BY <3>1, <3>2 DEF Sequenced
  <2> QED
    BY <1>4, <2>1, <2>2 DEF Flush
<1>5. CASE Save
  <2>1. CASE Raise(after)
    BY <1>5, <1>r, <2>1 DEF Save
  <2>2. CASE Flushed /\ UNCHANGED sequence
    <3>1. wpc = "save" /\ wpc' # "save" /\ UNCHANGED log
      BY <1>5, <2>2 DEF Save, Flushed, streamVars
    <3> QED
      BY <1>k, <2>2, <3>1 DEF Sequenced
  <2> QED
    BY <1>5, <2>1, <2>2 DEF Save
<1>6. CASE StreamEnds
  <2>1. wpc = "stream" /\ wpc' \in {"finish", "publish"} /\ UNCHANGED <<log, sequence>>
    BY <1>6 DEF StreamEnds, Reach, streamVars
  <2> QED
    BY <1>k, <2>1 DEF Sequenced
<1>7. CASE Usage
  <2>1. CASE Publish(UsageEvent) /\ sequence' = Len(log') /\ UNCHANGED wpc
    <3>1. Silent(sequence)' /\ wpc' = "finish"
      BY <1>7, <2>1, SilentAtEnd DEF Silent, Usage
    <3> QED
      BY <3>1 DEF Sequenced
  <2>2. CASE PublishThrows(UsageEvent) /\ Reach("rescue") /\ UNCHANGED sequence
    <3>1. wpc = "finish" /\ wpc' \in {"finish", "publish"} /\ bufferedType = NoKind
      BY <1>7, <2>2 DEF Usage, Reach, Buffers
    <3>2. \/ UNCHANGED log
          \/ \E e \in Event : log' = Append(log, e) /\ e.kind = NoKind
      BY <2>2, EventKinds DEF PublishThrows, Publish, streamVars
    <3>3. Silent(sequence)'
      BY <1>k, <2>2, <3>1, <3>2 DEF Sequenced
    <3> QED
      BY <3>1, <3>3 DEF Sequenced
  <2> QED
    BY <1>7, <2>1, <2>2 DEF Usage
<1>8. CASE Finalize
  BY <1>8 DEF Finalize, Leave, Sequenced
<1>9. CASE ~WriterStep
  <2>1. UNCHANGED writerVars
    BY <1>9, OthersWrite
  <2>2. \/ UNCHANGED log
        \/ \E e \in Event : log' = Append(log, e) /\ e.kind = NoKind
    BY <1>9, Publishers, EventKinds DEF WriterStep
  <2>3. UNCHANGED <<wpc, text, sequence, after>>
    BY <2>1 DEF writerVars
  <2> QED
    BY <1>0, <1>k, <2>2, <2>3, TextsKept DEF Sequenced, Shown
<1> QED
  BY <1>1, <1>2, <1>3, <1>4, <1>5, <1>6, <1>7, <1>8, <1>9 DEF WriterStep

\* The saved text is what the state key showed at the saved sequence, or the
\* worker's last, which no event followed with a delta; the notice carries it,
\* and so does its event.
RowTraced ==
    /\ \/ row.text = Shown(row.seq)
       \/ row.status \in Terminal /\ wpc = "gone" /\ Silent(row.seq)
    /\ notice.state # "none" => notice.text = row.text
    /\ notice.state \in {"announced", "acknowledged"} =>
         notice.seq > 0 /\ Shown(notice.seq) = notice.text
    /\ reply.call = "create" /\ replays = 0 => reply.last = 0

LEMMA GoneStays ==
  ASSUME [Next]_vars, wpc = "gone"
  PROVE  wpc' = "gone" /\ ~Flush /\ ~Usage /\ UNCHANGED writerVars
<1>1. ~WriterStep
  BY DEF WriterStep, Claim, Receive, ReceiveThrows, Flush, Save, StreamEnds, Usage, Finalize
<1> QED
  BY <1>1, OthersWrite DEF WriterStep, writerVars

LEMMA GoneIsSilent ==
  ASSUME StreamInv, RowEnds, [Next]_vars, wpc = "gone", NEW n, Silent(n)
  PROVE  Silent(n)'
<1>1. \/ UNCHANGED log
      \/ \E e \in Event : log' = Append(log, e) /\ e.kind = NoKind
  BY GoneStays, Publishers, EventKinds
<1> QED
  BY <1>1, SilentKept

\* What happens to the text of the row.
LEMMA RowTextMoves ==
  ASSUME StreamInv, RowEnds, Buffers, [Next]_vars
  PROVE  \/ UNCHANGED <<row, notice>>
         \/ /\ row'.text = row.text /\ row'.seq = row.seq /\ UNCHANGED notice
            /\ row.status \in Active
         \/ /\ wpc = "save" /\ row'.text = text /\ row'.seq = sequence /\ UNCHANGED notice
            /\ row.status \in Active
         \/ /\ row.status \in Active /\ row'.status \in Terminal
            /\ notice'.state = "pending" /\ notice'.text = row'.text
            /\ \/ row'.text = row.text /\ row'.seq = row.seq
               \/ /\ row'.text = text /\ row'.seq = sequence /\ wpc' = "gone" /\ UNCHANGED log
                  /\ \/ wpc = "queued" /\ row'.status = "STOPPED"
                     \/ wpc = "finish" /\ (after = "rescue" => row'.status = "STOPPED")
         \/ Announce
         \/ Acknowledge
<1>0. row \in RowRecord /\ "STOPPED" \in Terminal /\ "COMPLETED" \in Terminal
  BY StatusesApart DEF StreamInv, RowPart
<1>s. ASSUME NEW status, NEW saved, NEW seq, Settle(status, saved, seq)
      PROVE  /\ row'.status = status /\ row'.text = saved /\ row'.seq = seq
             /\ notice'.state = "pending" /\ notice'.text = saved
  BY <1>s DEF Settle, NoNotice
<1>1. CASE Claim
  <2>1. CASE row.status = "QUEUED" /\ row' = [row EXCEPT !.status = "STARTING"] /\ UNCHANGED notice
    BY <1>0, <2>1, StatusesApart DEF RowRecord
  <2>2. CASE Settle("STOPPED", text, sequence) /\ Leave
    <3>1. row.status \in Active /\ UNCHANGED log /\ wpc = "queued"
      BY <1>1, StatusesApart DEF Claim, streamVars
    <3> QED
      BY <1>0, <1>s, <2>2, <3>1 DEF Leave
  <2> QED
    BY <1>1, <2>1, <2>2 DEF Claim
<1>2. ASSUME NEW k \in Kinds, Receive(k)
      PROVE  \/ UNCHANGED <<row, notice>>
             \/ row'.text = row.text /\ row'.seq = row.seq /\ UNCHANGED notice /\ row.status \in Active
  <2>1. row' = [row EXCEPT !.status = IF row.status = "STARTING" THEN "STREAMING" ELSE row.status]
    BY <1>2 DEF Receive
  <2>2. UNCHANGED notice
    BY <1>2 DEF Receive
  <2>3. CASE row.status = "STARTING"
    BY <1>0, <2>1, <2>2, <2>3, StatusesApart DEF RowRecord
  <2>4. CASE row.status # "STARTING"
    BY <1>0, <2>1, <2>2, <2>4 DEF RowRecord
  <2> QED
    BY <2>3, <2>4
<1>3. CASE Save
  <2>1. UNCHANGED notice /\ wpc = "save"
    BY <1>3 DEF Save
  <2>2. CASE UNCHANGED row
    BY <2>1, <2>2
  <2>3. CASE row.status \in Active /\ row' = [row EXCEPT !.text = text, !.seq = sequence]
    BY <1>0, <2>1, <2>3 DEF RowRecord
  <2> QED
    BY <1>3, <2>2, <2>3, StatusesApart DEF Save, Saved
<1>4. CASE Finalize
  <2>1. wpc = "finish" /\ wpc' = "gone" /\ UNCHANGED log
    BY <1>4 DEF Finalize, Leave, streamVars
  <2>2. CASE row.status \in Active
    <3> DEFINE status == IF after = "rescue" \/ row.status = "CANCEL_REQUESTED"
                         THEN "STOPPED" ELSE "COMPLETED"
    <3>1. Settle(status, text, sequence)
      BY <1>4, <2>2 DEF Finalize
    <3>2. status \in Terminal /\ (after = "rescue" => status = "STOPPED")
      BY <1>0
    <3> HIDE DEF status
    <3> QED
      BY <1>s, <2>1, <2>2, <3>1, <3>2
  <2>3. CASE row.status \notin Active
    BY <1>4, <2>3 DEF Finalize, rowVars
  <2> QED
    BY <2>2, <2>3
<1>5. CASE MonitorSettles
  <2>1. Settle("STOPPED", row.text, row.seq)
    BY <1>5 DEF MonitorSettles
  <2>2. row.status \in Active
    BY <1>5, StatusesApart DEF MonitorSettles
  <2> QED
    BY <1>0, <1>s, <2>1, <2>2
<1>6. CASE CallCancel
  <2>1. /\ row' = [row EXCEPT !.status = IF row.status \in Active THEN "CANCEL_REQUESTED" ELSE row.status]
        /\ UNCHANGED notice
    BY <1>6 DEF CallCancel
  <2>2. CASE row.status \in Active
    BY <1>0, <2>1, <2>2 DEF RowRecord
  <2>3. CASE row.status \notin Active
    BY <1>0, <2>1, <2>3 DEF RowRecord
  <2> QED
    BY <2>2, <2>3
<1>7. CASE \/ Trim \/ Expire \/ Flush \/ StreamEnds \/ Usage \/ UNCHANGED vars
           \/ \E k \in Kinds : ReceiveThrows(k)
  BY <1>7 DEF Trim, Expire, Flush, StreamEnds, Usage, vars, ReceiveThrows, rowVars
<1>8. CASE Forget \/ CreateAgain \/ CancelRead \/ Answer \/ AnswerLost \/ PageLoop \/ Break
  BY <1>8 DEF Forget, CreateAgain, CancelRead, Answer, AnswerLost, PageLoop, SyncCursor, SyncRows,
              SyncStates, Deliver, History, Replay, LoopOnly, Break, rowVars
<1> QED
  BY <1>1, <1>2, <1>3, <1>4, <1>5, <1>6, <1>7, <1>8 DEF Next, WriterStep

\* The text of an ended row is final.
LEMMA EndedText ==
  ASSUME StreamInv, RowEnds, Buffers, [Next]_vars, row.status \in Terminal
  PROVE  row'.text = row.text
<1>0. row \in RowRecord /\ row.status \notin Active /\ notice.state # "none"
  BY StatusesApart DEF StreamInv, RowPart, RowEnds
<1>1. CASE Announce \/ Acknowledge
  BY <1>0, <1>1 DEF Announce, Acknowledge, RowRecord
<1> QED
  BY <1>0, <1>1, RowTextMoves

LEMMA RowTracedStep ==
  ASSUME StreamInv, EndInv, Buffers, Waiting, Sequenced, RowTraced, [Next]_vars
  PROVE  RowTraced'
<1>0. /\ row \in RowRecord /\ notice \in NoticeRecord /\ RowEnds /\ Active \cap Terminal = {}
      /\ row.seq \in 0 .. Len(log) /\ notice.seq \in 0 .. Len(log) /\ sequence \in 0 .. Len(log)
  BY TextsKept, StatusesApart
     DEF StreamInv, RowPart, RowRecord, NoticeRecord, WriterPart, EndInv, RowEnds
<1>k. /\ \A n \in 0 .. Len(log) : Shown(n)' = Shown(n)
      /\ Len(log) \in Nat /\ Len(log') \in Nat
  BY TextsKept
<1>r. reply'.call = "create" /\ replays' = 0 => reply'.last = 0
  <2>1. replays \in Nat /\ replays' \in {replays, replays + 1}
    BY DEF StreamInv, StreamPart, Next, Trim, Expire, WriterStep, Claim, Flush, Save, StreamEnds,
           Usage, Finalize, Receive, ReceiveThrows, MonitorSettles, Announce, Acknowledge, Forget,
           CreateAgain, CallCancel, CancelRead, Answer, AnswerLost, PageLoop, SyncCursor, SyncRows, SyncStates,
           Deliver, History, Replay, LoopOnly, Break, vars, pageVars, storeVars
  <2>2. CASE UNCHANGED reply
    BY <2>1, <2>2 DEF RowTraced
  <2>3. CASE reply'.call # "create"
    BY <2>3
  <2>4. CASE CreateAgain
    BY <2>1, <2>4 DEF CreateAgain
  <2>5. UNCHANGED reply \/ reply'.call # "create" \/ CreateAgain
    BY DEF Next, Trim, Expire, WriterStep, Claim, Flush, Save, StreamEnds,
           Usage, Finalize, Receive, ReceiveThrows, MonitorSettles, Announce, Acknowledge, Forget,
           CallCancel, CancelRead, Answer, AnswerLost, PageLoop, SyncCursor, SyncRows, SyncStates,
           Deliver, History, Replay, LoopOnly, Break, vars, pageVars, storeVars, NoReply
  <2> QED
    BY <2>2, <2>3, <2>4, <2>5
<1>n. notice.state \in {"announced", "acknowledged"} => Shown(notice.seq) = notice.text /\ notice.seq > 0
  BY DEF RowTraced
<1>a. ASSUME row'.text = row.text, row'.seq = row.seq,
             row.status \in Terminal => row'.status \in Terminal
      PROVE  \/ row'.text = Shown(row.seq)'
             \/ row'.status \in Terminal /\ wpc' = "gone" /\ Silent(row.seq)'
  <2>1. CASE row.text = Shown(row.seq)
    BY <1>0, <1>k, <1>a, <2>1 DEF Shown
  <2>2. CASE row.status \in Terminal /\ wpc = "gone" /\ Silent(row.seq)
    <3>1. wpc' = "gone" /\ row'.status \in Terminal
      BY <1>a, <2>2, GoneStays
    <3>2. PICK n : n = row.seq
      OBVIOUS
    <3>3. Silent(n)'
      BY <1>0, <2>2, <3>2, GoneIsSilent
    <3> QED
      BY <1>a, <3>1, <3>2, <3>3 DEF Silent
  <2> QED
    BY <2>1, <2>2 DEF RowTraced
<1>1. CASE UNCHANGED <<row, notice>>
  <2>1. \/ row'.text = Shown(row.seq)'
        \/ row'.status \in Terminal /\ wpc' = "gone" /\ Silent(row.seq)'
    BY <1>1, <1>a
  <2>2. notice'.state \in {"announced", "acknowledged"} => Shown(notice.seq)' = notice'.text /\ notice'.seq > 0
    BY <1>0, <1>1, <1>k, <1>n DEF Shown
  <2> QED
    BY <1>r, <1>1, <2>1, <2>2 DEF RowTraced
<1>2. CASE row'.text = row.text /\ row'.seq = row.seq /\ UNCHANGED notice /\ row.status \in Active
  <2>1. \/ row'.text = Shown(row.seq)'
        \/ row'.status \in Terminal /\ wpc' = "gone" /\ Silent(row.seq)'
    BY <1>0, <1>2, <1>a
  <2>2. notice'.state = "none"
    BY <1>0, <1>2 DEF RowEnds
  <2> QED
    BY <1>r, <2>1, <2>2 DEF RowTraced
<1>3. CASE /\ wpc = "save" /\ row'.text = text /\ row'.seq = sequence /\ UNCHANGED notice
           /\ row.status \in Active
  <2>1. row'.text = Shown(row.seq)'
    BY <1>0, <1>3, <1>k DEF Sequenced, Shown
  <2>2. notice'.state = "none"
    BY <1>0, <1>3 DEF RowEnds
  <2> QED
    BY <1>r, <2>1, <2>2 DEF RowTraced
<1> DEFINE Ends ==
             /\ row.status \in Active /\ row'.status \in Terminal
             /\ notice'.state = "pending" /\ notice'.text = row'.text
             /\ \/ row'.text = row.text /\ row'.seq = row.seq
                \/ /\ row'.text = text /\ row'.seq = sequence /\ wpc' = "gone" /\ UNCHANGED log
                   /\ wpc \in {"queued", "finish"}
<1>4. CASE Ends
  <2>1. CASE row'.text = row.text /\ row'.seq = row.seq
    <3>1. \/ row'.text = Shown(row.seq)'
          \/ row'.status \in Terminal /\ wpc' = "gone" /\ Silent(row.seq)'
      BY <1>4, <1>a, <2>1
    <3> QED
      BY <1>r, <1>4, <3>1 DEF RowTraced
  <2>2. CASE /\ row'.text = text /\ row'.seq = sequence /\ wpc' = "gone" /\ UNCHANGED log
             /\ wpc \in {"queued", "finish"}
    <3>1. CASE wpc = "queued"
      <4>1. text = NoText /\ sequence = 0
        BY <3>1 DEF Buffers
      <4>2. row'.text = Shown(row.seq)'
        BY <2>2, <4>1 DEF Shown
      <4> QED
        BY <1>r, <1>4, <4>2 DEF RowTraced
    <3>2. CASE wpc = "finish"
      <4>1. Silent(sequence)
        BY <3>2 DEF Sequenced
      <4>2. Silent(row.seq)'
        BY <2>2, <4>1 DEF Silent
      <4> QED
        BY <1>r, <1>4, <2>2, <4>2 DEF RowTraced
    <3> QED
      BY <2>2, <3>1, <3>2
  <2> QED
    BY <1>4, <2>1, <2>2
<1>5. CASE Announce
  <2>1. UNCHANGED row /\ notice.state = "pending" /\ Publish(EndedEvent)
        /\ notice' = [notice EXCEPT !.state = "announced", !.seq = Len(log')]
    BY <1>5 DEF Announce
  <2>2. notice'.state = "announced" /\ notice'.text = notice.text /\ notice'.seq = Len(log')
    BY <1>0, <2>1 DEF NoticeRecord
  <2>3. notice'.seq > 0 /\ Shown(notice.seq)' = notice'.text /\ notice'.text = row'.text
    <3>1. Len(log') = Len(log) + 1 /\ Shown(Len(log))' = notice.text
      BY <2>1, EventKinds, PublishedLast
    <3>2. notice.text = row.text
      BY <2>1 DEF RowTraced
    <3> QED
      BY <1>k, <2>1, <2>2, <3>1, <3>2 DEF Shown
  <2>4. \/ row'.text = Shown(row.seq)'
        \/ row'.status \in Terminal /\ wpc' = "gone" /\ Silent(row.seq)'
    BY <1>a, <2>1
  <2> QED
    BY <1>r, <2>3, <2>4 DEF RowTraced
<1>6. CASE Acknowledge
  <2>1. /\ notice.state = "announced" /\ notice' = [notice EXCEPT !.state = "acknowledged"]
        /\ row' = [row EXCEPT !.seq = notice.seq] \/ UNCHANGED row
    BY <1>6 DEF Acknowledge
  <2>2. notice'.text = notice.text /\ notice'.seq = notice.seq /\ notice'.text = row'.text
        /\ row'.text = row.text /\ row'.status = row.status
    BY <1>0, <2>1 DEF NoticeRecord, RowRecord, RowTraced
  <2>3. notice'.seq > 0 /\ Shown(notice.seq)' = notice'.text
    BY <1>0, <1>k, <1>n, <2>1, <2>2 DEF Shown
  <2>4. \/ row'.text = Shown(row.seq)'
        \/ row'.status \in Terminal /\ wpc' = "gone" /\ Silent(row.seq)'
    <3>1. CASE UNCHANGED row
      BY <1>a, <3>1
    <3>2. CASE row' = [row EXCEPT !.seq = notice.seq]
      <4>1. row'.seq = notice'.seq
        BY <1>0, <2>2, <3>2 DEF RowRecord
      <4> QED
        BY <2>2, <2>3, <4>1 DEF Shown
    <3> QED
      BY <2>1, <3>1, <3>2
  <2> QED
    BY <1>r, <2>2, <2>3, <2>4 DEF RowTraced
<1>7. \/ UNCHANGED <<row, notice>>
      \/ row'.text = row.text /\ row'.seq = row.seq /\ UNCHANGED notice /\ row.status \in Active
      \/ /\ wpc = "save" /\ row'.text = text /\ row'.seq = sequence /\ UNCHANGED notice
         /\ row.status \in Active
      \/ Ends \/ Announce \/ Acknowledge
  BY <1>0, RowTextMoves
<1> HIDE DEF Ends
<1> QED
  BY <1>1, <1>2, <1>3, <1>4, <1>5, <1>6, <1>7

\* An entry of the page, or a row on its way there: a text that was shown and
\* every delta behind it, or the final text of the row, or the deltas behind
\* the answer of a repeated create call.
Traced(l) ==
    l.status # "absent" =>
      /\ l.last <= Len(log)
      /\ \/ \E n \in 0 .. l.last : l.text = Followed(Shown(n), n, l.last)
         \/ row.status \in Terminal /\ wpc = "gone" /\ l.text = row.text /\ Silent(l.last)
         \/ replays > 0 /\ \E n \in 0 .. l.last : l.text = Between(n, l.last)

LEMMA TracedKept ==
  ASSUME StreamInv, EndInv, Buffers, [Next]_vars, NEW l \in Entry, Traced(l)
  PROVE  Traced(l)'
<1> SUFFICES ASSUME l.status # "absent"
             PROVE  /\ l.last <= Len(log')
                    /\ \/ \E n \in 0 .. l.last : l.text = Followed(Shown(n), n, l.last)'
                       \/ row'.status \in Terminal /\ wpc' = "gone" /\ l.text = row'.text /\ Silent(l.last)'
                       \/ replays' > 0 /\ \E n \in 0 .. l.last : l.text = Between(n, l.last)'
  BY DEF Traced
<1>0. /\ RowEnds /\ l.last \in Nat /\ l.last <= Len(log) /\ Len(log) \in Nat /\ Len(log') \in Nat
      /\ Len(log) <= Len(log') /\ l.last <= Len(log')
  BY TextsKept DEF EndInv, Entry, Traced
<1>1. CASE \E n \in 0 .. l.last : l.text = Followed(Shown(n), n, l.last)
  <2>1. PICK n \in 0 .. l.last : l.text = Followed(Shown(n), n, l.last)
    BY <1>1
  <2>2. n \in 0 .. Len(log) /\ l.last \in 0 .. Len(log)
    BY <1>0
  <2>3. Shown(n)' = Shown(n) /\ Between(n, l.last)' = Between(n, l.last)
    BY <2>2, TextsKept
  <2>4. Followed(Shown(n), n, l.last)' = Followed(Shown(n), n, l.last)
    BY <2>3 DEF Followed
  <2> QED
    BY <1>0, <2>1, <2>4
<1>2. CASE row.status \in Terminal /\ wpc = "gone" /\ l.text = row.text /\ Silent(l.last)
  <2>1. row'.status \in Terminal /\ wpc' = "gone" /\ l.text = row'.text
    BY <1>0, <1>2, EndStays, EndedText, GoneStays
  <2>2. Silent(l.last)'
    BY <1>0, <1>2, GoneIsSilent
  <2> QED
    BY <1>0, <2>1, <2>2
<1>3. CASE replays > 0 /\ \E n \in 0 .. l.last : l.text = Between(n, l.last)
  <2>1. PICK n \in 0 .. l.last : l.text = Between(n, l.last)
    BY <1>3
  <2>2. n \in 0 .. Len(log) /\ l.last \in 0 .. Len(log)
    BY <1>0
  <2>3. Between(n, l.last)' = Between(n, l.last)
    BY <2>2, TextsKept
  <2>4. replays' > 0
    <3>1. replays \in Nat /\ replays' \in {replays, replays + 1}
      BY DEF StreamInv, StreamPart, Next, Trim, Expire, WriterStep, Claim, Flush, Save, StreamEnds,
             Usage, Finalize, Receive, ReceiveThrows, MonitorSettles, Announce, Acknowledge, Forget,
             CreateAgain, CallCancel, CancelRead, Answer, AnswerLost, PageLoop, SyncCursor, SyncRows,
             SyncStates, Deliver, History, Replay, LoopOnly, Break, vars, pageVars, storeVars
    <3> QED
      BY <1>3, <3>1
  <2> QED
    BY <1>0, <2>1, <2>3, <2>4
<1> QED
  BY <1>0, <1>1, <1>2, <1>3 DEF Traced

LEMMA FollowedByNothing ==
  ASSUME log \in Seq(Event), NEW t \in Texts, NEW n \in 0 .. Len(log)
  PROVE  Followed(t, n, n) = t /\ Between(n, n) = NoText
<1>1. n \in Nat /\ n <= n /\ n <= Len(log)
  OBVIOUS
<1>2. Between(n, n) = NoText
  BY <1>1, BetweenNone
<1>3. \A k \in Kinds : t[k] \o Between(n, n)[k] = t[k]
  <2> TAKE k \in Kinds
  <2>1. t[k] \in Seq(Nat) /\ <<>> \in Seq(Nat) /\ Between(n, n)[k] = <<>>
    BY <1>2 DEF Texts, NoText
  <2> QED
    BY <2>1, Joins
<1>4. Followed(t, n, n) = [k \in Kinds |-> t[k]]
  BY <1>3 DEF Followed
<1>5. t = [k \in Kinds |-> t[k]]
  BY DEF Texts
<1> QED
  BY <1>2, <1>4, <1>5

\* A text that was shown is traced where it was shown.
LEMMA ShownIsTraced ==
  ASSUME StreamInv, NEW l \in Entry, l.last <= Len(log), l.text = Shown(l.last)
  PROVE  Traced(l)
<1>1. l.last \in 0 .. Len(log) /\ l.text \in Texts /\ log \in Seq(Event) /\ l.last \in 0 .. l.last
  BY DEF StreamInv, StreamPart, Entry
<1>2. Followed(Shown(l.last), l.last, l.last) = l.text
  BY <1>1, FollowedByNothing
<1> QED
  BY <1>1, <1>2 DEF Traced

LEMMA RowIsTraced ==
  ASSUME StreamInv, EndInv, RowTraced
  PROVE  Traced(RowState) /\ (log # <<>> => Traced(KeyState))
<1>0. RowState \in Entry /\ (log # <<>> => KeyState \in Entry) /\ Len(log) \in Nat
  BY StatesTyped DEF StreamInv, StreamPart
<1>1. RowState.last = row.seq /\ RowState.text = row.text /\ row.seq <= Len(log)
  BY DEF RowState, EndInv, RowEnds
<1>2. Traced(RowState)
  <2>1. CASE row.text = Shown(row.seq)
    BY <1>0, <1>1, <2>1, ShownIsTraced
  <2>2. CASE row.status \in Terminal /\ wpc = "gone" /\ Silent(row.seq)
    BY <1>1, <2>2 DEF Traced
  <2> QED
    BY <2>1, <2>2 DEF RowTraced
<1>3. ASSUME log # <<>>
      PROVE  Traced(KeyState)
  <2>1. KeyState.last = Len(log) /\ KeyState.text = Shown(Len(log))
    BY DEF KeyState
  <2> QED
    BY <1>0, <1>3, <2>1, ShownIsTraced
<1> QED
  BY <1>2, <1>3

LEMMA AppliedTraced ==
  ASSUME StreamInv, NEW l \in Entry, l.status # "absent", Traced(l), NEW n \in 1 .. Len(log),
         n = l.last + 1
  PROVE  Traced(Applied(l, n))
<1> DEFINE m == l.last
           t == Applied(l, n).text
<1>0. /\ log \in Seq(Event) /\ m \in Nat /\ n \in Nat /\ n = m + 1 /\ Len(log) \in Nat
      /\ n <= Len(log) /\ m <= Len(log) /\ l.text \in Texts /\ log[n] \in Event
  BY LogEntries DEF StreamInv, StreamPart, Entry
<1>1. Applied(l, n).last = n /\ t = [k \in Kinds |-> l.text[k] \o Delta(log, n, k)]
  <2>1. ASSUME NEW k \in Kinds
        PROVE  (IF log[n].kind = k THEN l.text[k] \o log[n].delta ELSE l.text[k])
                 = l.text[k] \o Delta(log, n, k)
    <3>1. l.text[k] \in Seq(Nat) /\ l.text[k] \o <<>> = l.text[k]
      BY <1>0, Joins DEF Texts
    <3> QED
      BY <3>1 DEF Delta
  <2> QED
    BY <2>1 DEF Applied
<1> HIDE DEF t, m
<1>2. ASSUME NEW i \in 0 .. m, NEW k \in Kinds
      PROVE  /\ Between(i, n)[k] = Between(i, m)[k] \o Delta(log, n, k)
             /\ Between(i, m)[k] \in Seq(Nat) /\ Delta(log, n, k) \in Seq(Nat)
  <2>1. i \in Nat /\ i <= m /\ m + 1 <= Len(log)
    BY <1>0
  <2>2. Between(i, m + 1)[k] = Between(i, m)[k] \o Delta(log, m + 1, k)
    BY <1>0, <2>1, BetweenNext
  <2>3. Between(i, m) \in Texts
    BY <1>0, <2>1, BetweenTyped
  <2> QED
    BY <1>0, <2>2, <2>3, DeltaTyped DEF Texts
<1>3. ASSUME NEW i \in 0 .. m, l.text = Followed(Shown(i), i, m)
      PROVE  t = Followed(Shown(i), i, n)
  <2>1. ASSUME NEW k \in Kinds
        PROVE  l.text[k] \o Delta(log, n, k) = Shown(i)[k] \o Between(i, n)[k]
    <3>1. l.text[k] = Shown(i)[k] \o Between(i, m)[k]
      BY <1>3 DEF Followed
    <3>2. Shown(i)[k] \in Seq(Nat)
      <4>1. CASE i = 0
        BY <4>1 DEF Shown, NoText
      <4>2. CASE i # 0
        <5>1. log[i] \in Event
          BY <1>0, <4>2
        <5> QED
          BY <4>2, <5>1 DEF Shown, Event, Texts
      <4> QED
        BY <4>1, <4>2
    <3> DEFINE a == Shown(i)[k]
               b == Between(i, m)[k]
               d == Delta(log, n, k)
    <3>3. a \in Seq(Nat) /\ b \in Seq(Nat) /\ d \in Seq(Nat) /\ Between(i, n)[k] = b \o d
      BY <1>2, <3>2
    <3>4. l.text[k] \o d = (a \o b) \o d
      BY <3>1
    <3> HIDE DEF a, b, d
    <3>5. (a \o b) \o d = a \o (b \o d)
      BY <3>3, Joined
    <3>6. l.text[k] \o d = a \o Between(i, n)[k]
      BY <3>3, <3>4, <3>5
    <3> QED
      BY <3>6 DEF a, d
  <2> QED
    BY <1>1, <2>1 DEF Followed
<1>4. ASSUME NEW i \in 0 .. m, l.text = Between(i, m)
      PROVE  t = Between(i, n)
  <2>1. Between(i, n) \in Texts
    BY <1>0, BetweenTyped
  <2>2. Between(i, n) = [k \in Kinds |-> Between(i, n)[k]]
    BY <2>1 DEF Texts
  <2>3. \A k \in Kinds : Between(i, n)[k] = l.text[k] \o Delta(log, n, k)
    BY <1>2, <1>4
  <2> QED
    BY <1>1, <2>2, <2>3
<1>5. ASSUME Silent(m), l.text = row.text
      PROVE  t = row.text /\ Silent(n)
  <2>1. log[n].kind = NoKind
    BY <1>0, <1>5 DEF Silent
  <2>2. \A k \in Kinds : l.text[k] \o Delta(log, n, k) = l.text[k]
    <3> TAKE k \in Kinds
    <3>1. l.text[k] \in Seq(Nat) /\ k # NoKind
      BY <1>0 DEF Texts
    <3> QED
      BY <2>1, <3>1, Joins DEF Delta
  <2>3. l.text = [k \in Kinds |-> l.text[k]]
    BY <1>0 DEF Texts
  <2>4. Silent(n)
    BY <1>0, <1>5 DEF Silent
  <2> QED
    BY <1>1, <1>5, <2>2, <2>3, <2>4
<1>6. /\ m <= Len(log)
      /\ \/ \E i \in 0 .. m : l.text = Followed(Shown(i), i, m)
         \/ row.status \in Terminal /\ wpc = "gone" /\ l.text = row.text /\ Silent(m)
         \/ replays > 0 /\ \E i \in 0 .. m : l.text = Between(i, m)
  BY DEF Traced, m
<1>7. \/ \E i \in 0 .. n : t = Followed(Shown(i), i, n)
      \/ row.status \in Terminal /\ wpc = "gone" /\ t = row.text /\ Silent(n)
      \/ replays > 0 /\ \E i \in 0 .. n : t = Between(i, n)
  <2>1. \A i \in 0 .. m : i \in 0 .. n
    BY <1>0
  <2> QED
    BY <1>3, <1>4, <1>5, <1>6, <2>1
<1> QED
  BY <1>0, <1>1, <1>7 DEF Traced, t

LEMMA ReduceTraced ==
  ASSUME StreamInv, NEW l \in Entry, Traced(l), NEW n \in 1 .. Len(log)
  PROVE  Traced(Reduce(l, n))
<1> DEFINE base == IF l.status = "absent" THEN Fresh ELSE l
<1>0. log \in Seq(Event) /\ Len(log) \in Nat /\ 0 \in 0 .. Len(log)
  BY DEF StreamInv, StreamPart
<1>1. base \in Entry /\ base.status # "absent"
  BY KindsOfDelta DEF Fresh
<1>2. Traced(base)
  <2>1. Fresh \in Entry /\ Fresh.last = 0 /\ Fresh.text = NoText
    BY KindsOfDelta DEF Fresh
  <2>2. Traced(Fresh)
    BY <1>0, <2>1, ShownIsTraced DEF Shown
  <2> QED
    BY <2>2
<1>3. Reduce(l, n) = CASE n <= base.last -> base
                       [] n > base.last + 1 -> [base EXCEPT !.gap = TRUE]
                       [] n = base.last + 1 -> Applied(base, n)
  BY DEF Reduce
<1> HIDE DEF base
<1>4. base.last \in Nat /\ n \in Nat
  BY <1>0, <1>1 DEF Entry
<1>5. CASE n <= base.last
  BY <1>2, <1>3, <1>4, <1>5
<1>6. CASE n > base.last + 1
  <2>1. Reduce(l, n) = [base EXCEPT !.gap = TRUE]
    BY <1>3, <1>4, <1>6
  <2>2. /\ Reduce(l, n).status = base.status /\ Reduce(l, n).text = base.text
        /\ Reduce(l, n).last = base.last
    BY <1>1, <2>1 DEF Entry
  <2> QED
    BY <1>2, <2>2 DEF Traced
<1>7. CASE n = base.last + 1
  <2>1. Reduce(l, n) = Applied(base, n)
    BY <1>3, <1>4, <1>7
  <2> QED
    BY <1>1, <1>2, <1>7, <2>1, AppliedTraced
<1> QED
  BY <1>4, <1>5, <1>6, <1>7

\* Whatever the page makes its entry is traced; and it moves the entry only
\* when nobody else moves.
LEMMA EntryTraced ==
  ASSUME StreamInv, EndInv, RowTraced, Traced(local), Traced(seen.row), [Next]_vars
  PROVE  UNCHANGED local \/ (Traced(local') /\ UNCHANGED <<log, row, wpc, replays>>)
<1>0. /\ local \in Entry /\ reply \in Replies /\ seen \in SeenRecord /\ Len(log) \in Nat
      /\ log \in Seq(Event)
  BY DEF StreamInv, StorePart, LoopPart, StreamPart
<1>r. ASSUME NEW l, NEW s, Traced(l), Traced(s)
      PROVE  Traced(Registered(l, s)) /\ Traced(Replaced(l, s))
  BY <1>r DEF Registered, Replaced
<1>l. LoopOnly => UNCHANGED <<log, row, wpc, replays>>
  BY DEF LoopOnly, streamVars, rowVars, writerVars
<1>1. CASE Forget
  BY <1>1 DEF Forget, Traced, Absent, rowVars, streamVars, writerVars
<1>2. CASE Answer
  <2>0. PICK s : s = [status |-> reply.status, text |-> NoText, last |-> reply.last, gap |-> FALSE]
    OBVIOUS
  <2>1. UNCHANGED <<log, row, wpc, replays>>
    BY <1>2 DEF Answer, rowVars, streamVars, writerVars
  <2>2. CASE reply.call = "create"
    <3>1. local' = Registered(local, s)
      BY <1>2, <2>0, <2>2 DEF Answer
    <3>2. /\ s \in Entry /\ s.last = reply.last /\ s.text = NoText
          /\ s.last \in 0 .. Len(log) /\ s.last \in 0 .. s.last
      BY <1>0, <2>0, KindsOfDelta DEF Entry, Replies, EndInv, ReadsAreOld
    <3>3. ASSUME reply.last = 0 PROVE Traced(s)
      <4>1. s.text = Shown(s.last) /\ s.last <= Len(log)
        BY <1>0, <3>2, <3>3 DEF Shown
      <4> QED
        BY <3>2, <4>1, ShownIsTraced
    <3>4. ASSUME reply.last # 0 PROVE Traced(s)
      <4>1. replays > 0
        BY <2>2, <3>4 DEF RowTraced, StreamInv, StreamPart
      <4>2. s.text = Between(s.last, s.last)
        BY <1>0, <3>2, KindsOfDelta, FollowedByNothing
      <4> QED
        BY <1>0, <3>2, <4>1, <4>2 DEF Traced
    <3>5. Traced(s)
      BY <3>3, <3>4
    <3> QED
      BY <1>r, <2>1, <3>1, <3>5
  <2>3. CASE reply.call # "create"
    <3>1. \/ UNCHANGED local
          \/ local' = [local EXCEPT !.status = reply.status] /\ local.status # "absent"
      BY <1>2, <2>3 DEF Answer
    <3>2. /\ [local EXCEPT !.status = reply.status].last = local.last
          /\ [local EXCEPT !.status = reply.status].text = local.text
      BY <1>0 DEF Entry
    <3> QED
      BY <2>1, <3>1, <3>2 DEF Traced
  <2> QED
    BY <2>2, <2>3
<1>3. CASE SyncStates
  <2> DEFINE state == IF log = <<>> \/ expired THEN seen.row ELSE KeyState
             active == IF seen.row.status \in Active THEN Registered(local, state) ELSE local
  <2>1. Traced(state)
    BY <1>0, RowIsTraced
  <2>2. local' = IF seen.known THEN Replaced(active, seen.row) ELSE active
    BY <1>3 DEF SyncStates
  <2> HIDE DEF state
  <2>3. Traced(active)
    BY <1>0, <1>r, <2>1
  <2> HIDE DEF active
  <2>4. LoopOnly
    BY <1>3 DEF SyncStates
  <2> QED
    BY <1>0, <1>l, <1>r, <2>2, <2>3, <2>4
<1>4. CASE Deliver
  <2>1. Following \in 1 .. Len(log) /\ local' = Reduce(local, Following) /\ LoopOnly
    BY <1>0, <1>4, FollowingTyped DEF Deliver
  <2> QED
    BY <1>0, <1>l, <2>1, ReduceTraced
<1>5. CASE History
  <2>1. UNCHANGED local \/ local' = Replaced(local, IF expired THEN RowState ELSE KeyState)
    BY <1>5 DEF History
  <2>2. Traced(IF expired THEN RowState ELSE KeyState)
    BY <1>5, RowIsTraced DEF StreamInv, CallsReadEvents, History
  <2>3. LoopOnly
    BY <1>5 DEF History
  <2> QED
    BY <1>0, <1>l, <1>r, <2>1, <2>2, <2>3
<1>6. CASE Replay
  <2>1. LoopOnly
    BY <1>6 DEF Replay
  <2>2. CASE seen.from < seen.upto /\ local' = Reduce(local, seen.from + 1)
    <3>1. seen.from \in Nat /\ seen.upto \in Nat
      BY <1>0 DEF SeenRecord
    <3>2. seen.from + 1 \in 1 .. Len(log)
      BY <1>0, <1>6, <2>2, <3>1 DEF StreamInv, CallsReadEvents, Replay
    <3> QED
      BY <1>0, <1>l, <2>1, <2>2, <3>2, ReduceTraced
  <2> QED
    BY <1>6, <2>2 DEF Replay
<1>7. CASE CreateAgain \/ CallCancel \/ CancelRead \/ AnswerLost \/ SyncCursor \/ SyncRows \/ Break
  BY <1>7 DEF CreateAgain, CallCancel, CancelRead, AnswerLost, SyncCursor, SyncRows, Break, storeVars
<1>8. CASE \/ Trim \/ Expire \/ WriterStep \/ MonitorSettles \/ Announce \/ Acknowledge
           \/ UNCHANGED vars
  BY <1>8 DEF Trim, Expire, WriterStep, Claim, Flush, Save, StreamEnds, Usage, Finalize,
              Receive, ReceiveThrows, MonitorSettles, Announce, Acknowledge, vars,
              pageVars, storeVars
<1> QED
  BY <1>1, <1>2, <1>3, <1>4, <1>5, <1>6, <1>7, <1>8 DEF Next, PageLoop

\* The page's entry and the row it has read, with all they rest on.
TraceInv ==
    Buffers /\ Waiting /\ Sequenced /\ RowTraced /\ Traced(local) /\ Traced(seen.row)

LEMMA InitTrace == Init => TraceInv
<1> SUFFICES ASSUME Init
             PROVE  TraceInv
  OBVIOUS
<1>1. /\ log = <<>> /\ DOMAIN log = {} /\ wpc = "queued" /\ after = "start" /\ sequence = 0
      /\ text = NoText /\ bufferedType = NoKind /\ bufferedDelta = <<>> /\ arriving = NoKind
      /\ row.status = "QUEUED" /\ row.text = NoText /\ row.seq = 0 /\ notice.state = "none"
      /\ reply.last = 0 /\ local.status = "absent" /\ seen.row.status = "absent"
  BY DEF Init, NoNotice, Absent, NothingSeen
<1>2. Buffers /\ Waiting /\ Sequenced
  BY <1>1 DEF Buffers, Waiting, Sequenced
<1>3. RowTraced
  BY <1>1 DEF RowTraced, Shown
<1>4. Traced(local) /\ Traced(seen.row)
  BY <1>1 DEF Traced
<1> QED
  BY <1>2, <1>3, <1>4 DEF TraceInv

LEMMA TraceStep ==
  ASSUME StreamInv, EndInv, TraceInv, [Next]_vars
  PROVE  TraceInv'
<1>0. /\ RowEnds /\ Buffers /\ Waiting /\ Sequenced /\ RowTraced /\ Traced(local)
      /\ Traced(seen.row) /\ local \in Entry /\ seen.row \in Entry
  BY DEF EndInv, TraceInv, StreamInv, StorePart, LoopPart, SeenRecord
<1>1. Buffers' /\ Waiting' /\ Sequenced' /\ RowTraced'
  BY <1>0, BuffersStep, WaitingStep, SequencedStep, RowTracedStep
<1>2. Traced(local)'
  <2>1. CASE UNCHANGED local
    <3>1. PICK l \in Entry : l = local
      BY <1>0
    <3>2. Traced(l)'
      BY <1>0, <3>1, TracedKept
    <3> QED
      BY <2>1, <3>1, <3>2
  <2>2. CASE Traced(local') /\ UNCHANGED <<log, row, wpc, replays>>
    <3>1. PICK l \in Entry : l = local'
      BY EntryKept DEF Entries
    <3>2. Traced(l)'
      BY <1>0, <2>2, <3>1, TracedKept
    <3> QED
      BY <3>1, <3>2 DEF Traced
  <2> QED
    BY <1>0, <2>1, <2>2, EntryTraced
<1>3. Traced(seen.row)'
  <2>1. CASE seen'.row = seen.row
    <3>1. PICK l \in Entry : l = seen.row
      BY <1>0
    <3>2. Traced(l)'
      BY <1>0, <3>1, TracedKept
    <3> QED
      BY <2>1, <3>1, <3>2
  <2>2. CASE seen'.row = Absent
    BY <2>2 DEF Traced, Absent
  <2>3. CASE seen'.row = RowState /\ UNCHANGED <<row, log>>
    <3>1. PICK l \in Entry : l = RowState
      BY StatesTyped DEF StreamInv
    <3>2. Traced(l)
      BY <1>0, <3>1, RowIsTraced
    <3>3. Traced(l)'
      BY <1>0, <3>2, TracedKept
    <3> QED
      BY <2>3, <3>1, <3>3
  <2> QED
    BY <1>0, <2>1, <2>2, <2>3, ReadFrame
<1> QED
  BY <1>1, <1>2, <1>3 DEF TraceInv

LEMMA TraceInvHolds == Spec => [](StreamInv /\ EndInv /\ TraceInv)
<1>1. StreamInv /\ EndInv /\ TraceInv /\ [Next]_vars => TraceInv'
  BY TraceStep
<1> QED
  BY <1>1, InitTrace, EndInvHolds, PTL DEF Spec

----------------------------------------------------------------------------
(* What the worker has told, and what it has still to tell                 *)

Running == wpc \in {"publish", "save", "stream", "finish"}
Buffered(k) == IF bufferedType = k THEN bufferedDelta ELSE <<>>
\* At a checkpoint the buffer is published already.
Unsent(k) == IF wpc = "save" THEN <<>> ELSE Buffered(k)
Arriving(k) == IF arriving = k THEN <<DeltaCount>> ELSE <<>>

\* Until something fails the worker's text is what was told, what is in the
\* buffer, and the delta of the other kind that waits for the buffer.
Exact ==
    Running /\ (after # "rescue" \/ faults = 0) =>
        /\ after = "switch" \/ arriving = NoKind
        /\ \A k \in Kinds : text[k] = (AllTold[k] \o Unsent(k)) \o Arriving(k)

\* Whatever fails, nothing is told and nothing buffered that is not in it.
Within ==
    Running =>
        \A k \in Kinds : Elems(AllTold[k]) \subseteq Elems(text[k])
                         /\ Elems(Buffered(k)) \subseteq Elems(text[k])

LEMMA ToldTypedNext ==
  ASSUME log' \in Seq(Event)
  PROVE  AllTold' \in Texts
<1>1. PICK m \in Nat : m = Len(log')
  OBVIOUS
<1>2. PICK f \in [0 .. m -> Texts] : Between(0, m)' = f[m]
  BY <1>1, BetweenIsNext
<1>3. AllTold' = f[m]
  BY <1>1, <1>2 DEF AllTold, Told
<1> QED
  BY <1>3

LEMMA ToldValues ==
  ASSUME StreamInv, NEW k \in Kinds
  PROVE  /\ AllTold \in Texts /\ AllTold[k] \in Seq(Nat) /\ text[k] \in Seq(Nat)
         /\ Buffered(k) \in Seq(Nat) /\ Unsent(k) \in Seq(Nat) /\ Arriving(k) \in Seq(Nat)
         /\ <<>> \in Seq(Nat)
<1>1. AllTold \in Texts
  <2>1. log \in Seq(Event) /\ 0 \in 0 .. Len(log)
    BY DEF StreamInv, StreamPart
  <2> QED
    BY <2>1, ToldTyped
<1>2. <<DeltaCount>> \in Seq(Nat) /\ <<>> \in Seq(Nat)
  BY WriterValues
<1>3. Buffered(k) \in Seq(Nat) /\ Unsent(k) \in Seq(Nat) /\ Arriving(k) \in Seq(Nat)
  BY <1>2, WriterValues DEF Buffered, Unsent, Arriving
<1>4. AllTold[k] \in Seq(Nat) /\ text[k] \in Seq(Nat)
  BY <1>1, WriterValues DEF Texts
<1> QED
  BY <1>1, <1>2, <1>3, <1>4

LEMMA ToldStays ==
  ASSUME StreamInv, [Next]_vars, NEW k \in Kinds,
         \/ UNCHANGED log
         \/ \E e \in Event : log' = Append(log, e) /\ e.kind = NoKind
  PROVE  AllTold'[k] = AllTold[k]
<1>0. log \in Seq(Event) /\ AllTold[k] \in Seq(Nat)
  BY ToldValues DEF StreamInv, StreamPart
<1>1. CASE UNCHANGED log
  <2>1. PICK l \in Nat : l = Len(log)
    BY <1>0
  <2>2. l \in 0 .. Len(log) /\ 0 \in 0 .. Len(log)
    BY <2>1
  <2>3. Between(0, l)' = Between(0, l)
    BY <2>2, TextsKept
  <2>4. AllTold' = AllTold
    BY <1>1, <2>1, <2>3 DEF AllTold, Told
  <2> QED
    BY <2>4
<1>2. ASSUME NEW e \in Event, log' = Append(log, e), e.kind = NoKind
      PROVE  AllTold'[k] = AllTold[k]
  <2>1. AllTold'[k] = AllTold[k] \o Piece(e, k)
    BY <1>0, <1>2, ToldGrows
  <2>2. Piece(e, k) = <<>>
    BY <1>2 DEF Piece
  <2> QED
    BY <1>0, <2>1, <2>2, Joins
<1> QED
  BY <1>1, <1>2

\* Publishing the buffer tells what is in it; the start has nothing in it.
LEMMA FlushTells ==
  ASSUME StreamInv, Buffers, NEW k \in Kinds,
         wpc = "publish",
         Publish(IF after = "start" THEN StartedEvent ELSE DeltaEvent)
  PROVE  AllTold'[k] = AllTold[k] \o Buffered(k)
<1>0. log \in Seq(Event)
  BY DEF StreamInv, StreamPart
<1>1. CASE after = "start"
  <2>1. log' = Append(log, StartedEvent) /\ StartedEvent \in Event /\ StartedEvent.kind = NoKind
    BY <1>1, EventKinds DEF Publish
  <2>2. AllTold'[k] = AllTold[k] \o Piece(StartedEvent, k)
    BY <1>0, <2>1, ToldGrows
  <2>3. Piece(StartedEvent, k) = <<>> /\ Buffered(k) = <<>>
    BY <1>1, <2>1 DEF Piece, Buffered, Buffers
  <2> QED
    BY <2>2, <2>3
<1>2. CASE after # "start"
  <2>1. /\ log' = Append(log, DeltaEvent) /\ DeltaEvent \in Event
        /\ DeltaEvent.kind = bufferedType /\ DeltaEvent.delta = bufferedDelta
    BY <1>2, EventKinds DEF Publish
  <2>2. AllTold'[k] = AllTold[k] \o Piece(DeltaEvent, k)
    BY <1>0, <2>1, ToldGrows
  <2>3. Piece(DeltaEvent, k) = Buffered(k)
    BY <2>1 DEF Piece, Buffered
  <2> QED
    BY <2>2, <2>3
<1> QED
  BY <1>1, <1>2

LEMMA FaultsGrow ==
  ASSUME StreamInv, [Next]_vars
  PROVE  /\ faults' = 0 => faults = 0
         /\ Fault => faults' # 0
<1>1. faults \in Nat /\ faults' \in {faults, faults + 1}
  BY DEF StreamInv, StreamPart, Next, Trim, Expire, WriterStep, Claim, Flush, Save, StreamEnds, Usage, Finalize,
         Receive, ReceiveThrows, MonitorSettles, Announce, Acknowledge, Forget, CreateAgain,
         CallCancel, CancelRead, Answer, AnswerLost, PageLoop, SyncCursor, SyncRows, SyncStates, Deliver,
         History, Replay, LoopOnly, Break, Fault, PublishThrows, vars
<1> QED
  BY <1>1 DEF Fault

\* After a flush: the buffer is empty or holds the delta that waited.
LEMMA FlushedExact ==
  ASSUME StreamInv, Buffers, wpc \in {"publish", "save"}, Flushed, UNCHANGED text,
         after = "switch" \/ arriving = NoKind,
         \A k \in Kinds : AllTold'[k] \in Seq(Nat) /\ text[k] = AllTold'[k] \o Arriving(k)
  PROVE  Exact'
<1>1. wpc' # "save" /\ arriving' = NoKind
  BY DEF Flushed
<1>2. ASSUME NEW k \in Kinds
      PROVE  text'[k] = (AllTold'[k] \o Unsent(k)') \o Arriving(k)'
  <2>1. Arriving(k)' = <<>>
    BY <1>1 DEF Arriving
  <2>2. Unsent(k)' = Arriving(k)
    <3>1. CASE after = "switch"
      BY <1>1, <3>1 DEF Flushed, Unsent, Buffered, Arriving
    <3>2. CASE after # "switch"
      BY <1>1, <3>2 DEF Flushed, Unsent, Buffered, Arriving
    <3> QED
      BY <3>1, <3>2
  <2>3. AllTold'[k] \in Seq(Nat) /\ Arriving(k) \in Seq(Nat)
    BY ToldValues
  <2>4. AllTold'[k] \o Arriving(k) \in Seq(Nat)
    BY <2>3, Joins
  <2>5. (AllTold'[k] \o Arriving(k)) \o <<>> = AllTold'[k] \o Arriving(k)
    BY <2>4, Joins
  <2> QED
    BY <2>1, <2>2, <2>5
<1> QED
  BY <1>1, <1>2 DEF Exact

LEMMA CountGrows ==
  ASSUME StreamInv, NEW k \in Kinds, text' = [text EXCEPT ![k] = Append(@, DeltaCount + 1)]
  PROVE  /\ DeltaCount' = DeltaCount + 1
         /\ text'[k] = text[k] \o <<DeltaCount + 1>>
         /\ \A j \in Kinds \ {k} : text'[j] = text[j]
<1>0. /\ text \in Texts /\ DeltaCount + 1 \in Nat
      /\ text[Content] \in Seq(Nat) /\ text[Reasoning] \in Seq(Nat)
  BY WriterValues, KindsOfDelta DEF Texts
<1>1. text'[k] = Append(text[k], DeltaCount + 1) /\ \A j \in Kinds \ {k} : text'[j] = text[j]
  BY <1>0 DEF Texts
<1>2. text[k] \in Seq(Nat)
  BY <1>0 DEF Texts
<1>3. Len(text'[k]) = Len(text[k]) + 1
  BY <1>0, <1>1, <1>2
<1>4. DeltaCount' = DeltaCount + 1
  <2>1. Kinds = {Content, Reasoning} /\ Content # Reasoning
    BY DEF Kinds
  <2>2. /\ DeltaCount = Len(text[Content]) + Len(text[Reasoning])
        /\ DeltaCount' = Len(text'[Content]) + Len(text'[Reasoning])
        /\ Len(text[Content]) \in Nat /\ Len(text[Reasoning]) \in Nat
    BY <1>0 DEF DeltaCount, Length
  <2>3. /\ Len(text'[k]) = Len(text[k]) + 1
        /\ \A j \in Kinds \ {k} : Len(text'[j]) = Len(text[j])
    BY <1>1, <1>3
  <2>4. \/ /\ Len(text'[Content]) = Len(text[Content]) + 1
           /\ Len(text'[Reasoning]) = Len(text[Reasoning])
        \/ /\ Len(text'[Content]) = Len(text[Content])
           /\ Len(text'[Reasoning]) = Len(text[Reasoning]) + 1
    BY <2>1, <2>3
  <2>5. PICK a \in Nat, b \in Nat : a = Len(text[Content]) /\ b = Len(text[Reasoning])
    BY <2>2
  <2>6. DeltaCount = a + b
    BY <2>2, <2>5
  <2>7. DeltaCount' = (a + 1) + b \/ DeltaCount' = a + (b + 1)
    BY <2>2, <2>4, <2>5
  <2>8. (a + 1) + b = (a + b) + 1 /\ a + (b + 1) = (a + b) + 1
    OBVIOUS
  <2>9. DeltaCount' = (a + b) + 1
    BY <2>7, <2>8
  <2> QED
    BY <2>6, <2>9
<1> QED
  BY <1>0, <1>1, <1>2, <1>4, Appended

LEMMA ExactStep ==
  ASSUME StreamInv, RowEnds, Buffers, Waiting, Exact, [Next]_vars
  PROVE  Exact'
<1>0. /\ log \in Seq(Event) /\ log' \in Seq(Event) /\ AllTold' \in Texts /\ NoKind \notin Kinds
      /\ \A k \in Kinds : AllTold'[k] \in Seq(Nat)
  BY TextsKept, ToldTypedNext, WriterValues DEF Texts
<1>v. ASSUME NEW k \in Kinds
      PROVE  /\ AllTold[k] \in Seq(Nat) /\ text[k] \in Seq(Nat) /\ Buffered(k) \in Seq(Nat)
             /\ Unsent(k) \in Seq(Nat) /\ Arriving(k) \in Seq(Nat) /\ <<>> \in Seq(Nat)
             /\ AllTold[k] \o <<>> = AllTold[k] /\ text[k] \o <<>> = text[k]
             /\ AllTold[k] \o Unsent(k) \in Seq(Nat)
  BY ToldValues, Joins
<1>f. faults' = 0 => faults = 0
  BY FaultsGrow
<1>x. ASSUME wpc' = "gone" \/ (after' = "rescue" /\ Fault)
      PROVE  Exact'
  BY <1>x, FaultsGrow DEF Exact, Running
<1>s. ASSUME Running, UNCHANGED <<text, bufferVars>>, after' \in {after, "last", "usage", "rescue"},
             after # "switch", after # "rescue" \/ faults = 0, (wpc = "save") <=> (wpc' = "save"),
             \A k \in Kinds : AllTold'[k] = AllTold[k]
      PROVE  Exact'
  <2>1. \A k \in Kinds : /\ Unsent(k)' = Unsent(k) /\ Arriving(k)' = Arriving(k)
                         /\ text'[k] = text[k]
    BY <1>s DEF bufferVars, Unsent, Buffered, Arriving, DeltaCount, Length
  <2>2. arriving' = NoKind /\ \A k \in Kinds : text[k] = (AllTold[k] \o Unsent(k)) \o Arriving(k)
    BY <1>s DEF Exact, bufferVars
  <2>3. \A k \in Kinds : text'[k] = (AllTold'[k] \o Unsent(k)') \o Arriving(k)'
    BY <1>s, <2>1, <2>2
  <2> QED
    BY <2>2, <2>3 DEF Exact
<1>1. CASE Claim
  <2>1. CASE wpc' = "publish" /\ UNCHANGED <<text, sequence, bufferVars, after>>
    <3>1. /\ wpc = "queued" /\ after = "start" /\ log = <<>> /\ UNCHANGED log /\ text = NoText
          /\ bufferedType' = NoKind /\ arriving' = NoKind /\ text' = NoText
      BY <1>1, <2>1 DEF Claim, Waiting, Buffers, streamVars, bufferVars
    <3>2. ASSUME NEW k \in Kinds
          PROVE  text'[k] = (AllTold'[k] \o Unsent(k)') \o Arriving(k)'
      <4>1. AllTold'[k] = AllTold[k]
        BY <3>1, ToldStays
      <4>2. AllTold = NoText
        <5>1. Len(log) = 0 /\ 0 \in Nat
          BY <3>1
        <5> QED
          BY <1>0, <5>1, BetweenNone DEF AllTold, Told
      <4>3. Unsent(k)' = <<>> /\ Arriving(k)' = <<>> /\ NoText[k] = <<>>
        BY <1>0, <3>1 DEF Unsent, Buffered, Arriving, NoText
      <4> QED
        BY <1>v, <3>1, <4>1, <4>2, <4>3, Joins
    <3> QED
      BY <3>1, <3>2 DEF Exact
  <2> QED
    BY <1>1, <1>x, <2>1 DEF Claim, Leave
<1>2. ASSUME NEW k \in Kinds, Receive(k)
      PROVE  Exact'
  <2>0. /\ wpc = "stream" /\ after = "stream" /\ arriving = NoKind /\ wpc' # "save"
        /\ text' = [text EXCEPT ![k] = Append(@, DeltaCount + 1)] /\ UNCHANGED log
    BY <1>2 DEF Receive, Buffers, streamVars
  <2>1. /\ DeltaCount' = DeltaCount + 1 /\ text'[k] = text[k] \o <<DeltaCount + 1>>
        /\ \A j \in Kinds \ {k} : text'[j] = text[j]
    BY <2>0, CountGrows
  <2>2. ASSUME NEW j \in Kinds
        PROVE  text[j] = AllTold[j] \o Buffered(j) /\ AllTold'[j] = AllTold[j]
    <3>1. Unsent(j) = Buffered(j) /\ Arriving(j) = <<>>
      BY <1>0, <2>0 DEF Unsent, Arriving
    <3>2. text[j] = (AllTold[j] \o Unsent(j)) \o Arriving(j)
      BY <2>0 DEF Exact, Running
    <3>3. AllTold'[j] = AllTold[j]
      BY <2>0, ToldStays
    <3> QED
      BY <1>v, <3>1, <3>2, <3>3, Joins
  <2>3. CASE bufferedType \in {NoKind, k}
    <3>1. /\ bufferedType' = k /\ bufferedDelta' = Append(bufferedDelta, DeltaCount + 1)
          /\ arriving' = NoKind
      BY <1>2, <2>0, <2>3 DEF Receive
    <3>2. ASSUME NEW j \in Kinds \ {k}
          PROVE  text'[j] = (AllTold'[j] \o Unsent(j)') \o Arriving(j)'
      <4>1. Buffered(j) = <<>> /\ Unsent(j)' = <<>> /\ Arriving(j)' = <<>>
        BY <1>0, <2>0, <2>3, <3>1 DEF Buffered, Unsent, Arriving
      <4> QED
        BY <1>v, <2>1, <2>2, <4>1, Joins
    <3>3. text'[k] = (AllTold'[k] \o Unsent(k)') \o Arriving(k)'
      <4> DEFINE d == <<DeltaCount + 1>>
      <4>1. Buffered(k) = bufferedDelta
        BY <1>0, <2>3 DEF Buffered, Buffers
      <4>2. d \in Seq(Nat) /\ bufferedDelta \in Seq(Nat)
        BY WriterValues
      <4>3. Unsent(k)' = bufferedDelta \o d /\ Arriving(k)' = <<>>
        <5>1. bufferedDelta' = bufferedDelta \o d
          BY <3>1, WriterValues, Appended
        <5> QED
          BY <1>0, <2>0, <3>1, <5>1 DEF Unsent, Buffered, Arriving
      <4>4. text'[k] = (AllTold[k] \o bufferedDelta) \o d
        BY <2>1, <2>2, <4>1
      <4>a. PICK a \in Seq(Nat) : a = AllTold[k]
        BY <1>v
      <4> HIDE DEF d
      <4>b. (a \o bufferedDelta) \o d = a \o (bufferedDelta \o d)
        BY <4>2, <4>a, Joined
      <4>5. text'[k] = AllTold[k] \o (bufferedDelta \o d)
        BY <4>4, <4>a, <4>b
      <4>6. AllTold[k] \o (bufferedDelta \o d) \in Seq(Nat)
        BY <1>v, <4>2, Joins
      <4> QED
        BY <2>2, <4>3, <4>5, <4>6, Joins
    <3> QED
      BY <3>1, <3>2, <3>3 DEF Exact
  <2>4. CASE bufferedType \notin {NoKind, k}
    <3>1. arriving' = k /\ after' = "switch" /\ UNCHANGED <<bufferedType, bufferedDelta>>
      BY <1>2, <2>4 DEF Receive
    <3>2. ASSUME NEW j \in Kinds
          PROVE  text'[j] = (AllTold'[j] \o Unsent(j)') \o Arriving(j)'
      <4>1. Unsent(j)' = Buffered(j)
        BY <2>0, <3>1 DEF Buffered, Unsent
      <4>2. Arriving(j)' = IF j = k THEN <<DeltaCount + 1>> ELSE <<>>
        BY <2>1, <3>1 DEF Arriving
      <4>3. text'[j] = IF j = k THEN text[j] \o <<DeltaCount + 1>> ELSE text[j]
        BY <2>1
      <4> QED
        BY <1>v, <2>2, <4>1, <4>2, <4>3
    <3> QED
      BY <3>1, <3>2 DEF Exact
  <2> QED
    BY <2>3, <2>4
<1>3. ASSUME NEW k \in Kinds, ReceiveThrows(k)
      PROVE  Exact'
  BY <1>3, <1>x DEF ReceiveThrows, Reach
<1>4. CASE Flush
  <2>1. CASE Raise(after) /\ Fault
    BY <1>x, <2>1 DEF Raise, Leave, Reach
  <2>2. CASE /\ Publish(IF after = "start" THEN StartedEvent ELSE DeltaEvent) /\ UNCHANGED text
             /\ \/ wpc' = "save" /\ UNCHANGED <<bufferVars, after>>
                \/ after # "start" /\ Flushed
    <3>0. wpc = "publish" /\ Running
      BY <1>4 DEF Flush, Running
    <3>1. ASSUME after # "rescue" \/ faults = 0
          PROVE  /\ after = "switch" \/ arriving = NoKind
                 /\ \A k \in Kinds : text[k] = AllTold'[k] \o Arriving(k)
      <4>1. ASSUME NEW k \in Kinds
            PROVE  text[k] = AllTold'[k] \o Arriving(k)
        <5>1. AllTold'[k] = AllTold[k] \o Buffered(k)
          BY <2>2, <3>0, FlushTells
        <5>2. Unsent(k) = Buffered(k)
          BY <3>0 DEF Unsent
        <5> QED
          BY <3>0, <3>1, <5>1, <5>2 DEF Exact
      <4> QED
        BY <3>0, <3>1, <4>1 DEF Exact
    <3>2. CASE wpc' = "save" /\ UNCHANGED <<bufferVars, after>>
      <4>1. ASSUME after # "rescue" \/ faults = 0, NEW k \in Kinds
            PROVE  text'[k] = (AllTold'[k] \o Unsent(k)') \o Arriving(k)'
        <5>1. Unsent(k)' = <<>> /\ Arriving(k)' = Arriving(k) /\ text'[k] = text[k]
          BY <2>2, <3>2 DEF Unsent, Arriving, bufferVars, DeltaCount, Length
        <5>2. AllTold'[k] \o <<>> = AllTold'[k]
          BY <1>0, Joins
        <5> QED
          BY <3>1, <4>1, <5>1, <5>2
      <4>2. after' = after /\ arriving' = arriving
        BY <3>2 DEF bufferVars
      <4> QED
        BY <1>f, <3>1, <4>1, <4>2 DEF Exact
    <3>3. CASE Flushed
      <4>1. CASE after # "rescue" \/ faults = 0
        BY <1>0, <2>2, <3>0, <3>1, <3>3, <4>1, FlushedExact
      <4>2. CASE ~(after # "rescue" \/ faults = 0)
        BY <1>f, <3>3, <4>2 DEF Flushed, Exact
      <4> QED
        BY <4>1, <4>2
    <3> QED
      BY <2>2, <3>2, <3>3
  <2> QED
    BY <1>4, <2>1, <2>2 DEF Flush, PublishThrows
<1>5. CASE Save
  <2>1. CASE Raise(after) /\ Fault
    BY <1>x, <2>1 DEF Raise, Leave, Reach
  <2>2. CASE Flushed /\ UNCHANGED text
    <3>0. wpc = "save" /\ UNCHANGED log
      BY <1>5 DEF Save, streamVars
    <3>1. CASE after # "rescue" \/ faults = 0
      <4>1. ASSUME NEW k \in Kinds
            PROVE  text[k] = AllTold'[k] \o Arriving(k)
        <5>1. AllTold'[k] = AllTold[k] /\ Unsent(k) = <<>>
          BY <3>0, ToldStays DEF Unsent
        <5>2. text[k] = (AllTold[k] \o Unsent(k)) \o Arriving(k)
          BY <3>0, <3>1 DEF Exact, Running
        <5> QED
          BY <1>v, <5>1, <5>2
      <4>2. after = "switch" \/ arriving = NoKind
        BY <3>0, <3>1 DEF Exact, Running
      <4> QED
        BY <1>0, <2>2, <3>0, <4>1, <4>2, FlushedExact
    <3>2. CASE ~(after # "rescue" \/ faults = 0)
      BY <1>f, <2>2, <3>2 DEF Flushed, Exact
    <3> QED
      BY <3>1, <3>2
  <2> QED
    BY <1>5, <2>1, <2>2 DEF Save
<1>6. CASE StreamEnds
  <2>1. /\ Running /\ UNCHANGED <<text, bufferVars>> /\ after' \in {"last", "rescue"}
        /\ after = "stream" /\ wpc # "save" /\ wpc' # "save" /\ UNCHANGED log
    BY <1>6 DEF StreamEnds, Reach, Running, Buffers, streamVars
  <2>2. \A k \in Kinds : AllTold'[k] = AllTold[k]
    BY <2>1, ToldStays
  <2> QED
    BY <1>s, <2>1, <2>2
<1>7. CASE Usage
  <2>1. CASE Fault /\ Reach("rescue")
    BY <1>x, <2>1 DEF Reach
  <2>2. CASE Publish(UsageEvent) /\ after' = "usage" /\ UNCHANGED <<wpc, text, bufferVars>>
    <3>1. wpc = "finish" /\ after = "last" /\ Running
      BY <1>7 DEF Usage, Running
    <3>2. \A k \in Kinds : AllTold'[k] = AllTold[k]
      BY <2>2, EventKinds, ToldStays DEF Publish
    <3> QED
      BY <1>s, <2>2, <3>1, <3>2
  <2> QED
    BY <1>7, <2>1, <2>2 DEF Usage, PublishThrows
<1>8. CASE Finalize
  BY <1>8, <1>x DEF Finalize, Leave
<1>9. CASE ~WriterStep
  <2>1. UNCHANGED <<wpc, text, after, bufferVars>>
    BY <1>9, OthersWrite DEF writerVars
  <2>2. \/ UNCHANGED log
        \/ \E e \in Event : log' = Append(log, e) /\ e.kind = NoKind
    BY <1>9, Publishers, EventKinds DEF WriterStep
  <2>3. \A k \in Kinds : AllTold'[k] = AllTold[k]
    BY <2>2, ToldStays
  <2>4. ASSUME NEW k \in Kinds
        PROVE  Unsent(k)' = Unsent(k) /\ Arriving(k)' = Arriving(k) /\ text'[k] = text[k]
    BY <2>1 DEF bufferVars, Unsent, Buffered, Arriving, DeltaCount, Length
  <2>5. ASSUME Running, after # "rescue" \/ faults = 0
        PROVE  /\ after = "switch" \/ arriving = NoKind
               /\ \A k \in Kinds : text'[k] = (AllTold'[k] \o Unsent(k)') \o Arriving(k)'
    BY <2>3, <2>4, <2>5 DEF Exact
  <2>6. Running' = Running /\ after' = after /\ arriving' = arriving
    BY <2>1 DEF Running, bufferVars
  <2> QED
    BY <1>f, <2>5, <2>6 DEF Exact
<1> QED
  BY <1>1, <1>2, <1>3, <1>4, <1>5, <1>6, <1>7, <1>8, <1>9 DEF WriterStep

LEMMA WithinFlushed ==
  ASSUME StreamInv, Buffers, Exact, wpc \in {"publish", "save"}, Flushed, UNCHANGED text,
         \A k \in Kinds : Elems(AllTold'[k]) \subseteq Elems(text[k])
  PROVE  Within'
<1>1. ASSUME NEW k \in Kinds
      PROVE  Elems(Buffered(k)') \subseteq Elems(text[k])
  <2>1. CASE after = "switch"
    <3>1. arriving \in Kinds /\ DeltaCount \in Nat
      BY <2>1, WriterValues DEF Buffers
    <3>2. Buffered(k)' = IF arriving = k THEN <<DeltaCount>> ELSE <<>>
      BY <2>1 DEF Flushed, Buffered
    <3>3. CASE arriving = k
      <4>1. text[k] = (AllTold[k] \o Unsent(k)) \o <<DeltaCount>>
        BY <2>1, <3>3 DEF Exact, Running, Arriving
      <4>2. AllTold[k] \o Unsent(k) \in Seq(Nat) /\ <<DeltaCount>> \in Seq(Nat)
        BY <3>1, ToldValues, Joins, ElemsOne
      <4>3. Elems(text[k]) = Elems(AllTold[k] \o Unsent(k)) \cup Elems(<<DeltaCount>>)
        BY <4>1, <4>2, ElemsJoined
      <4> QED
        BY <3>2, <3>3, <4>3
    <3>4. CASE arriving # k
      BY <3>2, <3>4, ElemsOne
    <3> QED
      BY <3>3, <3>4
  <2>2. CASE after # "switch"
    <3>1. Buffered(k)' = <<>>
      BY <2>2 DEF Flushed, Buffered
    <3> QED
      BY <3>1, ElemsOne
  <2> QED
    BY <2>1, <2>2
<1>2. \A k \in Kinds : text'[k] = text[k]
  OBVIOUS
<1> QED
  BY <1>1, <1>2 DEF Within

LEMMA WithinStep ==
  ASSUME StreamInv, RowEnds, Buffers, Waiting, Exact, Within, [Next]_vars
  PROVE  Within'
<1>v. ASSUME NEW k \in Kinds
      PROVE  /\ AllTold[k] \in Seq(Nat) /\ text[k] \in Seq(Nat) /\ Buffered(k) \in Seq(Nat)
             /\ DeltaCount + 1 \in Nat /\ Elems(<<>>) = {}
  <2>1. DeltaCount \in Nat
    BY WriterValues
  <2>2. 0 \in Nat /\ DeltaCount + 1 \in Nat
    BY <2>1
  <2> QED
    BY <2>2, ToldValues, ElemsOne
<1>s. ASSUME Running,
             \A k \in Kinds : Elems(text[k]) \subseteq Elems(text'[k]),
             \A k \in Kinds : AllTold'[k] = AllTold[k] \/ AllTold'[k] = AllTold[k] \o Buffered(k),
             UNCHANGED <<bufferedType, bufferedDelta>>
      PROVE  Within'
  <2>1. ASSUME NEW k \in Kinds
        PROVE  /\ Elems(AllTold'[k]) \subseteq Elems(text'[k])
               /\ Elems(Buffered(k)') \subseteq Elems(text'[k])
    <3>1. Buffered(k)' = Buffered(k)
      BY <1>s DEF Buffered
    <3>2. Elems(AllTold[k]) \subseteq Elems(text[k]) /\ Elems(Buffered(k)) \subseteq Elems(text[k])
      BY <1>s DEF Within
    <3>3. Elems(AllTold[k] \o Buffered(k)) = Elems(AllTold[k]) \cup Elems(Buffered(k))
      BY <1>v, ElemsJoined
    <3>4. Elems(AllTold'[k]) \subseteq Elems(text[k])
      BY <1>s, <3>2, <3>3
    <3> QED
      BY <1>s, <3>1, <3>2, <3>4
  <2> QED
    BY <2>1 DEF Within
<1>g. ASSUME NEW k \in Kinds, text' = [text EXCEPT ![k] = Append(@, DeltaCount + 1)]
      PROVE  /\ Elems(text'[k]) = Elems(text[k]) \cup {DeltaCount + 1}
             /\ \A j \in Kinds : Elems(text[j]) \subseteq Elems(text'[j])
  <2>1. text'[k] = text[k] \o <<DeltaCount + 1>> /\ \A j \in Kinds \ {k} : text'[j] = text[j]
    BY <1>g, CountGrows
  <2>2. /\ <<DeltaCount + 1>> \in Seq(Nat)
        /\ Elems(<<DeltaCount + 1>>) = {DeltaCount + 1}
    BY <1>v, ElemsOne
  <2>3. Elems(text[k] \o <<DeltaCount + 1>>) = Elems(text[k]) \cup Elems(<<DeltaCount + 1>>)
    BY <1>v, <2>2, ElemsJoined
  <2>4. Elems(text'[k]) = Elems(text[k]) \cup {DeltaCount + 1}
    BY <2>1, <2>2, <2>3
  <2>5. ASSUME NEW j \in Kinds
        PROVE  Elems(text[j]) \subseteq Elems(text'[j])
    <3>1. CASE j = k
      BY <2>4, <3>1
    <3>2. CASE j # k
      BY <2>1, <3>2
    <3> QED
      BY <3>1, <3>2
  <2> QED
    BY <2>4, <2>5
<1>1. CASE Claim
  <2>1. CASE wpc' = "publish" /\ UNCHANGED <<text, sequence, bufferVars, after>>
    <3>1. /\ wpc = "queued" /\ log = <<>> /\ UNCHANGED log /\ bufferedType' = NoKind
      BY <1>1, <2>1 DEF Claim, Waiting, Buffers, streamVars, bufferVars
    <3>2. AllTold = NoText
      <4>1. Len(log) = 0 /\ 0 \in Nat /\ log \in Seq(Event)
        BY <3>1, TextsKept
      <4> QED
        BY <4>1, BetweenNone DEF AllTold, Told
    <3>3. ASSUME NEW k \in Kinds
          PROVE  AllTold'[k] = <<>> /\ Buffered(k)' = <<>>
      <4>1. AllTold'[k] = AllTold[k]
        BY <3>1, ToldStays
      <4>2. k # NoKind
        BY WriterValues
      <4> QED
        BY <3>1, <3>2, <4>1, <4>2 DEF NoText, Buffered
    <3> QED
      BY <1>v, <3>3 DEF Within
  <2>2. CASE Leave
    BY <2>2 DEF Leave, Within, Running
  <2> QED
    BY <1>1, <2>1, <2>2 DEF Claim
<1>2. ASSUME NEW k \in Kinds, Receive(k)
      PROVE  Within'
  <2>0. /\ Running /\ UNCHANGED log
        /\ text' = [text EXCEPT ![k] = Append(@, DeltaCount + 1)]
    BY <1>2 DEF Receive, Running, streamVars
  <2>1. \A j \in Kinds : AllTold'[j] = AllTold[j]
    BY <2>0, ToldStays
  <2>2. CASE UNCHANGED <<bufferedType, bufferedDelta>>
    <3>1. \A j \in Kinds : Elems(text[j]) \subseteq Elems(text'[j])
      BY <2>0, <1>g
    <3> QED
      BY <1>s, <2>0, <2>1, <2>2, <3>1
  <2>3. CASE /\ bufferedType \in {NoKind, k} /\ bufferedType' = k
             /\ bufferedDelta' = Append(bufferedDelta, DeltaCount + 1)
    <3>1. Elems(bufferedDelta') = Elems(bufferedDelta) \cup {DeltaCount + 1}
      <4>1. bufferedDelta \in Seq(Nat) /\ DeltaCount + 1 \in Nat
        BY WriterValues
      <4>2. bufferedDelta' = bufferedDelta \o <<DeltaCount + 1>>
        BY <2>3, <4>1, Appended
      <4>3. /\ <<DeltaCount + 1>> \in Seq(Nat)
            /\ Elems(<<DeltaCount + 1>>) = {DeltaCount + 1}
        BY <4>1, ElemsOne
      <4>4. Elems(bufferedDelta \o <<DeltaCount + 1>>) =
              Elems(bufferedDelta) \cup Elems(<<DeltaCount + 1>>)
        BY <4>1, <4>3, ElemsJoined
      <4> QED
        BY <4>2, <4>3, <4>4
    <3>2. bufferedDelta = Buffered(k)
      BY <2>3, WriterValues DEF Buffered, Buffers
    <3>3. ASSUME NEW j \in Kinds
          PROVE  /\ Elems(AllTold'[j]) \subseteq Elems(text'[j])
                 /\ Elems(Buffered(j)') \subseteq Elems(text'[j])
      <4>1. Elems(AllTold[j]) \subseteq Elems(text[j]) /\ Elems(Buffered(j)) \subseteq Elems(text[j])
        BY <2>0 DEF Within
      <4>2. Elems(text[j]) \subseteq Elems(text'[j]) /\ Elems(text'[k]) = Elems(text[k]) \cup {DeltaCount + 1}
        BY <2>0, <1>g
      <4>3. Buffered(j)' = IF j = k THEN bufferedDelta' ELSE <<>>
        BY <2>3 DEF Buffered
      <4>4. CASE j = k
        BY <2>1, <3>1, <3>2, <4>1, <4>2, <4>3, <4>4
      <4>5. CASE j # k
        BY <1>v, <2>1, <4>1, <4>2, <4>3, <4>5
      <4> QED
        BY <4>4, <4>5
    <3> QED
      BY <3>3 DEF Within
  <2> QED
    BY <1>2, <2>2, <2>3 DEF Receive
<1>3. ASSUME NEW k \in Kinds, ReceiveThrows(k)
      PROVE  Within'
  <2>1. /\ Running /\ UNCHANGED <<log, bufferedType, bufferedDelta>> /\ DeltaCount = 0
        /\ text' = [text EXCEPT ![k] = Append(@, 1)]
    BY <1>3 DEF ReceiveThrows, Running, streamVars, bufferVars
  <2>2. text' = [text EXCEPT ![k] = Append(@, DeltaCount + 1)]
    <3>1. DeltaCount + 1 = 1
      BY <2>1
    <3> QED
      BY <2>1, <3>1
  <2>3. \A j \in Kinds : AllTold'[j] = AllTold[j]
    BY <2>1, ToldStays
  <2>4. \A j \in Kinds : Elems(text[j]) \subseteq Elems(text'[j])
    BY <2>2, <1>g
  <2> QED
    BY <1>s, <2>1, <2>3, <2>4
<1>4. CASE Flush
  <2>1. \/ UNCHANGED log
        \/ Publish(IF after = "start" THEN StartedEvent ELSE DeltaEvent)
    BY <1>4 DEF Flush, PublishThrows, streamVars
  <2>2. wpc = "publish"
    BY <1>4 DEF Flush
  <2>3. \A k \in Kinds : AllTold'[k] = AllTold[k] \/ AllTold'[k] = AllTold[k] \o Buffered(k)
    BY <2>1, <2>2, FlushTells, ToldStays
  <2>4. CASE Leave
    BY <2>4 DEF Leave, Within, Running
  <2>5. CASE UNCHANGED <<bufferedType, bufferedDelta, text>>
    <3>1. \A k \in Kinds : Elems(text[k]) \subseteq Elems(text'[k])
      BY <2>5
    <3>2. Running
      BY <2>2 DEF Running
    <3> QED
      BY <1>s, <2>3, <2>5, <3>1, <3>2
  <2>6. CASE Flushed /\ UNCHANGED text
    <3>1. ASSUME NEW k \in Kinds
          PROVE  Elems(AllTold'[k]) \subseteq Elems(text[k])
      <4>1. Elems(AllTold[k]) \subseteq Elems(text[k]) /\ Elems(Buffered(k)) \subseteq Elems(text[k])
        BY <2>2 DEF Within, Running
      <4>2. Elems(AllTold[k] \o Buffered(k)) = Elems(AllTold[k]) \cup Elems(Buffered(k))
        BY <1>v, ElemsJoined
      <4> QED
        BY <2>3, <4>1, <4>2
    <3> QED
      BY <2>2, <2>6, <3>1, WithinFlushed
  <2> QED
    BY <1>4, <2>4, <2>5, <2>6 DEF Flush, Raise, Reach, bufferVars
<1>5. CASE Save
  <2>2. wpc = "save" /\ UNCHANGED log /\ Running
    BY <1>5 DEF Save, streamVars, Running
  <2>3. \A k \in Kinds : AllTold'[k] = AllTold[k]
    BY <2>2, ToldStays
  <2>4. CASE Leave
    BY <2>4 DEF Leave, Within, Running
  <2>5. CASE UNCHANGED <<bufferedType, bufferedDelta, text>>
    <3>1. \A k \in Kinds : Elems(text[k]) \subseteq Elems(text'[k])
      BY <2>5
    <3> QED
      BY <1>s, <2>2, <2>3, <2>5, <3>1
  <2>6. CASE Flushed /\ UNCHANGED text
    <3>1. \A k \in Kinds : Elems(AllTold'[k]) \subseteq Elems(text[k])
      BY <2>2, <2>3 DEF Within
    <3> QED
      BY <2>2, <2>6, <3>1, WithinFlushed
  <2> QED
    BY <1>5, <2>4, <2>5, <2>6 DEF Save, Raise, Reach, bufferVars
<1>6. CASE StreamEnds
  <2>1. Running /\ UNCHANGED <<log, text, bufferedType, bufferedDelta>>
    BY <1>6 DEF StreamEnds, Running, streamVars, bufferVars
  <2>2. \A k \in Kinds : AllTold'[k] = AllTold[k]
    BY <2>1, ToldStays
  <2>3. \A k \in Kinds : Elems(text[k]) \subseteq Elems(text'[k])
    BY <2>1
  <2> QED
    BY <1>s, <2>1, <2>2, <2>3
<1>7. CASE Usage
  <2>1. Running /\ UNCHANGED <<text, bufferedType, bufferedDelta>>
    BY <1>7 DEF Usage, Running, bufferVars
  <2>2. Publish(UsageEvent) \/ UNCHANGED log
    BY <1>7 DEF Usage, PublishThrows, streamVars
  <2>3. \A k \in Kinds : AllTold'[k] = AllTold[k]
    BY <2>2, EventKinds, ToldStays DEF Publish
  <2>4. \A k \in Kinds : Elems(text[k]) \subseteq Elems(text'[k])
    BY <2>1
  <2> QED
    BY <1>s, <2>1, <2>3, <2>4
<1>8. CASE Finalize
  BY <1>8 DEF Finalize, Leave, Within, Running
<1>9. CASE ~WriterStep
  <2>1. UNCHANGED <<wpc, text, bufferedType, bufferedDelta>>
    BY <1>9, OthersWrite DEF writerVars, bufferVars
  <2>2. \/ UNCHANGED log
        \/ \E e \in Event : log' = Append(log, e) /\ e.kind = NoKind
    BY <1>9, Publishers, EventKinds DEF WriterStep
  <2>3. \A k \in Kinds : AllTold'[k] = AllTold[k]
    BY <2>2, ToldStays
  <2>4. \A k \in Kinds : Elems(text[k]) \subseteq Elems(text'[k])
    BY <2>1
  <2>5. CASE Running
    BY <1>s, <2>1, <2>3, <2>4, <2>5
  <2>6. CASE ~Running
    BY <2>1, <2>6 DEF Within, Running
  <2> QED
    BY <2>5, <2>6
<1> QED
  BY <1>1, <1>2, <1>3, <1>4, <1>5, <1>6, <1>7, <1>8, <1>9 DEF WriterStep

\* What was published, and what the state key shows of it.
OneAhead(told, shown) ==
    /\ \A k \in Kinds : Len(told[k]) <= Len(shown[k]) /\ told[k] = SubSeq(shown[k], 1, Len(told[k]))
    /\ Length(shown) <= Length(told) + 1
Ahead ==
    (faults = 0 /\ log # <<>> /\ log[Len(log)].type # "ended") =>
        OneAhead(AllTold, Shown(Len(log)))

LEMMA AheadByArriving ==
  ASSUME NEW told \in Texts, NEW shown \in Texts, NEW ar \in Kinds \cup {NoKind}, NEW x \in Nat,
         \A k \in Kinds : shown[k] = told[k] \o (IF ar = k THEN <<x>> ELSE <<>>)
  PROVE  OneAhead(told, shown)
<1>1. ASSUME NEW k \in Kinds
      PROVE  /\ Len(told[k]) \in Nat /\ Len(shown[k]) = Len(told[k]) + (IF ar = k THEN 1 ELSE 0)
             /\ told[k] = SubSeq(shown[k], 1, Len(told[k]))
  <2> DEFINE s == told[k]
             t == IF ar = k THEN <<x>> ELSE <<>>
  <2>1. s \in Seq(Nat) /\ t \in Seq(Nat) /\ Len(t) = (IF ar = k THEN 1 ELSE 0)
    BY DEF Texts
  <2>2. shown[k] = s \o t
    OBVIOUS
  <2> HIDE DEF s, t
  <2>3. Len(s \o t) = Len(s) + Len(t) /\ s = SubSeq(s \o t, 1, Len(s))
    <3>1. SubSeq(s \o t, 1, Len(s)) = SubSeq(s, 1, Len(s))
      BY <2>1, SubSeqOfConcat1
    <3>2. SubSeq(s, 1, Len(s)) = s
      BY <2>1, SubSeqFull
    <3>3. Len(s \o t) = Len(s) + Len(t)
      BY <2>1, ConcatProperties
    <3> QED
      BY <3>1, <3>2, <3>3
  <2>4. Len(s) \in Nat
    BY <2>1
  <2> QED
    BY <2>1, <2>2, <2>3, <2>4 DEF s
<1>2. Length(shown) <= Length(told) + 1
  <2>1. Content \in Kinds /\ Reasoning \in Kinds /\ ~(ar = Content /\ ar = Reasoning)
    BY KindsOfDelta
  <2>2. PICK a \in Nat, b \in Nat : a = Len(told[Content]) /\ b = Len(told[Reasoning])
    BY <1>1, <2>1
  <2>s. shown[Content] \in Seq(Nat) /\ shown[Reasoning] \in Seq(Nat)
    BY <2>1 DEF Texts
  <2>3. PICK c \in Nat, d \in Nat : c = Len(shown[Content]) /\ d = Len(shown[Reasoning])
    BY <2>s
  <2>4. /\ c = a + (IF ar = Content THEN 1 ELSE 0)
        /\ d = b + (IF ar = Reasoning THEN 1 ELSE 0)
    BY <1>1, <2>1, <2>2, <2>3
  <2>5. c + d <= (a + b) + 1
    BY <2>1, <2>4
  <2> QED
    BY <2>2, <2>3, <2>5 DEF Length
<1>3. ASSUME NEW k \in Kinds
      PROVE  Len(told[k]) <= Len(shown[k])
  <2>1. PICK a \in Nat : a = Len(told[k])
    BY <1>1
  <2>2. Len(shown[k]) = a + (IF ar = k THEN 1 ELSE 0)
    BY <1>1, <2>1
  <2>3. a <= a + (IF ar = k THEN 1 ELSE 0)
    OBVIOUS
  <2>4. a <= Len(shown[k])
    BY <2>2, <2>3
  <2> QED
    BY <2>1, <2>4
<1> QED
  BY <1>1, <1>2, <1>3 DEF OneAhead

\* A publication by the worker, when nothing has failed.
LEMMA AheadPublished ==
  ASSUME StreamInv, Exact, [Next]_vars, NEW e \in Event, Publish(e), e.shown = text,
         Running, after # "rescue" \/ faults = 0,
         \A k \in Kinds : AllTold'[k] = AllTold[k] \o Unsent(k)
  PROVE  Ahead'
<1>1. Shown(Len(log))' = text
  BY PublishedLast
<1>2. AllTold' \in Texts /\ text \in Texts /\ arriving \in Kinds \cup {NoKind} /\ DeltaCount \in Nat
  BY TextsKept, ToldTypedNext, WriterValues
<1>3. \A k \in Kinds : text[k] = AllTold'[k] \o (IF arriving = k THEN <<DeltaCount>> ELSE <<>>)
  BY DEF Exact, Arriving
<1>4. PICK told \in Texts, shown \in Texts, ar \in Kinds \cup {NoKind}, x \in Nat :
        told = AllTold' /\ shown = text /\ ar = arriving /\ x = DeltaCount
  BY <1>2
<1>5. OneAhead(told, text)
  <2>1. \A k \in Kinds : shown[k] = told[k] \o (IF ar = k THEN <<x>> ELSE <<>>)
    BY <1>3, <1>4
  <2>2. OneAhead(told, shown)
    BY <2>1, AheadByArriving
  <2> QED
    BY <1>4, <2>2
<1>6. OneAhead(AllTold', Shown(Len(log))')
  BY <1>1, <1>4, <1>5
<1> QED
  BY <1>6 DEF Ahead, OneAhead

LEMMA AheadStep ==
  ASSUME StreamInv, RowEnds, Buffers, Waiting, Exact, Ahead, [Next]_vars
  PROVE  Ahead'
<1> SUFFICES ASSUME faults' = 0
             PROVE  Ahead'
  BY DEF Ahead
<1>0. faults = 0 /\ ~Fault
  BY FaultsGrow
<1>1. CASE UNCHANGED log
  <2>1. PICK l \in Nat : l = Len(log)
    BY TextsKept
  <2>2. l \in 0 .. Len(log) /\ 0 \in 0 .. Len(log)
    BY <2>1
  <2>3. Between(0, l)' = Between(0, l) /\ Shown(l)' = Shown(l)
    BY <2>2, TextsKept
  <2>4. AllTold' = AllTold /\ Shown(Len(log))' = Shown(Len(log))
    BY <1>1, <2>1, <2>3 DEF AllTold, Told
  <2> QED
    BY <1>0, <1>1, <2>4 DEF Ahead, OneAhead
<1>2. CASE Announce /\ log' = Append(log, EndedEvent)
  <2>1. log \in Seq(Event) /\ EndedEvent \in Event /\ EndedEvent.type = "ended"
    BY EventKinds DEF StreamInv, StreamPart
  <2>2. log'[Len(log')].type = "ended"
    BY <1>2, <2>1
  <2> QED
    BY <2>2 DEF Ahead
<1>3. CASE Flush
  <2>1. CASE Publish(IF after = "start" THEN StartedEvent ELSE DeltaEvent)
    <3>1. wpc = "publish" /\ Running
      BY <1>3 DEF Flush, Running
    <3>2. PICK e \in Event : e = (IF after = "start" THEN StartedEvent ELSE DeltaEvent)
      BY EventKinds
    <3>3. Publish(e) /\ e.shown = text
      BY <2>1, <3>2, EventKinds
    <3>4. ASSUME NEW k \in Kinds
          PROVE  AllTold'[k] = AllTold[k] \o Unsent(k)
      <4>1. AllTold'[k] = AllTold[k] \o Buffered(k)
        BY <2>1, <3>1, FlushTells
      <4> QED
        BY <3>1, <4>1 DEF Unsent
    <3> QED
      BY <1>0, <3>1, <3>3, <3>4, AheadPublished
  <2> QED
    BY <1>0, <1>3, <2>1 DEF Flush, PublishThrows
<1>4. CASE Usage
  <2>1. CASE Publish(UsageEvent)
    <3>1. /\ wpc = "finish" /\ after = "last" /\ Running /\ bufferedType = NoKind
          /\ UsageEvent \in Event /\ UsageEvent.kind = NoKind /\ UsageEvent.shown = text
      BY <1>4, EventKinds DEF Usage, Running, Buffers
    <3>2. ASSUME NEW k \in Kinds
          PROVE  AllTold'[k] = AllTold[k] \o Unsent(k)
      <4>1. AllTold'[k] = AllTold[k]
        BY <2>1, <3>1, ToldStays DEF Publish
      <4>2. Unsent(k) = <<>>
        BY <3>1, WriterValues DEF Unsent, Buffered
      <4>3. AllTold[k] \o <<>> = AllTold[k]
        BY ToldValues, Joins
      <4> QED
        BY <4>1, <4>2, <4>3
    <3> QED
      BY <1>0, <2>1, <3>1, <3>2, AheadPublished
  <2> QED
    BY <1>0, <1>4, <2>1 DEF Usage, PublishThrows
<1> QED
  BY <1>1, <1>2, <1>3, <1>4, Publishers

\* The state key lacks nothing of what was published; an end shows the row.
ShownTells ==
    \A n \in DOMAIN log :
        IF log[n].type = "ended"
        THEN log[n].shown = row.text
        ELSE \A k \in Kinds : Elems(Told(n)[k]) \subseteq Elems(log[n].shown[k])

\* A generation is completed with all that was published, and nothing more is.
Complete ==
    row.status = "COMPLETED" =>
        /\ wpc = "gone" /\ row.text = AllTold
        /\ \A n \in EndedAt : Told(n) = row.text

LEMMA TellsPublished ==
  ASSUME StreamInv, RowEnds, Buffers, Within, [Next]_vars, NEW e \in Event, Publish(e),
         wpc \in {"publish", "finish"}, e.shown = text, NEW k \in Kinds,
         AllTold'[k] = AllTold[k] \/ AllTold'[k] = AllTold[k] \o Buffered(k)
  PROVE  Elems(AllTold'[k]) \subseteq Elems(e.shown[k])
<1>1. Elems(AllTold[k]) \subseteq Elems(text[k]) /\ Elems(Buffered(k)) \subseteq Elems(text[k])
  BY DEF Within, Running
<1>2. AllTold[k] \in Seq(Nat) /\ Buffered(k) \in Seq(Nat)
  BY ToldValues
<1>3. Elems(AllTold[k] \o Buffered(k)) = Elems(AllTold[k]) \cup Elems(Buffered(k))
  BY <1>2, ElemsJoined
<1> QED
  BY <1>1, <1>3

LEMMA ShownTellsStep ==
  ASSUME StreamInv, EndInv, Buffers, RowTraced, Within, ShownTells, [Next]_vars
  PROVE  ShownTells'
<1>0. /\ RowEnds /\ LogEnds /\ log \in Seq(Event) /\ Len(log) \in Nat
      /\ DOMAIN log = 1 .. Len(log) /\ 0 \in 0 .. Len(log)
  BY TextsKept DEF EndInv
<1>1. ASSUME NEW n \in DOMAIN log
      PROVE  IF log'[n].type = "ended"
             THEN log'[n].shown = row'.text
             ELSE \A k \in Kinds : Elems(Told(n)'[k]) \subseteq Elems(log'[n].shown[k])
  <2>1. log'[n] = log[n]
    BY TextsKept
  <2>2. CASE log[n].type = "ended"
    <3>1. row.status \in Terminal /\ log[n].shown = row.text
      BY <1>0, <2>2 DEF LogEnds, ShownTells
    <3>2. row'.text = row.text
      BY <1>0, <3>1, EndedText
    <3> QED
      BY <2>1, <2>2, <3>1, <3>2
  <2>3. CASE log[n].type # "ended"
    <3>1. n \in 0 .. Len(log)
      BY <1>0
    <3>2. Told(n)' = Told(n)
      BY <1>0, <3>1, TextsKept DEF Told
    <3> QED
      BY <2>1, <2>3, <3>2 DEF ShownTells
  <2> QED
    BY <2>2, <2>3
<1>2. CASE UNCHANGED log
  BY <1>1, <1>2 DEF ShownTells
<1>a. ASSUME NEW e \in Event, log' = Append(log, e),
             IF e.type = "ended" THEN e.shown = row'.text
             ELSE \A k \in Kinds : Elems(AllTold'[k]) \subseteq Elems(e.shown[k])
      PROVE  ShownTells'
  <2>1. PICK l \in Nat : l = Len(log')
    BY <1>0, <1>a
  <2>2. /\ DOMAIN log' = DOMAIN log \cup {l} /\ log'[l] = e
    BY <1>0, <1>a, <2>1, Grown
  <2>3. Told(l)' = AllTold'
    BY <2>1 DEF Told, AllTold
  <2>4. IF log'[l].type = "ended"
        THEN log'[l].shown = row'.text
        ELSE \A k \in Kinds : Elems(Told(l)'[k]) \subseteq Elems(log'[l].shown[k])
    BY <1>a, <2>2, <2>3
  <2> QED
    BY <1>1, <2>2, <2>4 DEF ShownTells
<1>3. CASE Announce /\ log' = Append(log, EndedEvent) /\ UNCHANGED row /\ notice.state = "pending"
  <2>1. EndedEvent \in Event /\ EndedEvent.type = "ended" /\ EndedEvent.shown = notice.text
    BY EventKinds DEF EndedEvent
  <2>2. EndedEvent.shown = row'.text
    BY <1>3, <2>1 DEF RowTraced
  <2> QED
    BY <1>a, <1>3, <2>1, <2>2
<1>4. CASE Flush
  <2>1. CASE Publish(IF after = "start" THEN StartedEvent ELSE DeltaEvent)
    <3>1. wpc = "publish"
      BY <1>4 DEF Flush
    <3>2. PICK e \in Event : e = (IF after = "start" THEN StartedEvent ELSE DeltaEvent)
      BY EventKinds
    <3>3. Publish(e) /\ log' = Append(log, e) /\ e.shown = text /\ e.type # "ended"
      BY <2>1, <3>2, EventKinds DEF Publish
    <3>4. \A k \in Kinds : AllTold'[k] = AllTold[k] \o Buffered(k)
      BY <2>1, <3>1, FlushTells
    <3>5. \A k \in Kinds : Elems(AllTold'[k]) \subseteq Elems(e.shown[k])
      BY <1>0, <3>1, <3>3, <3>4, TellsPublished
    <3> QED
      BY <1>a, <3>3, <3>5
  <2> QED
    BY <1>2, <1>4, <2>1 DEF Flush, PublishThrows, streamVars
<1>5. CASE Usage
  <2>1. CASE Publish(UsageEvent)
    <3>1. /\ wpc = "finish" /\ UsageEvent \in Event /\ UsageEvent.kind = NoKind
          /\ UsageEvent.shown = text /\ UsageEvent.type # "ended" /\ log' = Append(log, UsageEvent)
      BY <1>5, <2>1, EventKinds DEF Usage, Publish
    <3>2. \A k \in Kinds : AllTold'[k] = AllTold[k]
      BY <3>1, ToldStays
    <3>3. \A k \in Kinds : Elems(AllTold'[k]) \subseteq Elems(UsageEvent.shown[k])
      BY <1>0, <2>1, <3>1, <3>2, TellsPublished
    <3> QED
      BY <1>a, <3>1, <3>3
  <2> QED
    BY <1>2, <1>5, <2>1 DEF Usage, PublishThrows, streamVars
<1> QED
  BY <1>0, <1>2, <1>3, <1>4, <1>5, Publishers

\* Who completes a generation: the worker at its end, with its own text.
LEMMA BecomesComplete ==
  ASSUME StreamInv, RowEnds, [Next]_vars, row.status # "COMPLETED", row'.status = "COMPLETED"
  PROVE  /\ Finalize /\ row.status \in Active /\ after # "rescue" /\ row'.text = text
<1>0. row \in RowRecord /\ "COMPLETED" \notin Active
  BY DEF StreamInv, RowPart, Active
<1>s. ASSUME NEW status, NEW saved, NEW seq, Settle(status, saved, seq)
      PROVE  row'.status = status /\ row'.text = saved
  BY <1>s DEF Settle
<1>1. CASE Finalize
  <2>1. row.status \in Active
    BY <1>1 DEF Finalize, rowVars
  <2>2. Settle(IF after = "rescue" \/ row.status = "CANCEL_REQUESTED"
               THEN "STOPPED" ELSE "COMPLETED", text, sequence)
    BY <1>1, <2>1 DEF Finalize
  <2> QED
    BY <1>1, <1>s, <2>1, <2>2
<1>2. ~Claim /\ ~MonitorSettles
  <2>1. CASE Claim
    <3>1. row' = [row EXCEPT !.status = "STARTING"] \/ Settle("STOPPED", text, sequence)
      BY <2>1 DEF Claim
    <3> QED
      BY <1>0, <1>s, <3>1 DEF RowRecord
  <2>2. CASE MonitorSettles
    <3>1. Settle("STOPPED", row.text, row.seq)
      BY <2>2 DEF MonitorSettles
    <3> QED
      BY <1>s, <3>1
  <2> QED
    BY <2>1, <2>2
<1>3. ~(\E k \in Kinds : Receive(k))
  <2> SUFFICES ASSUME NEW k \in Kinds, Receive(k) PROVE FALSE
    OBVIOUS
  <2>1. row' = [row EXCEPT !.status = IF row.status = "STARTING" THEN "STREAMING" ELSE row.status]
    BY DEF Receive
  <2> QED
    BY <1>0, <2>1 DEF RowRecord
<1>4. ~CallCancel
  <2> SUFFICES ASSUME CallCancel PROVE FALSE
    OBVIOUS
  <2>1. row' = [row EXCEPT !.status = IF row.status \in Active THEN "CANCEL_REQUESTED" ELSE row.status]
    BY DEF CallCancel
  <2> QED
    BY <1>0, <2>1 DEF RowRecord
<1>5. ~Save /\ ~Acknowledge /\ ~Announce
  BY <1>0 DEF Save, Saved, Acknowledge, Announce, RowRecord
<1>6. ~(\/ Trim \/ Expire \/ Flush \/ StreamEnds \/ Usage \/ UNCHANGED vars
        \/ \E k \in Kinds : ReceiveThrows(k))
  BY DEF Trim, Expire, Flush, StreamEnds, Usage, vars, ReceiveThrows, rowVars
<1>7. ~(Forget \/ CreateAgain \/ CancelRead \/ Answer \/ AnswerLost \/ PageLoop \/ Break)
  BY DEF Forget, CreateAgain, CancelRead, Answer, AnswerLost, PageLoop, SyncCursor, SyncRows,
         SyncStates, Deliver, History, Replay, LoopOnly, Break, rowVars
<1> QED
  BY <1>1, <1>2, <1>3, <1>4, <1>5, <1>6, <1>7 DEF Next, WriterStep

LEMMA LastOfTwo ==
  ASSUME NEW l \in Nat, NEW m \in Nat, m \in {l, l + 1}, NEW n \in 1 .. m, n = l + 1
  PROVE  n = m
OBVIOUS

LEMMA CompleteStep ==
  ASSUME StreamInv, EndInv, Buffers, Exact, Complete, [Next]_vars
  PROVE  Complete'
<1> SUFFICES ASSUME row'.status = "COMPLETED"
             PROVE  /\ wpc' = "gone" /\ row'.text = AllTold'
                    /\ \A n \in EndedAt' : Told(n)' = row'.text
  BY DEF Complete
<1>0. /\ RowEnds /\ LogEnds /\ log \in Seq(Event) /\ log' \in Seq(Event) /\ Len(log) \in Nat
      /\ Len(log') \in Nat
      /\ DOMAIN log = 1 .. Len(log) /\ 0 \in 0 .. Len(log) /\ AllTold \in Texts /\ AllTold' \in Texts
      /\ text \in Texts
  BY TextsKept, ToldTyped, ToldTypedNext, WriterValues DEF EndInv
<1>1. CASE row.status = "COMPLETED"
  <2>1. row'.text = row.text
    BY <1>0, <1>1, EndedText DEF Terminal
  <2>2. wpc = "gone" /\ wpc' = "gone" /\ row.text = AllTold
    BY <1>1, GoneStays DEF Complete
  <2>3. \/ UNCHANGED log
        \/ \E e \in Event : log' = Append(log, e) /\ e.kind = NoKind
    BY <1>0, <2>2, GoneStays, Publishers, EventKinds
  <2>4. AllTold' = AllTold
    <3>1. \A k \in Kinds : AllTold'[k] = AllTold[k]
      BY <2>3, ToldStays
    <3> QED
      BY <1>0, <3>1 DEF Texts
  <2>5. ASSUME NEW n \in EndedAt'
        PROVE  Told(n)' = row'.text
    <3>1. CASE n \in EndedAt
      <4>1. n \in 0 .. Len(log) /\ Told(n) = row.text
        BY <1>0, <1>1, <3>1 DEF EndedAt, Complete
      <4>2. Told(n)' = Told(n)
        BY <1>0, <4>1, TextsKept DEF Told
      <4> QED
        BY <2>1, <4>1, <4>2
    <3>2. CASE n \notin EndedAt
      <4>1. n = Len(log) + 1 /\ n \in DOMAIN log' /\ DOMAIN log' = 1 .. Len(log')
        BY <1>0, <3>2, LogEndsStep DEF EndedAt
      <4>2. Len(log') \in {Len(log), Len(log) + 1}
        BY <1>0, <2>3
      <4>3. n = Len(log')
        BY <1>0, <4>1, <4>2, LastOfTwo
      <4>4. Told(n)' = AllTold'
        BY <4>3 DEF Told, AllTold
      <4> QED
        BY <2>1, <2>2, <2>4, <4>4
    <3> QED
      BY <3>1, <3>2
  <2> QED
    BY <2>1, <2>2, <2>4, <2>5
<1>2. CASE row.status # "COMPLETED"
  <2>1. Finalize /\ row.status \in Active /\ after # "rescue" /\ row'.text = text
    BY <1>0, <1>2, BecomesComplete
  <2>2. wpc = "finish" /\ wpc' = "gone" /\ UNCHANGED log
    BY <2>1 DEF Finalize, Leave, streamVars
  <2>3. bufferedType = NoKind /\ arriving = NoKind
    BY <2>1, <2>2 DEF Buffers
  <2>4. text = AllTold
    <3>1. ASSUME NEW k \in Kinds
          PROVE  text[k] = AllTold[k]
      <4>1. Unsent(k) = <<>> /\ Arriving(k) = <<>>
        BY <2>2, <2>3, WriterValues DEF Unsent, Buffered, Arriving
      <4>2. text[k] = (AllTold[k] \o Unsent(k)) \o Arriving(k)
        BY <2>1, <2>2 DEF Exact, Running
      <4> QED
        BY <4>1, <4>2, ToldValues, Joins
    <3> QED
      BY <1>0, <3>1 DEF Texts
  <2>5. AllTold' = AllTold
    <3>1. \A k \in Kinds : AllTold'[k] = AllTold[k]
      BY <2>2, ToldStays
    <3> QED
      BY <1>0, <3>1 DEF Texts
  <2>6. EndedAt' = {}
    <3>1. EndedAt = {}
      BY <1>0, <2>1, StatusesApart DEF LogEnds, EndedAt
    <3> QED
      BY <2>2, <3>1 DEF EndedAt
  <2> QED
    BY <2>1, <2>2, <2>4, <2>5, <2>6
<1> QED
  BY <1>1, <1>2

\* The texts of a generation: what the worker, the events, the state key and
\* the row hold of it.
TextInv == Exact /\ Within /\ Ahead /\ ShownTells /\ Complete

LEMMA InitText == Init => TextInv
BY DEF Init, TextInv, Exact, Within, Running, Ahead, ShownTells, Complete

LEMMA TextStep ==
  ASSUME StreamInv, EndInv, TraceInv, TextInv, [Next]_vars
  PROVE  TextInv'
<1>1. /\ RowEnds /\ Buffers /\ Waiting /\ RowTraced
      /\ Exact /\ Within /\ Ahead /\ ShownTells /\ Complete
  BY DEF EndInv, TraceInv, TextInv
<1>2. Exact'
  BY <1>1, ExactStep
<1>3. Within'
  BY <1>1, WithinStep
<1>4. Ahead'
  BY <1>1, AheadStep
<1>5. ShownTells'
  BY <1>1, ShownTellsStep
<1>6. Complete'
  BY <1>1, CompleteStep
<1> QED
  BY <1>2, <1>3, <1>4, <1>5, <1>6 DEF TextInv

LEMMA TextInvHolds == Spec => [](StreamInv /\ EndInv /\ TraceInv /\ TextInv)
<1>1. StreamInv /\ EndInv /\ TraceInv /\ TextInv /\ [Next]_vars => TextInv'
  BY TextStep
<1> QED
  BY <1>1, InitText, TraceInvHolds, PTL DEF Spec

\* While nothing fails the state key never shows less than was published, and
\* at most one delta more (publish writes the key and the events in one script,
\* but the text it carries is ahead of the buffer when the kind changes).
THEOREM StateRunsAhead == Spec => []StateRunsAheadByOne
<1>1. TextInv => StateRunsAheadByOne
  BY DEF TextInv, Ahead, OneAhead, StateRunsAheadByOne, AllTold, Told
<1> QED
  BY <1>1, TextInvHolds, PTL

\* What the page made of a snapshot and the events behind it holds all that
\* was published up to its last event.
LEMMA TracedTells ==
  ASSUME StreamInv, ShownTells, NEW m \in 0 .. Len(log), NEW n \in 0 .. m, NEW k \in Kinds,
         n > 0 => log[n].type # "ended"
  PROVE  Elems(Told(m)[k]) \subseteq Elems(Followed(Shown(n), n, m)[k])
<1>0. /\ log \in Seq(Event) /\ Len(log) \in Nat /\ m \in Nat /\ n \in Nat /\ n <= m /\ m <= Len(log)
      /\ n <= Len(log) /\ 0 \in Nat
  BY DEF StreamInv, StreamPart
<1>1. Told(m)[k] = Told(n)[k] \o Between(n, m)[k]
  BY <1>0, BetweenSplits DEF Told
<1>2. Told(n)[k] \in Seq(Nat) /\ Between(n, m)[k] \in Seq(Nat) /\ Shown(n)[k] \in Seq(Nat)
  <2>1. Told(n) \in Texts /\ Between(n, m) \in Texts
    BY <1>0, BetweenTyped DEF Told
  <2>2. Shown(n) \in Texts
    <3>1. CASE n = 0
      BY <3>1, KindsOfDelta DEF Shown
    <3>2. CASE n # 0
      <4>1. log[n] \in Event
        BY <1>0, <3>2, LogEntries
      <4> QED
        BY <3>2, <4>1 DEF Shown, Event
    <3> QED
      BY <3>1, <3>2
  <2> QED
    BY <2>1, <2>2 DEF Texts
<1>3. Elems(Told(n)[k]) \subseteq Elems(Shown(n)[k])
  <2>1. CASE n = 0
    <3>1. Told(n) = NoText
      BY <1>0, <2>1, BetweenNone DEF Told
    <3> QED
      BY <2>1, <3>1 DEF Shown
  <2>2. CASE n # 0
    <3>1. n \in DOMAIN log /\ log[n].type # "ended" /\ Shown(n) = log[n].shown
      BY <1>0, <2>2 DEF Shown
    <3> QED
      BY <3>1 DEF ShownTells
  <2> QED
    BY <2>1, <2>2
<1>4. Followed(Shown(n), n, m)[k] = Shown(n)[k] \o Between(n, m)[k]
  BY DEF Followed
<1>5. /\ Elems(Told(n)[k] \o Between(n, m)[k]) = Elems(Told(n)[k]) \cup Elems(Between(n, m)[k])
      /\ Elems(Shown(n)[k] \o Between(n, m)[k]) = Elems(Shown(n)[k]) \cup Elems(Between(n, m)[k])
  BY <1>2, ElemsJoined
<1> QED
  BY <1>1, <1>3, <1>4, <1>5

\* The entry of a page that has merged the end holds the row's whole text.
LEMMA EntryHasAll ==
  ASSUME StreamInv, EndInv, TraceInv, TextInv,
         EndSeen, row.status = "COMPLETED", replays = 0, NEW k \in Kinds
  PROVE  Elems(row.text[k]) \subseteq Elems(local.text[k])
<1>0. /\ ShownTells /\ Complete /\ Traced(local) /\ local.status # "absent" /\ local \in Entry
      /\ log \in Seq(Event) /\ Len(log) \in Nat /\ DOMAIN log = 1 .. Len(log)
      /\ local.last \in Nat /\ row \in RowRecord
  BY DEF TextInv, TraceInv, EndSeen, StreamInv, StreamPart, RowPart, StorePart, Entry
<1>1. PICK e \in EndedAt : e <= local.last
  BY DEF EndSeen
<1>2. Told(e) = row.text /\ e \in 1 .. Len(log) /\ local.last \in 0 .. Len(log)
  BY <1>0, <1>1 DEF Complete, EndedAt, Traced
<1>3. CASE local.text = row.text
  BY <1>3
<1>4. ASSUME NEW n \in 0 .. local.last, local.text = Followed(Shown(n), n, local.last)
      PROVE  Elems(row.text[k]) \subseteq Elems(local.text[k])
  <2>0. n \in Nat /\ n <= local.last /\ n <= Len(log)
    BY <1>0, <1>2
  <2>1. CASE n > 0 /\ log[n].type = "ended"
    <3>1. Shown(n) = row.text
      <4>1. n \in DOMAIN log
        BY <1>0, <2>0, <2>1
      <4> QED
        BY <1>0, <2>1, <4>1 DEF ShownTells, Shown
    <3>2. local.text[k] = row.text[k] \o Between(n, local.last)[k]
      BY <1>4, <3>1 DEF Followed
    <3>3. row.text[k] \in Seq(Nat) /\ Between(n, local.last)[k] \in Seq(Nat)
      <4>1. row.text \in Texts /\ Between(n, local.last) \in Texts
        BY <1>0, <1>2, <2>0, BetweenTyped DEF RowRecord
      <4> QED
        BY <4>1 DEF Texts
    <3> QED
      BY <3>2, <3>3, ElemsJoined
  <2>2. CASE ~(n > 0 /\ log[n].type = "ended")
    <3>1. Elems(Told(local.last)[k]) \subseteq Elems(local.text[k])
      BY <1>0, <1>2, <1>4, <2>2, TracedTells
    <3>2. Told(local.last)[k] = Told(e)[k] \o Between(e, local.last)[k]
      <4>1. PICK m \in Nat : m = local.last
        BY <1>0
      <4>2. e \in Nat /\ e <= m /\ m <= Len(log)
        BY <1>0, <1>1, <1>2, <4>1
      <4>3. Between(0, m)[k] = Between(0, e)[k] \o Between(e, m)[k]
        BY <1>0, <4>2, BetweenSplits
      <4> QED
        BY <4>1, <4>3 DEF Told
    <3>3. Told(e)[k] \in Seq(Nat) /\ Between(e, local.last)[k] \in Seq(Nat)
      <4>1. Told(e) \in Texts /\ Between(e, local.last) \in Texts
        BY <1>0, <1>2, BetweenTyped DEF Told
      <4> QED
        BY <4>1 DEF Texts
    <3> QED
      BY <1>2, <3>1, <3>2, <3>3, ElemsJoined
  <2> QED
    BY <2>1, <2>2
<1> QED
  BY <1>0, <1>3, <1>4 DEF Traced

\* A page that has merged the end of a completed generation lacks none of its
\* deltas, whatever connections, calls, events and keys were lost on the way.
THEOREM NothingIsLost == Spec => []NoDeltaLost
<1>1. StreamInv /\ EndInv /\ TraceInv /\ TextInv => NoDeltaLost
  <2> SUFFICES ASSUME StreamInv, EndInv, TraceInv, TextInv,
                      EndSeen, row.status = "COMPLETED", replays = 0,
                      NEW k \in Kinds, NEW i \in 1 .. Len(row.text[k])
               PROVE  \E j \in 1 .. Len(local.text[k]) : local.text[k][j] = row.text[k][i]
    BY DEF NoDeltaLost
  <2>1. row.text[k][i] \in Elems(row.text[k])
    BY DEF Elems
  <2>2. Elems(row.text[k]) \subseteq Elems(local.text[k])
    BY EntryHasAll
  <2>3. row.text[k][i] \in Elems(local.text[k])
    BY <2>1, <2>2
  <2> QED
    BY <2>3 DEF Elems
<1> QED
  BY <1>1, TextInvHolds, PTL

----------------------------------------------------------------------------
(* Deltas that are shown twice                                             *)

Twice(s, x) == \E i, j \in 1 .. Len(s) : i # j /\ s[i] = x /\ s[j] = x
Once(s) == \A x \in Nat : ~Twice(s, x)

LEMMA TwiceJoined ==
  ASSUME NEW s \in Seq(Nat), NEW t \in Seq(Nat), NEW x, Twice(s \o t, x)
  PROVE  Twice(s, x) \/ Twice(t, x) \/ x \in Elems(s) \cap Elems(t)
<1>p. /\ Len(s \o t) = Len(s) + Len(t)
      /\ \A i \in 1 .. Len(s) + Len(t) :
            (s \o t)[i] = IF i <= Len(s) THEN s[i] ELSE t[i - Len(s)]
  BY ConcatProperties
<1>l. PICK a \in Nat, b \in Nat : a = Len(s) /\ b = Len(t)
  OBVIOUS
<1>1. PICK i \in 1 .. a + b, j \in 1 .. a + b : i # j /\ (s \o t)[i] = x /\ (s \o t)[j] = x
  BY <1>p, <1>l DEF Twice
<1>2. ASSUME NEW n \in 1 .. a + b
      PROVE  (s \o t)[n] = IF n <= a THEN s[n] ELSE t[n - a]
  BY <1>p, <1>l
<1>3. CASE i <= a /\ j <= a
  <2>1. i \in 1 .. a /\ j \in 1 .. a
    BY <1>1, <1>3
  <2>2. s[i] = x /\ s[j] = x
    BY <1>1, <1>2, <1>3
  <2> QED
    BY <1>1, <1>l, <2>1, <2>2 DEF Twice
<1>4. CASE ~(i <= a) /\ ~(j <= a)
  <2>1. i - a \in 1 .. b /\ j - a \in 1 .. b /\ i - a # j - a
    BY <1>1, <1>4
  <2>2. t[i - a] = x /\ t[j - a] = x
    BY <1>1, <1>2, <1>4
  <2> QED
    BY <1>l, <2>1, <2>2 DEF Twice
<1>5. ASSUME NEW p \in 1 .. a + b, NEW q \in 1 .. a + b, p <= a, ~(q <= a),
             (s \o t)[p] = x, (s \o t)[q] = x
      PROVE  x \in Elems(s) \cap Elems(t)
  <2>1. p \in 1 .. a /\ q - a \in 1 .. b
    BY <1>5
  <2>2. s[p] = x /\ t[q - a] = x
    BY <1>2, <1>5
  <2> QED
    BY <1>l, <2>1, <2>2 DEF Elems
<1> QED
  BY <1>1, <1>3, <1>4, <1>5

LEMMA OnceOne ==
  ASSUME NEW x \in Nat
  PROVE  Once(<<x>>) /\ Once(<<>>)
BY DEF Once, Twice

LEMMA OnceAppended ==
  ASSUME NEW s \in Seq(Nat), NEW x \in Nat, Once(s), x \notin Elems(s)
  PROVE  Once(s \o <<x>>) /\ Once(Append(s, x))
<1>1. <<x>> \in Seq(Nat) /\ Elems(<<x>>) = {x} /\ Once(<<x>>)
  BY ElemsOne, OnceOne
<1>2. ASSUME NEW y \in Nat, Twice(s \o <<x>>, y)
      PROVE  FALSE
  BY <1>1, <1>2, TwiceJoined DEF Once
<1>3. Append(s, x) = s \o <<x>>
  BY Appended
<1> QED
  BY <1>2, <1>3 DEF Once

EventOnce(e) ==
    /\ Once(e.delta) /\ \A k \in Kinds : Once(e.shown[k])
    /\ e.type = "ended" => e.kind = NoKind

\* The worker writes every delta once, each greater than all before it; the
\* buffer, an event, the state key and the row have no delta twice.
OnceInv ==
    /\ \A k \in Kinds : Once(text[k]) /\ \A x \in Elems(text[k]) : x <= DeltaCount
    /\ Once(bufferedDelta)
    /\ \A k \in Kinds : Once(row.text[k])
    /\ \A n \in DOMAIN log : EventOnce(log[n])

LEMMA InitOnce == Init => OnceInv
<1> SUFFICES ASSUME Init
             PROVE  OnceInv
  OBVIOUS
<1>1. /\ text = NoText /\ bufferedDelta = <<>> /\ row.text = NoText /\ DOMAIN log = {}
      /\ 0 \in Nat
  BY DEF Init
<1>2. \A k \in Kinds : NoText[k] = <<>>
  BY DEF NoText
<1> QED
  BY <1>1, <1>2, OnceOne, ElemsOne DEF OnceInv

\* What the provider sends next is new.
LEMMA TextOnce ==
  ASSUME StreamInv, OnceInv, [Next]_vars
  PROVE  \A k \in Kinds : Once(text'[k]) /\ \A x \in Elems(text'[k]) : x <= DeltaCount'
<1>0. DeltaCount \in Nat /\ DeltaCount + 1 \in Nat /\ text \in Texts
  <2>1. DeltaCount \in Nat /\ text \in Texts
    BY WriterValues
  <2> QED
    BY <2>1
<1>g. ASSUME NEW k \in Kinds, text' = [text EXCEPT ![k] = Append(@, DeltaCount + 1)],
             NEW j \in Kinds
      PROVE  Once(text'[j]) /\ \A x \in Elems(text'[j]) : x <= DeltaCount'
  <2>1. /\ DeltaCount' = DeltaCount + 1 /\ text'[k] = text[k] \o <<DeltaCount + 1>>
        /\ \A i \in Kinds \ {k} : text'[i] = text[i]
    BY <1>g, CountGrows
  <2>2. Once(text[j]) /\ \A x \in Elems(text[j]) : x <= DeltaCount
    BY DEF OnceInv
  <2>3. text[j] \in Seq(Nat) /\ Elems(text[j]) \subseteq Nat
    <3>1. text[j] \in Seq(Nat)
      BY <1>0 DEF Texts
    <3> QED
      BY <3>1 DEF Elems
  <2>4. CASE j = k
    <3>1. DeltaCount + 1 \notin Elems(text[j])
      BY <1>0, <2>2
    <3>2. Once(text'[j])
      BY <1>0, <2>1, <2>2, <2>3, <2>4, <3>1, OnceAppended
    <3>3. <<DeltaCount + 1>> \in Seq(Nat) /\ Elems(<<DeltaCount + 1>>) = {DeltaCount + 1}
      BY <1>0, ElemsOne
    <3>4. Elems(text'[j]) = Elems(text[j]) \cup {DeltaCount + 1}
      BY <2>1, <2>3, <2>4, <3>3, ElemsJoined
    <3> QED
      BY <1>0, <2>1, <2>2, <2>3, <3>2, <3>4
  <2>5. CASE j # k
    BY <1>0, <2>1, <2>2, <2>3, <2>5
  <2> QED
    BY <2>4, <2>5
<1>1. CASE UNCHANGED text
  BY <1>1 DEF OnceInv, DeltaCount, Length
<1>2. CASE text' = NoText
  <2>1. \A k \in Kinds : text'[k] = <<>>
    BY <1>2 DEF NoText
  <2>2. 0 \in Nat
    OBVIOUS
  <2> QED
    BY <2>1, <2>2, OnceOne, ElemsOne
<1>3. ASSUME NEW k \in Kinds, Receive(k) \/ ReceiveThrows(k)
      PROVE  text' = [text EXCEPT ![k] = Append(@, DeltaCount + 1)]
  <2>1. CASE Receive(k)
    BY <2>1 DEF Receive
  <2>2. CASE ReceiveThrows(k)
    <3>1. DeltaCount = 0 /\ text' = [text EXCEPT ![k] = Append(@, 1)]
      BY <2>2 DEF ReceiveThrows
    <3>2. DeltaCount + 1 = 1
      BY <3>1
    <3> QED
      BY <3>1, <3>2
  <2> QED
    BY <1>3, <2>1, <2>2
<1>4. Claim \/ Flush \/ Save \/ StreamEnds \/ Usage \/ Finalize
        => UNCHANGED text \/ text' = NoText
  BY DEF Claim, Flush, Save, StreamEnds, Usage, Finalize, Raise, Leave
<1>5. ~WriterStep => UNCHANGED text
  BY OthersWrite DEF writerVars
<1> QED
  BY <1>1, <1>2, <1>3, <1>4, <1>5, <1>g DEF WriterStep

LEMMA BufferOnce ==
  ASSUME StreamInv, Buffers, Within, OnceInv, [Next]_vars
  PROVE  Once(bufferedDelta')
<1>0. DeltaCount \in Nat /\ DeltaCount + 1 \in Nat /\ bufferedDelta \in Seq(Nat)
  <2>1. DeltaCount \in Nat /\ bufferedDelta \in Seq(Nat)
    BY WriterValues
  <2> QED
    BY <2>1
<1>1. CASE UNCHANGED bufferedDelta
  BY <1>1 DEF OnceInv
<1>2. CASE bufferedDelta' = <<>> \/ bufferedDelta' = <<DeltaCount>>
  BY <1>0, <1>2, OnceOne
<1>3. ASSUME NEW k \in Kinds, Receive(k)
      PROVE  Once(bufferedDelta')
  <2>1. CASE bufferedType \in {NoKind, k} /\ bufferedDelta' = Append(bufferedDelta, DeltaCount + 1)
    <3>1. bufferedDelta = Buffered(k)
      BY <2>1, WriterValues DEF Buffered, Buffers
    <3>2. Elems(Buffered(k)) \subseteq Elems(text[k])
      BY <1>3 DEF Within, Running, Receive
    <3>3. DeltaCount + 1 \notin Elems(text[k])
      BY <1>0 DEF OnceInv
    <3> QED
      BY <1>0, <2>1, <3>1, <3>2, <3>3, OnceAppended DEF OnceInv
  <2> QED
    BY <1>1, <1>3, <2>1 DEF Receive
<1>4. ASSUME NEW k \in Kinds, ReceiveThrows(k)
      PROVE  UNCHANGED bufferedDelta
  BY <1>4 DEF ReceiveThrows, bufferVars
<1>5. CASE Claim \/ Flush \/ Save \/ StreamEnds \/ Usage \/ Finalize
  <2>1. UNCHANGED bufferVars \/ Flushed \/ Leave
    BY <1>5 DEF Claim, Flush, Save, StreamEnds, Usage, Finalize, Raise
  <2> QED
    BY <1>1, <1>2, <2>1 DEF bufferVars, Flushed, Leave
<1>6. CASE ~WriterStep
  BY <1>1, <1>6, OthersWrite DEF writerVars, bufferVars
<1> QED
  BY <1>1, <1>3, <1>4, <1>5, <1>6 DEF WriterStep

LEMMA RowOnce ==
  ASSUME StreamInv, RowEnds, Buffers, OnceInv, [Next]_vars
  PROVE  \A k \in Kinds : Once(row'.text[k])
<1>0. row \in RowRecord
  BY DEF StreamInv, RowPart
<1>1. row'.text = row.text \/ row'.text = text
  <2>1. CASE Announce \/ Acknowledge
    BY <1>0, <2>1 DEF Announce, Acknowledge, RowRecord
  <2> QED
    BY <2>1, RowTextMoves
<1> QED
  BY <1>1 DEF OnceInv

LEMMA LogOnce ==
  ASSUME StreamInv, RowEnds, RowTraced, OnceInv, [Next]_vars
  PROVE  \A n \in DOMAIN log' : EventOnce(log'[n])
<1>0. log \in Seq(Event)
  BY DEF StreamInv, StreamPart
<1>n. Once(<<>>)
  <2>1. 0 \in Nat
    OBVIOUS
  <2> QED
    BY <2>1, OnceOne
<1>1. CASE UNCHANGED log
  BY <1>1 DEF OnceInv
<1>2. ASSUME NEW e \in Event, log' = Append(log, e), EventOnce(e), NEW n \in DOMAIN log'
      PROVE  EventOnce(log'[n])
  <2>1. \/ log'[n] = e
        \/ n \in DOMAIN log /\ log'[n] = log[n]
    BY <1>0, <1>2, Grown
  <2> QED
    BY <1>2, <2>1 DEF OnceInv
<1>3. CASE /\ Announce /\ log' = Append(log, EndedEvent) /\ notice.state = "pending"
  <2>1. EndedEvent \in Event /\ EndedEvent.kind = NoKind /\ EndedEvent.shown = row.text
    BY <1>3, EventKinds DEF RowTraced
  <2>2. EndedEvent.delta = <<>>
    BY DEF EndedEvent
  <2>3. \A k \in Kinds : Once(EndedEvent.shown[k])
    BY <2>1 DEF OnceInv
  <2>4. EventOnce(EndedEvent)
    BY <1>n, <2>1, <2>2, <2>3 DEF EventOnce
  <2> QED
    BY <1>2, <1>3, <2>1, <2>4
<1>4. ASSUME NEW e \in {StartedEvent, DeltaEvent, UsageEvent}, Publish(e)
      PROVE  \A n \in DOMAIN log' : EventOnce(log'[n])
  <2>1. e \in Event /\ e.shown = text /\ e.type # "ended"
    BY EventKinds
  <2>2. e.delta \in {<<>>, bufferedDelta}
    BY DEF StartedEvent, DeltaEvent, UsageEvent
  <2>3. Once(e.delta) /\ \A k \in Kinds : Once(e.shown[k])
    BY <1>n, <2>1, <2>2 DEF OnceInv
  <2>4. log' = Append(log, e) /\ EventOnce(e)
    BY <1>4, <2>1, <2>3 DEF Publish, EventOnce
  <2> QED
    BY <1>2, <2>1, <2>4
<1>5. CASE Flush
  <2>1. Publish(StartedEvent) \/ Publish(DeltaEvent) \/ UNCHANGED log
    BY <1>5 DEF Flush, PublishThrows, streamVars
  <2> QED
    BY <1>1, <1>4, <2>1
<1>6. CASE Usage
  <2>1. Publish(UsageEvent) \/ UNCHANGED log
    BY <1>6 DEF Usage, PublishThrows, streamVars
  <2> QED
    BY <1>1, <1>4, <2>1
<1> QED
  BY <1>1, <1>3, <1>5, <1>6, Publishers

LEMMA OnceInvHolds == Spec => [](StreamInv /\ EndInv /\ TraceInv /\ TextInv /\ OnceInv)
<1>1. StreamInv /\ EndInv /\ TraceInv /\ TextInv /\ OnceInv /\ [Next]_vars => OnceInv'
  <2> SUFFICES ASSUME StreamInv, EndInv, TraceInv, TextInv, OnceInv, [Next]_vars
               PROVE  OnceInv'
    OBVIOUS
  <2>1. RowEnds /\ Buffers /\ RowTraced /\ Within
    BY DEF EndInv, TraceInv, TextInv
  <2> QED
    BY <2>1, TextOnce, BufferOnce, RowOnce, LogOnce DEF OnceInv
<1> QED
  BY <1>1, InitOnce, TextInvHolds, PTL DEF Spec

\* Event n adds x to the text of kind k.
Adds(n, k, x) == log[n].kind = k /\ x \in Elems(log[n].delta)

LEMMA DeltaAdds ==
  ASSUME NEW n \in DOMAIN log, NEW k \in Kinds, NEW x
  PROVE  x \in Elems(Delta(log, n, k)) <=> Adds(n, k, x)
BY DEF Delta, Adds, Elems

\* What the deltas of a run of events hold comes from one of them, and what
\* they hold twice from two.
LEMMA BetweenOrigin ==
  ASSUME StreamInv, OnceInv, NEW n \in Nat, NEW m \in Nat, n <= m, m <= Len(log),
         NEW k \in Kinds, NEW x \in Nat
  PROVE  /\ x \in Elems(Between(n, m)[k]) => \E a \in n + 1 .. m : Adds(a, k, x)
         /\ Twice(Between(n, m)[k], x) =>
              \E b \in n + 1 .. m : Adds(b, k, x) /\ \E a \in n + 1 .. b - 1 : Adds(a, k, x)
<1>0. log \in Seq(Event) /\ Len(log) \in Nat /\ 0 \in Nat
  BY DEF StreamInv, StreamPart
<1> DEFINE One(i) == \E a \in n + 1 .. i : Adds(a, k, x)
           Two(i) == \E b \in n + 1 .. i : Adds(b, k, x) /\ \E a \in n + 1 .. b - 1 : Adds(a, k, x)
           P(i) == n <= i /\ i <= Len(log) =>
                     /\ x \in Elems(Between(n, i)[k]) => One(i)
                     /\ Twice(Between(n, i)[k], x) => Two(i)
           S == {i \in Nat : P(i)}
<1>e. ASSUME NEW i \in Nat, i = n, n <= Len(log)
      PROVE  x \notin Elems(Between(n, i)[k]) /\ ~Twice(Between(n, i)[k], x)
  <2>1. Between(n, i)[k] = <<>>
    BY <1>0, <1>e, BetweenNone DEF NoText
  <2> QED
    BY <1>0, <2>1, ElemsOne, OnceOne DEF Once
<1>1. P(0)
  <2>1. n <= 0 => n = 0
    OBVIOUS
  <2> QED
    BY <1>0, <1>e, <2>1
<1>2. ASSUME NEW i \in Nat, P(i)
      PROVE  P(i + 1)
  <2> SUFFICES ASSUME n <= i + 1, i + 1 <= Len(log)
               PROVE  /\ x \in Elems(Between(n, i + 1)[k]) => One(i + 1)
                      /\ Twice(Between(n, i + 1)[k], x) => Two(i + 1)
    OBVIOUS
  <2>1. CASE n = i + 1
    BY <1>e, <2>1
  <2>2. CASE n <= i
    <3> DEFINE d == Delta(log, i + 1, k)
               t == Between(n, i)[k]
    <3>0. /\ i + 1 \in 1 .. Len(log) /\ i + 1 \in DOMAIN log /\ i <= Len(log)
          /\ i + 1 \in n + 1 .. i + 1 /\ (i + 1) - 1 = i
          /\ \A j \in n + 1 .. i : j \in n + 1 .. i + 1
      BY <1>0, <2>2
    <3>1. Between(n, i + 1)[k] = t \o d
      BY <1>0, <2>2, <3>0, BetweenNext
    <3>2. d \in Seq(Nat)
      BY <1>0, <3>0, DeltaTyped
    <3>3. t \in Seq(Nat)
      BY <1>0, <3>0, BetweenTyped DEF Texts
    <3>4. x \in Elems(d) <=> Adds(i + 1, k, x)
      BY <3>0, DeltaAdds
    <3>5. ~Twice(d, x)
      <4>1. Once(log[i + 1].delta)
        BY <3>0 DEF OnceInv, EventOnce
      <4> QED
        BY <1>0, <4>1, OnceOne DEF Once, Delta
    <3>6. x \in Elems(t) => One(i)
      BY <1>2, <2>2, <3>0
    <3>7. Twice(t, x) => Two(i)
      BY <1>2, <2>2, <3>0
    <3> HIDE DEF t, d
    <3>8. Elems(t \o d) = Elems(t) \cup Elems(d)
      BY <3>2, <3>3, ElemsJoined
    <3>9. Twice(t \o d, x) => Twice(t, x) \/ x \in Elems(t) \cap Elems(d)
      BY <3>2, <3>3, <3>5, TwiceJoined
    <3>10. One(i) \/ Adds(i + 1, k, x) => One(i + 1)
      BY <3>0
    <3>11. Two(i) \/ (One(i) /\ Adds(i + 1, k, x)) => Two(i + 1)
      BY <3>0
    <3> HIDE DEF One, Two
    <3> QED
      BY <3>1, <3>4, <3>6, <3>7, <3>8, <3>9, <3>10, <3>11
  <2>3. n = i + 1 \/ n <= i
    OBVIOUS
  <2> QED
    BY <2>1, <2>2, <2>3
<1> HIDE DEF P
<1>3. 0 \in S
  BY <1>0, <1>1
<1>4. \A i \in Nat : i \in S => i + 1 \in S
  BY <1>2
<1> HIDE DEF S
<1>5. m \in S
  BY <1>3, <1>4, Induction
<1>6. P(m)
  BY <1>5 DEF S
<1> QED
  BY <1>6 DEF P

\* An event that adds a delta shows it.
LEMMA AddsShows ==
  ASSUME StreamInv, ShownTells, OnceInv, NEW n \in 1 .. Len(log), NEW k \in Kinds, NEW x \in Nat,
         Adds(n, k, x)
  PROVE  x \in Elems(Shown(n)[k])
<1>0. /\ log \in Seq(Event) /\ n \in Nat /\ n # 0 /\ n \in DOMAIN log /\ n - 1 \in Nat
      /\ (n - 1) + 1 = n /\ n - 1 <= Len(log) /\ n <= Len(log) /\ 0 <= n - 1 /\ 0 \in Nat
  BY DEF StreamInv, StreamPart
<1>1. PICK l \in Nat : l = n - 1
  BY <1>0
<1>2. Told(n)[k] = Told(l)[k] \o Delta(log, n, k)
  <2>1. 0 <= l /\ l + 1 <= Len(log) /\ l + 1 = n
    BY <1>0, <1>1
  <2> QED
    BY <1>0, <2>1, BetweenNext DEF Told
<1>3. Told(l)[k] \in Seq(Nat)
  <2>1. Told(l) \in Texts
    BY <1>0, <1>1, BetweenTyped DEF Told
  <2> QED
    BY <2>1 DEF Texts
<1>4. Delta(log, n, k) \in Seq(Nat)
  BY <1>0, DeltaTyped
<1>5. x \in Elems(Told(n)[k])
  <2>1. x \in Elems(Delta(log, n, k))
    BY <1>0, DeltaAdds
  <2> QED
    BY <1>2, <1>3, <1>4, <2>1, ElemsJoined
<1>6. log[n].type # "ended"
  <2>1. EventOnce(log[n]) /\ log[n].kind = k /\ k # NoKind
    BY <1>0, StreamAssumption DEF OnceInv, Adds
  <2> QED
    BY <2>1 DEF EventOnce
<1> QED
  BY <1>0, <1>5, <1>6 DEF ShownTells, Shown

\* A delta that the page shows twice was told by an event the page has merged
\* although the state key of an earlier one had shown it: that is the
\* worker's doing.  Repeated frames, histories, snapshots, answers and
\* reconnections double nothing.
THEOREM PageDoublesNothing == Spec => []OnlyThePublisherDoubles
<1>1. StreamInv /\ EndInv /\ TraceInv /\ TextInv /\ OnceInv => OnlyThePublisherDoubles
  <2> SUFFICES ASSUME StreamInv, EndInv, TraceInv, TextInv, OnceInv, local.status # "absent",
                      NEW k \in Kinds, NEW i \in 1 .. Len(local.text[k]),
                      NEW j \in 1 .. Len(local.text[k]), i # j,
                      local.text[k][i] = local.text[k][j]
               PROVE  \E m \in 2 .. local.last : \E n \in 1 .. m - 1 :
                        /\ log[m].kind = k
                        /\ local.text[k][i] \in Elems(log[m].delta) \cap Elems(Shown(n)[k])
    BY DEF OnlyThePublisherDoubles
  <2>0. /\ ShownTells /\ Traced(local) /\ log \in Seq(Event) /\ Len(log) \in Nat
        /\ local \in Entry /\ DOMAIN log = 1 .. Len(log) /\ 0 \in Nat
    BY DEF TraceInv, TextInv, StreamInv, StreamPart, StorePart
  <2>l. PICK last \in Nat : last = local.last /\ last <= Len(log)
    BY <2>0 DEF Entry, Traced
  <2>x. PICK x \in Nat : x = local.text[k][i] /\ Twice(local.text[k], x)
    <3>1. local.text[k] \in Seq(Nat)
      BY <2>0 DEF Entry, Texts
    <3>2. local.text[k][i] \in Nat
      BY <3>1
    <3> QED
      BY <3>2 DEF Twice
  <2>t. ASSUME NEW n \in Nat, n <= last
        PROVE  /\ Between(n, last)[k] \in Seq(Nat)
               /\ x \in Elems(Between(n, last)[k]) => \E a \in n + 1 .. last : Adds(a, k, x)
               /\ Twice(Between(n, last)[k], x) =>
                    \E b \in n + 1 .. last :
                        Adds(b, k, x) /\ \E a \in n + 1 .. b - 1 : Adds(a, k, x)
    <3>1. Between(n, last)[k] \in Seq(Nat)
      <4>1. Between(n, last) \in Texts
        BY <2>0, <2>l, BetweenTyped
      <4> QED
        BY <4>1 DEF Texts
    <3> QED
      BY <2>l, <2>t, <3>1, BetweenOrigin
  <2>a. ASSUME NEW m \in 2 .. last, NEW n \in 1 .. m - 1, Adds(m, k, x),
               x \in Elems(Shown(n)[k])
        PROVE  \E mm \in 2 .. local.last : \E nn \in 1 .. mm - 1 :
                 /\ log[mm].kind = k
                 /\ local.text[k][i] \in Elems(log[mm].delta) \cap Elems(Shown(nn)[k])
    BY <2>a, <2>l, <2>x DEF Adds
  <2>b. ASSUME NEW n \in Nat, n <= last, Twice(Between(n, last)[k], x)
        PROVE  \E m \in 2 .. last : \E nn \in 1 .. m - 1 :
                 Adds(m, k, x) /\ x \in Elems(Shown(nn)[k])
    <3>1. PICK b \in n + 1 .. last : Adds(b, k, x) /\ \E a \in n + 1 .. b - 1 : Adds(a, k, x)
      BY <2>b, <2>t
    <3>2. PICK a \in n + 1 .. b - 1 : Adds(a, k, x)
      BY <3>1
    <3>3. b \in 2 .. last /\ a \in 1 .. b - 1 /\ a \in 1 .. Len(log)
      BY <2>0, <2>l
    <3>4. x \in Elems(Shown(a)[k])
      BY <2>0, <3>2, <3>3, AddsShows
    <3> QED
      BY <3>1, <3>3, <3>4
  <2>1. CASE \E n \in 0 .. last : local.text = Followed(Shown(n), n, last)
    <3>1. PICK n \in 0 .. last : local.text = Followed(Shown(n), n, last)
      BY <2>1
    <3>2. local.text[k] = Shown(n)[k] \o Between(n, last)[k] /\ n \in Nat /\ n <= last
      <4>1. local.text[k] = Shown(n)[k] \o Between(n, last)[k]
        BY <3>1 DEF Followed
      <4> QED
        BY <4>1
    <3>3. /\ Shown(n)[k] \in Seq(Nat) /\ ~Twice(Shown(n)[k], x)
          /\ n = 0 => x \notin Elems(Shown(n)[k])
      <4>1. CASE n = 0
        <5>1. Shown(n)[k] = <<>>
          BY <4>1 DEF Shown, NoText
        <5>2. <<>> \in Seq(Nat)
          OBVIOUS
        <5>3. ~Twice(<<>>, x) /\ x \notin Elems(<<>>)
          BY ElemsOne, OnceOne DEF Once
        <5> QED
          BY <5>1, <5>2, <5>3
      <4>2. CASE n # 0
        <5>1. n \in 1 .. Len(log) /\ Shown(n) = log[n].shown
          BY <2>l, <3>2, <4>2 DEF Shown
        <5>2. log[n] \in Event /\ EventOnce(log[n])
          BY <2>0, <5>1 DEF OnceInv
        <5>3. log[n].shown[k] \in Seq(Nat)
          BY <5>2 DEF Event, Texts
        <5> QED
          BY <4>2, <5>1, <5>2, <5>3 DEF EventOnce, Once
      <4> QED
        BY <4>1, <4>2
    <3>4. CASE Twice(Between(n, last)[k], x)
      BY <2>a, <2>b, <3>2, <3>4
    <3>5. CASE x \in Elems(Shown(n)[k]) \cap Elems(Between(n, last)[k])
      <4>1. PICK m \in n + 1 .. last : Adds(m, k, x)
        BY <2>t, <3>2, <3>5
      <4>2. n # 0
        BY <3>3, <3>5
      <4>3. m \in 2 .. last /\ n \in 1 .. m - 1
        BY <3>2, <4>2
      <4> QED
        BY <2>a, <3>5, <4>1, <4>3
    <3> QED
      BY <2>t, <2>x, <3>2, <3>3, <3>4, <3>5, TwiceJoined
  <2>2. local.text # row.text
    BY <2>x DEF OnceInv, Once
  <2>3. CASE \E n \in 0 .. last : local.text = Between(n, last)
    <3>1. PICK n \in 0 .. last : local.text = Between(n, last)
      BY <2>3
    <3> QED
      BY <2>a, <2>b, <2>x, <3>1
  <2> QED
    BY <2>0, <2>1, <2>2, <2>3, <2>l DEF Traced
<1> QED
  BY <1>1, OnceInvHolds, PTL
=============================================================================
