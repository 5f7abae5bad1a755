--------------------------- MODULE ResponseEventLog ---------------------------
(***************************************************************************)
(* The replay log of one response: the persister tasks of its attempts     *)
(* number and store the events of the provider's stream, most of them      *)
(* through the shared ResponseEventBuffer and its drainer task, and a      *)
(* `GET /v1/responses/{id}?stream=true` reader replays them from the       *)
(* `response_events` table while they arrive.                              *)
(*                                                                         *)
(* An action is the code between two await points.  Events are what the    *)
(* properties tell apart: number, attempt, kind, and whether the persister *)
(* made them up.  The rest of the row's life is in ResponseLifecycle.      *)
(***************************************************************************)
EXTENDS Naturals, Sequences, FiniteSets

CONSTANTS
  MaxAttempts,   \* persister tasks the response may get
  MaxEvents,     \* bound: events of one attempt that get a number
  MaxChunk,      \* bound: complete SSE events in one upstream chunk
  Capacity,      \* capacity of the buffer's channel
  MaxBatch,      \* the drainer's max_batch
  PageSize,      \* REPLAY_PAGE_SIZE
  Ends,          \* terminal statuses the provider's stream may report
  Disturbances,  \* what else may happen: subset of AllDisturbances
  MaxNoise,      \* bound: events other responses push
  MaxFaults      \* bound: failed database statements

AllDisturbances == {"cut", "error", "cancel", "disconnect", "shutdown"}

ASSUME EventLogAssumption ==
  /\ {MaxAttempts, MaxChunk, Capacity, MaxBatch, PageSize} \subseteq Nat \ {0}
  /\ {MaxEvents, MaxNoise, MaxFaults} \subseteq Nat
  /\ Ends \subseteq {"completed", "failed", "incomplete"}
  /\ Disturbances \subseteq AllDisturbances

Attempts == 1 .. MaxAttempts
MaxSeq == MaxAttempts * (MaxEvents + 1)
Seqs == 1 .. MaxSeq
Terminal == {"completed", "failed", "cancelled", "incomplete"}
Kinds == {"delta"} \cup Ends

VARIABLES
  \* The database.
  status,      \* responses.status
  lastSeq,     \* responses.last_sequence_number
  log,         \* response_events by sequence number
  \* The event buffer and its drainer.
  channel,     \* events waiting in the bounded channel
  flushq,      \* attempts whose flush request waits
  drainer,     \* where the drainer task is
  batch,       \* the drainer's buffer, then the batch it writes
  acking,      \* attempts to acknowledge after this write
  shutdown,    \* shutdown() was called
  \* The persister task of each attempt.
  pc,
  seqno,       \* sequence_number
  start,       \* initial_sequence_number
  chunk,       \* events of the chunk still to handle
  cur,         \* the event at hand
  captured,    \* terminal_status: that of the first terminal event handled
  persisted,   \* terminal_event_persisted
  cancelled,   \* the cancel signal ended the loop
  gone,        \* the receiving side of the task's channel was dropped
  sent,        \* the first terminal status the provider sent, handled or not
  \* The worker, the cancel handler and the reader.
  retry,       \* run_with_retry is between its update and its reload
  asked,       \* a cancel was requested
  rpc, cursor, got,
  noise, faults

rowVars     == <<status, lastSeq, log>>
bufferVars  == <<channel, flushq, drainer, batch, acking, shutdown>>
taskVars    == <<pc, seqno, start, chunk, cur, captured, persisted, cancelled,
                 gone, sent>>
readerVars  == <<rpc, cursor, got>>
otherVars   == <<retry, asked, noise, faults>>

vars == <<rowVars, bufferVars, taskVars, readerVars, otherVars>>

NoEvent == [seq |-> 0, att |-> 0, kind |-> "delta", synth |-> FALSE]
Events  == [seq : 0 .. MaxSeq, att : 0 .. MaxAttempts,
            kind : {"delta"} \cup Terminal, synth : BOOLEAN]

TaskStates == {"off", "recv", "each", "wait", "again", "insert", "ratchet",
               "forward", "close", "complete", "done", "errored"}

Init ==
  /\ status = "in_progress"
  /\ lastSeq = 0
  /\ log = [s \in Seqs |-> NoEvent]
  /\ channel = <<>>
  /\ flushq = <<>>
  /\ drainer = "select"
  /\ batch = <<>>
  /\ acking = {}
  /\ shutdown = FALSE
  /\ pc = [k \in Attempts |-> IF k = 1 THEN "recv" ELSE "off"]
  /\ seqno = [k \in Attempts |-> 0]
  /\ start = [k \in Attempts |-> 0]
  /\ chunk = [k \in Attempts |-> <<>>]
  /\ cur = [k \in Attempts |-> NoEvent]
  /\ captured = [k \in Attempts |-> "none"]
  /\ persisted = [k \in Attempts |-> FALSE]
  /\ cancelled = [k \in Attempts |-> FALSE]
  /\ gone = [k \in Attempts |-> FALSE]
  /\ sent = [k \in Attempts |-> "none"]
  /\ retry = FALSE
  /\ asked = FALSE
  /\ rpc = "list"
  /\ cursor = 0
  /\ got = {}
  /\ noise = 0
  /\ faults = 0

-----------------------------------------------------------------------------
(* The repository: insert_batch and set_last_sequence.                      *)

\* Mutant: the newer event replaces the stored one.
InsertBatchReplaces(events) ==
  [s \in Seqs |->
     IF \E i \in DOMAIN events : events[i].seq = s
     THEN events[CHOOSE i \in DOMAIN events :
            /\ events[i].seq = s
            /\ \A j \in i + 1 .. Len(events) : events[j].seq # s]
     ELSE log[s]]

\* INSERT OR IGNORE: a number that is already in the log keeps its event.
InsertBatch(events) ==
  [s \in Seqs |->
     IF log[s] = NoEvent /\ \E i \in DOMAIN events : events[i].seq = s
     THEN events[CHOOSE i \in DOMAIN events :
            /\ events[i].seq = s
            /\ \A j \in 1 .. i - 1 : events[j].seq # s]
     ELSE log[s]]

\* set_last_sequence only ratchets upward.
SetLastSequence(s) == lastSeq' = IF s > lastSeq THEN s ELSE lastSeq

DbFault == faults < MaxFaults /\ faults' = faults + 1

-----------------------------------------------------------------------------
(* ResponseEventBuffer.                                                     *)

\* flush(): with the drainer gone it returns at once.
RequestFlush(k, then) ==
  IF drainer = "exited"
  THEN pc' = [pc EXCEPT ![k] = then] /\ UNCHANGED flushq
  ELSE pc' = [pc EXCEPT ![k] = "wait"] /\ flushq' = Append(flushq, k)

\* Where the task goes on when its flush() returns.
AfterFlush(k) == IF cur[k].kind = "delta" THEN "again" ELSE "insert"

Acknowledge(ks) ==
  pc' = [k \in Attempts |-> IF k \in ks THEN AfterFlush(k) ELSE pc[k]]

\* The drainer takes one event off the channel.  The select is biased: a
\* shutdown and a flush request come first.
DrainRecv ==
  /\ drainer = "select" /\ ~shutdown /\ flushq = <<>>
  /\ channel # <<>>
  /\ batch' = Append(batch, Head(channel))
  /\ channel' = Tail(channel)
  /\ drainer' = IF Len(batch') >= MaxBatch THEN "insert" ELSE "select"
  /\ UNCHANGED <<rowVars, flushq, acking, shutdown, taskVars, readerVars,
                 otherVars>>

\* flush_interval passes with nothing on the channel.
DrainTimeout ==
  /\ drainer = "select" /\ ~shutdown /\ flushq = <<>>
  /\ channel = <<>> /\ batch # <<>>
  /\ drainer' = "insert"
  /\ UNCHANGED <<rowVars, channel, flushq, batch, acking, shutdown, taskVars,
                 readerVars, otherVars>>

\* A flush request: everything queued joins the batch before it is written.
DrainFlush ==
  /\ drainer = "select" /\ ~shutdown
  /\ flushq # <<>>
  /\ flushq' = Tail(flushq)
  /\ batch' = batch \o channel
  /\ channel' = <<>>
  /\ IF batch' = <<>>
     THEN /\ Acknowledge({Head(flushq)})
          /\ UNCHANGED <<drainer, acking>>
     ELSE /\ drainer' = "insert"
          /\ acking' = {Head(flushq)}
          /\ UNCHANGED pc
  /\ UNCHANGED <<rowVars, shutdown, seqno, start, chunk, cur, captured,
                 persisted, cancelled, gone, sent, readerVars, otherVars>>

\* Shutdown: the final drain of the channel, written if there is anything.
DrainFinal ==
  /\ drainer = "select" /\ shutdown
  /\ batch' = batch \o channel
  /\ channel' = <<>>
  /\ IF batch' = <<>>
     THEN /\ drainer' = "exited"
          /\ flushq' = <<>>
          /\ Acknowledge({flushq[i] : i \in DOMAIN flushq})
     ELSE drainer' = "lastInsert" /\ UNCHANGED <<flushq, pc>>
  /\ UNCHANGED <<rowVars, acking, shutdown, seqno, start, chunk, cur, captured,
                 persisted, cancelled, gone, sent, readerVars, otherVars>>

\* Mutant: an exiting drainer keeps the flush receiver open.
WriteEndedKeepsWaiting ==
  /\ batch' = <<>>
  /\ acking' = {}
  /\ drainer' = IF drainer \in {"lastInsert", "lastRatchet"}
                THEN "exited" ELSE "select"
  /\ Acknowledge(acking)
  /\ UNCHANGED <<flushq, channel>>

\* The batch write ended: acknowledge and loop, or exit.  An exiting drainer
\* drops both receivers, which ends every waiting flush() and loses what was
\* pushed after the final drain.
WriteEnded ==
  LET last == drainer \in {"lastInsert", "lastRatchet"} IN
  /\ batch' = <<>>
  /\ acking' = {}
  /\ drainer' = IF last THEN "exited" ELSE "select"
  /\ flushq' = IF last THEN <<>> ELSE flushq
  /\ channel' = IF last THEN <<>> ELSE channel
  /\ Acknowledge(acking \cup
       (IF last THEN {flushq[i] : i \in DOMAIN flushq} ELSE {}))

\* flush: the insert.  A failed batch is logged and gone.
DrainInsert ==
  /\ drainer \in {"insert", "lastInsert"}
  /\ \/ /\ log' = InsertBatch(batch)
        /\ drainer' = IF drainer = "insert" THEN "ratchet" ELSE "lastRatchet"
        /\ UNCHANGED <<channel, flushq, batch, acking, pc, faults>>
     \/ /\ DbFault
        /\ WriteEnded
        /\ UNCHANGED log
  /\ UNCHANGED <<status, lastSeq, shutdown, seqno, start, chunk, cur, captured,
                 persisted, cancelled, gone, sent, readerVars, retry, asked, noise>>

\* flush: the ratchet to the batch's largest number.
DrainRatchet ==
  LET seqs == {batch[i].seq : i \in DOMAIN batch} IN
  /\ drainer \in {"ratchet", "lastRatchet"}
  /\ \/ /\ SetLastSequence(CHOOSE s \in seqs : \A t \in seqs : t <= s)
        /\ UNCHANGED faults
     \/ DbFault /\ UNCHANGED lastSeq
  /\ WriteEnded
  /\ UNCHANGED <<status, log, shutdown, seqno, start, chunk, cur, captured,
                 persisted, cancelled, gone, sent, readerVars, retry, asked, noise>>

\* Another response's persister pushes an event.
OtherPush ==
  /\ noise < MaxNoise
  /\ drainer # "exited" /\ Len(channel) < Capacity
  /\ noise' = noise + 1
  /\ channel' = Append(channel, NoEvent)
  /\ UNCHANGED <<rowVars, flushq, drainer, batch, acking, shutdown, taskVars,
                 readerVars, retry, asked, faults>>

\* cli::server calls shutdown() while background executions still run.
Shutdown ==
  /\ "shutdown" \in Disturbances /\ ~shutdown
  /\ shutdown' = TRUE
  /\ UNCHANGED <<rowVars, channel, flushq, drainer, batch, acking, taskVars,
                 readerVars, otherVars>>

-----------------------------------------------------------------------------
(* The persister task of attempt k.                                         *)

Chunks == UNION {[1 .. n -> Kinds] : n \in 1 .. MaxChunk}

FirstTerminal(c) ==
  IF \E i \in DOMAIN c : c[i] # "delta"
  THEN c[CHOOSE i \in DOMAIN c : c[i] # "delta" /\ \A j \in 1 .. i - 1 : c[j] = "delta"]
  ELSE "none"

\* body_stream.next() yields a chunk of complete events.
TaskChunk(k) ==
  /\ pc[k] = "recv"
  /\ \E c \in Chunks :
       /\ seqno[k] - start[k] + Len(c) <= MaxEvents
       /\ chunk' = [chunk EXCEPT ![k] = c]
       /\ sent' = [sent EXCEPT ![k] = IF @ = "none" THEN FirstTerminal(c) ELSE @]
  /\ pc' = [pc EXCEPT ![k] = "each"]
  /\ UNCHANGED <<rowVars, bufferVars, seqno, start, cur, captured, persisted,
                 cancelled, gone, readerVars, otherVars>>

\* Mutant: the overflow path commits the event at once, ahead of the queue.
TryPushNoFlush(k, event, full) ==
  \/ /\ drainer = "exited"
     /\ pc' = [pc EXCEPT ![k] = "forward"]
     /\ UNCHANGED <<channel, flushq>>
  \/ /\ drainer # "exited" /\ Len(channel) < Capacity
     /\ channel' = Append(channel, event)
     /\ pc' = [pc EXCEPT ![k] = "forward"]
     /\ UNCHANGED flushq
  \/ /\ drainer # "exited" /\ Len(channel) = Capacity
     /\ pc' = [pc EXCEPT ![k] = "insert"]
     /\ UNCHANGED <<channel, flushq>>

\* push(): try_send.  A full channel costs a flush and a second try; with the
\* drainer gone the event is dropped.
TryPush(k, event, full) ==
  \/ /\ drainer = "exited"
     /\ pc' = [pc EXCEPT ![k] = "forward"]
     /\ UNCHANGED <<channel, flushq>>
  \/ /\ drainer # "exited" /\ Len(channel) < Capacity
     /\ channel' = Append(channel, event)
     /\ pc' = [pc EXCEPT ![k] = "forward"]
     /\ UNCHANGED flushq
  \/ /\ drainer # "exited" /\ Len(channel) = Capacity
     /\ IF full = "flush"
        THEN RequestFlush(k, "again")
        ELSE pc' = [pc EXCEPT ![k] = full] /\ UNCHANGED flushq
     /\ UNCHANGED channel

\* Mutant: a terminal event is inserted without the flush before it.
StoreEventNoFlush(k, event) ==
  IF event.kind = "delta"
  THEN TryPush(k, event, "flush")
  ELSE pc' = [pc EXCEPT ![k] = "insert"] /\ UNCHANGED <<channel, flushq>>

\* A terminal event is inserted synchronously after a flush, any other one is
\* pushed.
StoreEvent(k, event) ==
  IF event.kind = "delta"
  THEN TryPush(k, event, "flush")
  ELSE RequestFlush(k, "insert") /\ UNCHANGED channel

\* Mutant: the first event is captured, terminal or not.
CaptureAny(old, kind) == IF old = "none" THEN kind ELSE old

\* Mutant: the last terminal event wins.
CaptureLast(old, kind) == IF kind # "delta" THEN kind ELSE old

\* inspect_terminal_event: the first terminal event is captured.
Capture(old, kind) == IF old = "none" /\ kind # "delta" THEN kind ELSE old

\* One event of the chunk: take the next number, remember the first terminal
\* event, store it.
TaskEvent(k) ==
  LET event == [seq |-> seqno[k] + 1, att |-> k, kind |-> Head(chunk[k]),
                synth |-> FALSE] IN
  /\ pc[k] = "each"
  /\ seqno' = [seqno EXCEPT ![k] = event.seq]
  /\ cur' = [cur EXCEPT ![k] = event]
  /\ captured' = [captured EXCEPT ![k] = Capture(@, event.kind)]
  /\ StoreEvent(k, event)
  /\ UNCHANGED <<rowVars, drainer, batch, acking, shutdown, start, chunk,
                 persisted, cancelled, gone, sent, readerVars, otherVars>>

\* The second try after the flush; still full means a synchronous insert.
TaskPushAgain(k) ==
  /\ pc[k] = "again"
  /\ TryPush(k, cur[k], "insert")
  /\ UNCHANGED <<rowVars, drainer, batch, acking, shutdown, seqno, start, chunk,
                 cur, captured, persisted, cancelled, gone, sent, readerVars, otherVars>>

\* Where the task goes on after an insert_sync.
AfterInsert(k) == IF cur[k].synth THEN "complete" ELSE "forward"

\* insert_sync: the insert, then the ratchet; an error skips the rest.
TaskInsert(k) ==
  /\ pc[k] = "insert"
  /\ \/ /\ log' = InsertBatch(<<cur[k]>>)
        /\ pc' = [pc EXCEPT ![k] = "ratchet"]
        /\ UNCHANGED faults
     \/ /\ DbFault
        /\ pc' = [pc EXCEPT ![k] = AfterInsert(k)]
        /\ UNCHANGED log
  /\ UNCHANGED <<status, lastSeq, bufferVars, seqno, start, chunk, cur, captured,
                 persisted, cancelled, gone, sent, readerVars, retry, asked, noise>>

TaskRatchet(k) ==
  /\ pc[k] = "ratchet"
  /\ pc' = [pc EXCEPT ![k] = AfterInsert(k)]
  /\ \/ /\ SetLastSequence(cur[k].seq)
        /\ persisted' = [persisted EXCEPT ![k] =
                           @ \/ (cur[k].kind # "delta" /\ ~cur[k].synth)]
        /\ UNCHANGED faults
     \/ DbFault /\ UNCHANGED <<lastSeq, persisted>>
  /\ UNCHANGED <<status, log, bufferVars, seqno, start, chunk, cur, captured,
                 cancelled, gone, sent, readerVars, retry, asked, noise>>

\* tx.send: with the receiver gone, the rest of the chunk is dropped, but the
\* outer loop goes on reading the body.
TaskForward(k) ==
  /\ pc[k] = "forward"
  /\ chunk' = [chunk EXCEPT ![k] = IF gone[k] THEN <<>> ELSE Tail(@)]
  /\ pc' = [pc EXCEPT ![k] = IF chunk'[k] = <<>> THEN "recv" ELSE "each"]
  /\ UNCHANGED <<rowVars, bufferVars, seqno, start, cur, captured, persisted,
                 cancelled, gone, sent, readerVars, otherVars>>

\* The body ends, after a terminal event or (cut short) without one.
TaskBodyEnd(k) ==
  /\ pc[k] = "recv"
  /\ sent[k] # "none" \/ "cut" \in Disturbances
  /\ pc' = [pc EXCEPT ![k] = "close"]
  /\ UNCHANGED <<rowVars, bufferVars, seqno, start, chunk, cur, captured,
                 persisted, cancelled, gone, sent, readerVars, otherVars>>

\* The body fails: the task forwards the error and returns.
TaskBodyError(k) ==
  /\ "error" \in Disturbances
  /\ pc[k] = "recv"
  /\ pc' = [pc EXCEPT ![k] = "errored"]
  /\ UNCHANGED <<rowVars, bufferVars, seqno, start, chunk, cur, captured,
                 persisted, cancelled, gone, sent, readerVars, otherVars>>

TaskCancelled(k) ==
  /\ asked
  /\ pc[k] = "recv"
  /\ cancelled' = [cancelled EXCEPT ![k] = TRUE]
  /\ pc' = [pc EXCEPT ![k] = "close"]
  /\ UNCHANGED <<rowVars, bufferVars, seqno, start, chunk, cur, captured,
                 persisted, gone, sent, readerVars, otherVars>>

Outcome(k) ==
  IF cancelled[k] THEN "cancelled"
  ELSE IF captured[k] # "none" THEN captured[k] ELSE "incomplete"

\* Mutant: the row is closed out without a terminal event in the log.
TaskCloseNoSynth(k) ==
  /\ pc[k] = "close"
  /\ pc' = [pc EXCEPT ![k] = "complete"]
  /\ UNCHANGED <<rowVars, bufferVars, seqno, start, chunk, cur, captured,
                 persisted, cancelled, gone, sent, readerVars, otherVars>>

\* Without a stored terminal event, one is made up and inserted, unflushed.
TaskClose(k) ==
  /\ pc[k] = "close"
  /\ IF persisted[k]
     THEN /\ pc' = [pc EXCEPT ![k] = "complete"]
          /\ UNCHANGED <<seqno, cur>>
     ELSE /\ seqno' = [seqno EXCEPT ![k] = @ + 1]
          /\ cur' = [cur EXCEPT ![k] =
                       [seq |-> seqno[k] + 1, att |-> k, kind |-> Outcome(k),
                        synth |-> TRUE]]
          /\ pc' = [pc EXCEPT ![k] = "insert"]
  /\ UNCHANGED <<rowVars, bufferVars, start, chunk, captured, persisted,
                 cancelled, gone, sent, readerVars, otherVars>>

\* The guarded update of the row.
TaskComplete(k) ==
  /\ pc[k] = "complete"
  /\ pc' = [pc EXCEPT ![k] = "done"]
  /\ \/ /\ status' = IF status = "in_progress" THEN Outcome(k) ELSE status
        /\ UNCHANGED faults
     \/ DbFault /\ UNCHANGED status
  /\ UNCHANGED <<lastSeq, log, bufferVars, seqno, start, chunk, cur, captured,
                 persisted, cancelled, gone, sent, readerVars, retry, asked, noise>>

\* The streaming client goes away.
Disconnect(k) ==
  /\ "disconnect" \in Disturbances
  /\ pc[k] # "off" /\ ~gone[k]
  /\ gone' = [gone EXCEPT ![k] = TRUE]
  /\ UNCHANGED <<rowVars, bufferVars, pc, seqno, start, chunk, cur, captured,
                 persisted, cancelled, sent, readerVars, otherVars>>

-----------------------------------------------------------------------------
(* The other writers of the row.                                            *)

Latest(k) == pc[k] # "off" /\ \A j \in Attempts : j > k => pc[j] = "off"

\* cancel(): the request, then its guarded write.
AskCancel ==
  /\ "cancel" \in Disturbances /\ ~asked
  /\ asked' = TRUE
  /\ UNCHANGED <<rowVars, bufferVars, taskVars, readerVars, retry, noise, faults>>

CancelRow ==
  /\ asked /\ status = "in_progress"
  /\ status' = "cancelled"
  /\ UNCHANGED <<lastSeq, log, bufferVars, taskVars, readerVars, otherVars>>

\* run_with_retry: the attempt's body failed, or went idle for too long and is
\* dropped while the task lives on.  The row is patched for the next attempt.
RetryBump(k) ==
  /\ "error" \in Disturbances
  /\ Latest(k) /\ k < MaxAttempts /\ pc[k] # "done" /\ ~retry
  /\ retry' = TRUE
  /\ gone' = [gone EXCEPT ![k] = TRUE]
  /\ status' = "in_progress"
  /\ UNCHANGED <<lastSeq, log, bufferVars, pc, seqno, start, chunk, cur, captured,
                 persisted, cancelled, sent, readerVars, asked, noise, faults>>

\* The reloaded row's last_sequence_number is where the next attempt starts.
RetryStart(k) ==
  /\ retry /\ Latest(k)
  /\ retry' = FALSE
  /\ pc' = [pc EXCEPT ![k + 1] = "recv"]
  /\ start' = [start EXCEPT ![k + 1] = lastSeq]
  /\ seqno' = [seqno EXCEPT ![k + 1] = lastSeq]
  /\ UNCHANGED <<rowVars, bufferVars, chunk, cur, captured, persisted, cancelled,
                 gone, sent, readerVars, asked, noise, faults>>

\* mark_background_failure: the row only, no event.
MarkFailure ==
  /\ pc[MaxAttempts] = "errored" /\ status = "in_progress"
  /\ status' = "failed"
  /\ UNCHANGED <<lastSeq, log, bufferVars, taskVars, readerVars, otherVars>>

-----------------------------------------------------------------------------
(* stream_response_events: the replaying reader.                            *)

\* list_after(cursor, limit): the first PageSize events past the cursor.
Page == {s \in Seqs :
  /\ s > cursor /\ log[s] # NoEvent
  /\ Cardinality({t \in cursor + 1 .. s : log[t] # NoEvent}) <= PageSize}

\* Mutant: only the last event of a page is looked at.
ReaderListLastOnly ==
  /\ rpc = "list"
  /\ got' = got \cup {log[s] : s \in Page}
  /\ cursor' = IF Page = {} THEN cursor
               ELSE CHOOSE s \in Page : \A t \in Page : t <= s
  /\ rpc' = IF Page # {} /\ log[cursor'].kind \in Terminal THEN "done" ELSE "check"
  /\ UNCHANGED <<rowVars, bufferVars, taskVars, otherVars>>

\* Emit a page; a terminal event in it ends the stream with [DONE].
ReaderList ==
  /\ rpc = "list"
  /\ got' = got \cup {log[s] : s \in Page}
  /\ cursor' = IF Page = {} THEN cursor
               ELSE CHOOSE s \in Page : \A t \in Page : t <= s
  /\ rpc' = IF \E s \in Page : log[s].kind \in Terminal THEN "done" ELSE "check"
  /\ UNCHANGED <<rowVars, bufferVars, taskVars, otherVars>>

\* No terminal event: the row decides only when it never had an event.
ReaderCheck ==
  /\ rpc = "check"
  /\ rpc' = IF status \in Terminal /\ lastSeq = 0 THEN "done" ELSE "list"
  /\ UNCHANGED <<rowVars, bufferVars, taskVars, cursor, got, otherVars>>

-----------------------------------------------------------------------------
TaskStep(k) ==
  \/ TaskEvent(k) \/ TaskPushAgain(k) \/ TaskInsert(k) \/ TaskRatchet(k)
  \/ TaskForward(k) \/ TaskClose(k) \/ TaskComplete(k)

DrainerStep ==
  DrainRecv \/ DrainTimeout \/ DrainFlush \/ DrainFinal \/ DrainInsert
    \/ DrainRatchet

\* The reader has everything and no task has a step of its own left.  A task
\* that waits for the drainer here would violate FlushReturns.
Finished ==
  /\ \A k \in Attempts : pc[k] \in {"off", "wait", "done", "errored"}
  /\ rpc = "done"
  /\ UNCHANGED vars

Next ==
  \/ \E k \in Attempts :
       \/ TaskStep(k) \/ TaskChunk(k) \/ TaskBodyEnd(k) \/ TaskBodyError(k)
       \/ TaskCancelled(k) \/ Disconnect(k) \/ RetryBump(k) \/ RetryStart(k)
  \/ DrainerStep
  \/ OtherPush \/ Shutdown
  \/ AskCancel \/ CancelRow \/ MarkFailure
  \/ ReaderList \/ ReaderCheck
  \/ Finished

\* Ready tasks run, the flush timer fires and the reader polls.  Nothing is
\* assumed of the provider or of the clients.
Fairness ==
  /\ \A k \in Attempts : WF_vars(TaskStep(k))
  /\ WF_vars(DrainerStep)
  /\ WF_vars(MarkFailure)
  /\ WF_vars(ReaderList \/ ReaderCheck)

Spec == Init /\ [][Next]_vars /\ Fairness

-----------------------------------------------------------------------------
(* Properties.                                                              *)

TypeOK ==
  /\ status \in Terminal \cup {"in_progress"}
  /\ lastSeq \in 0 .. MaxSeq
  /\ log \in [Seqs -> Events]
  /\ channel \in Seq(Events) /\ Len(channel) <= Capacity
  /\ flushq \in Seq(Attempts)
  /\ drainer \in {"select", "insert", "ratchet", "lastInsert", "lastRatchet",
                  "exited"}
  /\ batch \in Seq(Events)
  /\ acking \subseteq Attempts
  /\ shutdown \in BOOLEAN
  /\ pc \in [Attempts -> TaskStates]
  /\ seqno \in [Attempts -> 0 .. MaxSeq]
  /\ start \in [Attempts -> 0 .. MaxSeq]
  /\ chunk \in [Attempts -> Seq(Kinds)]
  /\ cur \in [Attempts -> Events]
  /\ captured \in [Attempts -> Ends \cup {"none"}]
  /\ persisted \in [Attempts -> BOOLEAN]
  /\ cancelled \in [Attempts -> BOOLEAN]
  /\ gone \in [Attempts -> BOOLEAN]
  /\ sent \in [Attempts -> Ends \cup {"none"}]
  /\ retry \in BOOLEAN /\ asked \in BOOLEAN
  /\ rpc \in {"list", "check", "done"}
  /\ cursor \in 0 .. MaxSeq
  /\ got \subseteq Events
  /\ noise \in 0 .. MaxNoise /\ faults \in 0 .. MaxFaults

\* A provider's terminal event in the log closes a complete replay: every
\* event that its attempt numbered before it is in the log, under its own
\* number.  This is what flush() before insert_sync() is for.
TerminalClosesReplay ==
  \A t \in Seqs :
    log[t].kind # "delta" /\ ~log[t].synth
      => \A s \in start[log[t].att] + 1 .. t : log[s].att = log[t].att

\* The reader never passes an event that is committed after it went by, also
\* when a full channel makes push() insert synchronously.
ReaderMissesNothing ==
  \A s \in 1 .. cursor : log[s] # NoEvent => log[s] \in got

\* A row that the persister settled has its terminal event in the log already,
\* and of the same status: the log alone tells readers how the response ended.
StatusIsInLog ==
  status \in Terminal \ {"cancelled"} => \E s \in Seqs : log[s].kind = status

\* The row records the first terminal status that the provider sent.
ProviderStatusRecorded ==
  \A k \in Attempts :
    pc[k] = "done" /\ ~cancelled[k] /\ sent[k] # "none" /\ status \in Terminal
      => status = sent[k]

\* What a reader has been given stays true for the next reader: attempts that
\* collide on a number, failed statements and late ratchets never replace or
\* remove an event, nor take last_sequence_number back or past the log.
LogIsStable ==
  [][/\ \A s \in Seqs : log[s] # NoEvent => log'[s] = log[s]
     /\ lastSeq' >= lastSeq
     /\ lastSeq' > 0 => log'[lastSeq'] # NoEvent]_vars

\* A flush() returns, also when the drainer shuts down under it.
FlushReturns ==
  \A k \in Attempts : (pc[k] = "wait") ~> (pc[k] # "wait")

\* Once the row is settled and its tasks are over, the reader gets to [DONE].
ReaderFinishes ==
  (status \in Terminal /\ \A k \in Attempts : pc[k] \in {"off", "done", "errored"})
    ~> (rpc = "done")
=============================================================================
