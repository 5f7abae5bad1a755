----------------------------- MODULE DeadLetters -----------------------------
(***************************************************************************)
(* Work that must not get lost when its target is down: the usage log      *)
(* buffer and its database sink (src/usage_buffer.rs, src/usage_sink.rs),  *)
(* the webhook dispatcher (src/services/responses_webhook.rs), the file    *)
(* dead-letter queue they fall back on (src/dlq/file.rs), its retry worker *)
(* (src/dlq/worker.rs) and its admin endpoints (src/routes/admin/dlq.rs).  *)
(*                                                                         *)
(* A file operation, a critical section of the queue's index lock and a    *)
(* call to the database or the webhook target are each one step of the     *)
(* task that makes them, so tasks interleave inside push, remove and       *)
(* mark_retried, and the process may stop between any two of their steps.  *)
(*                                                                         *)
(* A dead letter is named by the usage entry or the webhook event in it:   *)
(* each is pushed to the queue at most once.                               *)
(***************************************************************************)
EXTENDS Integers, Sequences, FiniteSets, SequencesExt

CONSTANTS
  Letters,      \* usage log entries (request_ids) and webhook events
  Flusher, Worker, Admin,  \* the tasks that use the queue, beside the events' own
  MaxPending,   \* UsageBufferConfig.max_pending_entries
  MaxBatch,     \* UsageBufferConfig.max_size
  QueueSize,    \* capacity of the dispatcher's channel
  MaxDeliveries,\* max_concurrent_deliveries
  Attempts,     \* length of BACKOFFS_MS
  MaxFiles,     \* max_files
  BatchSize,    \* DlqRetryConfig.batch_size
  MaxRetries,   \* DlqRetryConfig.max_retries
  MaxTroubles   \* bound on outages, stops, failed writes and admin requests

None == "none"

ASSUME DlqAssumption ==
  /\ {Flusher, Worker, Admin, None} \cap Letters = {} /\ IsFiniteSet(Letters)
  /\ Flusher # Worker /\ Worker # Admin /\ Admin # Flusher
  /\ {MaxPending, MaxBatch, QueueSize, MaxDeliveries, Attempts, BatchSize} \subseteq Nat \ {0}
  /\ {MaxFiles, MaxRetries, MaxTroubles} \subseteq Nat

Tasks == Letters \cup {Flusher, Worker, Admin}
Absent == -1     \* no such file, or not in the index
Torn == -2       \* a file load_from_disk cannot parse: cut off by fs::write
MaxCount == MaxRetries + 1  \* bound: retry_count is counted up to here

VARIABLES
  kind,       \* entry_type of each letter, None before it is made
  channel,    \* UsageLogBuffer's channel
  queue,      \* the dispatcher's channel
  drainer,    \* the event drain_events holds while it waits for a permit
  permits,    \* events whose delivery task holds a permit
  task,       \* where each task stands
  index,      \* FileDlq.index: retry_count of every entry
  files,      \* the directory: retry_count in every file
  born,       \* dead letters by created_at
  recorded,   \* request_ids in usage_records
  delivered,  \* events the target acknowledged
  dbUp, shutdown,
  troubles,   \* outages, stops, failed writes and admin requests so far
  excused     \* ghost: letters given up by a rule or a fault the code names

vars == <<kind, channel, queue, drainer, permits, task, index, files, born,
          recorded, delivered, dbUp, shutdown, troubles, excused>>
dlqVars == <<index, files, born>>
outVars == <<recorded, delivered>>
envVars == <<dbUp, shutdown, troubles>>
hookVars == <<queue, drainer, permits>>

Steps == {"drain", "write_batch", "check", "exited", "queued", "deliver",
          "create", "insert", "enforce", "evict", "unlink_victim",
          "list", "entry", "prune", "retry", "remove", "unlink",
          "mark", "truncate", "rewrite", "done"}

(* letters: what the task still works on, the first one now; count: attempts
   made, or the retry_count to be written; victims: what enforce_max_files
   or prune still removes. *)
At(pc) == [pc |-> pc, letters |-> <<>>, count |-> 0, victims |-> {}]
Starts == [t \in Tasks |->
  CASE t = Flusher -> At("drain")
    [] t = Worker -> At("list")
    [] OTHER -> At("done")]

Usage == {i \in Letters : kind[i] = "usage_log"}
Events == {i \in Letters : kind[i] = "webhook"}

Init ==
  /\ kind = [i \in Letters |-> None]
  /\ channel = <<>> /\ queue = <<>> /\ drainer = None /\ permits = {}
  /\ task = Starts
  /\ index = [i \in Letters |-> Absent] /\ files = [i \in Letters |-> Absent]
  /\ born = <<>> /\ recorded = {} /\ delivered = {}
  /\ dbUp \in BOOLEAN /\ shutdown = "running"
  /\ troubles = 0
  /\ excused = {}

(* one more of the troubles that the bound allows *)
Trouble == troubles < MaxTroubles /\ troubles' = troubles + 1

Now(t) == Head(task[t].letters)
Go(t, pc) == task' = [task EXCEPT ![t].pc = pc]

(* What a task does after its present letter: the loops of write_batch and
   process_batch go on, process_batch is followed by the prune, and a detached
   delivery or an admin request ends. *)
Resumed(t, letters) ==
  LET rest == IF letters = <<>> THEN <<>> ELSE Tail(letters)
  IN IF t = Flusher
       THEN [At(IF rest = <<>> THEN "check" ELSE "create") EXCEPT !.letters = rest]
     ELSE IF t = Worker
       THEN [At(IF letters = <<>> THEN "list"
                ELSE IF rest = <<>> THEN "prune" ELSE "entry") EXCEPT !.letters = rest]
     ELSE At("done")

(* Mutant: a delivery task that ends keeps its permit. *)
ResumeKeepsPermit(t) ==
  /\ task' = [task EXCEPT ![t] = Resumed(t, task[t].letters)]
  /\ UNCHANGED permits

(* Its delivery's permit is dropped with the task. *)
Resume(t) ==
  /\ task' = [task EXCEPT ![t] = Resumed(t, task[t].letters)]
  /\ permits' = permits \ {t}

---------------------------------------------------------------------------
(* The usage buffer.  The middleware pushes while connections are served,
   which is over when the buffer is told to shut down; the shell tool pushes
   from detached tasks, at any time.  What is pushed after the flush worker
   has seen the flag may come too late for its last drain. *)

(* Mutant: the pending limit is not enforced. *)
PushUnbounded(u) ==
  /\ kind[u] = None
  /\ kind' = [kind EXCEPT ![u] = "usage_log"]
  /\ channel' = Append(channel, u)
  /\ UNCHANGED <<task, hookVars, dlqVars, outVars, envVars, excused>>

Push(u) ==
  /\ kind[u] = None
  /\ kind' = [kind EXCEPT ![u] = "usage_log"]
  /\ channel' = IF Len(channel) < MaxPending THEN Append(channel, u) ELSE channel
  /\ excused' = IF Len(channel) < MaxPending /\ shutdown # "final" THEN excused
                ELSE excused \cup {u}
  /\ UNCHANGED <<task, hookVars, dlqVars, outVars, envVars>>

(* drain_entries, and drain_all once shutdown has been seen *)
DrainLimit == IF shutdown = "final" THEN Cardinality(Letters) ELSE MaxBatch

Drain ==
  /\ task[Flusher].pc = "drain"
  /\ LET batch == task[Flusher].letters
     IN IF channel # <<>> /\ Len(batch) < DrainLimit
          THEN /\ task' = [task EXCEPT ![Flusher].letters = Append(@, Head(channel))]
               /\ channel' = Tail(channel)
          ELSE /\ Go(Flusher, IF batch = <<>> THEN "check" ELSE "write_batch")
               /\ UNCHANGED channel
  /\ UNCHANGED <<kind, hookVars, dlqVars, outVars, envVars, excused>>

(* Mutant: a failed batch is logged and dropped. *)
WriteBatchNoFallback ==
  /\ task[Flusher].pc = "write_batch"
  /\ recorded' = IF dbUp THEN recorded \cup ToSet(task[Flusher].letters) ELSE recorded
  /\ task' = [task EXCEPT ![Flusher] = At("check")]
  /\ UNCHANGED <<kind, channel, hookVars, dlqVars, delivered, envVars, excused>>

(* flush_batch over DatabaseSink::write_batch: log_batch is one transaction;
   when it fails every entry is pushed to the dead-letter queue. *)
WriteBatch ==
  /\ task[Flusher].pc = "write_batch"
  /\ \/ /\ dbUp
        /\ recorded' = recorded \cup ToSet(task[Flusher].letters)
        /\ task' = [task EXCEPT ![Flusher] = At("check")]
     \/ /\ ~dbUp
        /\ Go(Flusher, "create") /\ UNCHANGED recorded
  /\ UNCHANGED <<kind, channel, hookVars, dlqVars, delivered, envVars, excused>>

(* Mutant: the flush worker exits on the flag, without a last round. *)
CheckShutdownAtOnce ==
  /\ task[Flusher].pc = "check"
  /\ Go(Flusher, IF shutdown = "running" THEN "drain" ELSE "exited")
  /\ UNCHANGED <<kind, channel, hookVars, dlqVars, outVars, dbUp, shutdown, troubles, excused>>

(* The end of a round of the flush worker: sleep, final round, or exit. *)
CheckShutdown ==
  /\ task[Flusher].pc = "check"
  /\ \/ shutdown = "running" /\ Go(Flusher, "drain") /\ UNCHANGED shutdown
     \/ shutdown = "asked" /\ Go(Flusher, "drain") /\ shutdown' = "final"
     \/ shutdown = "final" /\ Go(Flusher, "exited") /\ UNCHANGED shutdown
  /\ UNCHANGED <<kind, channel, hookVars, dlqVars, outVars, dbUp, troubles, excused>>

---------------------------------------------------------------------------
(* The webhook dispatcher. *)

(* enqueue: try_send, and route_overflow_to_dlq in a task of its own *)
Enqueue(h) ==
  /\ kind[h] = None
  /\ kind' = [kind EXCEPT ![h] = "webhook"]
  /\ \/ /\ Len(queue) < QueueSize
        /\ queue' = Append(queue, h) /\ Go(h, "queued")
     \/ /\ Len(queue) = QueueSize
        /\ task' = [task EXCEPT ![h] = [At("create") EXCEPT !.letters = <<h>>]]
        /\ UNCHANGED queue
  /\ UNCHANGED <<channel, drainer, permits, dlqVars, outVars, envVars, excused>>

(* drain_events *)
Receive ==
  /\ drainer = None /\ queue # <<>>
  /\ drainer' = Head(queue) /\ queue' = Tail(queue)
  /\ UNCHANGED <<kind, channel, permits, task, dlqVars, outVars, envVars, excused>>

Acquire ==
  /\ drainer # None /\ Cardinality(permits) < MaxDeliveries
  /\ permits' = permits \cup {drainer} /\ drainer' = None
  /\ task' = [task EXCEPT ![drainer] = [At("deliver") EXCEPT !.letters = <<drainer>>]]
  /\ UNCHANGED <<kind, channel, queue, dlqVars, outVars, envVars, excused>>

(* deliver_with_retry, one attempt; after the last one deliver_or_dlq pushes
   the event *)
Deliver(h) ==
  /\ task[h].pc = "deliver"
  /\ \/ /\ delivered' = delivered \cup {h} /\ Resume(h)
     \/ /\ UNCHANGED <<delivered, permits>>
        /\ IF task[h].count + 1 < Attempts
             THEN task' = [task EXCEPT ![h].count = @ + 1]
             ELSE task' = [task EXCEPT ![h] = [@ EXCEPT !.pc = "create", !.count = 0]]
  /\ UNCHANGED <<kind, channel, queue, drainer, dlqVars, recorded, envVars, excused>>

---------------------------------------------------------------------------
(* FileDlq::push *)

(* DlqEntry::new stamps created_at, write_entry creates the file. *)
Create(t) ==
  /\ task[t].pc = "create"
  /\ born' = Append(born, Now(t))
  /\ files' = [files EXCEPT ![Now(t)] = 0]
  /\ Go(t, "insert")
  /\ UNCHANGED <<kind, channel, hookVars, index, outVars, envVars, excused>>

(* fs::write fails, before or after it has made the file: push returns the
   error, its caller logs that the letter is lost *)
CreateFails(t) ==
  /\ task[t].pc = "create" /\ Trouble
  /\ born' = Append(born, Now(t))
  /\ \E rest \in {Absent, Torn} : files' = [files EXCEPT ![Now(t)] = rest]
  /\ excused' = excused \cup {Now(t)}
  /\ Resume(t)
  /\ UNCHANGED <<kind, channel, queue, drainer, index, outVars, dbUp, shutdown>>

Insert(t) ==
  /\ task[t].pc = "insert"
  /\ index' = [index EXCEPT ![Now(t)] = 0]
  /\ Go(t, "enforce")
  /\ UNCHANGED <<kind, channel, hookVars, files, born, outVars, envVars, excused>>

Indexed == {i \in Letters : index[i] # Absent}
Older(i, j) == \E m, n \in DOMAIN born : m < n /\ born[m] = i /\ born[n] = j
Oldest(S) == CHOOSE i \in S : \A j \in S \ {i} : Older(i, j)

(* the k oldest entries of the index *)
OldestOf(k) == {i \in Indexed : Cardinality({j \in Indexed : Older(j, i)}) < k}

(* Mutant: one entry too many is kept. *)
EnforceOneLess(t) ==
  /\ task[t].pc = "enforce"
  /\ IF Cardinality(Indexed) <= MaxFiles + 1
       THEN Resume(t)
       ELSE /\ task' = [task EXCEPT ![t].pc = "evict",
                          ![t].victims = OldestOf(Cardinality(Indexed) - MaxFiles)]
            /\ UNCHANGED permits
  /\ UNCHANGED <<kind, channel, queue, drainer, dlqVars, outVars, envVars, excused>>

(* enforce_max_files, under the read lock *)
Enforce(t) ==
  /\ task[t].pc = "enforce"
  /\ IF Cardinality(Indexed) <= MaxFiles
       THEN Resume(t)
       ELSE /\ task' = [task EXCEPT ![t].pc = "evict",
                          ![t].victims = OldestOf(Cardinality(Indexed) - MaxFiles)]
            /\ UNCHANGED permits
  /\ UNCHANGED <<kind, channel, queue, drainer, dlqVars, outVars, envVars, excused>>

(* remove of one victim, oldest first for enforce_max_files and in the map's
   order for prune; its file follows when it was still in the index. *)
Pruning(t) == t \in {Worker, Admin}
Doomed(t) == IF Pruning(t) THEN task[t].victims ELSE {Oldest(task[t].victims)}

(* on to the next victim, or on from the letter whose push made room *)
NextVictim(t, rest, letters) ==
  /\ task' = [task EXCEPT ![t] =
       IF rest = {} THEN Resumed(t, letters)
       ELSE [@ EXCEPT !.pc = "evict", !.victims = rest, !.letters = letters]]
  /\ permits' = IF rest = {} THEN permits \ {t} ELSE permits

Evict(t) ==
  /\ task[t].pc = "evict"
  /\ \E i \in Doomed(t) :
       LET rest == task[t].victims \ {i}
       IN IF i \in Indexed
            THEN /\ index' = [index EXCEPT ![i] = Absent]
                 /\ excused' = excused \cup {i}
                 /\ task' = [task EXCEPT ![t] = [@ EXCEPT !.pc = "unlink_victim",
                                               !.victims = rest,
                                               !.letters = <<i>> \o task[t].letters]]
                 /\ UNCHANGED permits
            ELSE NextVictim(t, rest, task[t].letters) /\ UNCHANGED <<index, excused>>
  /\ UNCHANGED <<kind, channel, queue, drainer, files, born, outVars, envVars>>

UnlinkVictim(t) ==
  /\ task[t].pc = "unlink_victim"
  /\ files' = [files EXCEPT ![Now(t)] = Absent]
  /\ NextVictim(t, task[t].victims, Tail(task[t].letters))
  /\ UNCHANGED <<kind, channel, queue, drainer, index, born, outVars, envVars, excused>>

---------------------------------------------------------------------------
(* FileDlq::remove, and mark_retried, whose write follows outside the lock *)

(* Mutant: the file goes before the entry of the index. *)
RemoveFileFirst(t) ==
  /\ task[t].pc = "remove"
  /\ IF Now(t) \in Indexed
       THEN files' = [files EXCEPT ![Now(t)] = Absent] /\ Go(t, "unlink")
       ELSE Resume(t) /\ UNCHANGED files
  /\ UNCHANGED <<kind, channel, hookVars, index, born, outVars, envVars, excused>>

RemoveEntry(t) ==
  /\ task[t].pc = "remove"
  /\ IF Now(t) \in Indexed
       THEN index' = [index EXCEPT ![Now(t)] = Absent] /\ Go(t, "unlink") /\ UNCHANGED permits
       ELSE Resume(t) /\ UNCHANGED index
  /\ UNCHANGED <<kind, channel, queue, drainer, files, born, outVars, envVars, excused>>

Unlink(t) ==
  /\ task[t].pc = "unlink"
  /\ files' = [files EXCEPT ![Now(t)] = Absent]
  /\ Resume(t)
  /\ UNCHANGED <<kind, channel, queue, drainer, index, born, outVars, envVars, excused>>

(* retry_count is only compared with max_retries *)
Mark(t) ==
  /\ task[t].pc = "mark"
  /\ LET i == Now(t)
         n == IF index[i] < MaxCount THEN index[i] + 1 ELSE MaxCount
     IN IF i \in Indexed
          THEN /\ index' = [index EXCEPT ![i] = n]
               /\ task' = [task EXCEPT ![t].pc = "truncate", ![t].count = n]
               /\ UNCHANGED permits
          ELSE Resume(t) /\ UNCHANGED index
  /\ UNCHANGED <<kind, channel, queue, drainer, files, born, outVars, envVars, excused>>

(* write_entry is fs::write: open and truncate, or make, then write *)
Truncate(t) ==
  /\ task[t].pc = "truncate"
  /\ files' = [files EXCEPT ![Now(t)] = Torn]
  /\ Go(t, "rewrite")
  /\ UNCHANGED <<kind, channel, hookVars, index, born, outVars, envVars, excused>>

(* What the file can hold after n is written: one that was unlinked meanwhile
   stays gone; when another mark_retried has written it since, a shorter text
   leaves the end of the longer one behind it. *)
Written(i, n) ==
  CASE files[i] = Absent -> {Absent}
    [] files[i] = Torn -> {n}
    [] OTHER -> {n, Torn}

Rewrite(t) ==
  /\ task[t].pc = "rewrite"
  /\ \E n \in Written(Now(t), task[t].count) : files' = [files EXCEPT ![Now(t)] = n]
  /\ Resume(t)
  /\ UNCHANGED <<kind, channel, queue, drainer, index, born, outVars, envVars, excused>>

(* The write of mark_retried fails, at the open or after the truncation: its
   callers log the error, and the index keeps the new count. *)
TruncateFails(t) ==
  /\ task[t].pc = "truncate" /\ Trouble
  /\ Resume(t)
  /\ UNCHANGED <<kind, channel, queue, drainer, dlqVars, outVars, dbUp, shutdown, excused>>

RewriteFails(t) ==
  /\ task[t].pc = "rewrite" /\ Trouble
  /\ \E n \in Written(Now(t), Torn) \cup {files[Now(t)]} :
       files' = [files EXCEPT ![Now(t)] = n]
  /\ Resume(t)
  /\ UNCHANGED <<kind, channel, queue, drainer, index, born, outVars, dbUp, shutdown, excused>>

---------------------------------------------------------------------------
(* start_dlq_worker: process_batch, then prune_old_entries *)

(* list: newest first, at most BatchSize entries with retries left.  Which of
   them have waited out their backoff is a matter of time. *)
Retriable == {i \in Indexed : index[i] < MaxRetries}
Listed == {i \in Retriable : Cardinality({j \in Retriable : Older(i, j)}) < BatchSize}

List(ready) ==
  /\ task[Worker].pc = "list"
  /\ LET found == Listed \cap ready
     IN \E due \in [1 .. Cardinality(found) -> found] :
          /\ \A m, n \in DOMAIN due : m < n => Older(due[n], due[m])
          /\ task' = [task EXCEPT ![Worker] =
                        [At(IF due = <<>> THEN "prune" ELSE "entry") EXCEPT !.letters = due]]
  /\ UNCHANGED <<kind, channel, hookVars, dlqVars, outVars, envVars, excused>>

(* process_entry: only usage_log entries can be processed; log is INSERT OR
   IGNORE on request_id *)
Process(t) ==
  \/ /\ Now(t) \in Usage /\ dbUp
     /\ recorded' = recorded \cup {Now(t)} /\ Go(t, "remove") /\ UNCHANGED permits
  \/ /\ Now(t) \in Usage /\ ~dbUp
     /\ Go(t, "mark") /\ UNCHANGED <<recorded, permits>>
  \/ /\ Now(t) \notin Usage
     /\ Resume(t) /\ UNCHANGED recorded

ProcessEntry ==
  /\ task[Worker].pc = "entry"
  /\ Process(Worker)
  /\ UNCHANGED <<kind, channel, queue, drainer, dlqVars, delivered, envVars, excused>>

(* prune: how many of the oldest entries are past their TTL *)
PruneOld ==
  /\ task[Worker].pc = "prune"
  /\ \E k \in 0 .. Cardinality(Indexed) :
       task' = [task EXCEPT ![Worker] =
                  IF k = 0 THEN At("list") ELSE [At("evict") EXCEPT !.victims = OldestOf(k)]]
  /\ UNCHANGED <<kind, channel, hookVars, dlqVars, outVars, envVars, excused>>

---------------------------------------------------------------------------
(* The admin endpoints, one request at a time *)

AdminStart ==
  /\ task[Admin].pc = "done" /\ Trouble

(* retry: other types are answered with 400 *)
AdminRetry(i) ==
  /\ AdminStart /\ i \in Indexed \cap Usage
  /\ task' = [task EXCEPT ![Admin] = [At("retry") EXCEPT !.letters = <<i>>]]
  /\ UNCHANGED <<kind, channel, hookVars, dlqVars, outVars, dbUp, shutdown, excused>>

AdminProcess ==
  /\ task[Admin].pc = "retry"
  /\ Process(Admin)
  /\ UNCHANGED <<kind, channel, queue, drainer, dlqVars, delivered, envVars, excused>>

AdminDelete(i) ==
  /\ AdminStart /\ i \in Indexed
  /\ task' = [task EXCEPT ![Admin] = [At("remove") EXCEPT !.letters = <<i>>]]
  /\ excused' = excused \cup {i}
  /\ UNCHANGED <<kind, channel, hookVars, dlqVars, outVars, dbUp, shutdown>>

AdminPrune ==
  /\ AdminStart
  /\ \E k \in 1 .. Cardinality(Indexed) :
       task' = [task EXCEPT ![Admin] = [At("evict") EXCEPT !.victims = OldestOf(k)]]
  /\ UNCHANGED <<kind, channel, hookVars, dlqVars, outVars, dbUp, shutdown, excused>>

(* purge: clear holds the write lock while it unlinks the files *)
AdminPurge ==
  /\ AdminStart
  /\ files' = [i \in Letters |-> IF i \in Indexed THEN Absent ELSE files[i]]
  /\ index' = [i \in Letters |-> Absent]
  /\ excused' = excused \cup Indexed
  /\ UNCHANGED <<kind, channel, hookVars, task, born, outVars, dbUp, shutdown>>

---------------------------------------------------------------------------
(* The environment *)

DbFails ==
  /\ dbUp /\ Trouble
  /\ dbUp' = FALSE
  /\ UNCHANGED <<kind, channel, hookVars, task, dlqVars, outVars, shutdown, excused>>

DbReturns ==
  /\ ~dbUp /\ dbUp' = TRUE
  /\ UNCHANGED <<kind, channel, hookVars, task, dlqVars, outVars, shutdown, troubles, excused>>

(* drain_background_tasks, after the last connection was served *)
Shutdown ==
  /\ shutdown = "running" /\ Trouble
  /\ shutdown' = "asked"
  /\ UNCHANGED <<kind, channel, hookVars, task, dlqVars, outVars, dbUp, excused>>

(* The process ends, crashed or shut down, and starts again:
   load_from_disk indexes every file it can parse. *)
Restart ==
  /\ \/ shutdown = "running" /\ Trouble
     \/ shutdown # "running" /\ UNCHANGED troubles
  /\ channel' = <<>> /\ queue' = <<>> /\ drainer' = None /\ permits' = {}
  /\ task' = Starts
  /\ index' = [i \in Letters |-> IF files[i] = Torn THEN Absent ELSE files[i]]
  /\ shutdown' = "running"
  /\ excused' = excused \cup
       {i \in Letters : kind[i] # None /\ files[i] \in {Absent, Torn}
                        /\ i \notin recorded \cup delivered}
  /\ UNCHANGED <<kind, files, born, outVars, dbUp>>

DlqStep(t) ==
  \/ Create(t) \/ Insert(t) \/ Enforce(t) \/ Evict(t) \/ UnlinkVictim(t)
  \/ RemoveEntry(t) \/ Unlink(t) \/ Mark(t) \/ Truncate(t) \/ Rewrite(t)
FlusherStep == Drain \/ WriteBatch \/ CheckShutdown \/ DlqStep(Flusher)
WorkerStep ==
  (\E ready \in SUBSET Letters : List(ready)) \/ ProcessEntry \/ PruneOld \/ DlqStep(Worker)
AdminStep == AdminProcess \/ DlqStep(Admin)
AdminRequest == AdminPrune \/ AdminPurge
  \/ \E i \in Letters : AdminRetry(i) \/ AdminDelete(i)
Dispatch == Receive \/ Acquire
EventStep(h) == Deliver(h) \/ DlqStep(h)
EnvStep == DbFails \/ DbReturns \/ Shutdown \/ Restart

Next ==
  \/ FlusherStep \/ WorkerStep \/ AdminStep \/ AdminRequest \/ Dispatch \/ EnvStep
  \/ \E i \in Letters : Push(i) \/ Enqueue(i) \/ EventStep(i)
  \/ \E t \in Tasks : CreateFails(t) \/ TruncateFails(t) \/ RewriteFails(t)

(* Every spawned task goes on and the database comes back.  An entry whose
   backoff has elapsed stays ready until it is retried, so of the worker's
   endless rounds some find all that they list ready. *)
Fairness ==
  /\ WF_vars(FlusherStep) /\ WF_vars(WorkerStep) /\ WF_vars(AdminStep) /\ WF_vars(Dispatch)
  /\ \A h \in Letters : WF_vars(EventStep(h))
  /\ WF_vars(DbReturns) /\ SF_vars(List(Letters))

Spec == Init /\ [][Next]_vars /\ Fairness

---------------------------------------------------------------------------
(* The type invariant: what the buffer, the dispatcher and the queue hold. *)
TypeOK ==
  /\ kind \in [Letters -> {None, "usage_log", "webhook"}]
  /\ channel \in Seq(Usage) /\ Len(channel) <= MaxPending
  /\ queue \in Seq(Events) /\ Len(queue) <= QueueSize
  /\ drainer \in Events \cup {None}
  /\ permits \subseteq Events /\ Cardinality(permits) <= MaxDeliveries
  /\ \A t \in Tasks :
       /\ task[t].pc \in Steps /\ task[t].letters \in Seq(Letters)
       /\ task[t].count \in 0 .. Attempts + MaxRetries /\ task[t].victims \subseteq Letters
  /\ index \in [Letters -> Absent .. MaxCount] /\ files \in [Letters -> Torn .. MaxCount]
  /\ born \in Seq(Letters) /\ IsInjective(born)
  /\ recorded \subseteq Usage /\ delivered \subseteq Events
  /\ dbUp \in BOOLEAN /\ shutdown \in {"running", "asked", "final"}
  /\ excused \subseteq Letters

(* Where a letter can be while it is neither settled nor a dead letter. *)
Carried ==
  ToSet(channel) \cup ToSet(queue) \cup {drainer}
  \cup ToSet(task[Flusher].letters)
  \cup {i \in Letters : task[i].pc # "done"}

(* Nothing vanishes: a usage entry that push() took and a webhook event that
   enqueue() took are being carried by a task, recorded or delivered, or
   listed by the dead-letter queue, unless the code names their loss: the
   overflow of the buffer, a push after its shutdown, an eviction, a prune, an
   admin request, a push whose write failed, or the end of the process while
   they have no file that load_from_disk can parse. *)
NothingVanishes ==
  \A i \in Letters :
    kind[i] # None => i \in Carried \cup recorded \cup delivered \cup excused \cup Indexed

(* What the queue lists is on the disk: every entry of the index has its file,
   and the file is readable unless a retry of the entry was counted.  Only
   mark_retried, which rewrites the file in place, ever puts a listed entry at
   risk, by a failed write, a stop in its middle or an overlapping second
   write; no push, remove, eviction or prune of another entry does. *)
ListedIsDurable ==
  \A i \in Indexed : files[i] # Absent /\ (files[i] = Torn => index[i] > 0)

(* A graceful shutdown loses no usage: when the flush worker has exited, every
   entry that was pushed before it saw the flag has left the buffer, for the
   database or for the dead-letter queue. *)
ShutdownFlushes ==
  task[Flusher].pc = "exited" => ToSet(channel) \subseteq excused

(* A push that ends leaves at most max_files entries, and one more for every
   push that is still at work: concurrent pushes that evict the same oldest
   entries leave no surplus behind. *)
Pushing == {t \in Tasks : task[t].pc \in {"enforce", "evict", "unlink_victim"} /\ ~Pruning(t)}
PushEvicts ==
  [][\A t \in Tasks :
       /\ t \in Pushing /\ UNCHANGED <<troubles, shutdown>>
       /\ task'[t].pc \in {"check", "create", "done"}
       => Cardinality(Indexed') <= MaxFiles + Cardinality(Pushing')]_vars

(* Every letter is settled: a usage entry is recorded or has used up
   max_retries, an event is delivered or a dead letter, unless its loss was
   named.  Neither an outage, nor the other entries of the queue, nor a
   target that never answers keeps the flush worker, the dispatcher and the
   retry worker from getting to it. *)
LettersSettle ==
  \A i \in Letters :
    (kind[i] # None) ~>
      \/ i \in recorded \cup delivered \cup excused
      \/ index[i] >= MaxRetries
      \/ i \in Events /\ index[i] # Absent
=============================================================================
