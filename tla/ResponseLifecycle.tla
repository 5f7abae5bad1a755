-------------------------- MODULE ResponseLifecycle --------------------------
(***************************************************************************)
(* The life of a stored `/v1/responses` row across the replicas of the     *)
(* gateway: the API handlers that create, cancel and delete it, the        *)
(* background worker that claims and retries it, the persister that writes *)
(* its final status, the cross-replica cancel poller and the retention     *)
(* worker that reaps and prunes.                                           *)
(*                                                                         *)
(* The `responses` table is shared; everything else is memory of one       *)
(* replica.  An action is the code between two await points: a database    *)
(* statement, or a critical section of the `cancel_senders` mutex.         *)
(*                                                                         *)
(* Time is abstracted to one bit per timestamp: a stamp is "fresh" when it *)
(* is written and becomes "old" once `max_in_progress` has passed.         *)
(***************************************************************************)
EXTENDS Naturals, Sequences, FiniteSets

CONSTANTS
  Replicas,      \* gateway processes that share the database
  NoReplica,     \* stands for "no process"
  Responses,     \* response ids
  MaxAttempts,   \* [features.responses.retry] max_attempts (1: retry disabled)
  Concurrency,   \* [features.responses] worker_concurrency
  Kinds,         \* how clients create responses: subset of AllKinds
  CreateAt,      \* replicas the load balancer sends create requests to
  CancelAt,      \* replicas it sends cancel requests to
  DeleteAt,      \* replicas it sends delete requests to
  MaxCrashes,    \* bound: process crashes in a behaviour
  MaxFaults      \* bound: terminal writes that fail with a database error

AllKinds == {"background", "streaming", "unary"}

ASSUME LifecycleAssumption ==
  /\ NoReplica \notin Replicas
  /\ IsFiniteSet(Responses)
  /\ MaxAttempts \in Nat \ {0}
  /\ Concurrency \in Nat \ {0}
  /\ Kinds \subseteq AllKinds
  /\ CreateAt \subseteq Replicas
  /\ CancelAt \subseteq Replicas
  /\ DeleteAt \subseteq Replicas
  /\ MaxCrashes \in Nat
  /\ MaxFaults \in Nat

Attempts == 1 .. MaxAttempts

VARIABLES
  \* The `responses` table.
  status,      \* "none" before the insert, "deleted" after a delete or prune
  background,  \* the row's background flag
  born,        \* created_at, as a rank among the stamps taken
  started,     \* started_at
  heartbeat,   \* last_heartbeat_at
  expired,     \* retention_expires_at has passed
  \* Memory of the replicas.
  up,          \* the process is running
  creating,    \* the replica whose create() has inserted the row, not the sender
  senders,     \* cancel_senders: per replica and response, the watch value
  home,        \* the replica that executes the response
  wpc,         \* run_with_retry: where the execution task is
  attempt,     \* run_with_retry: the loop variable
  ppc,         \* persister task of each attempt: where it is
  sig,         \* persister task of each attempt: its watch receiver
  outcome,     \* persister task of each attempt: the status it will write
  cpc,         \* cancel(): where the handler on a replica is
  dpc,         \* delete(): where the handler on a replica is
  poll,        \* cancel poller of a replica: the ids it is about to trip
  \* What the outside world has seen.
  hooks,       \* webhook.enqueue calls, in order
  answers,     \* statuses returned by cancel() to clients
  asked,       \* responses for which a client's cancel was admitted
  crashes, faults

rowVars     == <<status, background, born, started, heartbeat, expired>>
workerVars  == <<home, wpc, attempt>>
persistVars == <<ppc, outcome>>
signalVars  == <<senders, sig>>
seenVars    == <<hooks, answers, asked>>
boundVars   == <<crashes, faults>>

vars == <<rowVars, up, creating, signalVars, workerVars, persistVars,
          cpc, dpc, poll, seenVars, boundVars>>

Terminal == {"completed", "failed", "cancelled", "incomplete"}
Live     == {"queued", "in_progress"}
Statuses == {"none", "deleted"} \cup Live \cup Terminal

Stored(r) == status[r] \in Live \cup Terminal

WorkerStates == {"idle", "dispatch", "drain", "backoff", "reload",
                 "markfail", "failwon", "done", "lost"}
Running == {"dispatch", "drain", "backoff", "reload", "markfail", "failwon"}

\* "refused": the provider's answer is an HTTP error, which gets no persister.
PersisterStates == {"none", "streaming", "unary", "closing", "won",
                    "ended", "errored", "refused", "lost"}
Busy == {"streaming", "unary", "closing", "won"}

CancelStates == {"idle", "trip", "write", "won", "lost"}

\* What a watch receiver can still observe: nothing new, a pending change, a
\* dropped sender whose last value was true, one whose last value was false.
Signals == {"none", "open", "fired", "closedTrue", "closedFalse"}
Attached == {"open", "fired"}

Init ==
  /\ status = [r \in Responses |-> "none"]
  /\ background = [r \in Responses |-> FALSE]
  /\ born = [r \in Responses |-> 0]
  /\ started = [r \in Responses |-> "null"]
  /\ heartbeat = [r \in Responses |-> "null"]
  /\ expired = [r \in Responses |-> FALSE]
  /\ up = [p \in Replicas |-> TRUE]
  /\ creating = [r \in Responses |-> NoReplica]
  /\ senders = [p \in Replicas |-> [r \in Responses |-> "none"]]
  /\ home = [r \in Responses |-> NoReplica]
  /\ wpc = [r \in Responses |-> "idle"]
  /\ attempt = [r \in Responses |-> 1]
  /\ ppc = [r \in Responses |-> [k \in Attempts |-> "none"]]
  /\ sig = [r \in Responses |-> [k \in Attempts |-> "none"]]
  /\ outcome = [r \in Responses |-> [k \in Attempts |-> "incomplete"]]
  /\ cpc = [p \in Replicas |-> [r \in Responses |-> "idle"]]
  /\ dpc = [p \in Replicas |-> [r \in Responses |-> "idle"]]
  /\ poll = [p \in Replicas |-> {}]
  /\ hooks = [r \in Responses |-> <<>>]
  /\ answers = [r \in Responses |-> {}]
  /\ asked = {}
  /\ crashes = 0
  /\ faults = 0

-----------------------------------------------------------------------------
(* The cancel_senders map and its watch channels.                           *)

\* The receivers on replica p of the sender registered for r.
Receivers(p, r) == {k \in Attempts : home[r] = p /\ sig[r][k] \in Attached}

\* watch::Sender::send(true): stores the value and wakes the receivers; with
\* no receiver alive it fails and the value stays what it was.
Trip(p, r) ==
  IF senders[p][r] # "none" /\ Receivers(p, r) # {}
  THEN /\ senders' = [senders EXCEPT ![p][r] = "true"]
       /\ sig' = [sig EXCEPT ![r] = [k \in Attempts |->
                    IF sig[r][k] \in Attached THEN "fired" ELSE sig[r][k]]]
  ELSE UNCHANGED signalVars

\* The receivers of r once the sender that p's map holds for it is dropped.
Closed(p, r) == [k \in Attempts |->
  IF k \in Receivers(p, r)
  THEN IF senders[p][r] = "true" THEN "closedTrue" ELSE "closedFalse"
  ELSE sig[r][k]]

\* cancel_senders.remove(id)
RemoveSender(p, r) ==
  /\ senders' = [senders EXCEPT ![p][r] = "none"]
  /\ sig' = [sig EXCEPT ![r] = Closed(p, r)]

\* Mutant: the UPDATE without its guard on the current status.
CompleteWithinOrgUnguarded(r, s) ==
  /\ Stored(r)
  /\ status' = [status EXCEPT ![r] = s]
  /\ expired' = [expired EXCEPT ![r] = FALSE]

\* complete_within_org: the UPDATE matches only a non-terminal row.
CompleteWithinOrg(r, s) ==
  /\ status[r] \in Live
  /\ status' = [status EXCEPT ![r] = s]
  /\ expired' = [expired EXCEPT ![r] = FALSE]

\* The guarded UPDATE matched no row: already terminal, or not there.
CompleteMatchedNothing(r) ==
  /\ status[r] \notin Live
  /\ UNCHANGED <<status, expired>>

\* The winner's part of update_within_org: drop the sender, fire the webhook.
AnnounceTerminal(p, r, s) ==
  /\ RemoveSender(p, r)
  /\ hooks' = [hooks EXCEPT ![r] = Append(@, s)]

\* A terminal write that fails with a database error changes nothing.
DbFault == faults < MaxFaults /\ faults' = faults + 1

-----------------------------------------------------------------------------
(* POST /v1/responses.                                                      *)

\* ResponsesStore::create, up to the commit of the insert.  A background row
\* is queued for the worker; a foreground row is already in progress.  The
\* handler stamped created_at before the insert, in milliseconds: concurrent
\* creates may tie, or commit in the other order.
CreateInsert(p, r, bg) ==
  /\ up[p] /\ status[r] = "none"
  /\ status' = [status EXCEPT ![r] = IF bg THEN "queued" ELSE "in_progress"]
  /\ background' = [background EXCEPT ![r] = bg]
  /\ \E rank \in 1 .. 1 + Cardinality({q \in Responses : status[q] # "none"}) :
       born' = [born EXCEPT ![r] = rank]
  /\ creating' = [creating EXCEPT ![r] = p]
  /\ UNCHANGED <<started, heartbeat, expired, up, signalVars, workerVars,
                 persistVars, cpc, dpc, poll, seenVars, boundVars>>

\* The rest of create for a background row: insert the sender, replacing one
\* that an executor may have registered meanwhile.  The receiver is dropped.
CreateRegister(r) ==
  LET p == creating[r] IN
  /\ p # NoReplica /\ background[r]
  /\ creating' = [creating EXCEPT ![r] = NoReplica]
  /\ senders' = [senders EXCEPT ![p][r] = "false"]
  /\ sig' = [sig EXCEPT ![r] = Closed(p, r)]
  /\ UNCHANGED <<rowVars, up, workerVars, persistVars, cpc, dpc, poll, seenVars, boundVars>>

\* The rest of create for a foreground row: the handler goes on with it, as a
\* stream that keeps the receiver or as one body.
CreateForeground(r, kind) ==
  LET p == creating[r] IN
  /\ p # NoReplica /\ ~background[r]
  /\ creating' = [creating EXCEPT ![r] = NoReplica]
  /\ senders' = [senders EXCEPT ![p][r] = "false"]
  /\ sig' = [sig EXCEPT ![r][1] = IF kind = "streaming" THEN "open" ELSE "none"]
  /\ ppc' = [ppc EXCEPT ![r][1] = kind]
  /\ home' = [home EXCEPT ![r] = p]
  /\ UNCHANGED <<rowVars, up, wpc, attempt, outcome, cpc, dpc, poll,
                 seenVars, boundVars>>

-----------------------------------------------------------------------------
(* The background worker: claim_queued, then run_with_retry.                *)

OldestQueued(r) ==
  /\ status[r] = "queued"
  /\ \A q \in Responses : status[q] = "queued" => born[r] <= born[q]

\* A permit is taken before the claim and held until the task ends.
Claim(p, r) ==
  /\ up[p]
  /\ Cardinality({q \in Responses : home[q] = p /\ wpc[q] \in Running})
       < Concurrency
  /\ OldestQueued(r)
  /\ status' = [status EXCEPT ![r] = "in_progress"]
  /\ started' = [started EXCEPT ![r] = "fresh"]
  /\ home' = [home EXCEPT ![r] = p]
  /\ wpc' = [wpc EXCEPT ![r] = "dispatch"]
  /\ UNCHANGED <<background, born, heartbeat, expired, up, creating, signalVars,
                 attempt, persistVars, cpc, dpc, poll, seenVars,
                 boundVars>>

\* Mutant: subscribe when there is a sender, but never insert one.
RegisterExternalExecutionSubscribeOnly(p, r, receiver) ==
  /\ UNCHANGED senders
  /\ sig' = [sig EXCEPT ![r][attempt[r]] =
               IF senders[p][r] = "none" THEN "none" ELSE receiver]

\* register_external_execution: subscribe to the sender in the map, or insert
\* a new one.
RegisterExternalExecution(p, r, receiver) ==
  /\ senders' = [senders EXCEPT ![p][r] = IF @ = "none" THEN "false" ELSE @]
  /\ sig' = [sig EXCEPT ![r][attempt[r]] = receiver]

\* The provider answered with a stream: register for cancellation and attach
\* the persister.
DispatchOk(r) ==
  /\ wpc[r] = "dispatch"
  /\ RegisterExternalExecution(home[r], r, "open")
  /\ ppc' = [ppc EXCEPT ![r][attempt[r]] = "streaming"]
  /\ wpc' = [wpc EXCEPT ![r] = "drain"]
  /\ UNCHANGED <<rowVars, up, creating, home, attempt, outcome, cpc, dpc,
                 poll, seenVars, boundVars>>

\* The provider answered with an HTTP error, which execute_with_fallback hands
\* on as it is.  The execution is registered like any other, but the pipeline
\* returns the response unwrapped: the receiver is dropped, there is no
\* persister and the body is the provider's own.
DispatchRefused(r) ==
  /\ wpc[r] = "dispatch"
  /\ RegisterExternalExecution(home[r], r, "none")
  /\ ppc' = [ppc EXCEPT ![r][attempt[r]] = "refused"]
  /\ wpc' = [wpc EXCEPT ![r] = "drain"]
  /\ UNCHANGED <<rowVars, up, creating, home, attempt, outcome, cpc, dpc,
                 poll, seenVars, boundVars>>

\* BadPayload, Routing, Resolution or NoStore before the provider is called.
DispatchRejected(r) ==
  /\ wpc[r] = "dispatch"
  /\ wpc' = [wpc EXCEPT ![r] = "markfail"]
  /\ UNCHANGED <<rowVars, up, creating, signalVars, home, attempt, persistVars,
                 cpc, dpc, poll, seenVars, boundVars>>

\* A container_reference that no longer resolves: BadPayload after the
\* execution was registered, its receiver dropped unused.
DispatchRejectedAfterRegister(r) ==
  /\ wpc[r] = "dispatch"
  /\ RegisterExternalExecution(home[r], r, "none")
  /\ wpc' = [wpc EXCEPT ![r] = "markfail"]
  /\ UNCHANGED <<rowVars, up, creating, home, attempt, persistVars, cpc, dpc,
                 poll, seenVars, boundVars>>

\* Mutant: off by one, an attempt too many.
AfterTransientOneMore(r) ==
  wpc' = [wpc EXCEPT ![r] =
            IF attempt[r] > MaxAttempts THEN "markfail" ELSE "backoff"]

\* A transient failure is retried after a backoff until the attempts run out.
AfterTransient(r) ==
  wpc' = [wpc EXCEPT ![r] =
            IF attempt[r] = MaxAttempts THEN "markfail" ELSE "backoff"]

DispatchFailed(r) ==
  /\ wpc[r] = "dispatch"
  /\ AfterTransient(r)
  /\ UNCHANGED <<rowVars, up, creating, signalVars, home, attempt, persistVars,
                 cpc, dpc, poll, seenVars, boundVars>>

\* The body ends when the persister task drops its channel, at its very end.
\* The body of an HTTP error ends like any other and counts as executed.
DrainOk(r) ==
  /\ wpc[r] = "drain"
  /\ ppc[r][attempt[r]] \in {"ended", "refused"}
  /\ wpc' = [wpc EXCEPT ![r] = "done"]
  /\ UNCHANGED <<rowVars, up, creating, signalVars, home, attempt, persistVars,
                 cpc, dpc, poll, seenVars, boundVars>>

\* The body yields an error: the persister forwarded one, the idle timeout
\* that wraps the persister's output expired while the persister lives on, or
\* the body of an HTTP error broke off.
DrainFailed(r) ==
  /\ wpc[r] = "drain"
  /\ ppc[r][attempt[r]] \in {"errored", "refused", "streaming", "closing", "won"}
  /\ AfterTransient(r)
  /\ UNCHANGED <<rowVars, up, creating, signalVars, home, attempt, persistVars,
                 cpc, dpc, poll, seenVars, boundVars>>

\* Mutant: the retry hands the row back to the queue.
RetryBumpRequeues(r) ==
  /\ wpc[r] = "backoff"
  /\ IF Stored(r)
     THEN /\ status' = [status EXCEPT ![r] = "queued"]
          /\ started' = [started EXCEPT ![r] = "fresh"]
     ELSE UNCHANGED <<status, started>>
  /\ wpc' = [wpc EXCEPT ![r] = "reload"]
  /\ UNCHANGED <<background, born, heartbeat, expired, up, creating, signalVars,
                 home, attempt, persistVars, cpc, dpc, poll,
                 seenVars, boundVars>>

\* After the backoff: an unguarded patch of status and started_at.
RetryBump(r) ==
  /\ wpc[r] = "backoff"
  /\ IF Stored(r)
     THEN /\ status' = [status EXCEPT ![r] = "in_progress"]
          /\ started' = [started EXCEPT ![r] = "fresh"]
     ELSE UNCHANGED <<status, started>>
  /\ wpc' = [wpc EXCEPT ![r] = "reload"]
  /\ UNCHANGED <<background, born, heartbeat, expired, up, creating, signalVars,
                 home, attempt, persistVars, cpc, dpc, poll,
                 seenVars, boundVars>>

\* Mutant: an attempt is not counted, so the retries never run out.
RetryReloadUncounted(r) ==
  /\ wpc[r] = "reload"
  /\ wpc' = [wpc EXCEPT ![r] = IF Stored(r) THEN "dispatch" ELSE "markfail"]
  /\ UNCHANGED <<rowVars, up, creating, signalVars, home, attempt, persistVars,
                 cpc, dpc, poll, seenVars, boundVars>>

RetryReload(r) ==
  /\ wpc[r] = "reload"
  /\ IF Stored(r)
     THEN /\ wpc' = [wpc EXCEPT ![r] = "dispatch"]
          /\ attempt' = [attempt EXCEPT ![r] = @ + 1]
     ELSE /\ wpc' = [wpc EXCEPT ![r] = "markfail"]
          /\ UNCHANGED attempt
  /\ UNCHANGED <<rowVars, up, creating, signalVars, home, persistVars, cpc, dpc,
                 poll, seenVars, boundVars>>

\* mark_background_failure: a guarded terminal write of `failed`.
MarkFailure(r) ==
  /\ wpc[r] = "markfail"
  /\ \/ /\ CompleteWithinOrg(r, "failed")
        /\ wpc' = [wpc EXCEPT ![r] = "failwon"]
        /\ UNCHANGED faults
     \/ /\ CompleteMatchedNothing(r)
        /\ wpc' = [wpc EXCEPT ![r] = "done"]
        /\ UNCHANGED faults
     \/ /\ DbFault
        /\ wpc' = [wpc EXCEPT ![r] = "done"]
        /\ UNCHANGED <<status, expired>>
  /\ UNCHANGED <<background, born, started, heartbeat, up, creating, signalVars,
                 home, attempt, persistVars, cpc, dpc, poll,
                 seenVars, crashes>>

MarkFailureAnnounce(r) ==
  /\ wpc[r] = "failwon"
  /\ AnnounceTerminal(home[r], r, "failed")
  /\ wpc' = [wpc EXCEPT ![r] = "done"]
  /\ UNCHANGED <<rowVars, up, creating, home, attempt, persistVars, cpc, dpc,
                 poll, answers, asked, boundVars>>

-----------------------------------------------------------------------------
(* The persister task of attempt k (foreground responses have only k = 1).  *)

\* A chunk arrived and the heartbeat interval has elapsed.
PersisterHeartbeat(r, k) ==
  /\ ppc[r][k] = "streaming"
  /\ status[r] = "in_progress"
  /\ heartbeat' = [heartbeat EXCEPT ![r] = "fresh"]
  /\ UNCHANGED <<status, background, born, started, expired, up, creating,
                 signalVars, workerVars, persistVars, cpc, dpc, poll,
                 seenVars, boundVars>>

\* Mutant: changed() is taken for a cancel without looking at the value.
PersisterCancelledAnyChange(r, k) ==
  /\ ppc[r][k] = "streaming"
  /\ sig[r][k] \in {"fired", "closedTrue", "closedFalse"}
  /\ ppc' = [ppc EXCEPT ![r][k] = "closing"]
  /\ outcome' = [outcome EXCEPT ![r][k] = "cancelled"]
  /\ UNCHANGED <<rowVars, up, creating, signalVars, workerVars, cpc, dpc,
                 poll, seenVars, boundVars>>

\* cancel_rx.changed() resolves, on a send or on a dropped sender, and the
\* value read is true.
PersisterCancelled(r, k) ==
  /\ ppc[r][k] = "streaming"
  /\ sig[r][k] \in {"fired", "closedTrue"}
  /\ ppc' = [ppc EXCEPT ![r][k] = "closing"]
  /\ outcome' = [outcome EXCEPT ![r][k] = "cancelled"]
  /\ UNCHANGED <<rowVars, up, creating, signalVars, workerVars, cpc, dpc,
                 poll, seenVars, boundVars>>

\* The upstream body ended; the status is that of the first terminal event,
\* `incomplete` when there was none.
PersisterStreamEnd(r, k) ==
  /\ ppc[r][k] = "streaming"
  /\ ppc' = [ppc EXCEPT ![r][k] = "closing"]
  /\ \E s \in {"completed", "failed", "incomplete"} :
       outcome' = [outcome EXCEPT ![r][k] = s]
  /\ UNCHANGED <<rowVars, up, creating, signalVars, workerVars, cpc, dpc,
                 poll, seenVars, boundVars>>

\* Mutant: the error ends the task without being forwarded to the reader of
\* the body, which then looks complete.
PersisterStreamErrorSwallowed(r, k) ==
  /\ ppc[r][k] = "streaming"
  /\ ppc' = [ppc EXCEPT ![r][k] = "ended"]
  /\ sig' = [sig EXCEPT ![r][k] = "none"]
  /\ UNCHANGED <<rowVars, up, creating, senders, workerVars, outcome, cpc, dpc,
                 poll, seenVars, boundVars>>

\* The upstream body failed: the task forwards the error and returns without
\* a terminal write.
PersisterStreamError(r, k) ==
  /\ ppc[r][k] = "streaming"
  /\ ppc' = [ppc EXCEPT ![r][k] = "errored"]
  /\ sig' = [sig EXCEPT ![r][k] = "none"]
  /\ UNCHANGED <<rowVars, up, creating, senders, workerVars, outcome, cpc, dpc,
                 poll, seenVars, boundVars>>

\* persist_non_streaming: the HTTP status decides; a body that cannot be read
\* is answered with an error and nothing is persisted.
UnaryBody(r) ==
  /\ ppc[r][1] = "unary"
  /\ \/ /\ ppc' = [ppc EXCEPT ![r][1] = "closing"]
        /\ \E s \in {"completed", "failed"} :
             outcome' = [outcome EXCEPT ![r][1] = s]
     \/ /\ ppc' = [ppc EXCEPT ![r][1] = "errored"]
        /\ UNCHANGED outcome
  /\ UNCHANGED <<rowVars, up, creating, signalVars, workerVars, cpc, dpc,
                 poll, seenVars, boundVars>>

\* The final update_within_org of the persister.
PersisterComplete(r, k) ==
  /\ ppc[r][k] = "closing"
  /\ \/ /\ CompleteWithinOrg(r, outcome[r][k])
        /\ ppc' = [ppc EXCEPT ![r][k] = "won"]
        /\ UNCHANGED <<sig, faults>>
     \/ /\ CompleteMatchedNothing(r)
        /\ ppc' = [ppc EXCEPT ![r][k] = "ended"]
        /\ sig' = [sig EXCEPT ![r][k] = "none"]
        /\ UNCHANGED faults
     \/ /\ DbFault
        /\ ppc' = [ppc EXCEPT ![r][k] = "ended"]
        /\ sig' = [sig EXCEPT ![r][k] = "none"]
        /\ UNCHANGED <<status, expired>>
  /\ UNCHANGED <<background, born, started, heartbeat, up, creating, senders,
                 workerVars, outcome, cpc, dpc, poll, seenVars,
                 crashes>>

PersisterAnnounce(r, k) ==
  /\ ppc[r][k] = "won"
  /\ senders' = [senders EXCEPT ![home[r]][r] = "none"]
  /\ sig' = [sig EXCEPT ![r] = [Closed(home[r], r) EXCEPT ![k] = "none"]]
  /\ hooks' = [hooks EXCEPT ![r] = Append(@, outcome[r][k])]
  /\ ppc' = [ppc EXCEPT ![r][k] = "ended"]
  /\ UNCHANGED <<rowVars, up, creating, workerVars, outcome, cpc, dpc, poll, answers, asked, boundVars>>

-----------------------------------------------------------------------------
(* POST /v1/responses/{id}/cancel.                                          *)

\* A row that is not background is refused; a terminal one is returned as is.
CancelRead(p, r) ==
  /\ up[p] /\ cpc[p][r] = "idle"
  /\ Stored(r) /\ background[r]
  /\ asked' = asked \cup {r}
  /\ IF status[r] \in Terminal
     THEN /\ answers' = [answers EXCEPT ![r] = @ \cup {status[r]}]
          /\ UNCHANGED cpc
     ELSE /\ cpc' = [cpc EXCEPT ![p][r] = "trip"]
          /\ UNCHANGED answers
  /\ UNCHANGED <<rowVars, up, creating, signalVars, workerVars, persistVars,
                 dpc, poll, hooks, boundVars>>

CancelTrip(p, r) ==
  /\ cpc[p][r] = "trip"
  /\ Trip(p, r)
  /\ cpc' = [cpc EXCEPT ![p][r] = "write"]
  /\ UNCHANGED <<rowVars, up, creating, workerVars, persistVars, dpc, poll, seenVars, boundVars>>

\* Mutant: a failed write is treated like a lost race.
CancelCompleteErrorAsLost(p, r) ==
  /\ cpc[p][r] = "write"
  /\ \/ /\ CompleteWithinOrg(r, "cancelled")
        /\ cpc' = [cpc EXCEPT ![p][r] = "won"]
        /\ UNCHANGED faults
     \/ /\ CompleteMatchedNothing(r)
        /\ cpc' = [cpc EXCEPT ![p][r] = "lost"]
        /\ UNCHANGED faults
     \/ /\ DbFault
        /\ cpc' = [cpc EXCEPT ![p][r] = "lost"]
        /\ UNCHANGED <<status, expired>>
  /\ UNCHANGED <<background, born, started, heartbeat, up, creating, signalVars,
                 workerVars, persistVars, dpc, poll, seenVars, crashes>>

CancelComplete(p, r) ==
  /\ cpc[p][r] = "write"
  /\ \/ /\ CompleteWithinOrg(r, "cancelled")
        /\ cpc' = [cpc EXCEPT ![p][r] = "won"]
        /\ UNCHANGED faults
     \/ /\ CompleteMatchedNothing(r)
        /\ cpc' = [cpc EXCEPT ![p][r] = "lost"]
        /\ UNCHANGED faults
     \/ /\ DbFault
        /\ cpc' = [cpc EXCEPT ![p][r] = "idle"]
        /\ UNCHANGED <<status, expired>>
  /\ UNCHANGED <<background, born, started, heartbeat, up, creating, signalVars,
                 workerVars, persistVars, dpc, poll, seenVars,
                 crashes>>

CancelAnnounce(p, r) ==
  /\ cpc[p][r] = "won"
  /\ AnnounceTerminal(p, r, "cancelled")
  /\ answers' = [answers EXCEPT ![r] = @ \cup {"cancelled"}]
  /\ cpc' = [cpc EXCEPT ![p][r] = "idle"]
  /\ UNCHANGED <<rowVars, up, creating, workerVars, persistVars, dpc, poll, asked, boundVars>>

\* Another writer was first: answer with the row as it is now, if it is there.
CancelLost(p, r) ==
  /\ cpc[p][r] = "lost"
  /\ answers' = [answers EXCEPT ![r] =
                   IF Stored(r) THEN @ \cup {status[r]} ELSE @]
  /\ cpc' = [cpc EXCEPT ![p][r] = "idle"]
  /\ UNCHANGED <<rowVars, up, creating, signalVars, workerVars, persistVars,
                 dpc, poll, hooks, asked, boundVars>>

-----------------------------------------------------------------------------
(* DELETE /v1/responses/{id}.                                               *)

DeleteRow(p, r) ==
  /\ up[p] /\ dpc[p][r] = "idle" /\ Stored(r)
  /\ status' = [status EXCEPT ![r] = "deleted"]
  /\ dpc' = [dpc EXCEPT ![p][r] = "removed"]
  /\ UNCHANGED <<background, born, started, heartbeat, expired, up, creating,
                 signalVars, workerVars, persistVars, cpc, poll,
                 seenVars, boundVars>>

DeleteSender(p, r) ==
  /\ dpc[p][r] = "removed"
  /\ RemoveSender(p, r)
  /\ dpc' = [dpc EXCEPT ![p][r] = "idle"]
  /\ UNCHANGED <<rowVars, up, creating, workerVars, persistVars, cpc, poll, seenVars, boundVars>>

-----------------------------------------------------------------------------
(* poll_external_cancels: query the active set, then trip each match.  The  *)
(* snapshot of the map and the query are one step: an id registered between *)
(* them is left to the next poll, and tripping a removed one does nothing.  *)

PollQuery(p) ==
  LET cancelled == {r \in Responses : senders[p][r] # "none"
                                        /\ status[r] = "cancelled"} IN
  /\ up[p] /\ poll[p] = {}
  /\ cancelled # {}
  /\ poll' = [poll EXCEPT ![p] = cancelled]
  /\ UNCHANGED <<rowVars, up, creating, signalVars, workerVars, persistVars,
                 cpc, dpc, seenVars, boundVars>>

PollTrip(p, r) ==
  /\ r \in poll[p]
  /\ Trip(p, r)
  /\ poll' = [poll EXCEPT ![p] = @ \ {r}]
  /\ UNCHANGED <<rowVars, up, creating, workerVars, persistVars, cpc, dpc,
                 seenVars, boundVars>>

-----------------------------------------------------------------------------
(* The retention worker.  Both statements are atomic, so which replica holds *)
(* the leader lock does not matter, only that one is up.                     *)

\* COALESCE(last_heartbeat_at, started_at) < cutoff
Quiet(r) ==
  /\ status[r] = "in_progress"
  /\ started[r] # "null"
  /\ (IF heartbeat[r] # "null" THEN heartbeat[r] ELSE started[r]) = "old"

\* No webhook, no sender removed: only the rows change.
Reap ==
  /\ \E p \in Replicas : up[p]
  /\ \E r \in Responses : Quiet(r)
  /\ status' = [r \in Responses |-> IF Quiet(r) THEN "failed" ELSE status[r]]
  /\ expired' = [r \in Responses |-> IF Quiet(r) THEN FALSE ELSE expired[r]]
  /\ UNCHANGED <<background, born, started, heartbeat, up, creating, signalVars,
                 workerVars, persistVars, cpc, dpc, poll, seenVars, boundVars>>

Prunable(r) == status[r] \in Terminal /\ expired[r]

Prune ==
  /\ \E p \in Replicas : up[p]
  /\ \E r \in Responses : Prunable(r)
  /\ status' = [r \in Responses |-> IF Prunable(r) THEN "deleted" ELSE status[r]]
  /\ UNCHANGED <<background, born, started, heartbeat, expired, up, creating,
                 signalVars, workerVars, persistVars, cpc, dpc, poll, seenVars,
                 boundVars>>

-----------------------------------------------------------------------------
(* Time and crashes.                                                        *)

\* max_in_progress passes without a new stamp.
Older(stamp) == IF stamp = "fresh" THEN "old" ELSE stamp

Age(r) ==
  /\ status[r] = "in_progress"
  /\ "fresh" \in {started[r], heartbeat[r]}
  /\ started' = [started EXCEPT ![r] = Older(@)]
  /\ heartbeat' = [heartbeat EXCEPT ![r] = Older(@)]
  /\ UNCHANGED <<status, background, born, expired, up, creating, signalVars,
                 workerVars, persistVars, cpc, dpc, poll, seenVars, boundVars>>

Expire(r) ==
  /\ status[r] \in Terminal /\ ~expired[r]
  /\ expired' = [expired EXCEPT ![r] = TRUE]
  /\ UNCHANGED <<status, background, born, started, heartbeat, up, creating,
                 signalVars, workerVars, persistVars, cpc, dpc, poll,
                 seenVars, boundVars>>

\* A process dies: every task on it is gone, and so is its map of senders.
Crash(p) ==
  LET here(r) == home[r] = p IN
  /\ up[p] /\ crashes < MaxCrashes
  /\ crashes' = crashes + 1
  /\ up' = [up EXCEPT ![p] = FALSE]
  /\ creating' = [r \in Responses |->
                    IF creating[r] = p THEN NoReplica ELSE creating[r]]
  /\ senders' = [senders EXCEPT ![p] = [r \in Responses |-> "none"]]
  /\ wpc' = [r \in Responses |->
               IF here(r) /\ wpc[r] \in Running THEN "lost" ELSE wpc[r]]
  /\ ppc' = [r \in Responses |-> [k \in Attempts |->
               IF here(r) /\ ppc[r][k] \in Busy THEN "lost" ELSE ppc[r][k]]]
  /\ sig' = [r \in Responses |-> [k \in Attempts |->
               IF here(r) THEN "none" ELSE sig[r][k]]]
  /\ cpc' = [cpc EXCEPT ![p] = [r \in Responses |-> "idle"]]
  /\ dpc' = [dpc EXCEPT ![p] = [r \in Responses |-> "idle"]]
  /\ poll' = [poll EXCEPT ![p] = {}]
  /\ UNCHANGED <<rowVars, home, attempt, outcome, seenVars, faults>>

Restart(p) ==
  /\ ~up[p]
  /\ up' = [up EXCEPT ![p] = TRUE]
  /\ UNCHANGED <<rowVars, creating, signalVars, workerVars, persistVars, cpc,
                 dpc, poll, seenVars, boundVars>>

-----------------------------------------------------------------------------
WorkerStep(r) ==
  \/ DispatchOk(r) \/ DispatchRefused(r) \/ DispatchRejected(r)
  \/ DispatchRejectedAfterRegister(r) \/ DispatchFailed(r) \/ DrainOk(r) \/ DrainFailed(r)
  \/ RetryBump(r) \/ RetryReload(r) \/ MarkFailure(r) \/ MarkFailureAnnounce(r)

PersisterStep(r, k) ==
  \/ PersisterHeartbeat(r, k) \/ PersisterCancelled(r, k)
  \/ PersisterStreamEnd(r, k) \/ PersisterStreamError(r, k)
  \/ PersisterComplete(r, k) \/ PersisterAnnounce(r, k)

CancelStep(p, r) ==
  CancelTrip(p, r) \/ CancelComplete(p, r) \/ CancelAnnounce(p, r)
    \/ CancelLost(p, r)

\* Nothing is left to do: the bounded set of responses is used up and pruned,
\* apart from foreground rows whose handler died (nothing ever settles those).
Finished ==
  /\ \A r \in Responses :
       /\ status[r] = "deleted" \/ (status[r] = "in_progress" /\ ~background[r])
       /\ creating[r] = NoReplica
       /\ wpc[r] \notin Running
       /\ \A k \in Attempts : ppc[r][k] \notin Busy
       /\ \A p \in Replicas : cpc[p][r] = "idle" /\ dpc[p][r] = "idle"
  /\ UNCHANGED vars

Next ==
  \/ \E p \in Replicas, r \in Responses :
       \/ \E bg \in BOOLEAN : /\ p \in CreateAt
                              /\ bg => "background" \in Kinds
                              /\ ~bg => Kinds # {"background"}
                              /\ CreateInsert(p, r, bg)
       \/ Claim(p, r)
       \/ p \in CancelAt /\ CancelRead(p, r)
       \/ CancelStep(p, r)
       \/ p \in DeleteAt /\ DeleteRow(p, r)
       \/ DeleteSender(p, r)
       \/ PollTrip(p, r)
  \/ \E r \in Responses :
       \/ CreateRegister(r)
       \/ \E kind \in Kinds \ {"background"} : CreateForeground(r, kind)
       \/ WorkerStep(r)
       \/ \E k \in Attempts : PersisterStep(r, k)
       \/ UnaryBody(r)
       \/ Age(r) \/ Expire(r)
  \/ \E p \in Replicas :
       PollQuery(p) \/ Crash(p) \/ Restart(p)
  \/ Reap \/ Prune \/ Finished

\* Tasks that are ready run, timers fire, a crashed process is restarted and
\* the pollers keep ticking.  Nothing is assumed of clients or of providers:
\* a stream may stay open for ever.
Fairness ==
  /\ \A r \in Responses :
       /\ WF_vars(CreateRegister(r))
       /\ \A kind \in Kinds \ {"background"} : WF_vars(CreateForeground(r, kind))
       /\ WF_vars(DispatchOk(r) \/ DispatchRefused(r) \/ DispatchRejected(r)
                    \/ DispatchRejectedAfterRegister(r) \/ DispatchFailed(r))
       /\ WF_vars(ppc[r][attempt[r]] = "ended" /\ DrainOk(r))
       /\ WF_vars(ppc[r][attempt[r]] = "errored" /\ DrainFailed(r))
       /\ WF_vars(RetryBump(r)) /\ WF_vars(RetryReload(r))
       /\ WF_vars(MarkFailure(r)) /\ WF_vars(MarkFailureAnnounce(r))
       /\ \A k \in Attempts : /\ WF_vars(PersisterCancelled(r, k))
                              /\ WF_vars(PersisterComplete(r, k))
                              /\ WF_vars(PersisterAnnounce(r, k))
       /\ WF_vars(Age(r))
  /\ \A p \in Replicas :
       /\ WF_vars(Restart(p))
       /\ WF_vars(PollQuery(p))
       /\ \A r \in Responses : /\ WF_vars(Claim(p, r))
                               /\ WF_vars(CancelStep(p, r))
                               /\ WF_vars(DeleteSender(p, r))
                               /\ WF_vars(PollTrip(p, r))
  /\ WF_vars(Reap) /\ WF_vars(Prune)

\* Providers answer in bounded time: every open body ends or fails.
BodiesEnd ==
  \A r \in Responses :
    /\ WF_vars(UnaryBody(r))
    /\ WF_vars(ppc[r][attempt[r]] = "refused" /\ (DrainOk(r) \/ DrainFailed(r)))
    /\ \A k \in Attempts :
         WF_vars(PersisterStreamEnd(r, k) \/ PersisterStreamError(r, k))

Spec == Init /\ [][Next]_vars /\ Fairness

SpecBodiesEnd == Spec /\ BodiesEnd

-----------------------------------------------------------------------------
(* Properties.                                                              *)

TypeOK ==
  /\ status \in [Responses -> Statuses]
  /\ background \in [Responses -> BOOLEAN]
  /\ born \in [Responses -> Nat]
  /\ started \in [Responses -> {"null", "fresh", "old"}]
  /\ heartbeat \in [Responses -> {"null", "fresh", "old"}]
  /\ expired \in [Responses -> BOOLEAN]
  /\ up \in [Replicas -> BOOLEAN]
  /\ creating \in [Responses -> Replicas \cup {NoReplica}]
  /\ senders \in [Replicas -> [Responses -> {"none", "false", "true"}]]
  /\ home \in [Responses -> Replicas \cup {NoReplica}]
  /\ wpc \in [Responses -> WorkerStates]
  /\ attempt \in [Responses -> Attempts]
  /\ ppc \in [Responses -> [Attempts -> PersisterStates]]
  /\ sig \in [Responses -> [Attempts -> Signals]]
  /\ outcome \in [Responses -> [Attempts -> Terminal]]
  /\ cpc \in [Replicas -> [Responses -> CancelStates]]
  /\ dpc \in [Replicas -> [Responses -> {"idle", "removed"}]]
  /\ poll \in [Replicas -> SUBSET Responses]
  /\ hooks \in [Responses -> Seq(Terminal)]
  /\ answers \in [Responses -> SUBSET (Live \cup Terminal)]
  /\ asked \subseteq Responses
  /\ crashes \in Nat
  /\ faults \in Nat

\* A cancelled outcome always goes back to a client's cancel of a background
\* response: no other way of losing the sender (delete, a finished rival
\* attempt, a replaced registration) makes a persister report `cancelled`.
CancelledOnlyIfAsked ==
  \A r \in Responses :
    (\/ status[r] = "cancelled"
     \/ \E k \in Attempts : ppc[r][k] \in Busy /\ outcome[r][k] = "cancelled")
    => r \in asked /\ background[r]

\* Whatever cancel() returns to a client without an error is a settled
\* response, also when it lost the race to another writer.
CancelAnswersTerminal == \A r \in Responses : answers[r] \subseteq Terminal

\* When the worker's task ends, by whatever path and after any retries, the
\* row it had claimed is settled or gone, with two exceptions: a terminal write
\* failed in the database, or the last attempt was answered with an HTTP error.
\* An HTTP error of an earlier attempt, a cut stream, an idle timeout and a
\* rejected payload are no excuse: nobody else would pick the row up before
\* the reaper.
WorkerDoneMeansSettled ==
  \A r \in Responses :
    wpc[r] = "done" /\ faults = 0 /\ ppc[r][attempt[r]] # "refused"
      => status[r] \notin Live

\* At most one replica ever executes a response: once claimed (or taken by
\* the foreground handler) no other replica claims it, through retries, crashes
\* and restarts.  (A timed-out attempt's persister may still be at work on that
\* replica when the next attempt starts.)
SingleExecutor ==
  [][\A r \in Responses : home[r] # NoReplica => home'[r] = home[r]]_vars

\* With the retry loop disabled the rows keep the contract: a settled row keeps
\* its status until it is removed, and one webhook at most announces it.
Contract == INSTANCE ResponseContract WITH
  Outcomes <- Terminal,
  state <- [r \in Responses |->
              CASE status[r] = "none" -> "absent"
                [] status[r] \in Live -> "open"
                [] status[r] = "deleted" -> "removed"
                [] OTHER -> status[r]],
  announced <- hooks

KeepsContract == Contract!ContractSpec

\* A background response does not stay queued or in progress for ever, even
\* when its replica crashes or its terminal write fails: the reaper settles it.
BackgroundSettles ==
  \A r \in Responses :
    (status[r] \in Live /\ background[r]) ~> (status[r] \notin Live)

\* The cross-replica cancel protocol: a response that executes on a replica
\* which served neither its creation nor its cancel is stopped by that
\* replica's poller, whatever the provider does.
CancelReachesOtherReplica ==
  \A r \in Responses : \A k \in Attempts :
    (/\ status[r] = "cancelled" /\ ppc[r][k] = "streaming"
     /\ home[r] \notin CreateAt \cup CancelAt)
      ~> (status[r] # "cancelled" \/ ppc[r][k] # "streaming")

-----------------------------------------------------------------------------
(* A statement of the documentation that the code does not keep.            *)

\* "The row's status doesn't flip back to in_progress" after a cancel.
CancelledStaysCancelled ==
  [][\A r \in Responses :
       status[r] = "cancelled" => status'[r] \in {"cancelled", "deleted"}]_vars
=============================================================================
