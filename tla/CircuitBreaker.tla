--------------------------- MODULE CircuitBreaker ---------------------------
(***************************************************************************)
(* The lock-free circuit breaker of one provider                           *)
(* (src/providers/circuit_breaker.rs) under the callers that share it:     *)
(* with_circuit_breaker_and_retry (src/providers/retry.rs) and the health  *)
(* check loop (src/jobs/provider_health_check.rs).                         *)
(*                                                                         *)
(* The breaker is four atomics.  Each load, store, fetch_add, swap and     *)
(* compare_exchange of the code is one step here, so steps of several      *)
(* callers interleave inside check(), record_success(), record_failure()   *)
(* and the transition_to_* functions.  The state() reads that only feed    *)
(* log lines, metrics and published events are left out.                   *)
(*                                                                         *)
(* Time is kept as ages: what the code computes as now - opened_at.  Ages  *)
(* stop at MaxTimeout, the largest value that a comparison looks at.  The  *)
(* clock is read in the argument of the store of opened_at: one step.      *)
(***************************************************************************)
EXTENDS Integers

CONSTANTS
  Requests,          \* tasks that call the provider, one call after another
  Checkers,          \* health check loops feeding the same breaker; a member of
                     \* both sets plays both parts in turn
  InferenceMode,     \* ProviderHealthCheckMode::Inference
  FailureThreshold,  \* failure_threshold
  SuccessThreshold,  \* success_threshold
  BaseTimeout,       \* open_timeout_secs
  MaxTimeout,        \* max_open_timeout_secs
  Multiplier,        \* backoff_multiplier, a whole number
  MaxRetries,        \* RetryConfig.max_retries
  MaxCasRetries,     \* MAX_CAS_RETRIES
  MaxOpens,          \* consecutive_opens is counted up to here: the backoff is capped by then
  MaxFaults          \* bound on spurious CAS failures and dropped calls

ASSUME BreakerAssumption ==
  /\ InferenceMode \in BOOLEAN
  /\ FailureThreshold \in Nat \ {0} /\ SuccessThreshold \in Nat \ {0}
  /\ BaseTimeout \in Nat /\ MaxTimeout \in Nat /\ BaseTimeout <= MaxTimeout
  /\ Multiplier \in Nat \ {0}
  /\ MaxRetries \in Nat /\ MaxCasRetries \in Nat \ {0}
  /\ MaxOpens \in Nat /\ MaxFaults \in Nat

(* A power of the multiplier shortens no timeout: arithmetic that the provers
   do not have. *)
ASSUME PowersAssumption == \A n \in 0 .. MaxOpens : Multiplier^n >= 1

VARIABLES
  word,       \* state_and_counter, unpacked
  openedAge,  \* now - opened_at
  timeout,    \* current_timeout_millis
  opens,      \* consecutive_opens
  caller,     \* where each task stands, and what it has loaded
  healthy,    \* whether the provider answers
  faults,     \* spurious failures and dropped calls so far
  wordAge     \* ghost: age of the transition that stored the present word

vars == <<word, openedAge, timeout, opens, caller, healthy, faults, wordAge>>

Callers == Requests \cup Checkers
Ages == 0 .. MaxTimeout

(* pack_state, unpack_state: the state and the counter share one atomic. *)
Word(state, counter) == [state |-> state, counter |-> counter]
Closed0 == Word("closed", 0)

Words == [state : {"closed"}, counter : 0 .. FailureThreshold - 1]
    \cup [state : {"half_open"}, counter : 0 .. SuccessThreshold - 1]
    \cup {Word("open", 0)}

Steps == {"idle", "opened_at", "decide", "half_open", "call", "success", "failure",
          "cas_reset", "cas_success", "cas_failure",
          "open_count", "open_timeout", "open_time", "open_word",
          "close_count", "close_timeout", "close_word"}

(* seen: the word loaded; age: the loaded opened_at; since: ghost, the age
   of the transition behind the open word that check() saw, and of the
   caller's own transition_to_open; n: previous consecutive_opens;
   attempt: with_retry's attempts; tries: failed rounds of the CAS loop. *)
Idle == [pc |-> "idle", seen |-> Closed0, age |-> 0, since |-> 0, n |-> 0,
         attempt |-> 0, tries |-> 0]

CallerRecords ==
  [pc : Steps, seen : Words, age : Ages, since : Ages, n : 0 .. MaxOpens,
   attempt : 0 .. MaxRetries, tries : 0 .. MaxCasRetries - 1]

Init ==
  /\ word = Closed0
  /\ openedAge = MaxTimeout
  /\ timeout = BaseTimeout
  /\ opens = 0
  /\ caller = [c \in Callers |-> Idle]
  /\ healthy \in BOOLEAN
  /\ faults = 0
  /\ wordAge = MaxTimeout

-----------------------------------------------------------------------------
(* calculate_open_timeout_secs: base * multiplier^n, capped, except that
   n = 0 and a multiplier of one give the base itself. *)
Backoff(n) ==
  IF n = 0 \/ Multiplier <= 1 THEN BaseTimeout
  ELSE IF BaseTimeout * Multiplier^n > MaxTimeout THEN MaxTimeout
       ELSE BaseTimeout * Multiplier^n

Goto(c, step) == caller' = [caller EXCEPT ![c].pc = step]
Leave(c) == caller' = [caller EXCEPT ![c] = Idle]

(* check(): load the word. *)
CheckLoad(c) ==
  /\ c \in Requests /\ caller[c].pc = "idle"
  /\ caller' = [caller EXCEPT ![c] =
       [Idle EXCEPT !.pc = IF word.state = "open" THEN "opened_at" ELSE "call",
                    !.since = IF word.state = "open" THEN wordAge ELSE 0]]
  /\ UNCHANGED <<word, openedAge, timeout, opens, healthy, faults, wordAge>>

CheckOpenedAt(c) ==
  /\ caller[c].pc = "opened_at"
  /\ caller' = [caller EXCEPT ![c].pc = "decide", ![c].age = openedAge]
  /\ UNCHANGED <<word, openedAge, timeout, opens, healthy, faults, wordAge>>

(* Mutant: the elapsed timeout admits the request and leaves the word open. *)
CheckDecideNoTransition(c) ==
  /\ caller[c].pc = "decide"
  /\ IF caller[c].age >= timeout THEN Goto(c, "call") ELSE Leave(c)
  /\ UNCHANGED <<word, openedAge, timeout, opens, healthy, faults, wordAge>>

(* check(): the clock and the timeout decide; an early caller is rejected. *)
CheckDecide(c) ==
  /\ caller[c].pc = "decide"
  /\ IF caller[c].age >= timeout THEN Goto(c, "half_open") ELSE Leave(c)
  /\ UNCHANGED <<word, openedAge, timeout, opens, healthy, faults, wordAge>>

(* transition_to_half_open: a plain store, whatever the word is by now. *)
TransitionToHalfOpen(c) ==
  /\ caller[c].pc = "half_open"
  /\ word' = Word("half_open", 0)
  /\ wordAge' = 0
  /\ caller' = [caller EXCEPT ![c] = [Idle EXCEPT !.pc = "call"]]
  /\ UNCHANGED <<openedAge, timeout, opens, healthy, faults>>

-----------------------------------------------------------------------------
(* with_retry: one attempt.  "ok" is any answer that is neither retryable
   nor a failure status; "busy" (429) is retryable and no failure; "error"
   (5xx, connect, timeout) is both; "fatal" is an error that is not retried. *)
Outcomes == IF healthy THEN {"ok", "busy"} ELSE {"error", "fatal"}

Attempt(c) ==
  /\ caller[c].pc = "call"
  /\ \E outcome \in Outcomes :
       \/ /\ outcome \in {"busy", "error"} /\ caller[c].attempt < MaxRetries
          /\ caller' = [caller EXCEPT ![c].attempt = @ + 1]
       \/ /\ outcome \in {"ok", "fatal"} \/ caller[c].attempt = MaxRetries
          /\ caller' = [caller EXCEPT ![c] = [Idle EXCEPT !.pc =
                          IF outcome \in {"ok", "busy"} THEN "success" ELSE "failure"]]
  /\ UNCHANGED <<word, openedAge, timeout, opens, healthy, faults, wordAge>>

(* The client goes away and the call's future is dropped: nothing is recorded. *)
Abandon(c) ==
  /\ caller[c].pc = "call" /\ faults < MaxFaults
  /\ Leave(c)
  /\ faults' = faults + 1
  /\ UNCHANGED <<word, openedAge, timeout, opens, healthy, wordAge>>

(* run_single_health_check: failures (time-outs too) always count, successes
   only in inference mode. *)
HealthCheck(c) ==
  /\ c \in Checkers /\ caller[c].pc = "idle"
  /\ ~healthy \/ InferenceMode
  /\ Goto(c, IF healthy THEN "success" ELSE "failure")
  /\ UNCHANGED <<word, openedAge, timeout, opens, healthy, faults, wordAge>>

-----------------------------------------------------------------------------
(* record_success and record_failure: load the word and choose. *)
AfterSuccessLoad(w) ==
  CASE w.state = "closed" -> IF w.counter > 0 THEN "cas_reset" ELSE "idle"
    [] w.state = "half_open" ->
         IF w.counter + 1 >= SuccessThreshold THEN "close_count" ELSE "cas_success"
    [] OTHER -> "idle"

(* Mutant: one failure more than the threshold before the circuit opens. *)
AfterFailureLoadOneMore(w) ==
  CASE w.state = "closed" ->
         IF w.counter + 1 > FailureThreshold THEN "open_count" ELSE "cas_failure"
    [] w.state = "half_open" -> "open_count"
    [] OTHER -> "idle"

(* Mutant: a failed probe does not reopen the circuit. *)
AfterFailureLoadKeepsProbing(w) ==
  CASE w.state = "closed" ->
         IF w.counter + 1 >= FailureThreshold THEN "open_count" ELSE "cas_failure"
    [] OTHER -> "idle"

AfterFailureLoad(w) ==
  CASE w.state = "closed" ->
         IF w.counter + 1 >= FailureThreshold THEN "open_count" ELSE "cas_failure"
    [] w.state = "half_open" -> "open_count"
    [] OTHER -> "idle"

RecordLoad(c) ==
  /\ caller[c].pc \in {"success", "failure"}
  /\ LET next == IF caller[c].pc = "success" THEN AfterSuccessLoad(word)
                                             ELSE AfterFailureLoad(word)
     IN  IF next = "idle" THEN Leave(c)
         ELSE caller' = [caller EXCEPT ![c].pc = next, ![c].seen = word]
  /\ UNCHANGED <<word, openedAge, timeout, opens, healthy, faults, wordAge>>

(* compare_exchange_weak of the loaded word.  The reset of the failure
   counter is tried once; the increments go round again. *)
Exchanged(c) ==
  IF caller[c].pc = "cas_reset" THEN Closed0
  ELSE Word(caller[c].seen.state, caller[c].seen.counter + 1)

CasFailed(c) ==
  IF caller[c].pc = "cas_reset" \/ caller[c].tries + 1 >= MaxCasRetries
  THEN Leave(c)
  ELSE caller' = [caller EXCEPT ![c] =
         [Idle EXCEPT !.pc = IF caller[c].pc = "cas_success" THEN "success" ELSE "failure",
                      !.tries = caller[c].tries + 1]]

CompareExchange(c) ==
  /\ caller[c].pc \in {"cas_reset", "cas_success", "cas_failure"}
  /\ \/ /\ word = caller[c].seen
        /\ word' = Exchanged(c)
        /\ wordAge' = 0
        /\ Leave(c)
     \/ /\ word # caller[c].seen
        /\ CasFailed(c)
        /\ UNCHANGED <<word, wordAge>>
  /\ UNCHANGED <<openedAge, timeout, opens, healthy, faults>>

SpuriousFailure(c) ==
  /\ caller[c].pc \in {"cas_reset", "cas_success", "cas_failure"}
  /\ faults < MaxFaults
  /\ faults' = faults + 1
  /\ CasFailed(c)
  /\ UNCHANGED <<word, openedAge, timeout, opens, healthy, wordAge>>

-----------------------------------------------------------------------------
(* transition_to_open: fetch_add, store the timeout, store opened_at, store
   the word, in this order. *)
OpenCount(c) ==
  /\ caller[c].pc = "open_count"
  /\ caller' = [caller EXCEPT ![c] = [Idle EXCEPT !.pc = "open_timeout", !.n = opens]]
  /\ opens' = IF opens < MaxOpens THEN opens + 1 ELSE opens
  /\ UNCHANGED <<word, openedAge, timeout, healthy, faults, wordAge>>

OpenTimeout(c) ==
  /\ caller[c].pc = "open_timeout"
  /\ timeout' = Backoff(caller[c].n)
  /\ caller' = [caller EXCEPT ![c].pc = "open_time", ![c].n = 0]
  /\ UNCHANGED <<word, openedAge, opens, healthy, faults, wordAge>>

OpenTime(c) ==
  /\ caller[c].pc = "open_time"
  /\ openedAge' = 0
  /\ Goto(c, "open_word")
  /\ UNCHANGED <<word, timeout, opens, healthy, faults, wordAge>>

OpenWord(c) ==
  /\ caller[c].pc = "open_word"
  /\ word' = Word("open", 0)
  /\ wordAge' = caller[c].since
  /\ Leave(c)
  /\ UNCHANGED <<openedAge, timeout, opens, healthy, faults>>

(* Mutant: the word is stored before opened_at. *)
TransitionToOpenWordFirst(c) ==
  \/ OpenCount(c)
  \/ OpenTimeout(c)
  \/ /\ caller[c].pc = "open_time"
     /\ word' = Word("open", 0)
     /\ wordAge' = caller[c].since
     /\ Goto(c, "open_word")
     /\ UNCHANGED <<openedAge, timeout, opens, healthy, faults>>
  \/ /\ caller[c].pc = "open_word"
     /\ openedAge' = 0
     /\ Leave(c)
     /\ UNCHANGED <<word, timeout, opens, healthy, faults, wordAge>>

TransitionToOpen(c) == OpenCount(c) \/ OpenTimeout(c) \/ OpenTime(c) \/ OpenWord(c)

(* transition_to_closed: swap the count to 0, restore the base timeout,
   store the word. *)
CloseCount(c) ==
  /\ caller[c].pc = "close_count"
  /\ opens' = 0
  /\ caller' = [caller EXCEPT ![c] = [Idle EXCEPT !.pc = "close_timeout"]]
  /\ UNCHANGED <<word, openedAge, timeout, healthy, faults, wordAge>>

CloseTimeout(c) ==
  /\ caller[c].pc = "close_timeout"
  /\ timeout' = BaseTimeout
  /\ Goto(c, "close_word")
  /\ UNCHANGED <<word, openedAge, opens, healthy, faults, wordAge>>

CloseWord(c) ==
  /\ caller[c].pc = "close_word"
  /\ word' = Closed0
  /\ wordAge' = 0
  /\ Leave(c)
  /\ UNCHANGED <<openedAge, timeout, opens, healthy, faults>>

TransitionToClosed(c) == CloseCount(c) \/ CloseTimeout(c) \/ CloseWord(c)

-----------------------------------------------------------------------------
(* The clock.  A caller ages what it has loaded until it uses it. *)
Older(age) == IF age < MaxTimeout THEN age + 1 ELSE age

Aged(r) ==
  [r EXCEPT !.age = IF r.pc = "decide" THEN Older(@) ELSE @,
            !.since = IF r.pc \in {"opened_at", "decide", "half_open",
                                   "open_timeout", "open_time", "open_word"}
                      THEN Older(@) ELSE @]

Tick ==
  /\ openedAge' = Older(openedAge)
  /\ wordAge' = Older(wordAge)
  /\ caller' = [c \in Callers |-> Aged(caller[c])]
  /\ UNCHANGED <<word, timeout, opens, healthy, faults>>

(* The provider fails or recovers, at any time. *)
ProviderFlips ==
  /\ healthy' = ~healthy
  /\ UNCHANGED <<word, openedAge, timeout, opens, caller, faults, wordAge>>

Works(c) ==
  \/ CheckLoad(c) \/ CheckOpenedAt(c) \/ CheckDecide(c) \/ TransitionToHalfOpen(c)
  \/ Attempt(c) \/ HealthCheck(c) \/ RecordLoad(c) \/ CompareExchange(c)
  \/ TransitionToOpen(c) \/ TransitionToClosed(c)

Next ==
  \/ \E c \in Callers : Works(c) \/ Abandon(c) \/ SpuriousFailure(c)
  \/ Tick
  \/ ProviderFlips

(* Tasks are scheduled, calls keep coming, time passes.  Nothing is assumed
   of the provider. *)
Fairness == WF_vars(Tick) /\ \A c \in Callers : WF_vars(Works(c))

Spec == Init /\ [][Next]_vars /\ Fairness

-----------------------------------------------------------------------------
(* Types.  Words holds the counters strictly below their thresholds: no
   interleaving of the CAS loops leaves the breaker counting past the value
   at which it should have changed state, and the timeout stays between the
   base and the cap of calculate_open_timeout_secs. *)
TypeOK ==
  /\ word \in Words
  /\ openedAge \in Ages /\ wordAge \in Ages
  /\ timeout \in BaseTimeout .. MaxTimeout
  /\ opens \in 0 .. MaxOpens
  /\ caller \in [Callers -> CallerRecords]
  /\ healthy \in BOOLEAN
  /\ faults \in 0 .. MaxFaults

(* A request that check() admits on an open word is at least one base
   timeout behind the failure that opened the circuit with that word.  It
   needs the order of the stores in transition_to_open: the word last. *)
OpenCoolsDown ==
  \A c \in Callers : caller[c].pc = "half_open" => caller[c].since >= BaseTimeout

(* Once the provider stays healthy, the circuit closes and stays closed,
   whatever stores of older calls are still on their way: the docs'
   "provider recovers". *)
Recovers == <>[]healthy => <>[](word.state = "closed")

(* While the provider stays down, the circuit opens again and again: no
   stale reset or lost CAS lets the calls through for ever. *)
KeepsTripping == <>[]~healthy => []<>(word.state = "open")
=============================================================================
