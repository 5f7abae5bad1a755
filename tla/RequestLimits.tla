---------------------------- MODULE RequestLimits ----------------------------
(***************************************************************************)
(* Budget, token and request limits of one API key: the reservation that   *)
(* api_middleware makes before a call, its refund when a later limit       *)
(* refuses the call, and its settlement after the call                     *)
(* (src/middleware/layers/api.rs, middleware/util/budget.rs,               *)
(* middleware/layers/rate_limit.rs), over the counters of the cache        *)
(* (src/cache/redis.rs, src/cache/memory.rs).                              *)
(*                                                                         *)
(* Every script or CAS loop on one counter is one step; the batch of       *)
(* checks, the refunds and the settlement are several, so the requests of  *)
(* the key, the expiry of the windows and a rotation of the key interleave *)
(* with them.  Money and tokens are small numbers.                         *)
(***************************************************************************)
EXTENDS Integers, Sequences, FiniteSets

CONSTANTS
  Requests,      \* the requests of the key, each made once
  Streamed,      \* those whose response is a stream
  Expires,       \* TRUE: Redis, FALSE: the in-memory cache
  Estimate,      \* estimated_cost_cents
  Costs,         \* what a call may really cost
  EstTokens,     \* estimated_tokens
  TokenCounts,   \* tokens a call may really use
  Budget,        \* budget_limit_cents
  TokensPerMinute, TokensPerDay, RequestsPerMinute, RequestsPerDay,
  Optional,      \* the optional limits that are configured: "spend", "tpd", "rpd"
  MaxPeriods,    \* bound on the budget periods that begin
  MaxRotations,  \* bound on key rotations
  MaxFaults      \* bound on cache errors and clients that leave

ASSUME LimitsAssumption ==
  /\ Streamed \subseteq Requests /\ Expires \in BOOLEAN
  /\ Estimate \in Nat /\ EstTokens \in Nat
  /\ Costs \subseteq Nat /\ TokenCounts \subseteq Nat
  /\ Optional \subseteq {"spend", "tpd", "rpd"}
  /\ Budget \in Nat /\ TokensPerMinute \in Nat /\ TokensPerDay \in Nat
  /\ RequestsPerMinute \in Nat /\ RequestsPerDay \in Nat
  /\ MaxPeriods \in Nat \ {0} /\ MaxRotations \in Nat /\ MaxFaults \in Nat

VARIABLES
  counter,    \* the counters of the cache, 0 when there is no such key
  ttl,        \* the windows' counters that have an expiry
  period,     \* the budget period of the clock
  req,        \* where each request stands
  rotating,   \* counters that invalidate_api_key_cache has still to delete
  rotations,  \* rotations so far
  faults,     \* cache errors and departures so far
  cost,       \* ghost: what the calls admitted in a period really cost
  over        \* ghost: by how much they cost more than their estimates

vars == <<counter, ttl, period, req, rotating, rotations, faults, cost, over>>

Periods == 1 .. MaxPeriods

(* CacheKeys: the spend key carries its date, the windows' keys do not. *)
SpendKey(p) == <<"spend", p>>
WindowKeys == {"tpm", "tpd", "rpm", "rpd"} \X {0}
SpendKeys == {"spend"} \X Periods
Keys == SpendKeys \cup WindowKeys

(* The order of BudgetCheckParams and RateLimitCheckParams in the batch. *)
Configured(name) == name \in Optional \cup {"tpm", "rpm"}
Chosen(name) == IF Configured(name) THEN <<name>> ELSE <<>>
Checks == Chosen("spend") \o Chosen("tpm") \o Chosen("tpd") \o Chosen("rpm") \o Chosen("rpd")
KeyOf(name, p) == IF name = "spend" THEN SpendKey(p) ELSE <<name, 0>>

Amount(name) ==
  CASE name = "spend" -> Estimate
    [] name \in {"tpm", "tpd"} -> EstTokens
    [] OTHER -> 1

Limit(name) ==
  CASE name = "spend" -> Budget
    [] name = "tpm" -> TokensPerMinute
    [] name = "tpd" -> TokensPerDay
    [] name = "rpm" -> RequestsPerMinute
    [] OTHER -> RequestsPerDay

(* next: how many checks of the batch are done; denied: the first limit
   that refused; todo: the incr_by calls still to make, as key and amount. *)
Fresh == [pc |-> "new", period |-> 1, next |-> 0, denied |-> "none", todo |-> <<>>]

Init ==
  /\ counter = [k \in Keys |-> 0]
  /\ ttl = {}
  /\ period = 1
  /\ req = [r \in Requests |-> Fresh]
  /\ rotating = <<>>
  /\ rotations = 0
  /\ faults = 0
  /\ cost = [p \in Periods |-> 0]
  /\ over = [p \in Periods |-> 0]

-----------------------------------------------------------------------------
(* INCR_PRESERVE_TTL_SCRIPT and MemoryCache::incr_by: only Redis keeps an
   expiry, set with the first write of a counter and then left alone.  Only
   the windows' expiry matters here (see Expire). *)
IncrBy(k, amount) ==
  /\ counter' = [counter EXCEPT ![k] = @ + amount]
  /\ ttl' = IF Expires THEN ttl \cup ({k} \cap WindowKeys) ELSE ttl

(* Mutant: the limit is compared with what is reserved already. *)
FitsWithoutAmount(name, k) == counter[k] < Limit(name)

(* BUDGET_CHECK_SCRIPT, RATE_LIMIT_SCRIPT and their in-memory twins: add the
   amount if it fits.  A request count is a reservation of one. *)
Fits(name, k) == counter[k] + Amount(name) <= Limit(name)

(* What check_all_limits_batch gives back when a limit refuses: everything
   reserved before it in the batch, nothing that comes after it. *)
RefundNames(denied) ==
  CASE denied = "spend" -> <<>>
    [] denied = "tpm" -> Chosen("spend")
    [] denied = "tpd" -> Chosen("spend") \o Chosen("tpm")
    [] OTHER -> Chosen("spend") \o Chosen("tpm") \o Chosen("tpd")

RefundOf(q) ==
  LET names == RefundNames(q.denied)
  IN  [i \in 1 .. Len(names) |-> <<KeyOf(names[i], q.period), -Amount(names[i])>>]

(* The results are read when the whole batch has run. *)
AfterBatch(q) ==
  IF q.next < Len(Checks) THEN [q EXCEPT !.pc = "check"]
  ELSE IF q.denied = "none" THEN [q EXCEPT !.pc = "call"]
  ELSE IF RefundOf(q) = <<>> THEN [q EXCEPT !.pc = "done"]
  ELSE [q EXCEPT !.pc = "refund", !.todo = RefundOf(q)]

CheckNext(r, q) ==
  LET name == Checks[q.next + 1]
      k == KeyOf(name, q.period)
  IN  \/ /\ Fits(name, k)
         /\ IncrBy(k, Amount(name))
         /\ req' = [req EXCEPT ![r] = AfterBatch([q EXCEPT !.next = @ + 1])]
      \/ /\ ~Fits(name, k)
         /\ req' = [req EXCEPT ![r] = AfterBatch(
              [q EXCEPT !.next = @ + 1,
                        !.denied = IF @ = "none" THEN name ELSE @])]
         /\ UNCHANGED <<counter, ttl>>

(* check_limits_batch: the first check, on the spend key of today's date,
   and the others. *)
BeginCheck(r) ==
  /\ req[r].pc = "new"
  /\ CheckNext(r, [req[r] EXCEPT !.period = period])
  /\ UNCHANGED <<period, rotating, rotations, faults, cost, over>>

Check(r) ==
  /\ req[r].pc = "check"
  /\ CheckNext(r, req[r])
  /\ UNCHANGED <<period, rotating, rotations, faults, cost, over>>

(* The cache fails in the middle of the batch: the request is answered with
   an error and what the batch has reserved stays. *)
CheckError(r) ==
  /\ req[r].pc = "check" /\ faults < MaxFaults
  /\ req' = [req EXCEPT ![r].pc = "done"]
  /\ faults' = faults + 1
  /\ UNCHANGED <<counter, ttl, period, rotating, rotations, cost, over>>

-----------------------------------------------------------------------------
(* adjust_budget_reservation and adjust_token_reservation: replace the
   estimates by the actual values; no call for a difference of 0. *)
Adjustment(name, p, amount) ==
  IF amount # 0 /\ Configured(name) THEN << <<KeyOf(name, p), amount>> >> ELSE <<>>

Settlement(p, charged, tokens) ==
  Adjustment("spend", p, charged - Estimate)
    \o Adjustment("tpm", p, tokens - EstTokens) \o Adjustment("tpd", p, tokens - EstTokens)

(* Mutant: the settlement goes to the spend key of the current date. *)
SettleToday(r, charged, tokens) ==
  LET todo == Settlement(period, charged, tokens)
  IN  req' = [req EXCEPT ![r].todo = todo,
                         ![r].pc = IF todo = <<>> THEN "done" ELSE "settle"]

Settle(r, charged, tokens) ==
  LET todo == Settlement(req[r].period, charged, tokens)
  IN  req' = [req EXCEPT ![r].todo = todo,
                         ![r].pc = IF todo = <<>> THEN "done" ELSE "settle"]

(* Mutant: every successful call settles at 0. *)
SucceedUncharged(r) ==
  /\ req[r].pc = "call"
  /\ \E c \in Costs :
       /\ Settle(r, 0, 0)
       /\ cost' = [cost EXCEPT ![req[r].period] = @ + c]
       /\ over' = [over EXCEPT ![req[r].period] =
                     @ + (IF c > Estimate THEN c - Estimate ELSE 0)]
  /\ UNCHANGED <<counter, ttl, period, rotating, rotations, faults>>

(* track_usage_async after a successful call.  Cost and tokens come from
   response headers, which a stream does not have: it settles at 0. *)
Succeed(r) ==
  /\ req[r].pc = "call"
  /\ \E c \in Costs, t \in TokenCounts :
       /\ IF r \in Streamed THEN Settle(r, 0, 0) ELSE Settle(r, c, t)
       /\ cost' = [cost EXCEPT ![req[r].period] = @ + c]
       /\ over' = [over EXCEPT ![req[r].period] =
                     @ + (IF c > Estimate THEN c - Estimate ELSE 0)]
  /\ UNCHANGED <<counter, ttl, period, rotating, rotations, faults>>

(* track_usage_async after a failed call: the whole reservation goes back. *)
Fail(r) ==
  /\ req[r].pc = "call"
  /\ Settle(r, 0, 0)
  /\ UNCHANGED <<counter, ttl, period, rotating, rotations, faults, cost, over>>

(* Mutant: the last adjustment is skipped. *)
AppliedOneLess(r) ==
  req' = [req EXCEPT ![r].todo = Tail(@),
                     ![r].pc = IF Len(req[r].todo) <= 2 THEN "done" ELSE @]

(* One incr_by of a refund or a settlement. *)
Applied(r) ==
  req' = [req EXCEPT ![r].todo = Tail(@),
                     ![r].pc = IF Len(req[r].todo) = 1 THEN "done" ELSE @]

(* Mutant: a plain INCRBY, which gives a new counter no expiry. *)
ApplyNoExpiry(r) ==
  /\ req[r].pc \in {"refund", "settle"}
  /\ counter' = [counter EXCEPT ![Head(req[r].todo)[1]] = @ + Head(req[r].todo)[2]]
  /\ Applied(r)
  /\ UNCHANGED <<ttl, period, rotating, rotations, faults, cost, over>>

Apply(r) ==
  /\ req[r].pc \in {"refund", "settle"}
  /\ IncrBy(Head(req[r].todo)[1], Head(req[r].todo)[2])
  /\ Applied(r)
  /\ UNCHANGED <<period, rotating, rotations, faults, cost, over>>

(* Its three tries fail: logged, and the next one is made. *)
ApplyFails(r) ==
  /\ req[r].pc \in {"refund", "settle"} /\ faults < MaxFaults
  /\ Applied(r)
  /\ faults' = faults + 1
  /\ UNCHANGED <<counter, ttl, period, rotating, rotations, cost, over>>

(* The client leaves: the request's future is dropped where it stands.  The
   settlement is a task of its own and goes on. *)
ClientLeaves(r) ==
  /\ req[r].pc \in {"check", "call", "refund"} /\ faults < MaxFaults
  /\ req' = [req EXCEPT ![r].pc = "done", ![r].todo = <<>>]
  /\ faults' = faults + 1
  /\ UNCHANGED <<counter, ttl, period, rotating, rotations, cost, over>>

-----------------------------------------------------------------------------
(* The window of a counter ends.  A spend key needs no such step: budget_ttl
   is a full period, so the key outlives the day it is named after, and
   nobody checks it after that day. *)
Expire(k) ==
  /\ k \in ttl
  /\ counter' = [counter EXCEPT ![k] = 0]
  /\ ttl' = ttl \ {k}
  /\ UNCHANGED <<period, req, rotating, rotations, faults, cost, over>>

(* The next day, or month, begins. *)
NextPeriod ==
  /\ period < MaxPeriods
  /\ period' = period + 1
  /\ UNCHANGED <<counter, ttl, req, rotating, rotations, faults, cost, over>>

(* rotate: the old key stays valid for its grace period, but
   invalidate_api_key_cache deletes its counters, one after the other. *)
RotateKey ==
  /\ rotations < MaxRotations /\ rotating = <<>>
  /\ rotations' = rotations + 1
  /\ rotating' = Chosen("rpm") \o Chosen("rpd") \o Chosen("tpm") \o Chosen("tpd") \o Chosen("spend")
  /\ UNCHANGED <<counter, ttl, period, req, faults, cost, over>>

DeleteCounter ==
  /\ rotating # <<>>
  /\ LET k == KeyOf(Head(rotating), period)
     IN  /\ counter' = [counter EXCEPT ![k] = 0]
         /\ ttl' = ttl \ {k}
  /\ rotating' = Tail(rotating)
  /\ UNCHANGED <<period, req, rotations, faults, cost, over>>

Works(r) == BeginCheck(r) \/ Check(r) \/ Succeed(r) \/ Fail(r) \/ Apply(r)

Next ==
  \/ \E r \in Requests : Works(r) \/ CheckError(r) \/ ApplyFails(r) \/ ClientLeaves(r)
  \/ \E k \in WindowKeys : Expire(k)
  \/ NextPeriod
  \/ RotateKey
  \/ DeleteCounter

(* Redis removes a key when its time to live is over. *)
Fairness == \A k \in WindowKeys : WF_vars(Expire(k))

Spec == Init /\ [][Next]_vars /\ Fairness

-----------------------------------------------------------------------------
(* Types of the state. *)
TypeOK ==
  /\ counter \in [Keys -> Int]
  /\ ttl \subseteq WindowKeys
  /\ period \in Periods
  /\ \A r \in Requests :
       /\ req[r].pc \in {"new", "check", "call", "refund", "settle", "done"}
       /\ req[r].period \in Periods
       /\ req[r].next \in 0 .. Len(Checks)
       /\ req[r].denied \in {"none", "spend", "tpm", "tpd", "rpm", "rpd"}
       /\ req[r].pc \in {"refund", "settle"} <=> req[r].todo # <<>>
  /\ rotations \in 0 .. MaxRotations /\ faults \in 0 .. MaxFaults
  /\ cost \in [Periods -> Nat] /\ over \in [Periods -> Nat]

(* A spend counter exceeds the budget by no more than settled calls cost
   over their estimates: no interleaving of the batches, the settlements,
   expiry and rotation reserves past the limit. *)
SpendWithinLimit ==
  \A p \in Periods : counter[SpendKey(p)] <= Budget + over[p]

(* Requests that hold a reservation of period p and are still being served. *)
Serving(p) ==
  {r \in Requests : /\ req[r].pc \in {"check", "call"}
                    /\ req[r].period = p /\ req[r].denied # "spend"}

(* What the calls of a period cost, with the estimates of the calls under
   way, stays within the budget, plus their overrun, plus one more budget
   for each rotation, which forgets what was spent. *)
BudgetHolds ==
  \A p \in Periods :
    cost[p] + Estimate * Cardinality(Serving(p))
      <= Budget * (1 + rotations) + over[p]

(* When no request of the current period is unfinished and nothing went
   wrong, its spend counter is what its calls cost: every reservation was
   settled or refunded once, and calls of yesterday that end today are
   charged to yesterday's key. *)
BooksBalance ==
  (/\ faults = 0 /\ rotations = 0
   /\ \A r \in Requests : req[r].period = period => req[r].pc \in {"new", "done"})
  => counter[SpendKey(period)] = cost[period]

(* A window that is used up opens again: every counter that can refuse a
   request has an expiry, also one that a late settlement created. *)
WindowReopens ==
  /\ []<>(counter[<<"tpm", 0>>] < TokensPerMinute)
  /\ []<>(counter[<<"tpd", 0>>] < TokensPerDay)
  /\ []<>(counter[<<"rpm", 0>>] < RequestsPerMinute)
  /\ []<>(counter[<<"rpd", 0>>] < RequestsPerDay)
=============================================================================
