------------------------- MODULE CircuitBreaker_proofs -------------------------
(***************************************************************************)
(* Invariants of CircuitBreaker, proved for any callers, thresholds,       *)
(* timeouts and retry limits.                                              *)
(***************************************************************************)
EXTENDS CircuitBreaker, TLAPS

(* A caller that is about to exchange an increment loaded a word whose counter
   is still one short of its threshold; otherwise the CAS could store a word
   that counts past it. *)
IncrementFits ==
  \A c \in Callers :
    /\ caller[c].pc = "cas_success" =>
         caller[c].seen.state = "half_open" /\ caller[c].seen.counter + 1 < SuccessThreshold
    /\ caller[c].pc = "cas_failure" =>
         caller[c].seen.state = "closed" /\ caller[c].seen.counter + 1 < FailureThreshold

TypeInv == TypeOK /\ IncrementFits

(* opened_at is never older than the transition behind an open word: the word
   is stored last.  A caller of check() that has loaded the word therefore
   reads an opened_at that is no older than what it goes by, and so on to its
   decision. *)
OpenedBeforeWord ==
  /\ word.state = "open" => openedAge <= wordAge
  /\ \A c \in Callers :
       /\ caller[c].pc \in {"open_word", "opened_at"} => openedAge <= caller[c].since
       /\ caller[c].pc = "decide" => caller[c].age <= caller[c].since

CoolDownInv == OpenedBeforeWord /\ OpenCoolsDown

-----------------------------------------------------------------------------
(* Facts about the operators of the model.                                  *)

(* calculate_open_timeout_secs stays between the base and the cap. *)
LEMMA BackoffBounds ==
  ASSUME NEW n \in 0 .. MaxOpens
  PROVE  Backoff(n) \in BaseTimeout .. MaxTimeout
<1>1. Multiplier^n \in Int /\ Multiplier^n >= 1
  BY BreakerAssumption, PowersAssumption
<1>2. \A m \in Int : m >= 1 => BaseTimeout * m \in Int /\ BaseTimeout * m >= BaseTimeout
  BY BreakerAssumption
<1>3. BaseTimeout * Multiplier^n \in Int /\ BaseTimeout * Multiplier^n >= BaseTimeout
  BY <1>1, <1>2
<1> QED
  BY <1>3, BreakerAssumption DEF Backoff

(* Ages stay in their range and keep their order as time passes. *)
LEMMA OlderKeepsOrder ==
  /\ \A a \in Ages : Older(a) \in Ages /\ a <= Older(a)
  /\ \A a, b \in Ages : a <= b => Older(a) <= Older(b)
BY BreakerAssumption DEF Ages, Older

(* A caller that starts over is well typed. *)
LEMMA IdleTyped == Idle \in CallerRecords
BY BreakerAssumption DEF Idle, CallerRecords, Steps, Words, Word, Closed0, Ages

(* The clock leaves a caller's step and what it loaded of the word alone. *)
LEMMA AgedTyped ==
  ASSUME NEW r \in CallerRecords
  PROVE  /\ Aged(r) \in CallerRecords
         /\ Aged(r).pc = r.pc /\ Aged(r).seen = r.seen
BY OlderKeepsOrder DEF CallerRecords, Aged

-----------------------------------------------------------------------------
(* Type correctness, with the thresholds.                                   *)

LEMMA InitTypeInv == Init => TypeInv
BY BreakerAssumption, IdleTyped
   DEF Init, TypeInv, TypeOK, IncrementFits, Words, Word, Closed0, Ages, Idle

(* A failed exchange sends the caller round the loop, or back to idle. *)
LEMMA CasFailedTyped ==
  ASSUME TypeInv, NEW c \in Callers, CasFailed(c)
  PROVE  \E r \in CallerRecords :
           /\ r.pc \in {"idle", "success", "failure"}
           /\ caller' = [caller EXCEPT ![c] = r]
<1>1. CASE caller[c].pc = "cas_reset" \/ caller[c].tries + 1 >= MaxCasRetries
  <2>1. caller' = [caller EXCEPT ![c] = Idle]
    BY <1>1 DEF CasFailed, Leave
  <2> QED
    BY <2>1, IdleTyped DEF Idle
<1>2. CASE ~(caller[c].pc = "cas_reset" \/ caller[c].tries + 1 >= MaxCasRetries)
  <2> DEFINE r == [Idle EXCEPT !.pc = IF caller[c].pc = "cas_success" THEN "success"
                                                                      ELSE "failure",
                               !.tries = caller[c].tries + 1]
  <2>1. caller[c] \in CallerRecords
    BY DEF TypeInv, TypeOK
  <2>2. caller[c].tries + 1 \in 0 .. MaxCasRetries - 1
    BY <1>2, <2>1, BreakerAssumption DEF CallerRecords
  <2>3. r \in CallerRecords /\ r.pc \in {"idle", "success", "failure"}
    BY <2>2, IdleTyped DEF Idle, CallerRecords, Steps
  <2>4. caller' = [caller EXCEPT ![c] = r]
    BY <1>2 DEF CasFailed
  <2> QED
    BY <2>3, <2>4
<1> QED
  BY <1>1, <1>2

LEMMA NextTypeInv ==
  ASSUME TypeInv, [Next]_vars
  PROVE  TypeInv'
<1> USE BreakerAssumption DEF TypeInv, TypeOK, IncrementFits
<1>1. ASSUME NEW c \in Callers, CheckLoad(c) PROVE TypeInv'
  <2> DEFINE r == [Idle EXCEPT !.pc = IF word.state = "open" THEN "opened_at" ELSE "call",
                               !.since = IF word.state = "open" THEN wordAge ELSE 0]
  <2>1. r \in CallerRecords /\ r.pc \notin {"cas_success", "cas_failure"}
    BY IdleTyped DEF Idle, CallerRecords, Steps, Ages
  <2>2. caller' = [caller EXCEPT ![c] = r]
    BY <1>1 DEF CheckLoad
  <2> HIDE DEF r
  <2> QED
    BY <1>1, <2>1, <2>2 DEF CheckLoad
<1>2. ASSUME NEW c \in Callers, CheckOpenedAt(c) PROVE TypeInv'
  <2> DEFINE r == [caller[c] EXCEPT !.pc = "decide", !.age = openedAge]
  <2>1. r \in CallerRecords /\ r.pc = "decide"
    BY DEF CallerRecords, Steps
  <2>2. caller' = [caller EXCEPT ![c] = r]
    BY <1>2 DEF CheckOpenedAt
  <2> HIDE DEF r
  <2> QED
    BY <1>2, <2>1, <2>2 DEF CheckOpenedAt
<1>3. ASSUME NEW c \in Callers, CheckDecide(c) PROVE TypeInv'
  BY <1>3, IdleTyped DEF CheckDecide, Goto, Leave, CallerRecords, Steps, Idle
<1>4. ASSUME NEW c \in Callers, TransitionToHalfOpen(c) PROVE TypeInv'
  BY <1>4, IdleTyped DEF TransitionToHalfOpen, CallerRecords, Steps, Words, Word, Ages, Idle
<1>5. ASSUME NEW c \in Callers, Attempt(c) PROVE TypeInv'
  BY <1>5, IdleTyped DEF Attempt, CallerRecords, Steps, Idle
<1>6. ASSUME NEW c \in Callers, HealthCheck(c) PROVE TypeInv'
  BY <1>6 DEF HealthCheck, Goto, CallerRecords, Steps
<1>7. ASSUME NEW c \in Callers, RecordLoad(c) PROVE TypeInv'
  BY <1>7, IdleTyped
     DEF RecordLoad, AfterSuccessLoad, AfterFailureLoad, Leave, Idle, CallerRecords, Steps, Words, Word
<1>8. ASSUME NEW c \in Callers, CompareExchange(c) PROVE TypeInv'
  <2>1. CASE word = caller[c].seen /\ word' = Exchanged(c) /\ wordAge' = 0 /\ Leave(c)
    <3>1. Exchanged(c) \in Words
      BY <1>8, <2>1 DEF CompareExchange, Exchanged, Words, Word, Closed0
    <3> QED
      BY <1>8, <2>1, <3>1, IdleTyped DEF CompareExchange, Leave, Idle, Ages
  <2>2. CASE CasFailed(c) /\ UNCHANGED <<word, wordAge>>
    BY <1>8, <2>2, CasFailedTyped DEF CompareExchange
  <2> QED
    BY <1>8, <2>1, <2>2 DEF CompareExchange
<1>9. ASSUME NEW c \in Callers, TransitionToOpen(c) PROVE TypeInv'
  <2>1. CASE OpenCount(c)
    <3> DEFINE r == [Idle EXCEPT !.pc = "open_timeout", !.n = opens]
    <3>1. r \in CallerRecords /\ r.pc = "open_timeout"
      BY IdleTyped DEF Idle, CallerRecords, Steps
    <3>2. caller' = [caller EXCEPT ![c] = r]
      BY <2>1 DEF OpenCount
    <3> HIDE DEF r
    <3> QED
      BY <2>1, <3>1, <3>2 DEF OpenCount
  <2>2. CASE OpenTimeout(c)
    <3> DEFINE r == [caller[c] EXCEPT !.pc = "open_time", !.n = 0]
    <3>0. caller[c] \in CallerRecords /\ 0 \in 0 .. MaxOpens /\ "open_time" \in Steps
      BY DEF Steps
    <3>1. r \in CallerRecords /\ r.pc = "open_time"
      BY ONLY <3>0 DEF CallerRecords
    <3>2. caller' = [caller EXCEPT ![c] = r]
      BY <2>2 DEF OpenTimeout
    <3>3. caller[c].n \in 0 .. MaxOpens
      BY DEF CallerRecords
    <3>4. timeout' \in BaseTimeout .. MaxTimeout
      BY <2>2, <3>3, BackoffBounds DEF OpenTimeout
    <3> HIDE DEF r
    <3> QED
      BY <2>2, <3>1, <3>2, <3>4 DEF OpenTimeout
  <2>3. CASE OpenTime(c)
    BY <2>3 DEF OpenTime, Goto, CallerRecords, Steps, Ages
  <2>4. CASE OpenWord(c)
    BY <2>4, IdleTyped DEF OpenWord, Leave, Idle, CallerRecords, Words, Word, Ages
  <2> QED
    BY <1>9, <2>1, <2>2, <2>3, <2>4 DEF TransitionToOpen
<1>10. ASSUME NEW c \in Callers, TransitionToClosed(c) PROVE TypeInv'
  BY <1>10, IdleTyped
     DEF TransitionToClosed, CloseCount, CloseTimeout, CloseWord, Goto, Leave, Idle,
         CallerRecords, Steps, Words, Word, Closed0, Ages
<1>11. ASSUME NEW c \in Callers, Abandon(c) PROVE TypeInv'
  BY <1>11, IdleTyped DEF Abandon, Leave, Idle
<1>12. ASSUME NEW c \in Callers, SpuriousFailure(c) PROVE TypeInv'
  BY <1>12, CasFailedTyped DEF SpuriousFailure
<1>13. CASE Tick
  BY <1>13, OlderKeepsOrder, AgedTyped DEF Tick
<1>14. CASE ProviderFlips
  BY <1>14 DEF ProviderFlips
<1>15. CASE UNCHANGED vars
  BY <1>15 DEF vars
<1> QED
  BY <1>1, <1>2, <1>3, <1>4, <1>5, <1>6, <1>7, <1>8, <1>9, <1>10, <1>11, <1>12, <1>13, <1>14,
     <1>15
     DEF Next, Works

(* Whatever the interleaving of CAS loops, stores and clock: the counters of
   the breaker stay below the thresholds at which it must change state, and
   current_timeout_millis between the base and the cap. *)
THEOREM BreakerTyped == Spec => []TypeOK
<1>1. Spec => []TypeInv
  BY InitTypeInv, NextTypeInv, PTL DEF Spec
<1>2. TypeInv => TypeOK
  BY DEF TypeInv
<1> QED
  BY <1>1, <1>2, PTL

-----------------------------------------------------------------------------
(* The cool-down.                                                           *)

LEMMA InitCoolDown == Init => CoolDownInv
BY DEF Init, CoolDownInv, OpenedBeforeWord, OpenCoolsDown, Closed0, Word, Idle

LEMMA NextCoolDown ==
  ASSUME TypeInv, CoolDownInv, [Next]_vars
  PROVE  CoolDownInv'
<1>0. /\ openedAge \in Ages /\ wordAge \in Ages /\ timeout \in BaseTimeout .. MaxTimeout
      /\ caller \in [Callers -> CallerRecords] /\ Ages \subseteq Int
  BY DEF TypeInv, TypeOK, Ages
<1> USE <1>0, BreakerAssumption DEF CoolDownInv, OpenedBeforeWord, OpenCoolsDown
<1>1. ASSUME NEW c \in Callers, CheckLoad(c) PROVE CoolDownInv'
  BY <1>1 DEF CheckLoad, Idle
<1>2. ASSUME NEW c \in Callers, CheckOpenedAt(c) PROVE CoolDownInv'
  BY <1>2 DEF CheckOpenedAt, CallerRecords
<1>3. ASSUME NEW c \in Callers, CheckDecide(c) PROVE CoolDownInv'
  <2>1. CASE caller[c].age >= timeout
    <3>1. caller[c].since >= BaseTimeout
      <4>1. caller[c].age \in Int /\ caller[c].since \in Int /\ caller[c].age <= caller[c].since
        BY <1>3 DEF CheckDecide, CallerRecords
      <4> QED
        BY <2>1, <4>1
    <3> QED
      BY <1>3, <2>1, <3>1 DEF CheckDecide, Goto, CallerRecords
  <2>2. CASE ~(caller[c].age >= timeout)
    BY <1>3, <2>2 DEF CheckDecide, Leave, Idle
  <2> QED
    BY <2>1, <2>2
<1>4. ASSUME NEW c \in Callers, TransitionToHalfOpen(c) PROVE CoolDownInv'
  BY <1>4 DEF TransitionToHalfOpen, Word, Idle
<1>5. ASSUME NEW c \in Callers, Attempt(c) PROVE CoolDownInv'
  BY <1>5 DEF Attempt, Idle, CallerRecords
<1>6. ASSUME NEW c \in Callers, HealthCheck(c) PROVE CoolDownInv'
  BY <1>6 DEF HealthCheck, Goto, CallerRecords
<1>7. ASSUME NEW c \in Callers, RecordLoad(c) PROVE CoolDownInv'
  BY <1>7 DEF RecordLoad, AfterSuccessLoad, AfterFailureLoad, Leave, Idle, CallerRecords
<1>8. ASSUME NEW c \in Callers, CompareExchange(c) PROVE CoolDownInv'
  <2>1. CASE word = caller[c].seen /\ word' = Exchanged(c) /\ wordAge' = 0 /\ Leave(c)
    <3>1. word'.state # "open"
      BY <1>8, <2>1 DEF CompareExchange, Exchanged, Word, Closed0, TypeInv, IncrementFits
    <3> QED
      BY <1>8, <2>1, <3>1 DEF CompareExchange, Leave, Idle
  <2>2. CASE CasFailed(c) /\ UNCHANGED <<word, wordAge>>
    BY <1>8, <2>2, CasFailedTyped DEF CompareExchange
  <2> QED
    BY <1>8, <2>1, <2>2 DEF CompareExchange
<1>9. ASSUME NEW c \in Callers, TransitionToOpen(c) PROVE CoolDownInv'
  <2>1. CASE OpenCount(c)
    BY <2>1 DEF OpenCount, Idle
  <2>2. CASE OpenTimeout(c)
    BY <2>2 DEF OpenTimeout, CallerRecords
  <2>3. CASE OpenTime(c)
    BY <2>3 DEF OpenTime, Goto, CallerRecords, Ages
  <2>4. CASE OpenWord(c)
    BY <2>4 DEF OpenWord, Leave, Idle
  <2> QED
    BY <1>9, <2>1, <2>2, <2>3, <2>4 DEF TransitionToOpen
<1>10. ASSUME NEW c \in Callers, TransitionToClosed(c) PROVE CoolDownInv'
  BY <1>10
     DEF TransitionToClosed, CloseCount, CloseTimeout, CloseWord, Goto, Leave, Idle, Word, Closed0,
         CallerRecords
<1>11. ASSUME NEW c \in Callers, Abandon(c) PROVE CoolDownInv'
  BY <1>11 DEF Abandon, Leave, Idle
<1>12. ASSUME NEW c \in Callers, SpuriousFailure(c) PROVE CoolDownInv'
  BY <1>12, CasFailedTyped DEF SpuriousFailure
<1>13. CASE Tick
  <2>1. ASSUME NEW c \in Callers
        PROVE  /\ caller[c] \in CallerRecords
               /\ caller'[c] = Aged(caller[c])
               /\ caller'[c].pc = caller[c].pc
               /\ caller[c].since \in Ages /\ caller[c].age \in Ages
    BY <1>13, AgedTyped DEF Tick, CallerRecords
  <2>2. word'.state = "open" => openedAge' <= wordAge'
    BY <1>13, OlderKeepsOrder DEF Tick
  <2>3. ASSUME NEW c \in Callers, caller'[c].pc \in {"open_word", "opened_at"}
        PROVE  openedAge' <= caller'[c].since
    <3>1. caller'[c].since = Older(caller[c].since)
      BY <2>1, <2>3 DEF Aged, CallerRecords
    <3> QED
      BY <1>13, <2>1, <2>3, <3>1, OlderKeepsOrder DEF Tick
  <2>4. ASSUME NEW c \in Callers, caller'[c].pc = "decide"
        PROVE  caller'[c].age <= caller'[c].since
    <3>1. caller'[c].since = Older(caller[c].since) /\ caller'[c].age = Older(caller[c].age)
      BY <2>1, <2>4 DEF Aged, CallerRecords
    <3> QED
      BY <2>1, <2>4, <3>1, OlderKeepsOrder
  <2>5. ASSUME NEW c \in Callers, caller'[c].pc = "half_open"
        PROVE  caller'[c].since >= BaseTimeout
    <3>1. caller'[c].since = Older(caller[c].since)
      BY <2>1, <2>5 DEF Aged, CallerRecords
    <3>2. /\ caller[c].since \in Int /\ Older(caller[c].since) \in Int
          /\ caller[c].since <= Older(caller[c].since)
      BY <2>1, OlderKeepsOrder
    <3> QED
      BY <2>1, <2>5, <3>1, <3>2
  <2> QED
    BY <2>2, <2>3, <2>4, <2>5
<1>14. CASE ProviderFlips
  BY <1>14 DEF ProviderFlips
<1>15. CASE UNCHANGED vars
  BY <1>15 DEF vars
<1> QED
  BY <1>1, <1>2, <1>3, <1>4, <1>5, <1>6, <1>7, <1>8, <1>9, <1>10, <1>11, <1>12, <1>13, <1>14,
     <1>15
     DEF Next, Works

(* No caller of check() turns an open circuit half open before one base timeout
   has passed since the failure behind the open word it saw, for any number of
   callers and whatever stores they have under way. *)
THEOREM CoolsDown == Spec => []OpenCoolsDown
<1>1. Spec => []TypeInv
  BY InitTypeInv, NextTypeInv, PTL DEF Spec
<1>2. TypeInv /\ CoolDownInv /\ [Next]_vars => CoolDownInv'
  BY NextCoolDown
<1>3. Spec => []CoolDownInv
  BY <1>1, <1>2, InitCoolDown, PTL DEF Spec
<1>4. CoolDownInv => OpenCoolsDown
  BY DEF CoolDownInv
<1> QED
  BY <1>3, <1>4, PTL
=============================================================================
