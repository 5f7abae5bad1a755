----------------------- MODULE ResponseLifecycle_proofs -----------------------
(***************************************************************************)
(* Invariants of ResponseLifecycle, proved for every number of replicas,   *)
(* responses, attempts, crashes and failing writes.                        *)
(***************************************************************************)
EXTENDS ResponseLifecycle, FiniteSetTheorems, TLAPS

\* A task that waits to retry has an attempt left, so the loop variable of
\* run_with_retry never runs past max_attempts.
RetriesLeft ==
  \A r \in Responses :
    wpc[r] \in {"backoff", "reload"} => attempt[r] < MaxAttempts

TypeInv == TypeOK /\ RetriesLeft

\* The parts of TypeOK that the helpers shared by several actions disturb.
SignalsTyped ==
  /\ senders \in [Replicas -> [Responses -> {"none", "false", "true"}]]
  /\ sig \in [Responses -> [Attempts -> Signals]]

RowTyped ==
  /\ status \in [Responses -> Statuses]
  /\ expired \in [Responses -> BOOLEAN]

-----------------------------------------------------------------------------
(* Facts about the data the actions handle.                                 *)

\* The rank that create() gives to created_at is a number.
LEMMA RankIsNat ==
  ASSUME NEW rank \in
           1 .. 1 + Cardinality({q \in Responses : status[q] # "none"})
  PROVE  rank \in Nat
<1>1. IsFiniteSet({q \in Responses : status[q] # "none"})
  BY LifecycleAssumption, FS_Subset
<1>2. Cardinality({q \in Responses : status[q] # "none"}) \in Nat
  BY <1>1, FS_CardinalityType
<1> QED
  BY <1>2

\* Announcing a terminal status keeps the record of webhooks well formed.
LEMMA AppendHook ==
  ASSUME hooks \in [Responses -> Seq(Terminal)], NEW r \in Responses,
         NEW s \in Terminal
  PROVE  [hooks EXCEPT ![r] = Append(@, s)] \in [Responses -> Seq(Terminal)]
<1>1. Append(hooks[r], s) \in Seq(Terminal)
  OBVIOUS
<1> QED
  BY <1>1

\* Writing one entry of a two-level map, such as a replica's senders or a
\* response's persister tasks, keeps its type.
LEMMA UpdateNested ==
  ASSUME NEW A, NEW B, NEW C, NEW f \in [A -> [B -> C]],
         NEW a, NEW b, NEW c \in C
  PROVE  [f EXCEPT ![a][b] = c] \in [A -> [B -> C]]
OBVIOUS

\* Dropping a sender leaves each receiver with a value it can observe.
LEMMA ClosedTyped ==
  ASSUME SignalsTyped, NEW p, NEW r \in Responses
  PROVE  Closed(p, r) \in [Attempts -> Signals]
BY DEF SignalsTyped, Closed, Signals

\* cancel_senders.remove
LEMMA RemoveSenderTyped ==
  ASSUME SignalsTyped, NEW p, NEW r \in Responses, RemoveSender(p, r)
  PROVE  SignalsTyped'
<1>1. senders' \in [Replicas -> [Responses -> {"none", "false", "true"}]]
  BY UpdateNested DEF SignalsTyped, RemoveSender
<1>2. sig' \in [Responses -> [Attempts -> Signals]]
  BY ClosedTyped DEF SignalsTyped, RemoveSender
<1> QED
  BY <1>1, <1>2 DEF SignalsTyped

\* Sender::send, whether or not a receiver is alive.
LEMMA TripTyped ==
  ASSUME SignalsTyped, NEW p, NEW r \in Responses, Trip(p, r)
  PROVE  SignalsTyped'
<1>1. senders' \in {senders, [senders EXCEPT ![p][r] = "true"]}
  BY DEF Trip, signalVars
<1>2. senders' \in [Replicas -> [Responses -> {"none", "false", "true"}]]
  <2>1. [senders EXCEPT ![p][r] = "true"]
          \in [Replicas -> [Responses -> {"none", "false", "true"}]]
    BY UpdateNested DEF SignalsTyped
  <2> QED
    BY <1>1, <2>1 DEF SignalsTyped
<1>3. sig' \in [Responses -> [Attempts -> Signals]]
  BY DEF SignalsTyped, Trip, signalVars, Signals
<1> QED
  BY <1>2, <1>3 DEF SignalsTyped

\* register_external_execution, subscribing or inserting.
LEMMA RegisterTyped ==
  ASSUME SignalsTyped, NEW p, NEW r \in Responses, NEW receiver \in Signals,
         RegisterExternalExecution(p, r, receiver)
  PROVE  SignalsTyped'
<1>1. senders' \in [Replicas -> [Responses -> {"none", "false", "true"}]]
  BY DEF SignalsTyped, RegisterExternalExecution
<1>2. sig' \in [Responses -> [Attempts -> Signals]]
  BY UpdateNested DEF SignalsTyped, RegisterExternalExecution
<1> QED
  BY <1>1, <1>2 DEF SignalsTyped

\* complete_within_org, when it matches the row.
LEMMA WriteTyped ==
  ASSUME RowTyped, NEW r \in Responses, NEW s \in Terminal,
         CompleteWithinOrg(r, s)
  PROVE  RowTyped'
<1>1. status' \in [Responses -> Statuses]
  BY DEF RowTyped, CompleteWithinOrg, Statuses
<1>2. expired' \in [Responses -> BOOLEAN]
  BY DEF RowTyped, CompleteWithinOrg
<1> QED
  BY <1>1, <1>2 DEF RowTyped

-----------------------------------------------------------------------------
(* Type correctness.                                                        *)

\* The initial state, before any request, is well typed.
LEMMA InitTypeInv == Init => TypeInv
BY LifecycleAssumption
   DEF Init, TypeInv, TypeOK, RetriesLeft, Attempts, Statuses, Live, Terminal,
       WorkerStates, PersisterStates, Signals, CancelStates

\* Every handler, task step, background pass and crash keeps the types.
LEMMA NextTypeInv ==
  ASSUME TypeInv
  PROVE  [Next]_vars => TypeInv'
<1> USE DEF rowVars, workerVars, persistVars, signalVars, seenVars, boundVars
<1>1. ASSUME NEW p \in Replicas, NEW r \in Responses, NEW bg \in BOOLEAN,
             CreateInsert(p, r, bg)
      PROVE  TypeInv'
  BY <1>1, RankIsNat
     DEF TypeInv, TypeOK, RetriesLeft, CreateInsert, Statuses, Live
<1>2. ASSUME NEW r \in Responses, CreateRegister(r)
      PROVE  TypeInv'
  BY <1>2
     DEF TypeInv, TypeOK, RetriesLeft, CreateRegister, Closed, Receivers,
         Signals
<1>3. ASSUME NEW r \in Responses, NEW kind \in Kinds \ {"background"},
             CreateForeground(r, kind)
      PROVE  TypeInv'
  BY <1>3, LifecycleAssumption
     DEF TypeInv, TypeOK, RetriesLeft, CreateForeground, AllKinds,
         PersisterStates, Signals
<1>4. ASSUME NEW p \in Replicas, NEW r \in Responses, Claim(p, r)
      PROVE  TypeInv'
  BY <1>4
     DEF TypeInv, TypeOK, RetriesLeft, Claim, Statuses, Live, WorkerStates
<1>5. ASSUME NEW r \in Responses, DispatchOk(r)
      PROVE  TypeInv'
  <2>1. SignalsTyped'
    BY <1>5, RegisterTyped
       DEF TypeInv, TypeOK, SignalsTyped, DispatchOk, Signals
  <2>2. ppc' \in [Responses -> [Attempts -> PersisterStates]]
    BY <1>5, UpdateNested DEF TypeInv, TypeOK, DispatchOk, PersisterStates
  <2> QED
    BY <1>5, <2>1, <2>2
       DEF TypeInv, TypeOK, RetriesLeft, SignalsTyped, DispatchOk,
           WorkerStates
<1>5r. ASSUME NEW r \in Responses, DispatchRefused(r)
       PROVE  TypeInv'
  <2>1. SignalsTyped'
    BY <1>5r, RegisterTyped
       DEF TypeInv, TypeOK, SignalsTyped, DispatchRefused, Signals
  <2>2. ppc' \in [Responses -> [Attempts -> PersisterStates]]
    BY <1>5r, UpdateNested DEF TypeInv, TypeOK, DispatchRefused, PersisterStates
  <2> QED
    BY <1>5r, <2>1, <2>2
       DEF TypeInv, TypeOK, RetriesLeft, SignalsTyped, DispatchRefused,
           WorkerStates
<1>6. ASSUME NEW r \in Responses, DispatchRejected(r)
      PROVE  TypeInv'
  BY <1>6 DEF TypeInv, TypeOK, RetriesLeft, DispatchRejected, WorkerStates
<1>7. ASSUME NEW r \in Responses, DispatchRejectedAfterRegister(r)
      PROVE  TypeInv'
  <2>1. SignalsTyped'
    BY <1>7, RegisterTyped
       DEF TypeInv, TypeOK, SignalsTyped, DispatchRejectedAfterRegister,
           Signals
  <2> QED
    BY <1>7, <2>1
       DEF TypeInv, TypeOK, RetriesLeft, SignalsTyped,
           DispatchRejectedAfterRegister, WorkerStates
<1>8. ASSUME NEW r \in Responses, DispatchFailed(r)
      PROVE  TypeInv'
  BY <1>8, LifecycleAssumption
     DEF TypeInv, TypeOK, RetriesLeft, DispatchFailed, AfterTransient,
         WorkerStates, Attempts
<1>9. ASSUME NEW r \in Responses, DrainOk(r)
      PROVE  TypeInv'
  BY <1>9 DEF TypeInv, TypeOK, RetriesLeft, DrainOk, WorkerStates
<1>10. ASSUME NEW r \in Responses, DrainFailed(r)
      PROVE  TypeInv'
  BY <1>10, LifecycleAssumption
     DEF TypeInv, TypeOK, RetriesLeft, DrainFailed, AfterTransient,
         WorkerStates, Attempts
<1>11. ASSUME NEW r \in Responses, RetryBump(r)
      PROVE  TypeInv'
  BY <1>11
     DEF TypeInv, TypeOK, RetriesLeft, RetryBump, Stored, Statuses, Live,
         WorkerStates
<1>12. ASSUME NEW r \in Responses, RetryReload(r)
      PROVE  TypeInv'
  <2>1. attempt' \in [Responses -> Attempts]
    <3>1. attempt[r] + 1 \in Attempts
      BY <1>12, LifecycleAssumption
         DEF TypeInv, TypeOK, RetriesLeft, RetryReload, Attempts
    <3> QED
      BY <1>12, <3>1 DEF TypeInv, TypeOK, RetryReload
  <2>2. RetriesLeft'
    BY <1>12 DEF TypeInv, TypeOK, RetriesLeft, RetryReload
  <2> QED
    BY <1>12, <2>1, <2>2
       DEF TypeInv, TypeOK, RetriesLeft, RetryReload, WorkerStates
<1>13. ASSUME NEW r \in Responses, MarkFailure(r)
      PROVE  TypeInv'
  <2>1. RowTyped'
    BY <1>13, WriteTyped
       DEF TypeInv, TypeOK, RowTyped, MarkFailure, CompleteMatchedNothing,
           Terminal
  <2>2. faults' \in Nat
    BY <1>13 DEF TypeInv, TypeOK, MarkFailure, DbFault
  <2>3. wpc' \in [Responses -> WorkerStates] /\ RetriesLeft'
    <3>1. \E s \in {"failwon", "done"} : wpc' = [wpc EXCEPT ![r] = s]
      BY <1>13 DEF MarkFailure
    <3>2. attempt' = attempt
      BY <1>13 DEF MarkFailure
    <3> QED
      BY <3>1, <3>2 DEF TypeInv, TypeOK, RetriesLeft, WorkerStates
  <2> QED
    BY <1>13, <2>1, <2>2, <2>3
       DEF TypeInv, TypeOK, RetriesLeft, RowTyped, MarkFailure
<1>14. ASSUME NEW r \in Responses, MarkFailureAnnounce(r)
      PROVE  TypeInv'
  <2>1. SignalsTyped'
    BY <1>14, RemoveSenderTyped
       DEF TypeInv, TypeOK, SignalsTyped, MarkFailureAnnounce,
           AnnounceTerminal
  <2>2. hooks' \in [Responses -> Seq(Terminal)]
    BY <1>14, AppendHook
       DEF TypeInv, TypeOK, MarkFailureAnnounce, AnnounceTerminal,
           Terminal
  <2> QED
    BY <1>14, <2>1, <2>2
       DEF TypeInv, TypeOK, RetriesLeft, SignalsTyped,
           MarkFailureAnnounce, WorkerStates
<1>15. ASSUME NEW r \in Responses, NEW k \in Attempts,
             PersisterHeartbeat(r, k)
      PROVE  TypeInv'
  BY <1>15 DEF TypeInv, TypeOK, RetriesLeft, PersisterHeartbeat
<1>16. ASSUME NEW r \in Responses, NEW k \in Attempts,
             PersisterCancelled(r, k)
      PROVE  TypeInv'
  BY <1>16
     DEF TypeInv, TypeOK, RetriesLeft, PersisterCancelled,
         PersisterStates, Terminal
<1>17. ASSUME NEW r \in Responses, NEW k \in Attempts,
             PersisterStreamEnd(r, k)
      PROVE  TypeInv'
  BY <1>17
     DEF TypeInv, TypeOK, RetriesLeft, PersisterStreamEnd,
         PersisterStates, Terminal
<1>18. ASSUME NEW r \in Responses, NEW k \in Attempts,
             PersisterStreamError(r, k)
      PROVE  TypeInv'
  BY <1>18
     DEF TypeInv, TypeOK, RetriesLeft, PersisterStreamError,
         PersisterStates, Signals
<1>19. ASSUME NEW r \in Responses, NEW k \in Attempts, PersisterComplete(r, k)
      PROVE  TypeInv'
  <2>1. RowTyped'
    BY <1>19, WriteTyped
       DEF TypeInv, TypeOK, RowTyped, PersisterComplete,
           CompleteMatchedNothing
  <2>2. faults' \in Nat
    BY <1>19 DEF TypeInv, TypeOK, PersisterComplete, DbFault
  <2>3. ppc' \in [Responses -> [Attempts -> PersisterStates]]
    <3>1. \E s \in PersisterStates : ppc' = [ppc EXCEPT ![r][k] = s]
      BY <1>19 DEF PersisterComplete, PersisterStates
    <3> QED
      BY <3>1, UpdateNested DEF TypeInv, TypeOK
  <2>4. sig' \in [Responses -> [Attempts -> Signals]]
    <3>1. sig' = sig \/ sig' = [sig EXCEPT ![r][k] = "none"]
      BY <1>19 DEF PersisterComplete
    <3>2. [sig EXCEPT ![r][k] = "none"] \in [Responses -> [Attempts -> Signals]]
      BY UpdateNested DEF TypeInv, TypeOK, Signals
    <3> QED
      BY <3>1, <3>2 DEF TypeInv, TypeOK
  <2> QED
    BY <1>19, <2>1, <2>2, <2>3, <2>4
       DEF TypeInv, TypeOK, RetriesLeft, RowTyped, PersisterComplete
<1>20. ASSUME NEW r \in Responses, NEW k \in Attempts, PersisterAnnounce(r, k)
      PROVE  TypeInv'
  <2>1. senders' \in [Replicas -> [Responses -> {"none", "false", "true"}]]
    BY <1>20, UpdateNested DEF TypeInv, TypeOK, PersisterAnnounce
  <2>2. sig' \in [Responses -> [Attempts -> Signals]]
    BY <1>20, ClosedTyped
       DEF TypeInv, TypeOK, SignalsTyped, PersisterAnnounce, Signals
  <2>3. hooks' \in [Responses -> Seq(Terminal)]
    BY <1>20, AppendHook DEF TypeInv, TypeOK, PersisterAnnounce
  <2>4. ppc' \in [Responses -> [Attempts -> PersisterStates]]
    BY <1>20, UpdateNested
       DEF TypeInv, TypeOK, PersisterAnnounce, PersisterStates
  <2> QED
    BY <1>20, <2>1, <2>2, <2>3, <2>4
       DEF TypeInv, TypeOK, RetriesLeft, PersisterAnnounce
<1>21. ASSUME NEW r \in Responses, UnaryBody(r)
      PROVE  TypeInv'
  <2>1. ppc' \in [Responses -> [Attempts -> PersisterStates]]
    <3>1. \E s \in PersisterStates : ppc' = [ppc EXCEPT ![r][1] = s]
      BY <1>21 DEF UnaryBody, PersisterStates
    <3> QED
      BY <3>1, UpdateNested DEF TypeInv, TypeOK
  <2>2. outcome' \in [Responses -> [Attempts -> Terminal]]
    <3>1. \/ outcome' = outcome
          \/ \E s \in Terminal : outcome' = [outcome EXCEPT ![r][1] = s]
      BY <1>21 DEF UnaryBody, Terminal
    <3>2. ASSUME NEW s \in Terminal
          PROVE  [outcome EXCEPT ![r][1] = s]
                   \in [Responses -> [Attempts -> Terminal]]
      BY UpdateNested DEF TypeInv, TypeOK
    <3>3. CASE outcome' = outcome
      BY <3>3 DEF TypeInv, TypeOK
    <3>4. CASE \E s \in Terminal : outcome' = [outcome EXCEPT ![r][1] = s]
      BY <3>2, <3>4
    <3> QED
      BY <3>1, <3>3, <3>4
  <2> QED
    BY <1>21, <2>1, <2>2 DEF TypeInv, TypeOK, RetriesLeft, UnaryBody
<1>22. ASSUME NEW p \in Replicas, NEW r \in Responses, CancelRead(p, r)
      PROVE  TypeInv'
  <2>1. answers' \in [Responses -> SUBSET (Live \cup Terminal)]
    <3>1. \/ answers' = answers
          \/ answers' = [answers EXCEPT ![r] = @ \cup {status[r]}]
      BY <1>22 DEF CancelRead
    <3>2. status[r] \in Live \cup Terminal
      BY <1>22 DEF CancelRead, Stored
    <3>3. [answers EXCEPT ![r] = @ \cup {status[r]}]
            \in [Responses -> SUBSET (Live \cup Terminal)]
      BY <3>2 DEF TypeInv, TypeOK
    <3> QED
      BY <3>1, <3>3 DEF TypeInv, TypeOK
  <2>2. cpc' \in [Replicas -> [Responses -> CancelStates]]
    <3>1. cpc' = cpc \/ cpc' = [cpc EXCEPT ![p][r] = "trip"]
      BY <1>22 DEF CancelRead
    <3>2. [cpc EXCEPT ![p][r] = "trip"]
            \in [Replicas -> [Responses -> CancelStates]]
      BY UpdateNested DEF TypeInv, TypeOK, CancelStates
    <3> QED
      BY <3>1, <3>2 DEF TypeInv, TypeOK
  <2> QED
    BY <1>22, <2>1, <2>2 DEF TypeInv, TypeOK, RetriesLeft, CancelRead
<1>23. ASSUME NEW p \in Replicas, NEW r \in Responses, CancelTrip(p, r)
      PROVE  TypeInv'
  <2>1. SignalsTyped'
    BY <1>23, TripTyped DEF TypeInv, TypeOK, SignalsTyped, CancelTrip
  <2> QED
    BY <1>23, <2>1
       DEF TypeInv, TypeOK, RetriesLeft, SignalsTyped, CancelTrip,
           CancelStates
<1>24. ASSUME NEW p \in Replicas, NEW r \in Responses, CancelComplete(p, r)
      PROVE  TypeInv'
  <2>1. RowTyped'
    BY <1>24, WriteTyped
       DEF TypeInv, TypeOK, RowTyped, CancelComplete,
           CompleteMatchedNothing, Terminal
  <2>2. faults' \in Nat
    BY <1>24 DEF TypeInv, TypeOK, CancelComplete, DbFault
  <2>3. cpc' \in [Replicas -> [Responses -> CancelStates]]
    <3>1. \E s \in CancelStates : cpc' = [cpc EXCEPT ![p][r] = s]
      BY <1>24 DEF CancelComplete, CancelStates
    <3> QED
      BY <3>1, UpdateNested DEF TypeInv, TypeOK
  <2> QED
    BY <1>24, <2>1, <2>2, <2>3
       DEF TypeInv, TypeOK, RetriesLeft, RowTyped, CancelComplete
<1>25. ASSUME NEW p \in Replicas, NEW r \in Responses, CancelAnnounce(p, r)
      PROVE  TypeInv'
  <2>1. SignalsTyped'
    BY <1>25, RemoveSenderTyped
       DEF TypeInv, TypeOK, SignalsTyped, CancelAnnounce, AnnounceTerminal
  <2>2. hooks' \in [Responses -> Seq(Terminal)]
    BY <1>25, AppendHook
       DEF TypeInv, TypeOK, CancelAnnounce, AnnounceTerminal, Terminal
  <2>3. answers' \in [Responses -> SUBSET (Live \cup Terminal)]
    BY <1>25 DEF TypeInv, TypeOK, CancelAnnounce, Terminal
  <2> QED
    BY <1>25, <2>1, <2>2, <2>3
       DEF TypeInv, TypeOK, RetriesLeft, SignalsTyped, CancelAnnounce,
           CancelStates
<1>26. ASSUME NEW p \in Replicas, NEW r \in Responses, CancelLost(p, r)
      PROVE  TypeInv'
  BY <1>26 DEF TypeInv, TypeOK, RetriesLeft, CancelLost, Stored, CancelStates
<1>27. ASSUME NEW p \in Replicas, NEW r \in Responses, DeleteRow(p, r)
      PROVE  TypeInv'
  BY <1>27 DEF TypeInv, TypeOK, RetriesLeft, DeleteRow, Statuses
<1>28. ASSUME NEW p \in Replicas, NEW r \in Responses, DeleteSender(p, r)
      PROVE  TypeInv'
  <2>1. SignalsTyped'
    BY <1>28, RemoveSenderTyped
       DEF TypeInv, TypeOK, SignalsTyped, DeleteSender
  <2> QED
    BY <1>28, <2>1
       DEF TypeInv, TypeOK, RetriesLeft, SignalsTyped, DeleteSender
<1>29. ASSUME NEW p \in Replicas, PollQuery(p)
      PROVE  TypeInv'
  BY <1>29 DEF TypeInv, TypeOK, RetriesLeft, PollQuery
<1>30. ASSUME NEW p \in Replicas, NEW r \in Responses, PollTrip(p, r)
      PROVE  TypeInv'
  <2>1. SignalsTyped'
    BY <1>30, TripTyped DEF TypeInv, TypeOK, SignalsTyped, PollTrip
  <2> QED
    BY <1>30, <2>1 DEF TypeInv, TypeOK, RetriesLeft, SignalsTyped, PollTrip
<1>31. ASSUME Reap
      PROVE  TypeInv'
  <2>1. status' \in [Responses -> Statuses]
    BY <1>31 DEF TypeInv, TypeOK, Reap, Statuses, Terminal
  <2>2. expired' \in [Responses -> BOOLEAN]
    BY Zenon, <1>31 DEF TypeInv, TypeOK, Reap
  <2> QED
    BY <1>31, <2>1, <2>2 DEF TypeInv, TypeOK, RetriesLeft, Reap
<1>32. ASSUME Prune
      PROVE  TypeInv'
  BY <1>32 DEF TypeInv, TypeOK, RetriesLeft, Prune, Statuses
<1>33. ASSUME NEW r \in Responses, Age(r)
      PROVE  TypeInv'
  BY <1>33 DEF TypeInv, TypeOK, RetriesLeft, Age, Older
<1>34. ASSUME NEW r \in Responses, Expire(r)
      PROVE  TypeInv'
  BY <1>34 DEF TypeInv, TypeOK, RetriesLeft, Expire
<1>35. ASSUME NEW p \in Replicas, Crash(p)
      PROVE  TypeInv'
  BY <1>35
     DEF TypeInv, TypeOK, RetriesLeft, Crash, CancelStates, WorkerStates,
         PersisterStates, Signals
<1>36. ASSUME NEW p \in Replicas, Restart(p)
      PROVE  TypeInv'
  BY <1>36 DEF TypeInv, TypeOK, RetriesLeft, Restart
<1>37. UNCHANGED vars => TypeInv'
  BY DEF TypeInv, TypeOK, RetriesLeft, vars
<1> QED
  BY <1>1, <1>2, <1>3, <1>4, <1>5, <1>5r, <1>6, <1>7, <1>8, <1>9, <1>10, <1>11,
     <1>12, <1>13, <1>14, <1>15, <1>16, <1>17, <1>18, <1>19, <1>20, <1>21,
     <1>22, <1>23, <1>24, <1>25, <1>26, <1>27, <1>28, <1>29, <1>30, <1>31,
     <1>32, <1>33, <1>34, <1>35, <1>36, <1>37
     DEF Next, WorkerStep, PersisterStep, CancelStep, Finished

\* Every variable of the system keeps its type, and run_with_retry never makes
\* more than max_attempts attempts, whatever replicas crash or writes fail.
THEOREM TypeCorrect == Spec => []TypeOK
<1>1. TypeInv /\ [Next]_vars => TypeInv'
  BY NextTypeInv
<1>2. TypeInv => TypeOK
  BY DEF TypeInv
<1> QED
  BY <1>1, <1>2, InitTypeInv, PTL DEF Spec

-----------------------------------------------------------------------------
(* One executor per response.                                               *)

\* A row is claimed only once: a row nobody has claimed has no executor, only
\* background rows are queued, and a foreground row has no executor before its
\* handler has registered it.
Unclaimed ==
  \A r \in Responses :
    /\ status[r] \in {"none", "queued"} => home[r] = NoReplica
    /\ status[r] = "queued" => background[r]
    /\ creating[r] # NoReplica => status[r] # "none"
    /\ creating[r] # NoReplica /\ ~background[r] => home[r] = NoReplica

\* A task that is running runs on a replica.
Placed ==
  \A r \in Responses :
    /\ wpc[r] \in Running => home[r] \in Replicas
    /\ \A k \in Attempts : ppc[r][k] \in Busy => home[r] \in Replicas

\* The step keeps every executor.
KeepsExecutor ==
  \A r \in Responses : home[r] # NoReplica => home'[r] = home[r]

\* Every step keeps these facts, and every executor: only a claim of a queued
\* row and the foreground create assign one.
LEMMA NextUnclaimed ==
  ASSUME TypeInv, Unclaimed, Placed
  PROVE  [Next]_vars => Unclaimed' /\ Placed' /\ KeepsExecutor
<1> USE DEF rowVars, workerVars, persistVars, signalVars, seenVars, boundVars
<1>1. ASSUME NEW p \in Replicas, NEW r \in Responses, NEW bg \in BOOLEAN,
             CreateInsert(p, r, bg)
      PROVE  Unclaimed' /\ Placed' /\ KeepsExecutor
  BY <1>1 DEF TypeInv, TypeOK, Unclaimed, Placed, KeepsExecutor, CreateInsert
<1>2. ASSUME NEW r \in Responses, CreateRegister(r)
      PROVE  Unclaimed' /\ Placed' /\ KeepsExecutor
  BY <1>2
     DEF TypeInv, TypeOK, Unclaimed, Placed, KeepsExecutor, CreateRegister
<1>3. ASSUME NEW r \in Responses, NEW kind \in Kinds \ {"background"},
             CreateForeground(r, kind)
      PROVE  Unclaimed' /\ Placed' /\ KeepsExecutor
  BY <1>3
     DEF TypeInv, TypeOK, Unclaimed, Placed, KeepsExecutor,
         CreateForeground, Busy, Running
<1>4. ASSUME NEW p \in Replicas, NEW r \in Responses, Claim(p, r)
      PROVE  Unclaimed' /\ Placed' /\ KeepsExecutor
  BY <1>4
     DEF TypeInv, TypeOK, Unclaimed, Placed, KeepsExecutor, Claim,
         OldestQueued, Running
<1>5. ASSUME NEW r \in Responses, DispatchOk(r)
      PROVE  Unclaimed' /\ Placed' /\ KeepsExecutor
  BY <1>5
     DEF TypeInv, TypeOK, Unclaimed, Placed, KeepsExecutor, DispatchOk,
         Running, Busy
<1>5r. ASSUME NEW r \in Responses, DispatchRefused(r)
       PROVE  Unclaimed' /\ Placed' /\ KeepsExecutor
  BY <1>5r
     DEF TypeInv, TypeOK, Unclaimed, Placed, KeepsExecutor, DispatchRefused,
         Running, Busy
<1>6. ASSUME NEW r \in Responses, DispatchRejected(r)
      PROVE  Unclaimed' /\ Placed' /\ KeepsExecutor
  BY <1>6
     DEF TypeInv, TypeOK, Unclaimed, Placed, KeepsExecutor,
         DispatchRejected, Running
<1>7. ASSUME NEW r \in Responses, DispatchRejectedAfterRegister(r)
      PROVE  Unclaimed' /\ Placed' /\ KeepsExecutor
  BY <1>7
     DEF TypeInv, TypeOK, Unclaimed, Placed, KeepsExecutor,
         DispatchRejectedAfterRegister, Running
<1>8. ASSUME NEW r \in Responses, DispatchFailed(r)
      PROVE  Unclaimed' /\ Placed' /\ KeepsExecutor
  BY <1>8
     DEF TypeInv, TypeOK, Unclaimed, Placed, KeepsExecutor,
         DispatchFailed, Running, AfterTransient
<1>9. ASSUME NEW r \in Responses, DrainOk(r)
      PROVE  Unclaimed' /\ Placed' /\ KeepsExecutor
  BY <1>9
     DEF TypeInv, TypeOK, Unclaimed, Placed, KeepsExecutor, DrainOk,
         Running
<1>10. ASSUME NEW r \in Responses, DrainFailed(r)
      PROVE  Unclaimed' /\ Placed' /\ KeepsExecutor
  BY <1>10
     DEF TypeInv, TypeOK, Unclaimed, Placed, KeepsExecutor, DrainFailed,
         Running, AfterTransient
<1>11. ASSUME NEW r \in Responses, RetryBump(r)
      PROVE  Unclaimed' /\ Placed' /\ KeepsExecutor
  BY <1>11
     DEF TypeInv, TypeOK, Unclaimed, Placed, KeepsExecutor, RetryBump,
         Stored, Live, Terminal, Running
<1>12. ASSUME NEW r \in Responses, RetryReload(r)
      PROVE  Unclaimed' /\ Placed' /\ KeepsExecutor
  BY <1>12
     DEF TypeInv, TypeOK, Unclaimed, Placed, KeepsExecutor, RetryReload,
         Running
<1>13. ASSUME NEW r \in Responses, MarkFailure(r)
      PROVE  Unclaimed' /\ Placed' /\ KeepsExecutor
  BY <1>13
     DEF TypeInv, TypeOK, Unclaimed, Placed, KeepsExecutor, MarkFailure,
         CompleteWithinOrg, CompleteMatchedNothing, Terminal, Running
<1>14. ASSUME NEW r \in Responses, MarkFailureAnnounce(r)
      PROVE  Unclaimed' /\ Placed' /\ KeepsExecutor
  BY <1>14
     DEF TypeInv, TypeOK, Unclaimed, Placed, KeepsExecutor,
         MarkFailureAnnounce, Running
<1>15. ASSUME NEW r \in Responses, NEW k \in Attempts,
             PersisterHeartbeat(r, k)
      PROVE  Unclaimed' /\ Placed' /\ KeepsExecutor
  BY <1>15
     DEF TypeInv, TypeOK, Unclaimed, Placed, KeepsExecutor,
         PersisterHeartbeat, Busy
<1>16. ASSUME NEW r \in Responses, NEW k \in Attempts,
             PersisterCancelled(r, k)
      PROVE  Unclaimed' /\ Placed' /\ KeepsExecutor
  BY <1>16
     DEF TypeInv, TypeOK, Unclaimed, Placed, KeepsExecutor,
         PersisterCancelled, Busy
<1>17. ASSUME NEW r \in Responses, NEW k \in Attempts,
             PersisterStreamEnd(r, k)
      PROVE  Unclaimed' /\ Placed' /\ KeepsExecutor
  BY <1>17
     DEF TypeInv, TypeOK, Unclaimed, Placed, KeepsExecutor,
         PersisterStreamEnd, Busy
<1>18. ASSUME NEW r \in Responses, NEW k \in Attempts,
             PersisterStreamError(r, k)
      PROVE  Unclaimed' /\ Placed' /\ KeepsExecutor
  BY <1>18
     DEF TypeInv, TypeOK, Unclaimed, Placed, KeepsExecutor,
         PersisterStreamError, Busy
<1>19. ASSUME NEW r \in Responses, NEW k \in Attempts, PersisterComplete(r, k)
      PROVE  Unclaimed' /\ Placed' /\ KeepsExecutor
  <2>1. Unclaimed' /\ KeepsExecutor
    <3>1. outcome[r][k] \in Terminal
      BY DEF TypeInv, TypeOK
    <3> QED
      BY <1>19, <3>1
         DEF TypeInv, TypeOK, Unclaimed, KeepsExecutor, PersisterComplete,
             CompleteWithinOrg, CompleteMatchedNothing, Terminal
  <2>2. Placed'
    <3>1. \E s \in PersisterStates : ppc' = [ppc EXCEPT ![r][k] = s]
      BY <1>19 DEF PersisterComplete, PersisterStates
    <3>2. home[r] \in Replicas
      BY <1>19 DEF PersisterComplete, Placed, Busy
    <3> QED
      BY <1>19, <3>1, <3>2 DEF TypeInv, TypeOK, PersisterComplete, Placed
  <2> QED
    BY <2>1, <2>2
<1>20. ASSUME NEW r \in Responses, NEW k \in Attempts, PersisterAnnounce(r, k)
      PROVE  Unclaimed' /\ Placed' /\ KeepsExecutor
  BY <1>20
     DEF TypeInv, TypeOK, Unclaimed, Placed, KeepsExecutor,
         PersisterAnnounce, Busy
<1>21. ASSUME NEW r \in Responses, UnaryBody(r)
      PROVE  Unclaimed' /\ Placed' /\ KeepsExecutor
  <2>1. Unclaimed' /\ KeepsExecutor
    BY <1>21 DEF TypeInv, TypeOK, Unclaimed, KeepsExecutor, UnaryBody
  <2>2. Placed'
    <3>1. \E s \in PersisterStates : ppc' = [ppc EXCEPT ![r][1] = s]
      BY <1>21 DEF UnaryBody, PersisterStates
    <3>2. home[r] \in Replicas
      BY <1>21, LifecycleAssumption DEF UnaryBody, Placed, Busy, Attempts
    <3> QED
      BY <1>21, <3>1, <3>2 DEF TypeInv, TypeOK, UnaryBody, Placed
  <2> QED
    BY <2>1, <2>2
<1>22. ASSUME NEW p \in Replicas, NEW r \in Responses, CancelRead(p, r)
      PROVE  Unclaimed' /\ Placed' /\ KeepsExecutor
  BY <1>22 DEF TypeInv, TypeOK, Unclaimed, Placed, KeepsExecutor, CancelRead
<1>23. ASSUME NEW p \in Replicas, NEW r \in Responses, CancelTrip(p, r)
      PROVE  Unclaimed' /\ Placed' /\ KeepsExecutor
  BY <1>23 DEF TypeInv, TypeOK, Unclaimed, Placed, KeepsExecutor, CancelTrip
<1>24. ASSUME NEW p \in Replicas, NEW r \in Responses, CancelComplete(p, r)
      PROVE  Unclaimed' /\ Placed' /\ KeepsExecutor
  BY <1>24
     DEF TypeInv, TypeOK, Unclaimed, Placed, KeepsExecutor,
         CancelComplete, CompleteWithinOrg, CompleteMatchedNothing, Terminal
<1>25. ASSUME NEW p \in Replicas, NEW r \in Responses, CancelAnnounce(p, r)
      PROVE  Unclaimed' /\ Placed' /\ KeepsExecutor
  BY <1>25
     DEF TypeInv, TypeOK, Unclaimed, Placed, KeepsExecutor, CancelAnnounce
<1>26. ASSUME NEW p \in Replicas, NEW r \in Responses, CancelLost(p, r)
      PROVE  Unclaimed' /\ Placed' /\ KeepsExecutor
  BY <1>26 DEF TypeInv, TypeOK, Unclaimed, Placed, KeepsExecutor, CancelLost
<1>27. ASSUME NEW p \in Replicas, NEW r \in Responses, DeleteRow(p, r)
      PROVE  Unclaimed' /\ Placed' /\ KeepsExecutor
  BY <1>27
     DEF TypeInv, TypeOK, Unclaimed, Placed, KeepsExecutor, DeleteRow,
         Stored, Live, Terminal
<1>28. ASSUME NEW p \in Replicas, NEW r \in Responses, DeleteSender(p, r)
      PROVE  Unclaimed' /\ Placed' /\ KeepsExecutor
  BY <1>28 DEF TypeInv, TypeOK, Unclaimed, Placed, KeepsExecutor, DeleteSender
<1>29. ASSUME NEW p \in Replicas, PollQuery(p)
      PROVE  Unclaimed' /\ Placed' /\ KeepsExecutor
  BY <1>29 DEF TypeInv, TypeOK, Unclaimed, Placed, KeepsExecutor, PollQuery
<1>30. ASSUME NEW p \in Replicas, NEW r \in Responses, PollTrip(p, r)
      PROVE  Unclaimed' /\ Placed' /\ KeepsExecutor
  BY <1>30 DEF TypeInv, TypeOK, Unclaimed, Placed, KeepsExecutor, PollTrip
<1>31. ASSUME Reap
      PROVE  Unclaimed' /\ Placed' /\ KeepsExecutor
  BY <1>31 DEF TypeInv, TypeOK, Unclaimed, Placed, KeepsExecutor, Reap, Quiet
<1>32. ASSUME Prune
      PROVE  Unclaimed' /\ Placed' /\ KeepsExecutor
  BY <1>32
     DEF TypeInv, TypeOK, Unclaimed, Placed, KeepsExecutor, Prune,
         Prunable, Terminal
<1>33. ASSUME NEW r \in Responses, Age(r)
      PROVE  Unclaimed' /\ Placed' /\ KeepsExecutor
  BY <1>33 DEF TypeInv, TypeOK, Unclaimed, Placed, KeepsExecutor, Age
<1>34. ASSUME NEW r \in Responses, Expire(r)
      PROVE  Unclaimed' /\ Placed' /\ KeepsExecutor
  BY <1>34 DEF TypeInv, TypeOK, Unclaimed, Placed, KeepsExecutor, Expire
<1>35. ASSUME NEW p \in Replicas, Crash(p)
      PROVE  Unclaimed' /\ Placed' /\ KeepsExecutor
  BY <1>35
     DEF TypeInv, TypeOK, Unclaimed, Placed, KeepsExecutor, Crash,
         Running, Busy
<1>36. ASSUME NEW p \in Replicas, Restart(p)
      PROVE  Unclaimed' /\ Placed' /\ KeepsExecutor
  BY <1>36 DEF TypeInv, TypeOK, Unclaimed, Placed, KeepsExecutor, Restart
<1>37. UNCHANGED vars => Unclaimed' /\ Placed' /\ KeepsExecutor
  BY DEF TypeInv, TypeOK, Unclaimed, Placed, KeepsExecutor, vars
<1> QED
  BY <1>1, <1>2, <1>3, <1>4, <1>5, <1>5r, <1>6, <1>7, <1>8, <1>9, <1>10, <1>11,
     <1>12, <1>13, <1>14, <1>15, <1>16, <1>17, <1>18, <1>19, <1>20, <1>21,
     <1>22, <1>23, <1>24, <1>25, <1>26, <1>27, <1>28, <1>29, <1>30, <1>31,
     <1>32, <1>33, <1>34, <1>35, <1>36, <1>37
     DEF Next, WorkerStep, PersisterStep, CancelStep, Finished

\* No provider is called by two replicas for one response: through retries,
\* crashes and restarts, the claim of claim_queued is never repeated.
THEOREM OneExecutor == Spec => SingleExecutor
<1>1. Init => Unclaimed /\ Placed
  BY LifecycleAssumption DEF Init, Unclaimed, Placed, Running, Busy
<1>2. TypeInv /\ [Next]_vars => TypeInv'
  BY NextTypeInv
<1>3. TypeInv /\ Unclaimed /\ Placed /\ [Next]_vars
        => Unclaimed' /\ Placed' /\ KeepsExecutor
  BY NextUnclaimed
<1>4. TypeInv /\ Unclaimed /\ Placed /\ [Next]_vars => [KeepsExecutor]_vars
  BY <1>3
<1> QED
  BY <1>1, <1>2, <1>3, <1>4, InitTypeInv, PTL
     DEF Spec, SingleExecutor, KeepsExecutor

-----------------------------------------------------------------------------
(* Cancellation.                                                            *)

\* Every trace that a cancel leaves belongs to a background response for which
\* one was admitted: the row itself,
AskedRows ==
  /\ \A r \in asked : status[r] # "none" /\ background[r]
  /\ \A r \in Responses : status[r] = "cancelled" => r \in asked

\* a persister task that decided on it or can observe it,
AskedTasks ==
  \A r \in Responses, k \in Attempts :
    /\ outcome[r][k] = "cancelled" => r \in asked
    /\ sig[r][k] \in {"fired", "closedTrue"} => r \in asked

\* a tripped sender, a handler under way, an id that the poller will trip.
AskedReplicas ==
  \A p \in Replicas, r \in Responses :
    /\ senders[p][r] = "true" => r \in asked
    /\ cpc[p][r] # "idle" => r \in asked
    /\ r \in poll[p] => r \in asked

CancelsAsked == AskedRows /\ AskedTasks /\ AskedReplicas

\* A receiver can take a dropped sender for a cancel only if there was one.
LEMMA ClosedAsked ==
  ASSUME CancelsAsked, NEW p \in Replicas, NEW r \in Responses,
         NEW k \in Attempts,
         Closed(p, r)[k] \in {"fired", "closedTrue"}
  PROVE  r \in asked
BY DEF CancelsAsked, AskedTasks, AskedReplicas, Closed

\* Tripping the sender of an asked response reaches only its own receivers.
LEMMA TripAsked ==
  ASSUME TypeInv, CancelsAsked, NEW p \in Replicas, NEW r \in asked, Trip(p, r)
  PROVE  /\ \A q \in Replicas, s \in Responses :
              senders'[q][s] = "true" => s \in asked
         /\ \A s \in Responses, k \in Attempts :
              sig'[s][k] \in {"fired", "closedTrue"} => s \in asked
<1>1. CASE UNCHANGED signalVars
  BY <1>1 DEF CancelsAsked, AskedTasks, AskedReplicas, signalVars
<1>2. CASE ~UNCHANGED signalVars
  <2>1. /\ senders' = [senders EXCEPT ![p][r] = "true"]
        /\ sig' = [sig EXCEPT ![r] = [k \in Attempts |->
                    IF sig[r][k] \in Attached THEN "fired" ELSE sig[r][k]]]
    BY <1>2 DEF Trip
  <2> QED
    BY <2>1 DEF TypeInv, TypeOK, CancelsAsked, AskedTasks, AskedReplicas
<1> QED
  BY <1>1, <1>2

\* Every step keeps the trail back to an admitted cancel.
LEMMA NextCancelsAsked ==
  ASSUME TypeInv, Placed, CancelsAsked
  PROVE  [Next]_vars => CancelsAsked'
<1> USE DEF rowVars, workerVars, persistVars, signalVars, seenVars, boundVars,
            CancelsAsked
<1>1. ASSUME NEW p \in Replicas, NEW r \in Responses, NEW bg \in BOOLEAN,
             CreateInsert(p, r, bg)
      PROVE  CancelsAsked'
  BY <1>1
     DEF TypeInv, TypeOK, AskedRows, AskedTasks, AskedReplicas,
         CreateInsert
<1>2. ASSUME NEW r \in Responses, CreateRegister(r)
      PROVE  CancelsAsked'
  BY <1>2
     DEF TypeInv, TypeOK, AskedRows, AskedTasks, AskedReplicas,
         CreateRegister, Closed, Receivers
<1>3. ASSUME NEW r \in Responses, NEW kind \in Kinds \ {"background"},
             CreateForeground(r, kind)
      PROVE  CancelsAsked'
  BY <1>3
     DEF TypeInv, TypeOK, AskedRows, AskedTasks, AskedReplicas,
         CreateForeground
<1>4. ASSUME NEW p \in Replicas, NEW r \in Responses, Claim(p, r)
      PROVE  CancelsAsked'
  BY <1>4
     DEF TypeInv, TypeOK, AskedRows, AskedTasks, AskedReplicas, Claim,
         OldestQueued
<1>5. ASSUME NEW r \in Responses, DispatchOk(r)
      PROVE  CancelsAsked'
  BY <1>5
     DEF TypeInv, TypeOK, AskedRows, AskedTasks, AskedReplicas,
         DispatchOk, RegisterExternalExecution
<1>5r. ASSUME NEW r \in Responses, DispatchRefused(r)
       PROVE  CancelsAsked'
  BY <1>5r
     DEF TypeInv, TypeOK, AskedRows, AskedTasks, AskedReplicas,
         DispatchRefused, RegisterExternalExecution
<1>6. ASSUME NEW r \in Responses, DispatchRejected(r)
      PROVE  CancelsAsked'
  BY <1>6
     DEF TypeInv, TypeOK, AskedRows, AskedTasks, AskedReplicas,
         DispatchRejected
<1>7. ASSUME NEW r \in Responses, DispatchRejectedAfterRegister(r)
      PROVE  CancelsAsked'
  BY <1>7
     DEF TypeInv, TypeOK, AskedRows, AskedTasks, AskedReplicas,
         DispatchRejectedAfterRegister, RegisterExternalExecution
<1>8. ASSUME NEW r \in Responses, DispatchFailed(r)
      PROVE  CancelsAsked'
  BY <1>8
     DEF TypeInv, TypeOK, AskedRows, AskedTasks, AskedReplicas,
         DispatchFailed
<1>9. ASSUME NEW r \in Responses, DrainOk(r)
      PROVE  CancelsAsked'
  BY <1>9 DEF TypeInv, TypeOK, AskedRows, AskedTasks, AskedReplicas, DrainOk
<1>10. ASSUME NEW r \in Responses, DrainFailed(r)
      PROVE  CancelsAsked'
  BY <1>10
     DEF TypeInv, TypeOK, AskedRows, AskedTasks, AskedReplicas,
         DrainFailed
<1>11. ASSUME NEW r \in Responses, RetryBump(r)
      PROVE  CancelsAsked'
  BY <1>11
     DEF TypeInv, TypeOK, AskedRows, AskedTasks, AskedReplicas, RetryBump,
         Stored, Live, Terminal
<1>12. ASSUME NEW r \in Responses, RetryReload(r)
      PROVE  CancelsAsked'
  BY <1>12
     DEF TypeInv, TypeOK, AskedRows, AskedTasks, AskedReplicas,
         RetryReload
<1>13. ASSUME NEW r \in Responses, MarkFailure(r)
      PROVE  CancelsAsked'
  BY <1>13
     DEF TypeInv, TypeOK, AskedRows, AskedTasks, AskedReplicas,
         MarkFailure, CompleteWithinOrg, CompleteMatchedNothing, Terminal
<1>14. ASSUME NEW r \in Responses, MarkFailureAnnounce(r)
      PROVE  CancelsAsked'
  <2>0. home[r] \in Replicas
    BY <1>14 DEF Placed, MarkFailureAnnounce, Running
  <2>1. AskedRows'
    BY <1>14 DEF TypeInv, TypeOK, AskedRows, MarkFailureAnnounce
  <2>2. AskedTasks'
    BY <1>14, <2>0, ClosedAsked
       DEF TypeInv, TypeOK, AskedTasks, MarkFailureAnnounce,
           AnnounceTerminal, RemoveSender
  <2>3. AskedReplicas'
    BY <1>14, <2>0
       DEF TypeInv, TypeOK, AskedReplicas, MarkFailureAnnounce,
           AnnounceTerminal, RemoveSender
  <2> QED
    BY <2>1, <2>2, <2>3
<1>15. ASSUME NEW r \in Responses, NEW k \in Attempts,
             PersisterHeartbeat(r, k)
      PROVE  CancelsAsked'
  BY <1>15
     DEF TypeInv, TypeOK, AskedRows, AskedTasks, AskedReplicas,
         PersisterHeartbeat
<1>16. ASSUME NEW r \in Responses, NEW k \in Attempts,
             PersisterCancelled(r, k)
      PROVE  CancelsAsked'
  BY <1>16
     DEF TypeInv, TypeOK, AskedRows, AskedTasks, AskedReplicas,
         PersisterCancelled
<1>17. ASSUME NEW r \in Responses, NEW k \in Attempts,
             PersisterStreamEnd(r, k)
      PROVE  CancelsAsked'
  BY <1>17
     DEF TypeInv, TypeOK, AskedRows, AskedTasks, AskedReplicas,
         PersisterStreamEnd
<1>18. ASSUME NEW r \in Responses, NEW k \in Attempts,
             PersisterStreamError(r, k)
      PROVE  CancelsAsked'
  BY <1>18
     DEF TypeInv, TypeOK, AskedRows, AskedTasks, AskedReplicas,
         PersisterStreamError
<1>19. ASSUME NEW r \in Responses, NEW k \in Attempts, PersisterComplete(r, k)
      PROVE  CancelsAsked'
  <2>1. AskedRows'
    <3>1. /\ outcome[r][k] \in Terminal
          /\ outcome[r][k] = "cancelled" => r \in asked
      BY DEF TypeInv, TypeOK, AskedTasks
    <3>2. CASE status' = status
      BY <1>19, <3>2 DEF AskedRows, PersisterComplete
    <3>3. CASE status' = [status EXCEPT ![r] = outcome[r][k]]
      BY <1>19, <3>1, <3>3
         DEF TypeInv, TypeOK, AskedRows, PersisterComplete, Terminal
    <3> QED
      BY <1>19, <3>2, <3>3
         DEF PersisterComplete, CompleteWithinOrg, CompleteMatchedNothing
  <2>2. AskedTasks'
    BY <1>19 DEF TypeInv, TypeOK, AskedTasks, PersisterComplete
  <2>3. AskedReplicas'
    BY <1>19 DEF TypeInv, TypeOK, AskedReplicas, PersisterComplete
  <2> QED
    BY <2>1, <2>2, <2>3
<1>20. ASSUME NEW r \in Responses, NEW k \in Attempts, PersisterAnnounce(r, k)
      PROVE  CancelsAsked'
  <2>0. home[r] \in Replicas
    BY <1>20 DEF Placed, PersisterAnnounce, Busy
  <2>1. AskedRows'
    BY <1>20 DEF TypeInv, TypeOK, AskedRows, PersisterAnnounce
  <2>2. AskedTasks'
    BY <1>20, <2>0, ClosedAsked
       DEF TypeInv, TypeOK, AskedTasks, PersisterAnnounce
  <2>3. AskedReplicas'
    BY <1>20, <2>0 DEF TypeInv, TypeOK, AskedReplicas, PersisterAnnounce
  <2> QED
    BY <2>1, <2>2, <2>3
<1>21. ASSUME NEW r \in Responses, UnaryBody(r)
      PROVE  CancelsAsked'
  <2>1. AskedRows'
    BY <1>21 DEF TypeInv, TypeOK, AskedRows, UnaryBody
  <2>2. AskedTasks'
    <3>1. \/ outcome' = outcome
          \/ \E s \in {"completed", "failed"} :
               outcome' = [outcome EXCEPT ![r][1] = s]
      BY <1>21 DEF UnaryBody
    <3>2. \A q \in Responses, k \in Attempts :
            outcome'[q][k] = "cancelled" => outcome[q][k] = "cancelled"
      <4>1. CASE outcome' = outcome
        BY <4>1
      <4>2. ASSUME NEW s \in {"completed", "failed"},
                   outcome' = [outcome EXCEPT ![r][1] = s]
            PROVE  \A q \in Responses, k \in Attempts :
                     outcome'[q][k] = "cancelled" => outcome[q][k] = "cancelled"
        BY <4>2 DEF TypeInv, TypeOK
      <4> QED
        BY <3>1, <4>1, <4>2
    <3> QED
      BY <1>21, <3>2 DEF AskedTasks, UnaryBody
  <2>3. AskedReplicas'
    BY <1>21 DEF TypeInv, TypeOK, AskedReplicas, UnaryBody
  <2> QED
    BY <2>1, <2>2, <2>3
<1>22. ASSUME NEW p \in Replicas, NEW r \in Responses, CancelRead(p, r)
      PROVE  CancelsAsked'
  <2>1. AskedRows'
    BY <1>22 DEF TypeInv, TypeOK, AskedRows, CancelRead, Stored, Live, Terminal
  <2>2. AskedTasks'
    BY <1>22 DEF TypeInv, TypeOK, AskedTasks, CancelRead
  <2>3. AskedReplicas'
    <3>1. cpc' = cpc \/ cpc' = [cpc EXCEPT ![p][r] = "trip"]
      BY <1>22 DEF CancelRead
    <3>2. \A q \in Replicas, s \in Responses :
            cpc'[q][s] # "idle" => cpc[q][s] # "idle" \/ s = r
      <4>1. CASE cpc' = cpc
        BY <4>1
      <4>2. CASE cpc' = [cpc EXCEPT ![p][r] = "trip"]
        BY <4>2 DEF TypeInv, TypeOK
      <4> QED
        BY <3>1, <4>1, <4>2
    <3> QED
      BY <1>22, <3>2 DEF AskedReplicas, CancelRead
  <2> QED
    BY <2>1, <2>2, <2>3
<1>23. ASSUME NEW p \in Replicas, NEW r \in Responses, CancelTrip(p, r)
      PROVE  CancelsAsked'
  <2>0. r \in asked
    BY <1>23 DEF AskedReplicas, CancelTrip
  <2>1. AskedRows'
    BY <1>23 DEF TypeInv, TypeOK, AskedRows, CancelTrip
  <2>2. AskedTasks'
    BY <1>23, <2>0, TripAsked DEF TypeInv, TypeOK, AskedTasks, CancelTrip
  <2>3. AskedReplicas'
    BY <1>23, <2>0, TripAsked DEF TypeInv, TypeOK, AskedReplicas, CancelTrip
  <2> QED
    BY <2>1, <2>2, <2>3
<1>24. ASSUME NEW p \in Replicas, NEW r \in Responses, CancelComplete(p, r)
      PROVE  CancelsAsked'
  <2>1. AskedRows'
    BY <1>24
       DEF TypeInv, TypeOK, AskedRows, CancelComplete, CompleteWithinOrg,
           CompleteMatchedNothing, Terminal, AskedReplicas
  <2>2. AskedTasks'
    BY <1>24 DEF TypeInv, TypeOK, AskedTasks, CancelComplete
  <2>3. AskedReplicas'
    <3>1. \E s \in CancelStates : cpc' = [cpc EXCEPT ![p][r] = s]
      BY <1>24 DEF CancelComplete, CancelStates
    <3>2. \A q \in Replicas, s \in Responses :
            cpc'[q][s] # "idle" => cpc[q][s] # "idle"
      BY <1>24, <3>1 DEF TypeInv, TypeOK, CancelComplete
    <3> QED
      BY <1>24, <3>2 DEF AskedReplicas, CancelComplete
  <2> QED
    BY <2>1, <2>2, <2>3
<1>25. ASSUME NEW p \in Replicas, NEW r \in Responses, CancelAnnounce(p, r)
      PROVE  CancelsAsked'
  BY <1>25
     DEF TypeInv, TypeOK, AskedRows, AskedTasks, AskedReplicas,
         CancelAnnounce, AnnounceTerminal, RemoveSender, Closed, Receivers
<1>26. ASSUME NEW p \in Replicas, NEW r \in Responses, CancelLost(p, r)
      PROVE  CancelsAsked'
  BY <1>26
     DEF TypeInv, TypeOK, AskedRows, AskedTasks, AskedReplicas, CancelLost
<1>27. ASSUME NEW p \in Replicas, NEW r \in Responses, DeleteRow(p, r)
      PROVE  CancelsAsked'
  BY <1>27
     DEF TypeInv, TypeOK, AskedRows, AskedTasks, AskedReplicas, DeleteRow,
         Stored, Live, Terminal
<1>28. ASSUME NEW p \in Replicas, NEW r \in Responses, DeleteSender(p, r)
      PROVE  CancelsAsked'
  BY <1>28
     DEF TypeInv, TypeOK, AskedRows, AskedTasks, AskedReplicas,
         DeleteSender, AnnounceTerminal, RemoveSender, Closed, Receivers
<1>29. ASSUME NEW p \in Replicas, PollQuery(p)
      PROVE  CancelsAsked'
  BY <1>29
     DEF TypeInv, TypeOK, AskedRows, AskedTasks, AskedReplicas, PollQuery
<1>30. ASSUME NEW p \in Replicas, NEW r \in Responses, PollTrip(p, r)
      PROVE  CancelsAsked'
  <2>0. r \in asked
    BY <1>30 DEF AskedReplicas, PollTrip
  <2>1. AskedRows'
    BY <1>30 DEF TypeInv, TypeOK, AskedRows, PollTrip
  <2>2. AskedTasks'
    BY <1>30, <2>0, TripAsked DEF TypeInv, TypeOK, AskedTasks, PollTrip
  <2>3. AskedReplicas'
    BY <1>30, <2>0, TripAsked DEF TypeInv, TypeOK, AskedReplicas, PollTrip
  <2> QED
    BY <2>1, <2>2, <2>3
<1>31. ASSUME Reap
      PROVE  CancelsAsked'
  BY <1>31
     DEF TypeInv, TypeOK, AskedRows, AskedTasks, AskedReplicas, Reap,
         Quiet
<1>32. ASSUME Prune
      PROVE  CancelsAsked'
  BY <1>32
     DEF TypeInv, TypeOK, AskedRows, AskedTasks, AskedReplicas, Prune,
         Prunable
<1>33. ASSUME NEW r \in Responses, Age(r)
      PROVE  CancelsAsked'
  BY <1>33 DEF TypeInv, TypeOK, AskedRows, AskedTasks, AskedReplicas, Age
<1>34. ASSUME NEW r \in Responses, Expire(r)
      PROVE  CancelsAsked'
  BY <1>34 DEF TypeInv, TypeOK, AskedRows, AskedTasks, AskedReplicas, Expire
<1>35. ASSUME NEW p \in Replicas, Crash(p)
      PROVE  CancelsAsked'
  BY <1>35 DEF TypeInv, TypeOK, AskedRows, AskedTasks, AskedReplicas, Crash
<1>36. ASSUME NEW p \in Replicas, Restart(p)
      PROVE  CancelsAsked'
  BY <1>36 DEF TypeInv, TypeOK, AskedRows, AskedTasks, AskedReplicas, Restart
<1>37. UNCHANGED vars => CancelsAsked'
  BY DEF TypeInv, TypeOK, AskedRows, AskedTasks, AskedReplicas, vars
<1> QED
  BY <1>1, <1>2, <1>3, <1>4, <1>5, <1>5r, <1>6, <1>7, <1>8, <1>9, <1>10, <1>11,
     <1>12, <1>13, <1>14, <1>15, <1>16, <1>17, <1>18, <1>19, <1>20, <1>21,
     <1>22, <1>23, <1>24, <1>25, <1>26, <1>27, <1>28, <1>29, <1>30, <1>31,
     <1>32, <1>33, <1>34, <1>35, <1>36, <1>37
     DEF Next, WorkerStep, PersisterStep, CancelStep, Finished

\* No response ends as cancelled, and no persister decides that it will, unless
\* a client cancelled that background response: losing the sender in any other
\* way is never mistaken for a cancel.
THEOREM CancelIsAsked == Spec => []CancelledOnlyIfAsked
<1>1. Init => Unclaimed /\ Placed /\ CancelsAsked
  BY LifecycleAssumption
     DEF Init, Unclaimed, Placed, Running, Busy, CancelsAsked, AskedRows,
         AskedTasks, AskedReplicas
<1>2. TypeInv /\ [Next]_vars => TypeInv'
  BY NextTypeInv
<1>3. TypeInv /\ Unclaimed /\ Placed /\ [Next]_vars => Unclaimed' /\ Placed'
  BY NextUnclaimed
<1>4. TypeInv /\ Placed /\ CancelsAsked /\ [Next]_vars => CancelsAsked'
  BY NextCancelsAsked
<1>5. CancelsAsked => CancelledOnlyIfAsked
  BY DEF CancelsAsked, AskedRows, AskedTasks, CancelledOnlyIfAsked
<1> QED
  BY <1>1, <1>2, <1>3, <1>4, <1>5, InitTypeInv, PTL DEF Spec

-----------------------------------------------------------------------------
(* The worker leaves no open row behind.                                    *)

\* Where the worker's task is tells whether its row is settled.  Only a claim
\* and the task's own retry open a row again, so a persister that was first to
\* settle it, or came too late to, leaves it settled for the drain to see.
\* The task only works on background rows, so no handler gives the response a
\* persister after an HTTP error has left it without one.
Settled(r) == status[r] \notin Live

Settling ==
  \A r \in Responses :
    /\ status[r] \in {"none", "queued"} => wpc[r] = "idle"
    /\ status[r] = "queued" \/ wpc[r] # "idle" => background[r]
    /\ wpc[r] = "failwon" => Settled(r)
    /\ wpc[r] = "done" /\ faults = 0 /\ ppc[r][attempt[r]] # "refused"
         => Settled(r)
    /\ wpc[r] = "drain" /\ ppc[r][attempt[r]] \in {"won", "ended"} /\ faults = 0
         => Settled(r)

\* Every step keeps it, also the writes of persisters of earlier attempts.
LEMMA NextSettling ==
  ASSUME TypeInv, Settling
  PROVE  [Next]_vars => Settling'
<1> USE DEF rowVars, workerVars, persistVars, signalVars, seenVars, boundVars,
            Settled
<1>1. ASSUME NEW p \in Replicas, NEW r \in Responses, NEW bg \in BOOLEAN,
             CreateInsert(p, r, bg)
      PROVE  Settling'
  BY <1>1 DEF TypeInv, TypeOK, Settling, CreateInsert, Live
<1>2. ASSUME NEW r \in Responses, CreateRegister(r)
      PROVE  Settling'
  BY <1>2 DEF TypeInv, TypeOK, Settling, CreateRegister
<1>3. ASSUME NEW r \in Responses, NEW kind \in Kinds \ {"background"},
             CreateForeground(r, kind)
      PROVE  Settling'
  <2>1. kind \in {"streaming", "unary"}
    BY <1>3, LifecycleAssumption DEF AllKinds
  <2> QED
    BY <1>3, <2>1 DEF TypeInv, TypeOK, Settling, CreateForeground
<1>4. ASSUME NEW p \in Replicas, NEW r \in Responses, Claim(p, r)
      PROVE  Settling'
  BY <1>4 DEF TypeInv, TypeOK, Settling, Claim, OldestQueued, Live
<1>5. ASSUME NEW r \in Responses, DispatchOk(r)
      PROVE  Settling'
  BY <1>5 DEF TypeInv, TypeOK, Settling, DispatchOk
<1>5r. ASSUME NEW r \in Responses, DispatchRefused(r)
       PROVE  Settling'
  BY <1>5r DEF TypeInv, TypeOK, Settling, DispatchRefused
<1>6. ASSUME NEW r \in Responses, DispatchRejected(r)
      PROVE  Settling'
  BY <1>6 DEF TypeInv, TypeOK, Settling, DispatchRejected
<1>7. ASSUME NEW r \in Responses, DispatchRejectedAfterRegister(r)
      PROVE  Settling'
  BY <1>7 DEF TypeInv, TypeOK, Settling, DispatchRejectedAfterRegister
<1>8. ASSUME NEW r \in Responses, DispatchFailed(r)
      PROVE  Settling'
  BY <1>8 DEF TypeInv, TypeOK, Settling, DispatchFailed, AfterTransient
<1>9. ASSUME NEW r \in Responses, DrainOk(r)
      PROVE  Settling'
  BY <1>9 DEF TypeInv, TypeOK, Settling, DrainOk
<1>10. ASSUME NEW r \in Responses, DrainFailed(r)
      PROVE  Settling'
  BY <1>10 DEF TypeInv, TypeOK, Settling, DrainFailed, AfterTransient
<1>11. ASSUME NEW r \in Responses, RetryBump(r)
      PROVE  Settling'
  BY <1>11 DEF TypeInv, TypeOK, Settling, RetryBump, Stored, Live, Terminal
<1>12. ASSUME NEW r \in Responses, RetryReload(r)
      PROVE  Settling'
  BY <1>12 DEF TypeInv, TypeOK, Settling, RetryReload
<1>13. ASSUME NEW r \in Responses, MarkFailure(r)
      PROVE  Settling'
  BY <1>13
     DEF TypeInv, TypeOK, Settling, MarkFailure, CompleteWithinOrg,
         CompleteMatchedNothing, DbFault, Terminal, Live
<1>14. ASSUME NEW r \in Responses, MarkFailureAnnounce(r)
      PROVE  Settling'
  BY <1>14 DEF TypeInv, TypeOK, Settling, MarkFailureAnnounce
<1>15. ASSUME NEW r \in Responses, NEW k \in Attempts,
             PersisterHeartbeat(r, k)
      PROVE  Settling'
  BY <1>15 DEF TypeInv, TypeOK, Settling, PersisterHeartbeat
<1>16. ASSUME NEW r \in Responses, NEW k \in Attempts,
             PersisterCancelled(r, k)
      PROVE  Settling'
  BY <1>16 DEF TypeInv, TypeOK, Settling, PersisterCancelled
<1>17. ASSUME NEW r \in Responses, NEW k \in Attempts,
             PersisterStreamEnd(r, k)
      PROVE  Settling'
  BY <1>17 DEF TypeInv, TypeOK, Settling, PersisterStreamEnd
<1>18. ASSUME NEW r \in Responses, NEW k \in Attempts,
             PersisterStreamError(r, k)
      PROVE  Settling'
  BY <1>18 DEF TypeInv, TypeOK, Settling, PersisterStreamError
<1>19. ASSUME NEW r \in Responses, NEW k \in Attempts, PersisterComplete(r, k)
      PROVE  Settling'
  <2>1. UNCHANGED <<background, wpc, attempt>> /\ ppc[r][k] = "closing"
    BY <1>19 DEF PersisterComplete
  <2>2. CASE CompleteWithinOrg(r, outcome[r][k]) /\ UNCHANGED faults
    <3>1. outcome[r][k] \in Terminal
      BY DEF TypeInv, TypeOK
    <3>2. status' = [status EXCEPT ![r] = outcome[r][k]]
      BY <2>2 DEF CompleteWithinOrg
    <3>3. \E s \in PersisterStates : ppc' = [ppc EXCEPT ![r][k] = s]
      BY <1>19 DEF PersisterComplete, PersisterStates
    <3> QED
      BY <2>1, <2>2, <3>1, <3>2, <3>3
         DEF TypeInv, TypeOK, Settling, Terminal, Live
  <2>3. CASE CompleteMatchedNothing(r) /\ UNCHANGED faults
    <3>1. status' = status /\ Settled(r)
      BY <2>3 DEF CompleteMatchedNothing
    <3>2. \E s \in PersisterStates : ppc' = [ppc EXCEPT ![r][k] = s]
      BY <1>19 DEF PersisterComplete, PersisterStates
    <3> QED
      BY <2>1, <2>3, <3>1, <3>2 DEF TypeInv, TypeOK, Settling
  <2>4. CASE DbFault /\ UNCHANGED <<status, expired>>
    BY <2>1, <2>4 DEF TypeInv, TypeOK, Settling, DbFault
  <2> QED
    BY <1>19, <2>2, <2>3, <2>4 DEF PersisterComplete
<1>20. ASSUME NEW r \in Responses, NEW k \in Attempts, PersisterAnnounce(r, k)
      PROVE  Settling'
  BY <1>20 DEF TypeInv, TypeOK, Settling, PersisterAnnounce
<1>21. ASSUME NEW r \in Responses, UnaryBody(r)
      PROVE  Settling'
  <2>1. \E s \in {"closing", "errored"} : ppc' = [ppc EXCEPT ![r][1] = s]
    BY <1>21 DEF UnaryBody
  <2>2. UNCHANGED <<status, background, wpc, attempt, faults>>
        /\ ppc[r][1] = "unary"
    BY <1>21 DEF UnaryBody
  <2> QED
    BY <2>1, <2>2 DEF TypeInv, TypeOK, Settling
<1>22. ASSUME NEW p \in Replicas, NEW r \in Responses, CancelRead(p, r)
      PROVE  Settling'
  BY <1>22 DEF TypeInv, TypeOK, Settling, CancelRead, Stored, Live, Terminal
<1>23. ASSUME NEW p \in Replicas, NEW r \in Responses, CancelTrip(p, r)
      PROVE  Settling'
  BY <1>23 DEF TypeInv, TypeOK, Settling, CancelTrip
<1>24. ASSUME NEW p \in Replicas, NEW r \in Responses, CancelComplete(p, r)
      PROVE  Settling'
  BY <1>24
     DEF TypeInv, TypeOK, Settling, CancelComplete, CompleteWithinOrg,
         CompleteMatchedNothing, DbFault, Terminal, Live
<1>25. ASSUME NEW p \in Replicas, NEW r \in Responses, CancelAnnounce(p, r)
      PROVE  Settling'
  BY <1>25 DEF TypeInv, TypeOK, Settling, CancelAnnounce
<1>26. ASSUME NEW p \in Replicas, NEW r \in Responses, CancelLost(p, r)
      PROVE  Settling'
  BY <1>26 DEF TypeInv, TypeOK, Settling, CancelLost
<1>27. ASSUME NEW p \in Replicas, NEW r \in Responses, DeleteRow(p, r)
      PROVE  Settling'
  BY <1>27 DEF TypeInv, TypeOK, Settling, DeleteRow, Stored, Live, Terminal
<1>28. ASSUME NEW p \in Replicas, NEW r \in Responses, DeleteSender(p, r)
      PROVE  Settling'
  BY <1>28 DEF TypeInv, TypeOK, Settling, DeleteSender
<1>29. ASSUME NEW p \in Replicas, PollQuery(p)
      PROVE  Settling'
  BY <1>29 DEF TypeInv, TypeOK, Settling, PollQuery
<1>30. ASSUME NEW p \in Replicas, NEW r \in Responses, PollTrip(p, r)
      PROVE  Settling'
  BY <1>30 DEF TypeInv, TypeOK, Settling, PollTrip
<1>31. ASSUME Reap
      PROVE  Settling'
  BY <1>31 DEF TypeInv, TypeOK, Settling, Reap, Quiet, Live
<1>32. ASSUME Prune
      PROVE  Settling'
  BY <1>32 DEF TypeInv, TypeOK, Settling, Prune, Prunable, Terminal, Live
<1>33. ASSUME NEW r \in Responses, Age(r)
      PROVE  Settling'
  BY <1>33 DEF TypeInv, TypeOK, Settling, Age
<1>34. ASSUME NEW r \in Responses, Expire(r)
      PROVE  Settling'
  BY <1>34 DEF TypeInv, TypeOK, Settling, Expire
<1>35. ASSUME NEW p \in Replicas, Crash(p)
      PROVE  Settling'
  BY <1>35 DEF TypeInv, TypeOK, Settling, Crash, Running, Busy
<1>36. ASSUME NEW p \in Replicas, Restart(p)
      PROVE  Settling'
  BY <1>36 DEF TypeInv, TypeOK, Settling, Restart
<1>37. UNCHANGED vars => Settling'
  BY DEF TypeInv, TypeOK, Settling, vars
<1> QED
  BY <1>1, <1>2, <1>3, <1>4, <1>5, <1>5r, <1>6, <1>7, <1>8, <1>9, <1>10, <1>11,
     <1>12, <1>13, <1>14, <1>15, <1>16, <1>17, <1>18, <1>19, <1>20, <1>21,
     <1>22, <1>23, <1>24, <1>25, <1>26, <1>27, <1>28, <1>29, <1>30, <1>31,
     <1>32, <1>33, <1>34, <1>35, <1>36, <1>37
     DEF Next, WorkerStep, PersisterStep, CancelStep, Finished

\* When run_with_retry is over, after any number of attempts and against any
\* interleaving with cancel, delete and the reaper, its row is settled, unless
\* the database refused a terminal write or the last attempt was answered with
\* an HTTP error, which ends the task without any write.
THEOREM WorkerSettles == Spec => []WorkerDoneMeansSettled
<1>1. Init => Settling
  BY DEF Init, Settling
<1>2. TypeInv /\ [Next]_vars => TypeInv'
  BY NextTypeInv
<1>3. TypeInv /\ Settling /\ [Next]_vars => Settling'
  BY NextSettling
<1>4. Settling => WorkerDoneMeansSettled
  BY DEF Settling, Settled, WorkerDoneMeansSettled
<1> QED
  BY <1>1, <1>2, <1>3, <1>4, InitTypeInv, PTL DEF Spec
=============================================================================
