----------------------- MODULE ResponseContract_proofs ------------------------
(***************************************************************************)
(* With the retry loop disabled (max_attempts = 1) a stored response keeps *)
(* the contract of ResponseContract: proofs that ResponseLifecycle         *)
(* implements it, and that cancel() answers with settled responses.        *)
(*                                                                         *)
(* The argument: only run_with_retry opens a settled row again, so with    *)
(* one attempt a row is settled once, by one writer.  That writer alone    *)
(* announces the row, before anybody else could have.                      *)
(***************************************************************************)
EXTENDS ResponseLifecycle_proofs

-----------------------------------------------------------------------------
(* The inductive invariant.                                                 *)

\* No cancel() that settled r has still to announce it.
NoCanceller(r) == \A p \in Replicas : cpc[p][r] # "won"

\* The writer that settled a row, until it announces it, is the only one, its
\* status is the row's unless the row is gone, and no webhook was sent yet.
OneWinner ==
  \A r \in Responses :
    /\ status[r] \in {"none", "queued", "in_progress"} =>
         /\ hooks[r] = <<>>
         /\ wpc[r] # "failwon" /\ ppc[r][1] # "won" /\ NoCanceller(r)
    /\ wpc[r] = "failwon" =>
         /\ hooks[r] = <<>> /\ status[r] \in {"failed", "deleted"}
         /\ ppc[r][1] # "won" /\ NoCanceller(r)
    /\ ppc[r][1] = "won" =>
         /\ hooks[r] = <<>> /\ status[r] \in {outcome[r][1], "deleted"}
         /\ NoCanceller(r)
    /\ \A p \in Replicas : cpc[p][r] = "won" =>
         /\ hooks[r] = <<>> /\ status[r] \in {"cancelled", "deleted"}
         /\ \A q \in Replicas : cpc[q][r] = "won" => q = p

\* A cancel() in progress is about a row that was there, and one that lost the
\* race lost it to a writer whose status stays.
Answered ==
  \A r \in Responses :
    /\ answers[r] \subseteq Terminal
    /\ \A p \in Replicas :
         /\ cpc[p][r] # "idle" => status[r] # "none"
         /\ cpc[p][r] = "lost" => status[r] \notin Live

\* With one attempt, run_with_retry never waits for another one.
LEMMA NoRetry ==
  ASSUME MaxAttempts = 1, TypeInv
  PROVE  /\ \A r \in Responses : wpc[r] \notin {"backoff", "reload"}
         /\ \A k \in Attempts : k = 1
<1>1. ASSUME NEW r \in Responses PROVE wpc[r] \notin {"backoff", "reload"}
  BY DEF TypeInv, TypeOK, RetriesLeft, Attempts
<1>2. \A k \in Attempts : k = 1
  BY DEF Attempts
<1> QED
  BY <1>1, <1>2

\* Every step keeps what cancel() knows of its row.
LEMMA NextAnswered ==
  ASSUME MaxAttempts = 1, TypeInv, Answered
  PROVE  [Next]_vars => Answered'
<1> USE DEF rowVars, workerVars, persistVars, signalVars, seenVars, boundVars
<1>1. ASSUME NEW p \in Replicas, NEW r \in Responses, NEW bg \in BOOLEAN,
             CreateInsert(p, r, bg)
      PROVE  Answered'
  BY <1>1
     DEF TypeInv, TypeOK, Answered, CreateInsert, Live, Terminal, Statuses,
         CancelStates
<1>2. ASSUME NEW r \in Responses, CreateRegister(r)
      PROVE  Answered'
  BY <1>2
     DEF TypeInv, TypeOK, Answered, CreateRegister, Live, Terminal, Statuses,
         CancelStates
<1>3. ASSUME NEW r \in Responses, NEW kind \in Kinds \ {"background"},
             CreateForeground(r, kind)
      PROVE  Answered'
  BY <1>3
     DEF TypeInv, TypeOK, Answered, CreateForeground, Live, Terminal, Statuses,
         CancelStates
<1>4. ASSUME NEW p \in Replicas, NEW r \in Responses, Claim(p, r)
      PROVE  Answered'
  BY <1>4
     DEF TypeInv, TypeOK, Answered, Claim, OldestQueued, Live, Terminal,
         Statuses, CancelStates
<1>5. ASSUME NEW r \in Responses, DispatchOk(r)
      PROVE  Answered'
  BY <1>5
     DEF TypeInv, TypeOK, Answered, DispatchOk, Live, Terminal, Statuses,
         CancelStates
<1>5r. ASSUME NEW r \in Responses, DispatchRefused(r)
       PROVE  Answered'
  BY <1>5r
     DEF TypeInv, TypeOK, Answered, DispatchRefused, Live, Terminal, Statuses,
         CancelStates
<1>6. ASSUME NEW r \in Responses, DispatchRejected(r)
      PROVE  Answered'
  BY <1>6
     DEF TypeInv, TypeOK, Answered, DispatchRejected, Live, Terminal, Statuses,
         CancelStates
<1>7. ASSUME NEW r \in Responses, DispatchRejectedAfterRegister(r)
      PROVE  Answered'
  BY <1>7
     DEF TypeInv, TypeOK, Answered, DispatchRejectedAfterRegister, Live,
         Terminal, Statuses, CancelStates
<1>8. ASSUME NEW r \in Responses, DispatchFailed(r)
      PROVE  Answered'
  BY <1>8
     DEF TypeInv, TypeOK, Answered, DispatchFailed, AfterTransient, Live,
         Terminal, Statuses, CancelStates
<1>9. ASSUME NEW r \in Responses, DrainOk(r)
      PROVE  Answered'
  BY <1>9
     DEF TypeInv, TypeOK, Answered, DrainOk, Live, Terminal, Statuses,
         CancelStates
<1>10. ASSUME NEW r \in Responses, DrainFailed(r)
      PROVE  Answered'
  BY <1>10
     DEF TypeInv, TypeOK, Answered, DrainFailed, AfterTransient, Live,
         Terminal, Statuses, CancelStates
<1>11. ASSUME NEW r \in Responses, RetryBump(r)
      PROVE  Answered'
  BY <1>11, NoRetry DEF RetryBump
<1>12. ASSUME NEW r \in Responses, RetryReload(r)
      PROVE  Answered'
  BY <1>12, NoRetry DEF RetryReload
<1>13. ASSUME NEW r \in Responses, MarkFailure(r)
      PROVE  Answered'
  BY <1>13
     DEF TypeInv, TypeOK, Answered, MarkFailure, CompleteWithinOrg,
         CompleteMatchedNothing, DbFault, Live, Terminal, Statuses,
         CancelStates
<1>14. ASSUME NEW r \in Responses, MarkFailureAnnounce(r)
      PROVE  Answered'
  BY <1>14
     DEF TypeInv, TypeOK, Answered, MarkFailureAnnounce, AnnounceTerminal,
         Live, Terminal, Statuses, CancelStates
<1>15. ASSUME NEW r \in Responses, NEW k \in Attempts,
             PersisterHeartbeat(r, k)
      PROVE  Answered'
  BY <1>15
     DEF TypeInv, TypeOK, Answered, PersisterHeartbeat, Live, Terminal,
         Statuses, CancelStates
<1>16. ASSUME NEW r \in Responses, NEW k \in Attempts,
             PersisterCancelled(r, k)
      PROVE  Answered'
  BY <1>16
     DEF TypeInv, TypeOK, Answered, PersisterCancelled, Live, Terminal,
         Statuses, CancelStates
<1>17. ASSUME NEW r \in Responses, NEW k \in Attempts,
             PersisterStreamEnd(r, k)
      PROVE  Answered'
  BY <1>17
     DEF TypeInv, TypeOK, Answered, PersisterStreamEnd, Live, Terminal,
         Statuses, CancelStates
<1>18. ASSUME NEW r \in Responses, NEW k \in Attempts,
             PersisterStreamError(r, k)
      PROVE  Answered'
  BY <1>18
     DEF TypeInv, TypeOK, Answered, PersisterStreamError, Live, Terminal,
         Statuses, CancelStates
<1>19. ASSUME NEW r \in Responses, NEW k \in Attempts,
             PersisterComplete(r, k)
      PROVE  Answered'
  <2>1. UNCHANGED <<cpc, answers>>
    BY <1>19 DEF PersisterComplete
  <2>2. outcome[r][k] \in Terminal
    BY DEF TypeInv, TypeOK
  <2>3. \/ status' = status
        \/ status' = [status EXCEPT ![r] = outcome[r][k]]
    BY <1>19 DEF PersisterComplete, CompleteWithinOrg, CompleteMatchedNothing
  <2> QED
    BY <2>1, <2>2, <2>3 DEF TypeInv, TypeOK, Answered, Live, Terminal
<1>20. ASSUME NEW r \in Responses, NEW k \in Attempts,
             PersisterAnnounce(r, k)
      PROVE  Answered'
  BY <1>20
     DEF TypeInv, TypeOK, Answered, PersisterAnnounce, Live, Terminal,
         Statuses, CancelStates
<1>21. ASSUME NEW r \in Responses, UnaryBody(r)
      PROVE  Answered'
  BY <1>21
     DEF TypeInv, TypeOK, Answered, UnaryBody, Live, Terminal, Statuses,
         CancelStates
<1>22. ASSUME NEW p \in Replicas, NEW r \in Responses, CancelRead(p, r)
      PROVE  Answered'
  <2>1. status' = status /\ status[r] # "none"
    BY <1>22 DEF CancelRead, Stored, Live, Terminal
  <2>2. CASE status[r] \in Terminal
    <3>1. cpc' = cpc /\ answers' = [answers EXCEPT ![r] = answers[r] \cup {status[r]}]
      BY <1>22, <2>2 DEF CancelRead
    <3> QED
      BY <2>1, <2>2, <3>1 DEF TypeInv, TypeOK, Answered
  <2>3. CASE status[r] \notin Terminal
    <3>1. cpc' = [cpc EXCEPT ![p][r] = "trip"] /\ answers' = answers
      BY <1>22, <2>3 DEF CancelRead
    <3> QED
      BY <2>1, <3>1 DEF TypeInv, TypeOK, Answered
  <2> QED
    BY <2>2, <2>3
<1>23. ASSUME NEW p \in Replicas, NEW r \in Responses, CancelTrip(p, r)
      PROVE  Answered'
  BY <1>23
     DEF TypeInv, TypeOK, Answered, CancelTrip, Live, Terminal, Statuses,
         CancelStates
<1>24. ASSUME NEW p \in Replicas, NEW r \in Responses, CancelComplete(p, r)
      PROVE  Answered'
  <2>1. answers' = answers /\ status[r] # "none"
    BY <1>24 DEF CancelComplete, Answered
  <2>2. CASE CompleteWithinOrg(r, "cancelled")
    <3>1. /\ status' = [status EXCEPT ![r] = "cancelled"]
          /\ \E s \in {"idle", "won", "lost"} :
               cpc' = [cpc EXCEPT ![p][r] = s]
      BY <1>24, <2>2 DEF CancelComplete, CompleteWithinOrg
    <3> QED
      BY <2>1, <3>1 DEF TypeInv, TypeOK, Answered, Live
  <2>3. CASE CompleteMatchedNothing(r) /\ cpc' = [cpc EXCEPT ![p][r] = "lost"]
    BY <2>1, <2>3 DEF TypeInv, TypeOK, Answered, CompleteMatchedNothing
  <2>4. CASE status' = status /\ cpc' = [cpc EXCEPT ![p][r] = "idle"]
    BY <2>1, <2>4 DEF TypeInv, TypeOK, Answered
  <2> QED
    BY <1>24, <2>2, <2>3, <2>4 DEF CancelComplete
<1>25. ASSUME NEW p \in Replicas, NEW r \in Responses, CancelAnnounce(p, r)
      PROVE  Answered'
  BY <1>25
     DEF TypeInv, TypeOK, Answered, CancelAnnounce, AnnounceTerminal, Live,
         Terminal, Statuses, CancelStates
<1>26. ASSUME NEW p \in Replicas, NEW r \in Responses, CancelLost(p, r)
      PROVE  Answered'
  BY <1>26
     DEF TypeInv, TypeOK, Answered, CancelLost, Stored, Live, Terminal,
         Statuses, CancelStates
<1>27. ASSUME NEW p \in Replicas, NEW r \in Responses, DeleteRow(p, r)
      PROVE  Answered'
  BY <1>27
     DEF TypeInv, TypeOK, Answered, DeleteRow, Stored, Live, Terminal,
         Statuses, CancelStates
<1>28. ASSUME NEW p \in Replicas, NEW r \in Responses, DeleteSender(p, r)
      PROVE  Answered'
  BY <1>28
     DEF TypeInv, TypeOK, Answered, DeleteSender, Live, Terminal, Statuses,
         CancelStates
<1>29. ASSUME NEW p \in Replicas, PollQuery(p)
      PROVE  Answered'
  BY <1>29
     DEF TypeInv, TypeOK, Answered, PollQuery, Live, Terminal, Statuses,
         CancelStates
<1>30. ASSUME NEW p \in Replicas, NEW r \in Responses, PollTrip(p, r)
      PROVE  Answered'
  BY <1>30
     DEF TypeInv, TypeOK, Answered, PollTrip, Live, Terminal, Statuses,
         CancelStates
<1>31. ASSUME Reap
      PROVE  Answered'
  BY <1>31
     DEF TypeInv, TypeOK, Answered, Reap, Quiet, Live, Terminal, Statuses,
         CancelStates
<1>32. ASSUME Prune
      PROVE  Answered'
  BY <1>32
     DEF TypeInv, TypeOK, Answered, Prune, Prunable, Live, Terminal, Statuses,
         CancelStates
<1>33. ASSUME NEW r \in Responses, Age(r)
      PROVE  Answered'
  BY <1>33
     DEF TypeInv, TypeOK, Answered, Age, Live, Terminal, Statuses, CancelStates
<1>34. ASSUME NEW r \in Responses, Expire(r)
      PROVE  Answered'
  BY <1>34
     DEF TypeInv, TypeOK, Answered, Expire, Live, Terminal, Statuses,
         CancelStates
<1>35. ASSUME NEW p \in Replicas, Crash(p)
      PROVE  Answered'
  BY <1>35
     DEF TypeInv, TypeOK, Answered, Crash, Running, Busy, Live, Terminal,
         Statuses, CancelStates
<1>36. ASSUME NEW p \in Replicas, Restart(p)
      PROVE  Answered'
  BY <1>36
     DEF TypeInv, TypeOK, Answered, Restart, Live, Terminal, Statuses,
         CancelStates
<1>37. UNCHANGED vars => Answered'
  BY DEF TypeInv, TypeOK, Answered, vars
<1> QED
  BY <1>1, <1>2, <1>3, <1>4, <1>5, <1>5r, <1>6, <1>7, <1>8, <1>9, <1>10, <1>11, <1>12,
     <1>13, <1>14, <1>15, <1>16, <1>17, <1>18, <1>19, <1>20, <1>21, <1>22,
     <1>23, <1>24, <1>25, <1>26, <1>27, <1>28, <1>29, <1>30, <1>31, <1>32,
     <1>33, <1>34, <1>35, <1>36, <1>37
     DEF Next, WorkerStep, PersisterStep, CancelStep, Finished

\* Every step keeps the winner alone.
LEMMA NextOneWinner ==
  ASSUME MaxAttempts = 1, TypeInv, OneWinner
  PROVE  [Next]_vars => OneWinner'
<1> USE DEF rowVars, workerVars, persistVars, signalVars, seenVars, boundVars
<1>1. ASSUME NEW p \in Replicas, NEW r \in Responses, NEW bg \in BOOLEAN,
             CreateInsert(p, r, bg)
      PROVE  OneWinner'
  BY <1>1, NoRetry
     DEF TypeInv, TypeOK, OneWinner, NoCanceller, CreateInsert, Live, Terminal
<1>2. ASSUME NEW r \in Responses, CreateRegister(r)
      PROVE  OneWinner'
  BY <1>2, NoRetry
     DEF TypeInv, TypeOK, OneWinner, NoCanceller, CreateRegister, Live,
         Terminal
<1>3. ASSUME NEW r \in Responses, NEW kind \in Kinds \ {"background"},
             CreateForeground(r, kind)
      PROVE  OneWinner'
  <2>1. kind \in {"streaming", "unary"}
    BY <1>3, LifecycleAssumption DEF AllKinds
  <2>2. UNCHANGED <<status, hooks, wpc, outcome, cpc>>
    BY <1>3 DEF CreateForeground
  <2>3. ppc' = [ppc EXCEPT ![r][1] = kind] /\ 1 \in Attempts
    BY <1>3 DEF CreateForeground, Attempts
  <2> QED
    BY <2>1, <2>2, <2>3 DEF TypeInv, TypeOK, OneWinner, NoCanceller
<1>4. ASSUME NEW p \in Replicas, NEW r \in Responses, Claim(p, r)
      PROVE  OneWinner'
  BY <1>4, NoRetry
     DEF TypeInv, TypeOK, OneWinner, NoCanceller, Claim, OldestQueued, Live,
         Terminal
<1>5. ASSUME NEW r \in Responses, DispatchOk(r)
      PROVE  OneWinner'
  BY <1>5, NoRetry
     DEF TypeInv, TypeOK, OneWinner, NoCanceller, DispatchOk, Live, Terminal
<1>5r. ASSUME NEW r \in Responses, DispatchRefused(r)
       PROVE  OneWinner'
  BY <1>5r, NoRetry
     DEF TypeInv, TypeOK, OneWinner, NoCanceller, DispatchRefused, Live, Terminal
<1>6. ASSUME NEW r \in Responses, DispatchRejected(r)
      PROVE  OneWinner'
  BY <1>6, NoRetry
     DEF TypeInv, TypeOK, OneWinner, NoCanceller, DispatchRejected, Live,
         Terminal
<1>7. ASSUME NEW r \in Responses, DispatchRejectedAfterRegister(r)
      PROVE  OneWinner'
  BY <1>7, NoRetry
     DEF TypeInv, TypeOK, OneWinner, NoCanceller,
         DispatchRejectedAfterRegister, Live, Terminal
<1>8. ASSUME NEW r \in Responses, DispatchFailed(r)
      PROVE  OneWinner'
  BY <1>8, NoRetry
     DEF TypeInv, TypeOK, OneWinner, NoCanceller, DispatchFailed,
         AfterTransient, Live, Terminal
<1>9. ASSUME NEW r \in Responses, DrainOk(r)
      PROVE  OneWinner'
  BY <1>9, NoRetry
     DEF TypeInv, TypeOK, OneWinner, NoCanceller, DrainOk, Live, Terminal
<1>10. ASSUME NEW r \in Responses, DrainFailed(r)
      PROVE  OneWinner'
  BY <1>10, NoRetry
     DEF TypeInv, TypeOK, OneWinner, NoCanceller, DrainFailed, AfterTransient,
         Live, Terminal
<1>11. ASSUME NEW r \in Responses, RetryBump(r)
      PROVE  OneWinner'
  BY <1>11, NoRetry DEF RetryBump
<1>12. ASSUME NEW r \in Responses, RetryReload(r)
      PROVE  OneWinner'
  BY <1>12, NoRetry DEF RetryReload
<1>13. ASSUME NEW r \in Responses, MarkFailure(r)
      PROVE  OneWinner'
  BY <1>13, NoRetry
     DEF TypeInv, TypeOK, OneWinner, NoCanceller, MarkFailure,
         CompleteWithinOrg, CompleteMatchedNothing, DbFault, Live, Terminal
<1>14. ASSUME NEW r \in Responses, MarkFailureAnnounce(r)
      PROVE  OneWinner'
  BY <1>14, NoRetry
     DEF TypeInv, TypeOK, OneWinner, NoCanceller, MarkFailureAnnounce,
         AnnounceTerminal, Live, Terminal
<1>15. ASSUME NEW r \in Responses, NEW k \in Attempts,
             PersisterHeartbeat(r, k)
      PROVE  OneWinner'
  BY <1>15, NoRetry
     DEF TypeInv, TypeOK, OneWinner, NoCanceller, PersisterHeartbeat, Live,
         Terminal
<1>16. ASSUME NEW r \in Responses, NEW k \in Attempts,
             PersisterCancelled(r, k)
      PROVE  OneWinner'
  BY <1>16, NoRetry
     DEF TypeInv, TypeOK, OneWinner, NoCanceller, PersisterCancelled, Live,
         Terminal
<1>17. ASSUME NEW r \in Responses, NEW k \in Attempts,
             PersisterStreamEnd(r, k)
      PROVE  OneWinner'
  BY <1>17, NoRetry
     DEF TypeInv, TypeOK, OneWinner, NoCanceller, PersisterStreamEnd, Live,
         Terminal
<1>18. ASSUME NEW r \in Responses, NEW k \in Attempts,
             PersisterStreamError(r, k)
      PROVE  OneWinner'
  BY <1>18, NoRetry
     DEF TypeInv, TypeOK, OneWinner, NoCanceller, PersisterStreamError, Live,
         Terminal
<1>19. ASSUME NEW r \in Responses, NEW k \in Attempts,
             PersisterComplete(r, k)
      PROVE  OneWinner'
  <2>1. UNCHANGED <<hooks, wpc, outcome, cpc>> /\ k = 1 /\ ppc[r][1] # "won"
    BY <1>19, NoRetry DEF PersisterComplete
  <2>2. CASE CompleteWithinOrg(r, outcome[r][k]) /\ ppc' = [ppc EXCEPT ![r][k] = "won"]
    <3>1. /\ status[r] \in {"queued", "in_progress"}
          /\ status' = [status EXCEPT ![r] = outcome[r][1]]
          /\ ppc' = [ppc EXCEPT ![r][1] = "won"]
      BY <2>1, <2>2 DEF CompleteWithinOrg, Live
    <3>2. outcome[r][1] \in Terminal
      BY <2>1 DEF TypeInv, TypeOK
    <3> QED
      BY <2>1, <3>1, <3>2 DEF TypeInv, TypeOK, OneWinner, NoCanceller, Terminal
  <2>3. CASE status' = status /\ ppc' = [ppc EXCEPT ![r][k] = "ended"]
    BY <2>1, <2>3 DEF TypeInv, TypeOK, OneWinner, NoCanceller
  <2> QED
    BY <1>19, <2>2, <2>3 DEF PersisterComplete, CompleteMatchedNothing
<1>20. ASSUME NEW r \in Responses, NEW k \in Attempts,
             PersisterAnnounce(r, k)
      PROVE  OneWinner'
  <2>1. UNCHANGED <<status, wpc, outcome, cpc>> /\ k = 1 /\ ppc[r][1] = "won"
    BY <1>20, NoRetry DEF PersisterAnnounce
  <2>2. /\ ppc' = [ppc EXCEPT ![r][1] = "ended"]
        /\ hooks' = [hooks EXCEPT ![r] = Append(@, outcome[r][1])]
    BY <1>20, <2>1 DEF PersisterAnnounce
  <2>3. /\ status[r] \notin {"none", "queued", "in_progress"}
        /\ wpc[r] # "failwon" /\ NoCanceller(r)
    BY <2>1 DEF OneWinner
  <2> QED
    BY <2>1, <2>2, <2>3 DEF TypeInv, TypeOK, OneWinner, NoCanceller
<1>21. ASSUME NEW r \in Responses, UnaryBody(r)
      PROVE  OneWinner'
  <2>1. /\ \E s \in {"closing", "errored"} : ppc' = [ppc EXCEPT ![r][1] = s]
        /\ 1 \in Attempts
    BY <1>21 DEF UnaryBody, Attempts
  <2>2. UNCHANGED <<status, hooks, wpc, cpc>>
    BY <1>21 DEF UnaryBody
  <2>3. ppc[r][1] = "unary" /\ \A q \in Responses : q # r => outcome'[q] = outcome[q]
    BY <1>21 DEF UnaryBody, TypeInv, TypeOK
  <2> QED
    BY <2>1, <2>2, <2>3 DEF TypeInv, TypeOK, OneWinner, NoCanceller
<1>22. ASSUME NEW p \in Replicas, NEW r \in Responses, CancelRead(p, r)
      PROVE  OneWinner'
  <2>1. UNCHANGED <<status, hooks, wpc, ppc, outcome>>
    BY <1>22 DEF CancelRead
  <2>2. \/ cpc' = cpc
        \/ cpc[p][r] # "won" /\ cpc' = [cpc EXCEPT ![p][r] = "trip"]
    BY <1>22 DEF CancelRead
  <2>3. CASE cpc' = cpc
    BY <2>1, <2>3 DEF TypeInv, TypeOK, OneWinner, NoCanceller
  <2>4. CASE cpc' = [cpc EXCEPT ![p][r] = "trip"]
    <3>1. \A q \in Replicas : \A x \in Responses :
            cpc'[q][x] = "won" => cpc[q][x] = "won"
      BY <2>4 DEF TypeInv, TypeOK
    <3> QED
      BY <2>1, <3>1 DEF OneWinner, NoCanceller
  <2> QED
    BY <2>2, <2>3, <2>4
<1>23. ASSUME NEW p \in Replicas, NEW r \in Responses, CancelTrip(p, r)
      PROVE  OneWinner'
  BY <1>23, NoRetry
     DEF TypeInv, TypeOK, OneWinner, NoCanceller, CancelTrip, Live, Terminal
<1>24. ASSUME NEW p \in Replicas, NEW r \in Responses, CancelComplete(p, r)
      PROVE  OneWinner'
  <2>1. UNCHANGED <<hooks, wpc, ppc, outcome>>
    BY <1>24 DEF CancelComplete
  <2>2. CASE CompleteWithinOrg(r, "cancelled") /\ cpc' = [cpc EXCEPT ![p][r] = "won"]
    <3>1. /\ status[r] \in {"queued", "in_progress"}
          /\ status' = [status EXCEPT ![r] = "cancelled"]
      BY <2>2 DEF CompleteWithinOrg, Live
    <3> QED
      BY <2>1, <2>2, <3>1 DEF TypeInv, TypeOK, OneWinner, NoCanceller
  <2>3. CASE status' = status /\ \E s \in {"lost", "idle"} : cpc' = [cpc EXCEPT ![p][r] = s]
    BY <2>1, <2>3 DEF TypeInv, TypeOK, OneWinner, NoCanceller
  <2> QED
    BY <1>24, <2>2, <2>3 DEF CancelComplete, CompleteMatchedNothing
<1>25. ASSUME NEW p \in Replicas, NEW r \in Responses, CancelAnnounce(p, r)
      PROVE  OneWinner'
  BY <1>25, NoRetry
     DEF TypeInv, TypeOK, OneWinner, NoCanceller, CancelAnnounce,
         AnnounceTerminal, Live, Terminal
<1>26. ASSUME NEW p \in Replicas, NEW r \in Responses, CancelLost(p, r)
      PROVE  OneWinner'
  <2>1. UNCHANGED <<status, hooks, wpc, ppc, outcome>>
    BY <1>26 DEF CancelLost
  <2>2. \/ cpc' = cpc
        \/ cpc[p][r] # "won" /\ cpc' = [cpc EXCEPT ![p][r] = "idle"]
    BY <1>26 DEF CancelLost
  <2>3. CASE cpc' = cpc
    BY <2>1, <2>3 DEF TypeInv, TypeOK, OneWinner, NoCanceller
  <2>4. CASE cpc' = [cpc EXCEPT ![p][r] = "idle"]
    <3>1. \A q \in Replicas : \A x \in Responses :
            cpc'[q][x] = "won" => cpc[q][x] = "won"
      BY <2>4 DEF TypeInv, TypeOK
    <3> QED
      BY <2>1, <3>1 DEF OneWinner, NoCanceller
  <2> QED
    BY <2>2, <2>3, <2>4
<1>27. ASSUME NEW p \in Replicas, NEW r \in Responses, DeleteRow(p, r)
      PROVE  OneWinner'
  BY <1>27, NoRetry
     DEF TypeInv, TypeOK, OneWinner, NoCanceller, DeleteRow, Stored, Live,
         Terminal
<1>28. ASSUME NEW p \in Replicas, NEW r \in Responses, DeleteSender(p, r)
      PROVE  OneWinner'
  BY <1>28, NoRetry
     DEF TypeInv, TypeOK, OneWinner, NoCanceller, DeleteSender, Live, Terminal
<1>29. ASSUME NEW p \in Replicas, PollQuery(p)
      PROVE  OneWinner'
  BY <1>29, NoRetry
     DEF TypeInv, TypeOK, OneWinner, NoCanceller, PollQuery, Live, Terminal
<1>30. ASSUME NEW p \in Replicas, NEW r \in Responses, PollTrip(p, r)
      PROVE  OneWinner'
  BY <1>30, NoRetry
     DEF TypeInv, TypeOK, OneWinner, NoCanceller, PollTrip, Live, Terminal
<1>31. ASSUME Reap
      PROVE  OneWinner'
  BY <1>31, NoRetry
     DEF TypeInv, TypeOK, OneWinner, NoCanceller, Reap, Quiet, Live, Terminal
<1>32. ASSUME Prune
      PROVE  OneWinner'
  BY <1>32, NoRetry
     DEF TypeInv, TypeOK, OneWinner, NoCanceller, Prune, Prunable, Live,
         Terminal
<1>33. ASSUME NEW r \in Responses, Age(r)
      PROVE  OneWinner'
  BY <1>33, NoRetry
     DEF TypeInv, TypeOK, OneWinner, NoCanceller, Age, Live, Terminal
<1>34. ASSUME NEW r \in Responses, Expire(r)
      PROVE  OneWinner'
  BY <1>34, NoRetry
     DEF TypeInv, TypeOK, OneWinner, NoCanceller, Expire, Live, Terminal
<1>35. ASSUME NEW p \in Replicas, Crash(p)
      PROVE  OneWinner'
  BY <1>35, NoRetry
     DEF TypeInv, TypeOK, OneWinner, NoCanceller, Crash, Running, Busy, Live,
         Terminal
<1>36. ASSUME NEW p \in Replicas, Restart(p)
      PROVE  OneWinner'
  BY <1>36, NoRetry
     DEF TypeInv, TypeOK, OneWinner, NoCanceller, Restart, Live, Terminal
<1>37. UNCHANGED vars => OneWinner'
  BY DEF TypeInv, TypeOK, OneWinner, NoCanceller, vars
<1> QED
  BY <1>1, <1>2, <1>3, <1>4, <1>5, <1>5r, <1>6, <1>7, <1>8, <1>9, <1>10, <1>11, <1>12,
     <1>13, <1>14, <1>15, <1>16, <1>17, <1>18, <1>19, <1>20, <1>21, <1>22,
     <1>23, <1>24, <1>25, <1>26, <1>27, <1>28, <1>29, <1>30, <1>31, <1>32,
     <1>33, <1>34, <1>35, <1>36, <1>37
     DEF Next, WorkerStep, PersisterStep, CancelStep, Finished

-----------------------------------------------------------------------------
(* The refinement.                                                          *)

\* What one statement of the database may do to a row: insert it, claim or
\* settle it, or remove it.
MovesRow(old, new) ==
  \/ new = old
  \/ old = "none" /\ new \in Live
  \/ old \in Live /\ new \in Live \cup Terminal
  \/ old \in Live \cup Terminal /\ new = "deleted"

MovesRows ==
  /\ hooks' = hooks
  /\ \A r \in Responses : MovesRow(status[r], status'[r])

\* What one call of the webhook dispatcher may do: the first for its row, with
\* the row's status.
AnnouncesRow ==
  /\ status' = status
  /\ \E r \in Responses, s \in Terminal :
       /\ status[r] \in {s, "deleted"}
       /\ hooks[r] = <<>>
       /\ hooks' = [hooks EXCEPT ![r] = <<s>>]

\* Every step moves rows or announces one.
LEMMA NextMovesRows ==
  ASSUME MaxAttempts = 1, TypeInv, OneWinner
  PROVE  [Next]_vars => MovesRows \/ AnnouncesRow
<1> USE DEF rowVars, workerVars, persistVars, signalVars, seenVars, boundVars
<1>1. ASSUME NEW p \in Replicas, NEW r \in Responses, NEW bg \in BOOLEAN,
             CreateInsert(p, r, bg)
      PROVE  MovesRows \/ AnnouncesRow
  BY <1>1
     DEF TypeInv, TypeOK, MovesRows, MovesRow, CreateInsert, Live, Terminal
<1>2. ASSUME NEW r \in Responses, CreateRegister(r)
      PROVE  MovesRows \/ AnnouncesRow
  BY <1>2
     DEF TypeInv, TypeOK, MovesRows, MovesRow, CreateRegister, Live, Terminal
<1>3. ASSUME NEW r \in Responses, NEW kind \in Kinds \ {"background"},
             CreateForeground(r, kind)
      PROVE  MovesRows \/ AnnouncesRow
  BY <1>3
     DEF TypeInv, TypeOK, MovesRows, MovesRow, CreateForeground, Live, Terminal
<1>4. ASSUME NEW p \in Replicas, NEW r \in Responses, Claim(p, r)
      PROVE  MovesRows \/ AnnouncesRow
  BY <1>4
     DEF TypeInv, TypeOK, MovesRows, MovesRow, Claim, OldestQueued, Live,
         Terminal
<1>5. ASSUME NEW r \in Responses, DispatchOk(r)
      PROVE  MovesRows \/ AnnouncesRow
  BY <1>5
     DEF TypeInv, TypeOK, MovesRows, MovesRow, DispatchOk, Live, Terminal
<1>5r. ASSUME NEW r \in Responses, DispatchRefused(r)
       PROVE  MovesRows \/ AnnouncesRow
  BY <1>5r
     DEF TypeInv, TypeOK, MovesRows, MovesRow, DispatchRefused, Live, Terminal
<1>6. ASSUME NEW r \in Responses, DispatchRejected(r)
      PROVE  MovesRows \/ AnnouncesRow
  BY <1>6
     DEF TypeInv, TypeOK, MovesRows, MovesRow, DispatchRejected, Live, Terminal
<1>7. ASSUME NEW r \in Responses, DispatchRejectedAfterRegister(r)
      PROVE  MovesRows \/ AnnouncesRow
  BY <1>7
     DEF TypeInv, TypeOK, MovesRows, MovesRow, DispatchRejectedAfterRegister,
         Live, Terminal
<1>8. ASSUME NEW r \in Responses, DispatchFailed(r)
      PROVE  MovesRows \/ AnnouncesRow
  BY <1>8
     DEF TypeInv, TypeOK, MovesRows, MovesRow, DispatchFailed, AfterTransient,
         Live, Terminal
<1>9. ASSUME NEW r \in Responses, DrainOk(r)
      PROVE  MovesRows \/ AnnouncesRow
  BY <1>9
     DEF TypeInv, TypeOK, MovesRows, MovesRow, DrainOk, Live, Terminal
<1>10. ASSUME NEW r \in Responses, DrainFailed(r)
      PROVE  MovesRows \/ AnnouncesRow
  BY <1>10
     DEF TypeInv, TypeOK, MovesRows, MovesRow, DrainFailed, AfterTransient,
         Live, Terminal
<1>11. ASSUME NEW r \in Responses, RetryBump(r)
      PROVE  MovesRows \/ AnnouncesRow
  BY <1>11, NoRetry DEF RetryBump
<1>12. ASSUME NEW r \in Responses, RetryReload(r)
      PROVE  MovesRows \/ AnnouncesRow
  BY <1>12, NoRetry DEF RetryReload
<1>13. ASSUME NEW r \in Responses, MarkFailure(r)
      PROVE  MovesRows \/ AnnouncesRow
  BY <1>13
     DEF TypeInv, TypeOK, MovesRows, MovesRow, MarkFailure, CompleteWithinOrg,
         CompleteMatchedNothing, DbFault, Live, Terminal
<1>14. ASSUME NEW r \in Responses, MarkFailureAnnounce(r)
      PROVE  MovesRows \/ AnnouncesRow
  <2>1. /\ hooks[r] = <<>> /\ status[r] \in {"failed", "deleted"}
        /\ status' = status
        /\ hooks' = [hooks EXCEPT ![r] = Append(hooks[r], "failed")]
    BY <1>14 DEF MarkFailureAnnounce, OneWinner, AnnounceTerminal
  <2>2. Append(<<>>, "failed") = <<"failed">> /\ "failed" \in Terminal
    BY DEF Terminal
  <2> QED
    BY <2>1, <2>2 DEF AnnouncesRow
<1>15. ASSUME NEW r \in Responses, NEW k \in Attempts,
             PersisterHeartbeat(r, k)
      PROVE  MovesRows \/ AnnouncesRow
  BY <1>15
     DEF TypeInv, TypeOK, MovesRows, MovesRow, PersisterHeartbeat, Live,
         Terminal
<1>16. ASSUME NEW r \in Responses, NEW k \in Attempts,
             PersisterCancelled(r, k)
      PROVE  MovesRows \/ AnnouncesRow
  BY <1>16
     DEF TypeInv, TypeOK, MovesRows, MovesRow, PersisterCancelled, Live,
         Terminal
<1>17. ASSUME NEW r \in Responses, NEW k \in Attempts,
             PersisterStreamEnd(r, k)
      PROVE  MovesRows \/ AnnouncesRow
  BY <1>17
     DEF TypeInv, TypeOK, MovesRows, MovesRow, PersisterStreamEnd, Live,
         Terminal
<1>18. ASSUME NEW r \in Responses, NEW k \in Attempts,
             PersisterStreamError(r, k)
      PROVE  MovesRows \/ AnnouncesRow
  BY <1>18
     DEF TypeInv, TypeOK, MovesRows, MovesRow, PersisterStreamError, Live,
         Terminal
<1>19. ASSUME NEW r \in Responses, NEW k \in Attempts,
             PersisterComplete(r, k)
      PROVE  MovesRows \/ AnnouncesRow
  <2>1. outcome[r][k] \in Terminal
    BY DEF TypeInv, TypeOK
  <2> QED
    BY <1>19, <2>1
       DEF TypeInv, TypeOK, MovesRows, MovesRow, PersisterComplete,
           CompleteWithinOrg, CompleteMatchedNothing
<1>20. ASSUME NEW r \in Responses, NEW k \in Attempts,
             PersisterAnnounce(r, k)
      PROVE  MovesRows \/ AnnouncesRow
  <2>1. /\ hooks[r] = <<>> /\ status[r] \in {outcome[r][1], "deleted"}
        /\ status' = status
        /\ hooks' = [hooks EXCEPT ![r] = Append(hooks[r], outcome[r][1])]
    BY <1>20, NoRetry DEF PersisterAnnounce, OneWinner
  <2>2. Append(<<>>, outcome[r][1]) = <<outcome[r][1]>> /\ outcome[r][1] \in Terminal
    BY DEF Terminal, TypeInv, TypeOK, Attempts
  <2> QED
    BY <2>1, <2>2 DEF AnnouncesRow
<1>21. ASSUME NEW r \in Responses, UnaryBody(r)
      PROVE  MovesRows \/ AnnouncesRow
  BY <1>21
     DEF TypeInv, TypeOK, MovesRows, MovesRow, UnaryBody, Live, Terminal
<1>22. ASSUME NEW p \in Replicas, NEW r \in Responses, CancelRead(p, r)
      PROVE  MovesRows \/ AnnouncesRow
  BY <1>22
     DEF TypeInv, TypeOK, MovesRows, MovesRow, CancelRead, Stored, Live,
         Terminal
<1>23. ASSUME NEW p \in Replicas, NEW r \in Responses, CancelTrip(p, r)
      PROVE  MovesRows \/ AnnouncesRow
  BY <1>23
     DEF TypeInv, TypeOK, MovesRows, MovesRow, CancelTrip, Live, Terminal
<1>24. ASSUME NEW p \in Replicas, NEW r \in Responses, CancelComplete(p, r)
      PROVE  MovesRows \/ AnnouncesRow
  BY <1>24
     DEF TypeInv, TypeOK, MovesRows, MovesRow, CancelComplete,
         CompleteWithinOrg, CompleteMatchedNothing, DbFault, Live, Terminal
<1>25. ASSUME NEW p \in Replicas, NEW r \in Responses, CancelAnnounce(p, r)
      PROVE  MovesRows \/ AnnouncesRow
  <2>1. /\ hooks[r] = <<>> /\ status[r] \in {"cancelled", "deleted"}
        /\ status' = status
        /\ hooks' = [hooks EXCEPT ![r] = Append(hooks[r], "cancelled")]
    BY <1>25 DEF CancelAnnounce, OneWinner, AnnounceTerminal
  <2>2. Append(<<>>, "cancelled") = <<"cancelled">> /\ "cancelled" \in Terminal
    BY DEF Terminal
  <2> QED
    BY <2>1, <2>2 DEF AnnouncesRow
<1>26. ASSUME NEW p \in Replicas, NEW r \in Responses, CancelLost(p, r)
      PROVE  MovesRows \/ AnnouncesRow
  BY <1>26
     DEF TypeInv, TypeOK, MovesRows, MovesRow, CancelLost, Stored, Live,
         Terminal
<1>27. ASSUME NEW p \in Replicas, NEW r \in Responses, DeleteRow(p, r)
      PROVE  MovesRows \/ AnnouncesRow
  BY <1>27
     DEF TypeInv, TypeOK, MovesRows, MovesRow, DeleteRow, Stored, Live,
         Terminal
<1>28. ASSUME NEW p \in Replicas, NEW r \in Responses, DeleteSender(p, r)
      PROVE  MovesRows \/ AnnouncesRow
  BY <1>28
     DEF TypeInv, TypeOK, MovesRows, MovesRow, DeleteSender, Live, Terminal
<1>29. ASSUME NEW p \in Replicas, PollQuery(p)
      PROVE  MovesRows \/ AnnouncesRow
  BY <1>29
     DEF TypeInv, TypeOK, MovesRows, MovesRow, PollQuery, Live, Terminal
<1>30. ASSUME NEW p \in Replicas, NEW r \in Responses, PollTrip(p, r)
      PROVE  MovesRows \/ AnnouncesRow
  BY <1>30
     DEF TypeInv, TypeOK, MovesRows, MovesRow, PollTrip, Live, Terminal
<1>31. ASSUME Reap
      PROVE  MovesRows \/ AnnouncesRow
  BY <1>31
     DEF TypeInv, TypeOK, MovesRows, MovesRow, Reap, Quiet, Live, Terminal
<1>32. ASSUME Prune
      PROVE  MovesRows \/ AnnouncesRow
  BY <1>32
     DEF TypeInv, TypeOK, MovesRows, MovesRow, Prune, Prunable, Live, Terminal
<1>33. ASSUME NEW r \in Responses, Age(r)
      PROVE  MovesRows \/ AnnouncesRow
  BY <1>33
     DEF TypeInv, TypeOK, MovesRows, MovesRow, Age, Live, Terminal
<1>34. ASSUME NEW r \in Responses, Expire(r)
      PROVE  MovesRows \/ AnnouncesRow
  BY <1>34
     DEF TypeInv, TypeOK, MovesRows, MovesRow, Expire, Live, Terminal
<1>35. ASSUME NEW p \in Replicas, Crash(p)
      PROVE  MovesRows \/ AnnouncesRow
  BY <1>35
     DEF TypeInv, TypeOK, MovesRows, MovesRow, Crash, Running, Busy, Live,
         Terminal
<1>36. ASSUME NEW p \in Replicas, Restart(p)
      PROVE  MovesRows \/ AnnouncesRow
  BY <1>36
     DEF TypeInv, TypeOK, MovesRows, MovesRow, Restart, Live, Terminal
<1>37. UNCHANGED vars => MovesRows \/ AnnouncesRow
  BY DEF TypeInv, TypeOK, MovesRows, MovesRow, vars
<1> QED
  BY <1>1, <1>2, <1>3, <1>4, <1>5, <1>5r, <1>6, <1>7, <1>8, <1>9, <1>10, <1>11, <1>12,
     <1>13, <1>14, <1>15, <1>16, <1>17, <1>18, <1>19, <1>20, <1>21, <1>22,
     <1>23, <1>24, <1>25, <1>26, <1>27, <1>28, <1>29, <1>30, <1>31, <1>32,
     <1>33, <1>34, <1>35, <1>36, <1>37
     DEF Next, WorkerStep, PersisterStep, CancelStep, Finished

\* The status of a row as its clients see it.
Seen(s) ==
  CASE s = "none" -> "absent"
    [] s \in Live -> "open"
    [] s = "deleted" -> "removed"
    [] OTHER -> s

\* A move of the rows is a move of the contract, or nothing its clients see.
LEMMA MovesRefine ==
  ASSUME TypeInv, TypeInv', MovesRows
  PROVE  [Contract!ContractNext]_(Contract!contractVars)
<1> DEFINE old == [r \in Responses |-> Seen(status[r])]
           new == [r \in Responses |-> Seen(status'[r])]
<1>1. ASSUME NEW r \in Responses
      PROVE  Contract!MayBecome(old[r], new[r])
  <2>1. status[r] \in Statuses /\ status'[r] \in Statuses
    BY DEF TypeInv, TypeOK
  <2>2. MovesRow(status[r], status'[r])
    BY DEF MovesRows
  <2> QED
    BY <2>1, <2>2
       DEF Contract!MayBecome, MovesRow, Seen, Statuses, Live, Terminal
<1>2. CASE \E r \in Responses : new[r] # old[r]
  <2>1. Contract!Move
    BY <1>1, <1>2 DEF Contract!Move, MovesRows, Seen
  <2> QED
    BY <2>1 DEF Contract!ContractNext
<1>3. CASE \A r \in Responses : new[r] = old[r]
  <2>1. new = old /\ hooks' = hooks
    BY <1>3 DEF MovesRows
  <2> QED
    BY <2>1 DEF Contract!contractVars, Seen
<1> QED
  BY <1>2, <1>3

\* A webhook of the rows is the webhook of the contract.
LEMMA AnnounceRefines ==
  ASSUME TypeInv, AnnouncesRow
  PROVE  Contract!ContractNext
<1>1. PICK r \in Responses, s \in Terminal :
        /\ status[r] \in {s, "deleted"}
        /\ hooks[r] = <<>>
        /\ hooks' = [hooks EXCEPT ![r] = <<s>>]
  BY DEF AnnouncesRow
<1>2. Seen(status[r]) \in {s, "removed"}
  BY <1>1 DEF Seen, Live, Terminal
<1>3. status' = status
  BY DEF AnnouncesRow
<1>4. Contract!Announce(r, s)
  BY <1>1, <1>2, <1>3 DEF Contract!Announce, Seen
<1> QED
  BY <1>4 DEF Contract!ContractNext

\* What the two theorems rest on.
ContractInv == TypeInv /\ OneWinner /\ Answered

\* Before any request nobody has settled, announced or answered anything.
LEMMA InitContractInv == Init => ContractInv
<1> SUFFICES ASSUME Init PROVE OneWinner /\ Answered
  BY InitTypeInv DEF ContractInv
<1>1. 1 \in Attempts
  BY LifecycleAssumption DEF Attempts
<1>2. \A r \in Responses :
        /\ status[r] = "none" /\ hooks[r] = <<>> /\ answers[r] = {}
        /\ wpc[r] = "idle" /\ ppc[r][1] = "none"
        /\ \A p \in Replicas : cpc[p][r] = "idle"
  BY <1>1 DEF Init
<1> QED
  BY <1>2 DEF OneWinner, NoCanceller, Answered

\* With one attempt every step keeps it.
LEMMA NextContractInv ==
  ASSUME MaxAttempts = 1
  PROVE  ContractInv /\ [Next]_vars => ContractInv'
BY NextTypeInv, NextOneWinner, NextAnswered DEF ContractInv

\* With retries disabled, the rows and the webhooks that the API handlers, the
\* worker, the persisters, the pollers and the reaper produce together, through
\* crashes and failing writes, implement the contract: a settled row keeps its
\* status until it is removed, and one webhook at most announces it, with the
\* status the row settled in.
THEOREM ContractKept ==
  ASSUME MaxAttempts = 1
  PROVE  Spec => KeepsContract
<1>1. Init => Contract!ContractInit
  <2> SUFFICES ASSUME Init PROVE Contract!ContractInit
    OBVIOUS
  <2>1. \A r \in Responses : status[r] = "none"
    BY DEF Init
  <2>2. hooks = [r \in Responses |-> <<>>]
    BY DEF Init
  <2>3. \A r \in Responses : Seen(status[r]) = "absent"
    BY <2>1 DEF Seen, Live
  <2>4. [r \in Responses |-> Seen(status[r])] = [r \in Responses |-> "absent"]
    BY <2>3
  <2> QED
    BY <2>2, <2>4 DEF Contract!ContractInit, Seen
<1>2. ContractInv /\ [Next]_vars => ContractInv'
  BY NextContractInv
<1>3. ContractInv /\ ContractInv' /\ [Next]_vars
        => [Contract!ContractNext]_(Contract!contractVars)
  BY NextMovesRows, MovesRefine, AnnounceRefines DEF ContractInv
<1> QED
  BY <1>1, <1>2, <1>3, InitContractInv, PTL
     DEF Spec, KeepsContract, Contract!ContractSpec

\* With retries disabled, what cancel() returns to a client without an error is
\* a settled response, also when another replica, the persister or the reaper
\* settled the row between its read, its trip and its write.
THEOREM CancelSettles ==
  ASSUME MaxAttempts = 1
  PROVE  Spec => []CancelAnswersTerminal
<1>1. ContractInv /\ [Next]_vars => ContractInv'
  BY NextContractInv
<1>2. ContractInv => CancelAnswersTerminal
  BY DEF ContractInv, Answered, CancelAnswersTerminal
<1> QED
  BY <1>1, <1>2, InitContractInv, PTL DEF Spec
=============================================================================
