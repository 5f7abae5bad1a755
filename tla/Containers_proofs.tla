--------------------------- MODULE Containers_proofs ---------------------------
(***************************************************************************)
(* Invariants of Containers, proved for any requests, replicas, files and  *)
(* numbers of commands and faults.                                         *)
(***************************************************************************)
EXTENDS Containers, FiniteSetTheorems, TLAPS

Early == {"new", "lookup", "ensure", "boot", "start_new"}
Booting == {"insert", "register"}
Using == {"held", "ingest", "staged", "capture"}

Rows == [status : {None, "active"} \cup Terminal, idle : BOOLEAN, lives : Nat]
Vms == [up : BOOLEAN, data : SUBSET Files, snapshot : SUBSET Files,
        whole : BOOLEAN, kept : BOOLEAN, displaced : BOOLEAN]
Reqs == [pc : Steps, at : Replicas \cup {None}, session : Requests \cup {None},
         commands : 0 .. MaxCommands]
Apis == [deleting : SUBSET Replicas, uploading : BOOLEAN]

(* The types of the variables, with lives not bounded yet. *)
Types ==
  /\ row \in Rows
  /\ files \subseteq Files
  /\ registry \in [Replicas -> Requests \cup {None}]
  /\ vm \in [Requests -> Vms]
  /\ req \in [Requests -> Reqs]
  /\ guard \in [Requests -> Requests \cup {None}]
  /\ reaper \in [Replicas -> {"sleep", "reconcile", "evict"}]
  /\ leader \in Replicas \cup {None}
  /\ api \in Apis
  /\ saved \in [Replicas -> SUBSET Files]

(* Every request under way has a replica, and a session from its boot on; until
   it is registered, its own VM is the session of nobody else. *)
Handles ==
  \A r \in Requests :
    /\ req[r].pc \in {"new", "done"} <=> req[r].at = None
    /\ req[r].pc \in Booting => req[r].session = r
    /\ req[r].pc \in Booting \cup Using <=> req[r].session # None
    /\ req[r].pc \in Early \cup Booting =>
         /\ \A p \in Replicas : registry[p] # r
         /\ \A q \in Requests \ {r} : req[q].session # r

(* A session belongs to one replica. *)
OneHome ==
  \A p \in Replicas : registry[p] # None =>
    /\ \A q \in Replicas : registry[q] = registry[p] => q = p
    /\ \A r \in Requests : req[r].session = registry[p] => req[r].at = p

(* The VM of a registered session, and of one in use, is up. *)
VmsUp == \A v \in Requests : Referenced(v, registry, req) => vm[v].up

(* A command runs under the mutex of its session. *)
Locked ==
  \A r \in Requests :
    req[r].pc \in {"ingest", "staged", "capture"} => guard[req[r].session] = r

(* The requests that may have inserted the row. *)
Past == {r \in Requests : req[r].pc \notin {"new", "lookup", "ensure", "start_new"}}

(* Create inserts the row once, a request at most once. *)
LivesBound == row.lives <= Cardinality(Past) + 1

(* The row in its first life: nothing is known of the container before it is
   inserted, and whatever ends sessions comes after its end. *)
FirstLife ==
  /\ row.status # None => row.lives > 0
  /\ row.lives = 0 =>
       /\ files = {}
       /\ \A r \in Requests : req[r].pc \notin {"lookup", "ensure", "boot", "register"}
  /\ api.deleting # {} \/ (\E p \in Replicas : reaper[p] = "evict") =>
       row.lives > 0 /\ ~(row.status = "active" /\ row.lives = 1)
  /\ \A r \in Requests : req[r].pc = "start_new" =>
       row.lives = 0 /\ \A q \in Requests \ {r} : req[q].pc = "new"

ContainersInv ==
  Types /\ Handles /\ OneHome /\ VmsUp /\ Locked /\ LivesBound /\ FirstLife

(* What a replica saved is among the rows of the container's files. *)
SavedInFiles == \A p \in Replicas : saved[p] \subseteq files

(* It is also in the workspace of a booted VM that is still to be registered
   there. *)
BootKeepsFiles ==
  row.status = "active" /\ row.lives = 1 =>
    \A r \in Requests :
      req[r].pc \in Booting /\ registry[req[r].at] = None /\ vm[r].whole =>
        saved[req[r].at] \subseteq vm[r].data

SessionsInv == OneSession /\ SavedInFiles /\ BootKeepsFiles /\ SessionKeepsFiles

(* A step of the row's status, as TerminalIsFinal has it. *)
StatusStep ==
  /\ row.status = "deleted" => row'.status \in {"deleted", None}
  /\ row.status = "expired" => row'.status \in {"expired", "deleted", None}

-----------------------------------------------------------------------------
(* Types, one variable at a time.                                           *)

LEMMA InitTypes == Init => Types
BY ContainersAssumption, NamesAssumption
   DEF Init, Types, Rows, Vms, Reqs, Apis, Terminal, Steps, NoVm

(* The sessions that boot_inner and replay_from_db make, and the updates of a
   session. *)
LEMMA VmsTyped ==
  /\ NoVm \in Vms /\ Fresh \in Vms
  /\ \A d \in SUBSET Files : [Fresh EXCEPT !.data = d, !.snapshot = d] \in Vms
  /\ \A d \in SUBSET Files : [Fresh EXCEPT !.data = d, !.snapshot = d, !.whole = FALSE] \in Vms
  /\ [Fresh EXCEPT !.kept = FALSE] \in Vms
BY DEF Vms, Fresh, NoVm

(* The updates of a request. *)
LEMMA ReqsTyped ==
  ASSUME NEW q \in Reqs, NEW pc \in Steps, NEW s \in Requests \cup {None},
         NEW p \in Replicas \cup {None}
  PROVE  /\ [q EXCEPT !.pc = pc] \in Reqs
         /\ [q EXCEPT !.pc = pc, !.session = s] \in Reqs
         /\ [q EXCEPT !.pc = pc, !.at = p] \in Reqs
         /\ [q EXCEPT !.pc = pc, !.session = s, !.at = p] \in Reqs
BY DEF Reqs

LEMMA NextRow ==
  ASSUME Types, [Next]_vars
  PROVE  row' \in Rows
<1>0. row \in Rows
  BY DEF Types
<1> USE <1>0
<1>1. ASSUME NEW r \in Requests, Ensure(r) PROVE row' \in Rows
  <2>1. Inserted \in Rows
    BY DEF Inserted, Rows
  <2> QED
    BY <1>1, <2>1 DEF Ensure
<1>2. ASSUME NEW r \in Requests, Provision(r) PROVE row' \in Rows
  BY <1>2 DEF Provision, Inserted, Rows, Terminal
<1>3. ASSUME NEW r \in Requests, Exec(r) PROVE row' \in Rows
  BY <1>3 DEF Exec, Rows, Terminal
<1>4. ASSUME NEW p \in Replicas, MarkExpiredIdle(p) PROVE row' \in Rows
  BY <1>4 DEF MarkExpiredIdle, Rows, Terminal
<1>5. ASSUME NEW p \in Replicas, DeleteRow(p) PROVE row' \in Rows
  BY <1>5 DEF DeleteRow, Rows, Terminal
<1>6. CASE HardDelete
  BY <1>6 DEF HardDelete, Rows, Terminal
<1>7. CASE IdlePasses
  BY <1>7 DEF IdlePasses, Rows, Terminal
<1>8. CASE Create
  BY <1>8 DEF Create, Inserted, Rows, Terminal
<1>9. ASSUME NEW r \in Requests,
             Lookup(r) \/ EnsureFails(r) \/ BootFails(r) \/ ProvisionFails(r) \/ Insert(r)
             \/ Replay(r) \/ ReplayFails(r) \/ Register(r) \/ Lock(r) \/ Ingest(r) \/
             IngestFails(r) \/ ExecFails(r) \/ Capture(r) \/ CaptureFails(r) \/ Leave(r)
             \/ Finish(r)
     PROVE  row' \in Rows
  BY <1>9
     DEF Lookup, EnsureFails, BootFails, ProvisionFails, Insert, Replay, ReplayFails, Register,
         Lock, Ingest, IngestFails, ExecFails, Capture, CaptureFails, Leave, Finish, dbVars
<1>10. ASSUME NEW r \in Requests, NEW p \in Replicas,
             StartNew(r, p) \/ Resolve(r, p)
     PROVE  row' \in Rows
  BY <1>10 DEF StartNew, Resolve, dbVars
<1>11. ASSUME NEW p \in Replicas,
             Reconcile(p) \/ ReapFails(p) \/ Evict(p) \/ DeleteSession(p) \/ Crash(p)
     PROVE  row' \in Rows
  BY <1>11 DEF Reconcile, ReapFails, Evict, DeleteSession, Crash, dbVars
<1>12. CASE UploadBegin \/ UploadEnd
  BY <1>12 DEF UploadBegin, UploadEnd, dbVars
<1>13. ASSUME NEW f \in Files,
             DeleteFile(f)
     PROVE  row' \in Rows
  BY <1>13 DEF DeleteFile
<1>14. CASE UNCHANGED vars
  BY <1>14 DEF vars
<1> QED
  BY <1>1, <1>2, <1>3, <1>4, <1>5, <1>6, <1>7, <1>8, <1>9, <1>10, <1>11, <1>12, <1>13, <1>14
     DEF Next, RequestStep, RequestTrouble, ReaperStep

LEMMA NextFiles ==
  ASSUME Types, Handles, [Next]_vars
  PROVE  files' \subseteq Files
<1>0. files \subseteq Files /\ vm \in [Requests -> Vms] /\ req \in [Requests -> Reqs]
  BY DEF Types
<1> USE <1>0
<1>1. ASSUME NEW r \in Requests, Ingest(r) PROVE files' \subseteq Files
  BY <1>1 DEF Ingest, Stored, Files
<1>2. ASSUME NEW r \in Requests, Capture(r) PROVE files' \subseteq Files
  <2>1. vm[req[r].session].data \subseteq Files
    BY <1>2, NamesAssumption DEF Capture, Handles, Booting, Using, Reqs, Vms
  <2> QED
    BY <1>2, <2>1 DEF Capture, Stored
<1>3. CASE HardDelete
  BY <1>3 DEF HardDelete, Files
<1>4. CASE UploadEnd
  BY <1>4 DEF UploadEnd, Files
<1>5. ASSUME NEW f \in Files, DeleteFile(f) PROVE files' \subseteq Files
  BY <1>5 DEF DeleteFile, Files
<1>6. ASSUME NEW r \in Requests,
             Lookup(r) \/ Ensure(r) \/ EnsureFails(r) \/ BootFails(r) \/ Provision(r) \/
             ProvisionFails(r) \/ Insert(r) \/ Replay(r) \/ ReplayFails(r) \/ Register(r)
             \/ Lock(r) \/ IngestFails(r) \/ Exec(r) \/ ExecFails(r) \/ CaptureFails(r) \/
             Leave(r) \/ Finish(r)
     PROVE  files' \subseteq Files
  BY <1>6
     DEF Lookup, Ensure, EnsureFails, BootFails, Provision, ProvisionFails, Insert, Replay,
         ReplayFails, Register, Lock, IngestFails, Exec, ExecFails, CaptureFails, Leave, Finish,
         dbVars, Booted
<1>7. ASSUME NEW r \in Requests, NEW p \in Replicas,
             StartNew(r, p) \/ Resolve(r, p)
     PROVE  files' \subseteq Files
  BY <1>7 DEF StartNew, Resolve, dbVars
<1>8. ASSUME NEW p \in Replicas,
             MarkExpiredIdle(p) \/ Reconcile(p) \/ ReapFails(p) \/ Evict(p) \/
             DeleteRow(p) \/ DeleteSession(p) \/ Crash(p)
     PROVE  files' \subseteq Files
  BY <1>8
     DEF MarkExpiredIdle, Reconcile, ReapFails, Evict, DeleteRow, DeleteSession, Crash, dbVars
<1>9. CASE IdlePasses \/ Create \/ UploadBegin
  BY <1>9 DEF IdlePasses, Create, UploadBegin, dbVars
<1>10. CASE UNCHANGED vars
  BY <1>10 DEF vars
<1> QED
  BY <1>1, <1>2, <1>3, <1>4, <1>5, <1>6, <1>7, <1>8, <1>9, <1>10
     DEF Next, RequestStep, RequestTrouble, ReaperStep

LEMMA NextRegistry ==
  ASSUME Types, [Next]_vars
  PROVE  registry' \in [Replicas -> Requests \cup {None}]
<1>0. registry \in [Replicas -> Requests \cup {None}]
  BY DEF Types
<1> USE <1>0
<1>1. ASSUME NEW r \in Requests, Insert(r) PROVE registry' \in [Replicas -> Requests \cup {None}]
  BY <1>1 DEF Insert
<1>2. ASSUME NEW r \in Requests, Register(r) PROVE registry' \in [Replicas -> Requests \cup {None}]
  BY <1>2 DEF Register
<1>3. ASSUME NEW p \in Replicas, Evict(p) PROVE registry' \in [Replicas -> Requests \cup {None}]
  BY <1>3 DEF Evict
<1>4. ASSUME NEW p \in Replicas, DeleteSession(p) PROVE registry' \in [Replicas -> Requests \cup {None}]
  BY <1>4 DEF DeleteSession
<1>5. ASSUME NEW p \in Replicas, Crash(p) PROVE registry' \in [Replicas -> Requests \cup {None}]
  BY <1>5 DEF Crash
<1>6. ASSUME NEW r \in Requests,
             Lookup(r) \/ Ensure(r) \/ EnsureFails(r) \/ BootFails(r) \/ Provision(r) \/
             ProvisionFails(r) \/ Replay(r) \/ ReplayFails(r) \/ Lock(r) \/ Ingest(r) \/
             IngestFails(r) \/ Exec(r) \/ ExecFails(r) \/ Capture(r) \/ CaptureFails(r) \/
             Leave(r) \/ Finish(r)
     PROVE  registry' \in [Replicas -> Requests \cup {None}]
  BY <1>6
     DEF Lookup, Ensure, EnsureFails, BootFails, Provision, ProvisionFails, Replay, ReplayFails,
         Lock, Ingest, IngestFails, Exec, ExecFails, Capture, CaptureFails, Leave, Finish,
         Booted
<1>7. ASSUME NEW r \in Requests, NEW p \in Replicas,
             StartNew(r, p) \/ Resolve(r, p)
     PROVE  registry' \in [Replicas -> Requests \cup {None}]
  BY <1>7 DEF StartNew, Resolve
<1>8. ASSUME NEW p \in Replicas,
             MarkExpiredIdle(p) \/ Reconcile(p) \/ ReapFails(p) \/ DeleteRow(p)
     PROVE  registry' \in [Replicas -> Requests \cup {None}]
  BY <1>8 DEF MarkExpiredIdle, Reconcile, ReapFails, DeleteRow
<1>9. CASE HardDelete \/ IdlePasses \/ Create \/ UploadBegin \/ UploadEnd
  BY <1>9 DEF HardDelete, IdlePasses, Create, UploadBegin, UploadEnd
<1>10. ASSUME NEW f \in Files,
             DeleteFile(f)
     PROVE  registry' \in [Replicas -> Requests \cup {None}]
  BY <1>10 DEF DeleteFile
<1>11. CASE UNCHANGED vars
  BY <1>11 DEF vars
<1> QED
  BY <1>1, <1>2, <1>3, <1>4, <1>5, <1>6, <1>7, <1>8, <1>9, <1>10, <1>11
     DEF Next, RequestStep, RequestTrouble, ReaperStep

LEMMA NextReq ==
  ASSUME Types, Handles, [Next]_vars
  PROVE  req' \in [Requests -> Reqs]
<1>0. req \in [Requests -> Reqs] /\ registry \in [Replicas -> Requests \cup {None}]
  BY DEF Types
<1> USE <1>0
<1>1. ASSUME NEW r \in Requests, Lookup(r) PROVE req' \in [Requests -> Reqs]
  <2>1. registry[req[r].at] \in Requests \cup {None}
    BY <1>1 DEF Lookup, Handles, Reqs
  <2> QED
    BY <1>1, <2>1, ReqsTyped DEF Lookup, Steps
<1>2. ASSUME NEW r \in Requests, Ensure(r) PROVE req' \in [Requests -> Reqs]
  <2>1. CASE Go(r, "boot")
    BY <2>1, ReqsTyped DEF Go, Steps
  <2>2. CASE End(r)
    BY <2>2, ReqsTyped DEF End, Steps
  <2> QED
    BY <1>2, <2>1, <2>2 DEF Ensure
<1>3. ASSUME NEW r \in Requests, EnsureFails(r) PROVE req' \in [Requests -> Reqs]
  BY <1>3, ReqsTyped DEF EnsureFails, End, Steps
<1>4. ASSUME NEW r \in Requests, BootFails(r) PROVE req' \in [Requests -> Reqs]
  BY <1>4, ReqsTyped DEF BootFails, End, Steps
<1>5. ASSUME NEW r \in Requests, Provision(r) PROVE req' \in [Requests -> Reqs]
  BY <1>5, ReqsTyped DEF Provision, Booted, Steps
<1>6. ASSUME NEW r \in Requests, ProvisionFails(r) PROVE req' \in [Requests -> Reqs]
  BY <1>6, ReqsTyped DEF ProvisionFails, Booted, Steps
<1>7. ASSUME NEW r \in Requests, Insert(r) PROVE req' \in [Requests -> Reqs]
  BY <1>7, ReqsTyped DEF Insert, Go, Steps
<1>8. ASSUME NEW r \in Requests, Replay(r) PROVE req' \in [Requests -> Reqs]
  BY <1>8, ReqsTyped DEF Replay, Booted, Steps
<1>9. ASSUME NEW r \in Requests, ReplayFails(r) PROVE req' \in [Requests -> Reqs]
  <2>1. req' = [req EXCEPT ![r].pc = "register", ![r].session = r]
    BY <1>9 DEF ReplayFails, Booted
  <2> QED
    BY <2>1, ReqsTyped DEF Steps
<1>10. ASSUME NEW r \in Requests, Register(r) PROVE req' \in [Requests -> Reqs]
  <2>1. registry[req[r].at] \in Requests \cup {None}
    BY <1>10 DEF Register, Handles, Reqs
  <2> QED
    BY <1>10, <2>1, ReqsTyped DEF Register, Steps
<1>11. ASSUME NEW r \in Requests, Lock(r) PROVE req' \in [Requests -> Reqs]
  <2> DEFINE pc == IF r \in Staged /\ req[r].commands = 0 THEN "ingest" ELSE "staged"
  <2>1. pc \in Steps /\ req[r] \in Reqs /\ req[r].commands + 1 \in 0 .. MaxCommands
    BY <1>11, ContainersAssumption DEF Lock, Steps, Reqs
  <2>2. req' = [req EXCEPT ![r].pc = pc, ![r].commands = @ + 1]
    BY <1>11 DEF Lock
  <2> HIDE DEF pc
  <2>3. [req[r] EXCEPT !.pc = pc, !.commands = @ + 1] \in Reqs
    BY ONLY <2>1 DEF Reqs
  <2> QED
    BY <2>2, <2>3
<1>12. ASSUME NEW r \in Requests, Ingest(r) PROVE req' \in [Requests -> Reqs]
  BY <1>12, ReqsTyped DEF Ingest, Go, Steps
<1>13. ASSUME NEW r \in Requests, IngestFails(r) PROVE req' \in [Requests -> Reqs]
  BY <1>13, ReqsTyped DEF IngestFails, Go, Steps
<1>14. ASSUME NEW r \in Requests, Exec(r) PROVE req' \in [Requests -> Reqs]
  BY <1>14, ReqsTyped DEF Exec, Go, Steps
<1>15. ASSUME NEW r \in Requests, ExecFails(r) PROVE req' \in [Requests -> Reqs]
  BY <1>15, ReqsTyped DEF ExecFails, Go, Steps
<1>16. ASSUME NEW r \in Requests, Capture(r) PROVE req' \in [Requests -> Reqs]
  BY <1>16, ReqsTyped DEF Capture, Go, Steps
<1>17. ASSUME NEW r \in Requests, CaptureFails(r) PROVE req' \in [Requests -> Reqs]
  BY <1>17, ReqsTyped DEF CaptureFails, Go, Steps
<1>18. ASSUME NEW r \in Requests, Leave(r) PROVE req' \in [Requests -> Reqs]
  BY <1>18, ReqsTyped DEF Leave, End, Steps
<1>19. ASSUME NEW r \in Requests, Finish(r) PROVE req' \in [Requests -> Reqs]
  BY <1>19, ReqsTyped DEF Finish, End, Steps
<1>20. ASSUME NEW r \in Requests, NEW p \in Replicas, StartNew(r, p) PROVE req' \in [Requests -> Reqs]
  BY <1>20, ReqsTyped DEF StartNew, Steps
<1>21. ASSUME NEW r \in Requests, NEW p \in Replicas, Resolve(r, p) PROVE req' \in [Requests -> Reqs]
  BY <1>21, ReqsTyped DEF Resolve, Steps
<1>22. ASSUME NEW p \in Replicas, Crash(p) PROVE req' \in [Requests -> Reqs]
  BY <1>22, ReqsTyped DEF Crash, Steps
<1>23. ASSUME NEW p \in Replicas,
             MarkExpiredIdle(p) \/ Reconcile(p) \/ ReapFails(p) \/ Evict(p) \/
             DeleteRow(p) \/ DeleteSession(p)
     PROVE  req' \in [Requests -> Reqs]
  BY <1>23 DEF MarkExpiredIdle, Reconcile, ReapFails, Evict, DeleteRow, DeleteSession
<1>24. CASE HardDelete \/ IdlePasses \/ Create \/ UploadBegin \/ UploadEnd
  BY <1>24 DEF HardDelete, IdlePasses, Create, UploadBegin, UploadEnd
<1>25. ASSUME NEW f \in Files,
             DeleteFile(f)
     PROVE  req' \in [Requests -> Reqs]
  BY <1>25 DEF DeleteFile
<1>26. CASE UNCHANGED vars
  BY <1>26 DEF vars
<1> QED
  BY <1>1, <1>2, <1>3, <1>4, <1>5, <1>6, <1>7, <1>8, <1>9, <1>10, <1>11, <1>12, <1>13, <1>14,
     <1>15, <1>16, <1>17, <1>18, <1>19, <1>20, <1>21, <1>22, <1>23, <1>24, <1>25, <1>26
     DEF Next, RequestStep, RequestTrouble, ReaperStep

(* The updates of a session. *)
LEMMA VmUpdates ==
  ASSUME NEW w \in Vms, NEW d \in SUBSET Files, NEW e \in SUBSET Files
  PROVE  /\ [w EXCEPT !.data = d] \in Vms
         /\ [w EXCEPT !.snapshot = e] \in Vms
         /\ [w EXCEPT !.data = d, !.snapshot = e] \in Vms
         /\ [w EXCEPT !.displaced = TRUE] \in Vms
BY DEF Vms

(* A running command's session. *)
LEMMA UsedSession ==
  ASSUME Types, Handles, NEW r \in Requests, req[r].pc \in Booting \cup Using
  PROVE  /\ req[r].session \in Requests /\ req[r].at \in Replicas
         /\ vm[req[r].session] \in Vms
         /\ vm[req[r].session].data \subseteq Files
         /\ vm[req[r].session].snapshot \subseteq Files
         /\ r \in Files
<1>1. req[r] \in Reqs
  BY DEF Types
<1>2. req[r].session \in Requests /\ req[r].at \in Replicas
  BY <1>1 DEF Reqs, Handles, Booting, Using
<1>3. vm[req[r].session] \in Vms
  BY <1>2 DEF Types
<1> QED
  BY <1>2, <1>3 DEF Vms, Files

LEMMA NextVm ==
  ASSUME Types, Handles, [Next]_vars
  PROVE  vm' \in [Requests -> Vms]
<1>0. vm \in [Requests -> Vms] /\ files \subseteq Files /\ registry \in [Replicas -> Requests \cup {None}]
  BY DEF Types
<1> USE <1>0, VmsTyped
<1>1. ASSUME NEW r \in Requests, Provision(r) PROVE vm' \in [Requests -> Vms]
  BY <1>1 DEF Provision, Booted
<1>2. ASSUME NEW r \in Requests, ProvisionFails(r) PROVE vm' \in [Requests -> Vms]
  BY <1>2 DEF ProvisionFails, Booted
<1>3. ASSUME NEW r \in Requests, Insert(r) PROVE vm' \in [Requests -> Vms]
  <2>1. registry[req[r].at] \in Requests \cup {None}
    BY <1>3, UsedSession DEF Insert, Booting
  <2>2. CASE registry[req[r].at] = None
    BY <1>3, <2>2 DEF Insert, TearDown
  <2>3. CASE registry[req[r].at] # None
    <3>1. [vm EXCEPT ![registry[req[r].at]].displaced = TRUE] \in [Requests -> Vms]
      BY <2>1, <2>3, VmUpdates
    <3> QED
      BY <1>3, <2>3, <3>1 DEF Insert, TearDown
  <2> QED
    BY <2>2, <2>3
<1>4. ASSUME NEW r \in Requests, Replay(r) PROVE vm' \in [Requests -> Vms]
  BY <1>4 DEF Replay, Booted
<1>5. ASSUME NEW r \in Requests, ReplayFails(r) PROVE vm' \in [Requests -> Vms]
  <2>1. PICK part \in SUBSET Files :
               vm' = [vm EXCEPT ![r] = [Fresh EXCEPT !.data = part, !.snapshot = part, !.whole = FALSE]]
    BY <1>5 DEF ReplayFails, Booted
  <2> QED
    BY <2>1
<1>6. ASSUME NEW r \in Requests, Register(r) PROVE vm' \in [Requests -> Vms]
  BY <1>6 DEF Register, TearDown
<1>7. ASSUME NEW r \in Requests, Ingest(r) PROVE vm' \in [Requests -> Vms]
  <2>1. req[r].pc \in Booting \cup Using
    BY <1>7 DEF Ingest, Booting, Using
  <2>2. /\ req[r].session \in Requests /\ vm[req[r].session] \in Vms
        /\ vm[req[r].session].data \cup {r} \subseteq Files
        /\ vm[req[r].session].snapshot \cup {r} \subseteq Files
    BY <2>1, UsedSession
  <2> QED
    BY <1>7, <2>2, VmUpdates DEF Ingest
<1>8. ASSUME NEW r \in Requests, IngestFails(r) PROVE vm' \in [Requests -> Vms]
  <2>1. req[r].pc \in Booting \cup Using
    BY <1>8 DEF IngestFails, Booting, Using
  <2>2. /\ req[r].session \in Requests /\ vm[req[r].session] \in Vms
        /\ vm[req[r].session].data \cup {r} \subseteq Files
        /\ vm[req[r].session].snapshot \cup {r} \subseteq Files
    BY <2>1, UsedSession
  <2>3. CASE vm' = [vm EXCEPT ![req[r].session].data = @ \cup {r}, ![req[r].session].snapshot = @ \cup {r}]
    BY <2>2, <2>3, VmUpdates
  <2> QED
    BY <1>8, <2>3 DEF IngestFails
<1>9. ASSUME NEW r \in Requests, Exec(r) PROVE vm' \in [Requests -> Vms]
  <2>1. req[r].pc \in Booting \cup Using
    BY <1>9 DEF Exec, Booting, Using
  <2>2. /\ req[r].session \in Requests /\ vm[req[r].session] \in Vms
        /\ vm[req[r].session].data \cup {r} \subseteq Files
        /\ \A f : vm[req[r].session].data \ {f} \subseteq Files
    BY <2>1, UsedSession
  <2>3. CASE vm' = [vm EXCEPT ![req[r].session].data = @ \cup {r}]
    BY <2>2, <2>3, VmUpdates
  <2>4. ASSUME NEW f, vm' = [vm EXCEPT ![req[r].session].data = @ \ {f}]
        PROVE  vm' \in [Requests -> Vms]
    BY <2>2, <2>4, VmUpdates
  <2> QED
    BY <1>9, <2>3, <2>4 DEF Exec
<1>10. ASSUME NEW r \in Requests, Capture(r) PROVE vm' \in [Requests -> Vms]
  <2>1. req[r].pc \in Booting \cup Using
    BY <1>10 DEF Capture, Booting, Using
  <2>2. /\ req[r].session \in Requests /\ vm[req[r].session] \in Vms
        /\ vm[req[r].session].data \cup {r} \subseteq Files
        /\ vm[req[r].session].snapshot \cup {r} \subseteq Files
    BY <2>1, UsedSession
  <2> QED
    BY <1>10, <2>2, VmUpdates DEF Capture
<1>11. ASSUME NEW r \in Requests, CaptureFails(r) PROVE vm' \in [Requests -> Vms]
  <2>1. req[r].pc \in Booting \cup Using
    BY <1>11 DEF CaptureFails, Booting, Using
  <2>2. /\ req[r].session \in Requests /\ vm[req[r].session] \in Vms
        /\ vm[req[r].session].data \cup {r} \subseteq Files
        /\ vm[req[r].session].snapshot \cup {r} \subseteq Files
    BY <2>1, UsedSession
  <2>3. CASE vm' = [vm EXCEPT ![req[r].session].snapshot = vm[req[r].session].data]
    BY <2>2, <2>3, VmUpdates
  <2> QED
    BY <1>11, <2>3 DEF CaptureFails
<1>12. ASSUME NEW r \in Requests, Leave(r) PROVE vm' \in [Requests -> Vms]
  BY <1>12 DEF Leave, TearDown
<1>13. ASSUME NEW r \in Requests, Finish(r) PROVE vm' \in [Requests -> Vms]
  BY <1>13 DEF Finish, TearDown
<1>14. ASSUME NEW p \in Replicas, Evict(p) PROVE vm' \in [Requests -> Vms]
  BY <1>14 DEF Evict, TearDown
<1>15. ASSUME NEW p \in Replicas, DeleteSession(p) PROVE vm' \in [Requests -> Vms]
  BY <1>15 DEF DeleteSession, TearDown
<1>16. ASSUME NEW p \in Replicas, Crash(p) PROVE vm' \in [Requests -> Vms]
  BY <1>16 DEF Crash, TearDown
<1>17. ASSUME NEW r \in Requests,
             Lookup(r) \/ Ensure(r) \/ EnsureFails(r) \/ BootFails(r) \/ Lock(r) \/
             ExecFails(r)
     PROVE  vm' \in [Requests -> Vms]
  BY <1>17 DEF Lookup, Ensure, EnsureFails, BootFails, Lock, ExecFails
<1>18. ASSUME NEW r \in Requests, NEW p \in Replicas,
             StartNew(r, p) \/ Resolve(r, p)
     PROVE  vm' \in [Requests -> Vms]
  BY <1>18 DEF StartNew, Resolve
<1>19. ASSUME NEW p \in Replicas,
             MarkExpiredIdle(p) \/ Reconcile(p) \/ ReapFails(p) \/ DeleteRow(p)
     PROVE  vm' \in [Requests -> Vms]
  BY <1>19 DEF MarkExpiredIdle, Reconcile, ReapFails, DeleteRow
<1>20. CASE HardDelete \/ IdlePasses \/ Create \/ UploadBegin \/ UploadEnd
  BY <1>20 DEF HardDelete, IdlePasses, Create, UploadBegin, UploadEnd
<1>21. ASSUME NEW f \in Files,
             DeleteFile(f)
     PROVE  vm' \in [Requests -> Vms]
  BY <1>21 DEF DeleteFile
<1>22. CASE UNCHANGED vars
  BY <1>22 DEF vars
<1> QED
  BY <1>1, <1>2, <1>3, <1>4, <1>5, <1>6, <1>7, <1>8, <1>9, <1>10, <1>11, <1>12, <1>13, <1>14,
     <1>15, <1>16, <1>17, <1>18, <1>19, <1>20, <1>21, <1>22
     DEF Next, RequestStep, RequestTrouble, ReaperStep

LEMMA NextGuard ==
  ASSUME Types, [Next]_vars
  PROVE  guard' \in [Requests -> Requests \cup {None}]
<1>0. guard \in [Requests -> Requests \cup {None}]
  BY DEF Types
<1> USE <1>0
<1>1. ASSUME NEW r \in Requests, Lock(r) PROVE guard' \in [Requests -> Requests \cup {None}]
  BY <1>1 DEF Lock
<1>2. ASSUME NEW r \in Requests, ExecFails(r) PROVE guard' \in [Requests -> Requests \cup {None}]
  BY <1>2 DEF ExecFails, Unlocked
<1>3. ASSUME NEW r \in Requests, Capture(r) PROVE guard' \in [Requests -> Requests \cup {None}]
  BY <1>3 DEF Capture, Unlocked
<1>4. ASSUME NEW r \in Requests, CaptureFails(r) PROVE guard' \in [Requests -> Requests \cup {None}]
  BY <1>4 DEF CaptureFails, Unlocked
<1>5. ASSUME NEW r \in Requests, Leave(r) PROVE guard' \in [Requests -> Requests \cup {None}]
  BY <1>5 DEF Leave, Unlocked
<1>6. ASSUME NEW p \in Replicas, Crash(p) PROVE guard' \in [Requests -> Requests \cup {None}]
  BY <1>6 DEF Crash
<1>7. ASSUME NEW r \in Requests,
             Lookup(r) \/ Ensure(r) \/ EnsureFails(r) \/ BootFails(r) \/ Provision(r) \/
             ProvisionFails(r) \/ Insert(r) \/ Replay(r) \/ ReplayFails(r) \/ Register(r)
             \/ Ingest(r) \/ IngestFails(r) \/ Exec(r) \/ Finish(r)
     PROVE  guard' \in [Requests -> Requests \cup {None}]
  BY <1>7
     DEF Lookup, Ensure, EnsureFails, BootFails, Provision, ProvisionFails, Insert, Replay,
         ReplayFails, Register, Ingest, IngestFails, Exec, Finish, Booted
<1>8. ASSUME NEW r \in Requests, NEW p \in Replicas,
             StartNew(r, p) \/ Resolve(r, p)
     PROVE  guard' \in [Requests -> Requests \cup {None}]
  BY <1>8 DEF StartNew, Resolve
<1>9. ASSUME NEW p \in Replicas,
             MarkExpiredIdle(p) \/ Reconcile(p) \/ ReapFails(p) \/ Evict(p) \/
             DeleteRow(p) \/ DeleteSession(p)
     PROVE  guard' \in [Requests -> Requests \cup {None}]
  BY <1>9 DEF MarkExpiredIdle, Reconcile, ReapFails, Evict, DeleteRow, DeleteSession
<1>10. CASE HardDelete \/ IdlePasses \/ Create \/ UploadBegin \/ UploadEnd
  BY <1>10 DEF HardDelete, IdlePasses, Create, UploadBegin, UploadEnd
<1>11. ASSUME NEW f \in Files,
             DeleteFile(f)
     PROVE  guard' \in [Requests -> Requests \cup {None}]
  BY <1>11 DEF DeleteFile
<1>12. CASE UNCHANGED vars
  BY <1>12 DEF vars
<1> QED
  BY <1>1, <1>2, <1>3, <1>4, <1>5, <1>6, <1>7, <1>8, <1>9, <1>10, <1>11, <1>12
     DEF Next, RequestStep, RequestTrouble, ReaperStep

LEMMA NextSweep ==
  ASSUME Types, [Next]_vars
  PROVE  reaper' \in [Replicas -> {"sleep", "reconcile", "evict"}] /\ leader' \in Replicas \cup {None}
<1>0. reaper \in [Replicas -> {"sleep", "reconcile", "evict"}] /\ leader \in Replicas \cup {None}
  BY DEF Types
<1> USE <1>0
<1>1. ASSUME NEW p \in Replicas, MarkExpiredIdle(p) PROVE reaper' \in [Replicas -> {"sleep", "reconcile", "evict"}] /\ leader' \in Replicas \cup {None}
  BY <1>1 DEF MarkExpiredIdle, ReapAt
<1>2. ASSUME NEW p \in Replicas, Reconcile(p) PROVE reaper' \in [Replicas -> {"sleep", "reconcile", "evict"}] /\ leader' \in Replicas \cup {None}
  BY <1>2 DEF Reconcile, ReapAt, PassEnds
<1>3. ASSUME NEW p \in Replicas, ReapFails(p) PROVE reaper' \in [Replicas -> {"sleep", "reconcile", "evict"}] /\ leader' \in Replicas \cup {None}
  BY <1>3 DEF ReapFails, ReapAt, PassEnds
<1>4. ASSUME NEW p \in Replicas, Evict(p) PROVE reaper' \in [Replicas -> {"sleep", "reconcile", "evict"}] /\ leader' \in Replicas \cup {None}
  BY <1>4 DEF Evict, ReapAt, PassEnds
<1>5. ASSUME NEW p \in Replicas, Crash(p) PROVE reaper' \in [Replicas -> {"sleep", "reconcile", "evict"}] /\ leader' \in Replicas \cup {None}
  BY <1>5 DEF Crash
<1>6. ASSUME NEW r \in Requests,
             Lookup(r) \/ Ensure(r) \/ EnsureFails(r) \/ BootFails(r) \/ Provision(r) \/
             ProvisionFails(r) \/ Insert(r) \/ Replay(r) \/ ReplayFails(r) \/ Register(r)
             \/ Lock(r) \/ Ingest(r) \/ IngestFails(r) \/ Exec(r) \/ ExecFails(r) \/
             Capture(r) \/ CaptureFails(r) \/ Leave(r) \/ Finish(r)
     PROVE  reaper' \in [Replicas -> {"sleep", "reconcile", "evict"}] /\ leader' \in Replicas \cup {None}
  BY <1>6
     DEF Lookup, Ensure, EnsureFails, BootFails, Provision, ProvisionFails, Insert, Replay,
         ReplayFails, Register, Lock, Ingest, IngestFails, Exec, ExecFails, Capture,
         CaptureFails, Leave, Finish, sweepVars, Booted
<1>7. ASSUME NEW r \in Requests, NEW p \in Replicas,
             StartNew(r, p) \/ Resolve(r, p)
     PROVE  reaper' \in [Replicas -> {"sleep", "reconcile", "evict"}] /\ leader' \in Replicas \cup {None}
  BY <1>7 DEF StartNew, Resolve, sweepVars
<1>8. ASSUME NEW p \in Replicas,
             DeleteRow(p) \/ DeleteSession(p)
     PROVE  reaper' \in [Replicas -> {"sleep", "reconcile", "evict"}] /\ leader' \in Replicas \cup {None}
  BY <1>8 DEF DeleteRow, DeleteSession, sweepVars
<1>9. CASE HardDelete \/ IdlePasses \/ Create \/ UploadBegin \/ UploadEnd
  BY <1>9 DEF HardDelete, IdlePasses, Create, UploadBegin, UploadEnd, sweepVars
<1>10. ASSUME NEW f \in Files,
             DeleteFile(f)
     PROVE  reaper' \in [Replicas -> {"sleep", "reconcile", "evict"}] /\ leader' \in Replicas \cup {None}
  BY <1>10 DEF DeleteFile, sweepVars
<1>11. CASE UNCHANGED vars
  BY <1>11 DEF vars
<1> QED
  BY <1>1, <1>2, <1>3, <1>4, <1>5, <1>6, <1>7, <1>8, <1>9, <1>10, <1>11
     DEF Next, RequestStep, RequestTrouble, ReaperStep

LEMMA NextApi ==
  ASSUME Types, [Next]_vars
  PROVE  api' \in Apis
<1>0. api \in Apis
  BY DEF Types
<1> USE <1>0
<1>1. ASSUME NEW p \in Replicas, DeleteRow(p) PROVE api' \in Apis
  BY <1>1 DEF DeleteRow, Apis
<1>2. ASSUME NEW p \in Replicas, DeleteSession(p) PROVE api' \in Apis
  BY <1>2 DEF DeleteSession, Apis
<1>3. ASSUME NEW p \in Replicas, Crash(p) PROVE api' \in Apis
  BY <1>3 DEF Crash, Apis
<1>4. CASE UploadBegin
  BY <1>4 DEF UploadBegin, Apis
<1>5. CASE UploadEnd
  BY <1>5 DEF UploadEnd, Apis
<1>6. ASSUME NEW r \in Requests,
             Lookup(r) \/ Ensure(r) \/ EnsureFails(r) \/ BootFails(r) \/ Provision(r) \/
             ProvisionFails(r) \/ Insert(r) \/ Replay(r) \/ ReplayFails(r) \/ Register(r)
             \/ Lock(r) \/ Ingest(r) \/ IngestFails(r) \/ Exec(r) \/ ExecFails(r) \/
             Capture(r) \/ CaptureFails(r) \/ Leave(r) \/ Finish(r)
     PROVE  api' \in Apis
  BY <1>6
     DEF Lookup, Ensure, EnsureFails, BootFails, Provision, ProvisionFails, Insert, Replay,
         ReplayFails, Register, Lock, Ingest, IngestFails, Exec, ExecFails, Capture,
         CaptureFails, Leave, Finish, Booted
<1>7. ASSUME NEW r \in Requests, NEW p \in Replicas,
             StartNew(r, p) \/ Resolve(r, p)
     PROVE  api' \in Apis
  BY <1>7 DEF StartNew, Resolve
<1>8. ASSUME NEW p \in Replicas,
             MarkExpiredIdle(p) \/ Reconcile(p) \/ ReapFails(p) \/ Evict(p)
     PROVE  api' \in Apis
  BY <1>8 DEF MarkExpiredIdle, Reconcile, ReapFails, Evict
<1>9. CASE HardDelete \/ IdlePasses \/ Create
  BY <1>9 DEF HardDelete, IdlePasses, Create
<1>10. ASSUME NEW f \in Files,
             DeleteFile(f)
     PROVE  api' \in Apis
  BY <1>10 DEF DeleteFile
<1>11. CASE UNCHANGED vars
  BY <1>11 DEF vars
<1> QED
  BY <1>1, <1>2, <1>3, <1>4, <1>5, <1>6, <1>7, <1>8, <1>9, <1>10, <1>11
     DEF Next, RequestStep, RequestTrouble, ReaperStep

LEMMA NextSaved ==
  ASSUME Types, Handles, [Next]_vars
  PROVE  saved' \in [Replicas -> SUBSET Files]
<1>0. saved \in [Replicas -> SUBSET Files]
  BY DEF Types
<1> USE <1>0
<1>1. ASSUME NEW r \in Requests, Insert(r) PROVE saved' \in [Replicas -> SUBSET Files]
  BY <1>1 DEF Insert
<1>2. ASSUME NEW r \in Requests, Ingest(r) PROVE saved' \in [Replicas -> SUBSET Files]
  BY <1>2, UsedSession DEF Ingest, Stored, Kept, Using
<1>3. ASSUME NEW r \in Requests, Exec(r) PROVE saved' \in [Replicas -> SUBSET Files]
  BY <1>3 DEF Exec
<1>4. ASSUME NEW r \in Requests, Capture(r) PROVE saved' \in [Replicas -> SUBSET Files]
  BY <1>4, UsedSession DEF Capture, Stored, Kept, Using
<1>5. CASE HardDelete
  BY <1>5 DEF HardDelete
<1>6. ASSUME NEW f \in Files, DeleteFile(f) PROVE saved' \in [Replicas -> SUBSET Files]
  BY <1>6 DEF DeleteFile
<1>7. ASSUME NEW r \in Requests,
             Lookup(r) \/ Ensure(r) \/ EnsureFails(r) \/ BootFails(r) \/ Provision(r) \/
             ProvisionFails(r) \/ Replay(r) \/ ReplayFails(r) \/ Register(r) \/ Lock(r) \/
             IngestFails(r) \/ ExecFails(r) \/ CaptureFails(r) \/ Leave(r) \/ Finish(r)
     PROVE  saved' \in [Replicas -> SUBSET Files]
  BY <1>7
     DEF Lookup, Ensure, EnsureFails, BootFails, Provision, ProvisionFails, Replay, ReplayFails,
         Register, Lock, IngestFails, ExecFails, CaptureFails, Leave, Finish, Booted
<1>8. ASSUME NEW r \in Requests, NEW p \in Replicas,
             StartNew(r, p) \/ Resolve(r, p)
     PROVE  saved' \in [Replicas -> SUBSET Files]
  BY <1>8 DEF StartNew, Resolve
<1>9. ASSUME NEW p \in Replicas,
             MarkExpiredIdle(p) \/ Reconcile(p) \/ ReapFails(p) \/ Evict(p) \/
             DeleteRow(p) \/ DeleteSession(p) \/ Crash(p)
     PROVE  saved' \in [Replicas -> SUBSET Files]
  BY <1>9 DEF MarkExpiredIdle, Reconcile, ReapFails, Evict, DeleteRow, DeleteSession, Crash
<1>10. CASE IdlePasses \/ Create \/ UploadBegin \/ UploadEnd
  BY <1>10 DEF IdlePasses, Create, UploadBegin, UploadEnd
<1>11. CASE UNCHANGED vars
  BY <1>11 DEF vars
<1> QED
  BY <1>1, <1>2, <1>3, <1>4, <1>5, <1>6, <1>7, <1>8, <1>9, <1>10, <1>11
     DEF Next, RequestStep, RequestTrouble, ReaperStep

LEMMA NextTypes ==
  ASSUME Types, Handles, [Next]_vars
  PROVE  Types'
BY NextRow, NextFiles, NextRegistry, NextReq, NextVm, NextGuard, NextSweep, NextApi, NextSaved
   DEF Types

-----------------------------------------------------------------------------
(* Sessions and who refers to them.                                         *)

(* A crash ends the requests of its replica and no others. *)
LEMMA CrashEnds ==
  ASSUME Types, NEW p \in Replicas, Crash(p), NEW r \in Requests
  PROVE  /\ req[r].at = p => req'[r].pc = "done" /\ req'[r].session = None /\ req'[r].at = None
         /\ req[r].at # p => req'[r] = req[r]
BY DEF Types, Reqs, Crash

LEMMA InitHandles == Init => Handles
BY NamesAssumption DEF Init, Handles, Early, Booting, Using

LEMMA NextHandles ==
  ASSUME Types, Handles, [Next]_vars
  PROVE  Handles'
<1>0. req \in [Requests -> Reqs] /\ registry \in [Replicas -> Requests \cup {None}]
  BY DEF Types
<1> USE <1>0, NamesAssumption DEF Handles, Early, Booting, Using, Reqs
<1>1. ASSUME NEW r \in Requests, Lookup(r) PROVE Handles'
  BY <1>1 DEF Lookup
<1>2. ASSUME NEW r \in Requests, Ensure(r) PROVE Handles'
  BY <1>2 DEF Ensure, Go, End
<1>3. ASSUME NEW r \in Requests, EnsureFails(r) PROVE Handles'
  BY <1>3 DEF EnsureFails, End
<1>4. ASSUME NEW r \in Requests, BootFails(r) PROVE Handles'
  BY <1>4 DEF BootFails, End
<1>5. ASSUME NEW r \in Requests, Provision(r) PROVE Handles'
  BY <1>5 DEF Provision, Booted
<1>6. ASSUME NEW r \in Requests, ProvisionFails(r) PROVE Handles'
  BY <1>6 DEF ProvisionFails, Booted
<1>7. ASSUME NEW r \in Requests, Insert(r) PROVE Handles'
  BY <1>7 DEF Insert, Go
<1>8. ASSUME NEW r \in Requests, Replay(r) PROVE Handles'
  BY <1>8 DEF Replay, Booted
<1>9. ASSUME NEW r \in Requests, ReplayFails(r) PROVE Handles'
  BY <1>9 DEF ReplayFails, Booted
<1>10. ASSUME NEW r \in Requests, Register(r) PROVE Handles'
  BY <1>10 DEF Register
<1>11. ASSUME NEW r \in Requests, Lock(r) PROVE Handles'
  BY <1>11 DEF Lock
<1>12. ASSUME NEW r \in Requests, Ingest(r) PROVE Handles'
  BY <1>12 DEF Ingest, Go
<1>13. ASSUME NEW r \in Requests, IngestFails(r) PROVE Handles'
  BY <1>13 DEF IngestFails, Go
<1>14. ASSUME NEW r \in Requests, Exec(r) PROVE Handles'
  BY <1>14 DEF Exec, Go
<1>15. ASSUME NEW r \in Requests, ExecFails(r) PROVE Handles'
  BY <1>15 DEF ExecFails, Go
<1>16. ASSUME NEW r \in Requests, Capture(r) PROVE Handles'
  BY <1>16 DEF Capture, Go
<1>17. ASSUME NEW r \in Requests, CaptureFails(r) PROVE Handles'
  BY <1>17 DEF CaptureFails, Go
<1>18. ASSUME NEW r \in Requests, Leave(r) PROVE Handles'
  BY <1>18 DEF Leave, End
<1>19. ASSUME NEW r \in Requests, Finish(r) PROVE Handles'
  BY <1>19 DEF Finish, End
<1>20. ASSUME NEW r \in Requests, NEW p \in Replicas, StartNew(r, p) PROVE Handles'
  BY <1>20 DEF StartNew
<1>21. ASSUME NEW r \in Requests, NEW p \in Replicas, Resolve(r, p) PROVE Handles'
  BY <1>21 DEF Resolve
<1>22. ASSUME NEW p \in Replicas, Evict(p) PROVE Handles'
  BY <1>22 DEF Evict
<1>23. ASSUME NEW p \in Replicas, DeleteSession(p) PROVE Handles'
  BY <1>23 DEF DeleteSession
<1>24. ASSUME NEW p \in Replicas, Crash(p) PROVE Handles'
  <2>1. \A q \in Replicas : registry'[q] = registry[q] \/ registry'[q] = None
    BY <1>24 DEF Crash
  <2>2. \A r \in Requests :
          \/ req'[r] = req[r]
          \/ req'[r].pc = "done" /\ req'[r].session = None /\ req'[r].at = None
    BY <1>24, CrashEnds
  <2> QED
    BY <2>1, <2>2
<1>25. ASSUME NEW p \in Replicas,
             MarkExpiredIdle(p) \/ Reconcile(p) \/ ReapFails(p) \/ DeleteRow(p)
     PROVE  Handles'
  BY <1>25 DEF MarkExpiredIdle, Reconcile, ReapFails, DeleteRow
<1>26. CASE HardDelete \/ IdlePasses \/ Create \/ UploadBegin \/ UploadEnd
  BY <1>26 DEF HardDelete, IdlePasses, Create, UploadBegin, UploadEnd
<1>27. ASSUME NEW f \in Files,
             DeleteFile(f)
     PROVE  Handles'
  BY <1>27 DEF DeleteFile
<1>28. CASE UNCHANGED vars
  BY <1>28 DEF vars
<1> QED
  BY <1>1, <1>2, <1>3, <1>4, <1>5, <1>6, <1>7, <1>8, <1>9, <1>10, <1>11, <1>12, <1>13, <1>14,
     <1>15, <1>16, <1>17, <1>18, <1>19, <1>20, <1>21, <1>22, <1>23, <1>24, <1>25, <1>26, <1>27,
     <1>28
     DEF Next, RequestStep, RequestTrouble, ReaperStep

LEMMA InitOneHome == Init => OneHome
BY DEF Init, OneHome

LEMMA NextOneHome ==
  ASSUME Types, Handles, OneHome, [Next]_vars
  PROVE  OneHome'
<1>0. req \in [Requests -> Reqs] /\ registry \in [Replicas -> Requests \cup {None}]
  BY DEF Types
<1> USE <1>0, NamesAssumption DEF OneHome, Handles, Early, Booting, Using, Reqs
<1>1. ASSUME NEW r \in Requests, Lookup(r) PROVE OneHome'
  BY <1>1 DEF Lookup
<1>2. ASSUME NEW r \in Requests, Ensure(r) PROVE OneHome'
  BY <1>2 DEF Ensure, Go, End
<1>3. ASSUME NEW r \in Requests, EnsureFails(r) PROVE OneHome'
  BY <1>3 DEF EnsureFails, End
<1>4. ASSUME NEW r \in Requests, BootFails(r) PROVE OneHome'
  BY <1>4 DEF BootFails, End
<1>5. ASSUME NEW r \in Requests, Provision(r) PROVE OneHome'
  BY <1>5 DEF Provision, Booted
<1>6. ASSUME NEW r \in Requests, ProvisionFails(r) PROVE OneHome'
  BY <1>6 DEF ProvisionFails, Booted
<1>7. ASSUME NEW r \in Requests, Insert(r) PROVE OneHome'
  BY <1>7 DEF Insert, Go
<1>8. ASSUME NEW r \in Requests, Replay(r) PROVE OneHome'
  BY <1>8 DEF Replay, Booted
<1>9. ASSUME NEW r \in Requests, ReplayFails(r) PROVE OneHome'
  BY <1>9 DEF ReplayFails, Booted
<1>10. ASSUME NEW r \in Requests, Register(r) PROVE OneHome'
  BY <1>10 DEF Register
<1>11. ASSUME NEW r \in Requests, Lock(r) PROVE OneHome'
  BY <1>11 DEF Lock
<1>12. ASSUME NEW r \in Requests, Ingest(r) PROVE OneHome'
  BY <1>12 DEF Ingest, Go
<1>13. ASSUME NEW r \in Requests, IngestFails(r) PROVE OneHome'
  BY <1>13 DEF IngestFails, Go
<1>14. ASSUME NEW r \in Requests, Exec(r) PROVE OneHome'
  BY <1>14 DEF Exec, Go
<1>15. ASSUME NEW r \in Requests, ExecFails(r) PROVE OneHome'
  BY <1>15 DEF ExecFails, Go
<1>16. ASSUME NEW r \in Requests, Capture(r) PROVE OneHome'
  BY <1>16 DEF Capture, Go
<1>17. ASSUME NEW r \in Requests, CaptureFails(r) PROVE OneHome'
  BY <1>17 DEF CaptureFails, Go
<1>18. ASSUME NEW r \in Requests, Leave(r) PROVE OneHome'
  BY <1>18 DEF Leave, End
<1>19. ASSUME NEW r \in Requests, Finish(r) PROVE OneHome'
  BY <1>19 DEF Finish, End
<1>20. ASSUME NEW r \in Requests, NEW p \in Replicas, StartNew(r, p) PROVE OneHome'
  BY <1>20 DEF StartNew
<1>21. ASSUME NEW r \in Requests, NEW p \in Replicas, Resolve(r, p) PROVE OneHome'
  BY <1>21 DEF Resolve
<1>22. ASSUME NEW p \in Replicas, Evict(p) PROVE OneHome'
  BY <1>22 DEF Evict
<1>23. ASSUME NEW p \in Replicas, DeleteSession(p) PROVE OneHome'
  BY <1>23 DEF DeleteSession
<1>24. ASSUME NEW p \in Replicas, Crash(p) PROVE OneHome'
  <2>1. \A q \in Replicas : registry'[q] = registry[q] \/ registry'[q] = None
    BY <1>24 DEF Crash
  <2>2. \A r \in Requests : req'[r] = req[r] \/ req'[r].session = None
    BY <1>24, CrashEnds
  <2> QED
    BY <2>1, <2>2
<1>25. ASSUME NEW p \in Replicas,
             MarkExpiredIdle(p) \/ Reconcile(p) \/ ReapFails(p) \/ DeleteRow(p)
     PROVE  OneHome'
  BY <1>25 DEF MarkExpiredIdle, Reconcile, ReapFails, DeleteRow
<1>26. CASE HardDelete \/ IdlePasses \/ Create \/ UploadBegin \/ UploadEnd
  BY <1>26 DEF HardDelete, IdlePasses, Create, UploadBegin, UploadEnd
<1>27. ASSUME NEW f \in Files,
             DeleteFile(f)
     PROVE  OneHome'
  BY <1>27 DEF DeleteFile
<1>28. CASE UNCHANGED vars
  BY <1>28 DEF vars
<1> QED
  BY <1>1, <1>2, <1>3, <1>4, <1>5, <1>6, <1>7, <1>8, <1>9, <1>10, <1>11, <1>12, <1>13, <1>14,
     <1>15, <1>16, <1>17, <1>18, <1>19, <1>20, <1>21, <1>22, <1>23, <1>24, <1>25, <1>26, <1>27,
     <1>28
     DEF Next, RequestStep, RequestTrouble, ReaperStep

LEMMA InitVmsUp == Init => VmsUp
BY NamesAssumption DEF Init, VmsUp, Referenced

LEMMA NextVmsUp ==
  ASSUME Types, Handles, VmsUp, [Next]_vars
  PROVE  VmsUp'
<1>0. req \in [Requests -> Reqs] /\ registry \in [Replicas -> Requests \cup {None}] /\ vm \in [Requests -> Vms]
  BY DEF Types
<1> USE <1>0, NamesAssumption DEF VmsUp, Referenced, Handles, Early, Booting, Using, Reqs
<1>1. ASSUME NEW r \in Requests, Lookup(r) PROVE VmsUp'
  BY <1>1 DEF Lookup, Fresh, NoVm
<1>2. ASSUME NEW r \in Requests, Ensure(r) PROVE VmsUp'
  BY <1>2 DEF Ensure, Go, End, Fresh, NoVm
<1>3. ASSUME NEW r \in Requests, EnsureFails(r) PROVE VmsUp'
  BY <1>3 DEF EnsureFails, End, Fresh, NoVm
<1>4. ASSUME NEW r \in Requests, BootFails(r) PROVE VmsUp'
  BY <1>4 DEF BootFails, End, Fresh, NoVm
<1>5. ASSUME NEW r \in Requests, Provision(r) PROVE VmsUp'
  BY <1>5 DEF Provision, Booted, Fresh, NoVm
<1>6. ASSUME NEW r \in Requests, ProvisionFails(r) PROVE VmsUp'
  BY <1>6 DEF ProvisionFails, Booted, Fresh, NoVm
<1>7. ASSUME NEW r \in Requests, Insert(r) PROVE VmsUp'
  <2> DEFINE vms == IF registry[req[r].at] = None THEN vm
                    ELSE [vm EXCEPT ![registry[req[r].at]].displaced = TRUE]
  <2>1. \A v \in Requests : vms[v].up = vm[v].up
    BY DEF Vms
  <2>2. \A v \in Requests : Referenced(v, registry', req') => vm'[v] = vms[v]
    BY <1>7 DEF Insert, TearDown
  <2>3. \A v \in Requests : Referenced(v, registry', req') => Referenced(v, registry, req)
    BY <1>7 DEF Insert, Go
  <2> HIDE DEF vms
  <2> QED
    BY <2>1, <2>2, <2>3
<1>8. ASSUME NEW r \in Requests, Replay(r) PROVE VmsUp'
  BY <1>8 DEF Replay, Booted, Fresh, NoVm
<1>9. ASSUME NEW r \in Requests, ReplayFails(r) PROVE VmsUp'
  BY <1>9 DEF ReplayFails, Booted, Fresh, NoVm
<1>10. ASSUME NEW r \in Requests, Register(r) PROVE VmsUp'
  BY <1>10 DEF Register, TearDown, Fresh, NoVm
<1>11. ASSUME NEW r \in Requests, Lock(r) PROVE VmsUp'
  BY <1>11 DEF Lock, Fresh, NoVm
<1>12. ASSUME NEW r \in Requests, Ingest(r) PROVE VmsUp'
  BY <1>12 DEF Ingest, Go, Fresh, NoVm
<1>13. ASSUME NEW r \in Requests, IngestFails(r) PROVE VmsUp'
  <2>1. \A v \in Requests : vm'[v].up = vm[v].up
    BY <1>13 DEF IngestFails, Vms
  <2>2. registry' = registry /\ \A q \in Requests : req'[q].session = req[q].session
    BY <1>13 DEF IngestFails, Go
  <2> QED
    BY <2>1, <2>2
<1>14. ASSUME NEW r \in Requests, Exec(r) PROVE VmsUp'
  <2>1. \E d : vm' = [vm EXCEPT ![req[r].session].data = d]
    BY <1>14 DEF Exec
  <2>2. \A v \in Requests : vm'[v].up = vm[v].up
    BY <2>1 DEF Vms
  <2>3. registry' = registry /\ \A q \in Requests : req'[q].session = req[q].session
    BY <1>14 DEF Exec, Go
  <2> QED
    BY <2>2, <2>3
<1>15. ASSUME NEW r \in Requests, ExecFails(r) PROVE VmsUp'
  BY <1>15 DEF ExecFails, Go, Fresh, NoVm
<1>16. ASSUME NEW r \in Requests, Capture(r) PROVE VmsUp'
  BY <1>16 DEF Capture, Go, Fresh, NoVm
<1>17. ASSUME NEW r \in Requests, CaptureFails(r) PROVE VmsUp'
  <2>1. \A v \in Requests : vm'[v].up = vm[v].up
    BY <1>17 DEF CaptureFails, Vms
  <2>2. registry' = registry /\ \A q \in Requests : req'[q].session = req[q].session
    BY <1>17 DEF CaptureFails, Go
  <2> QED
    BY <2>1, <2>2
<1>18. ASSUME NEW r \in Requests, Leave(r) PROVE VmsUp'
  BY <1>18 DEF Leave, End, TearDown, Fresh, NoVm
<1>19. ASSUME NEW r \in Requests, Finish(r) PROVE VmsUp'
  BY <1>19 DEF Finish, End, TearDown, Fresh, NoVm
<1>20. ASSUME NEW r \in Requests, NEW p \in Replicas, StartNew(r, p) PROVE VmsUp'
  BY <1>20 DEF StartNew, Fresh, NoVm
<1>21. ASSUME NEW r \in Requests, NEW p \in Replicas, Resolve(r, p) PROVE VmsUp'
  BY <1>21 DEF Resolve, Fresh, NoVm
<1>22. ASSUME NEW p \in Replicas, Evict(p) PROVE VmsUp'
  BY <1>22 DEF Evict, TearDown, Fresh, NoVm
<1>23. ASSUME NEW p \in Replicas, DeleteSession(p) PROVE VmsUp'
  BY <1>23 DEF DeleteSession, TearDown, Fresh, NoVm
<1>24. ASSUME NEW p \in Replicas, Crash(p) PROVE VmsUp'
  <2>1. \A v \in Requests : Referenced(v, registry', req') => vm'[v] = vm[v]
    BY <1>24 DEF Crash, TearDown
  <2>2. \A r \in Requests : req'[r] = req[r] \/ req'[r].session = None
    BY <1>24, CrashEnds
  <2>3. \A q \in Replicas : registry'[q] = registry[q] \/ registry'[q] = None
    BY <1>24 DEF Crash
  <2> QED
    BY <2>1, <2>2, <2>3
<1>25. ASSUME NEW p \in Replicas,
             MarkExpiredIdle(p) \/ Reconcile(p) \/ ReapFails(p) \/ DeleteRow(p)
     PROVE  VmsUp'
  BY <1>25 DEF MarkExpiredIdle, Reconcile, ReapFails, DeleteRow
<1>26. CASE HardDelete \/ IdlePasses \/ Create \/ UploadBegin \/ UploadEnd
  BY <1>26 DEF HardDelete, IdlePasses, Create, UploadBegin, UploadEnd
<1>27. ASSUME NEW f \in Files,
             DeleteFile(f)
     PROVE  VmsUp'
  BY <1>27 DEF DeleteFile
<1>28. CASE UNCHANGED vars
  BY <1>28 DEF vars
<1> QED
  BY <1>1, <1>2, <1>3, <1>4, <1>5, <1>6, <1>7, <1>8, <1>9, <1>10, <1>11, <1>12, <1>13, <1>14,
     <1>15, <1>16, <1>17, <1>18, <1>19, <1>20, <1>21, <1>22, <1>23, <1>24, <1>25, <1>26, <1>27,
     <1>28
     DEF Next, RequestStep, RequestTrouble, ReaperStep

LEMMA InitLocked == Init => Locked
BY DEF Init, Locked

LEMMA NextLocked ==
  ASSUME Types, Handles, Locked, [Next]_vars
  PROVE  Locked'
<1>0. req \in [Requests -> Reqs] /\ registry \in [Replicas -> Requests \cup {None}] /\ guard \in [Requests -> Requests \cup {None}]
  BY DEF Types
<1> USE <1>0, NamesAssumption DEF Locked, Handles, Booting, Using, Reqs
<1>1. ASSUME NEW r \in Requests, Lookup(r) PROVE Locked'
  BY <1>1 DEF Lookup
<1>2. ASSUME NEW r \in Requests, Ensure(r) PROVE Locked'
  BY <1>2 DEF Ensure, Go, End
<1>3. ASSUME NEW r \in Requests, EnsureFails(r) PROVE Locked'
  BY <1>3 DEF EnsureFails, End
<1>4. ASSUME NEW r \in Requests, BootFails(r) PROVE Locked'
  BY <1>4 DEF BootFails, End
<1>5. ASSUME NEW r \in Requests, Provision(r) PROVE Locked'
  BY <1>5 DEF Provision, Booted
<1>6. ASSUME NEW r \in Requests, ProvisionFails(r) PROVE Locked'
  BY <1>6 DEF ProvisionFails, Booted
<1>7. ASSUME NEW r \in Requests, Insert(r) PROVE Locked'
  BY <1>7 DEF Insert, Go
<1>8. ASSUME NEW r \in Requests, Replay(r) PROVE Locked'
  BY <1>8 DEF Replay, Booted
<1>9. ASSUME NEW r \in Requests, ReplayFails(r) PROVE Locked'
  BY <1>9 DEF ReplayFails, Booted
<1>10. ASSUME NEW r \in Requests, Register(r) PROVE Locked'
  BY <1>10 DEF Register
<1>11. ASSUME NEW r \in Requests, Lock(r) PROVE Locked'
  BY <1>11 DEF Lock
<1>12. ASSUME NEW r \in Requests, Ingest(r) PROVE Locked'
  BY <1>12 DEF Ingest, Go
<1>13. ASSUME NEW r \in Requests, IngestFails(r) PROVE Locked'
  BY <1>13 DEF IngestFails, Go
<1>14. ASSUME NEW r \in Requests, Exec(r) PROVE Locked'
  BY <1>14 DEF Exec, Go
<1>15. ASSUME NEW r \in Requests, ExecFails(r) PROVE Locked'
  BY <1>15 DEF ExecFails, Go, Unlocked
<1>16. ASSUME NEW r \in Requests, Capture(r) PROVE Locked'
  BY <1>16 DEF Capture, Go, Unlocked
<1>17. ASSUME NEW r \in Requests, CaptureFails(r) PROVE Locked'
  BY <1>17 DEF CaptureFails, Go, Unlocked
<1>18. ASSUME NEW r \in Requests, Leave(r) PROVE Locked'
  BY <1>18 DEF Leave, End, Unlocked
<1>19. ASSUME NEW r \in Requests, Finish(r) PROVE Locked'
  BY <1>19 DEF Finish, End
<1>20. ASSUME NEW r \in Requests, NEW p \in Replicas, StartNew(r, p) PROVE Locked'
  BY <1>20 DEF StartNew
<1>21. ASSUME NEW r \in Requests, NEW p \in Replicas, Resolve(r, p) PROVE Locked'
  BY <1>21 DEF Resolve
<1>22. ASSUME NEW p \in Replicas, Crash(p) PROVE Locked'
  <2>1. ASSUME NEW r \in Requests, req'[r].pc \in {"ingest", "staged", "capture"}
        PROVE  guard'[req'[r].session] = r
    <3>1. req[r].at # p /\ req'[r] = req[r]
      BY <1>22, <2>1, CrashEnds
    <3>2. guard[req[r].session] = r /\ req[r].session \in Requests
      BY <2>1, <3>1
    <3> QED
      BY <1>22, <3>1, <3>2 DEF Crash
  <2> QED
    BY <2>1
<1>23. ASSUME NEW p \in Replicas,
             MarkExpiredIdle(p) \/ Reconcile(p) \/ ReapFails(p) \/ Evict(p) \/
             DeleteRow(p) \/ DeleteSession(p)
     PROVE  Locked'
  BY <1>23 DEF MarkExpiredIdle, Reconcile, ReapFails, Evict, DeleteRow, DeleteSession
<1>24. CASE HardDelete \/ IdlePasses \/ Create \/ UploadBegin \/ UploadEnd
  BY <1>24 DEF HardDelete, IdlePasses, Create, UploadBegin, UploadEnd
<1>25. ASSUME NEW f \in Files,
             DeleteFile(f)
     PROVE  Locked'
  BY <1>25 DEF DeleteFile
<1>26. CASE UNCHANGED vars
  BY <1>26 DEF vars
<1> QED
  BY <1>1, <1>2, <1>3, <1>4, <1>5, <1>6, <1>7, <1>8, <1>9, <1>10, <1>11, <1>12, <1>13, <1>14,
     <1>15, <1>16, <1>17, <1>18, <1>19, <1>20, <1>21, <1>22, <1>23, <1>24, <1>25, <1>26
     DEF Next, RequestStep, RequestTrouble, ReaperStep

-----------------------------------------------------------------------------
(* The lives of the row.                                                    *)

(* A request that may have inserted the row never goes back. *)
LEMMA PastGrows ==
  ASSUME Types, [Next]_vars
  PROVE  Past \subseteq Past'
<1>0. req \in [Requests -> Reqs]
  BY DEF Types
<1> USE <1>0 DEF Past
<1>1. ASSUME NEW r \in Requests, Lookup(r) PROVE Past \subseteq Past'
  BY <1>1 DEF Lookup, Reqs
<1>2. ASSUME NEW r \in Requests, Ensure(r) PROVE Past \subseteq Past'
  <2>1. \A q \in Requests : req'[q].pc = req[q].pc \/ req'[q].pc \in {"boot", "done"}
    BY <1>2 DEF Ensure, Go, End, Reqs
  <2> QED
    BY <2>1
<1>3. ASSUME NEW r \in Requests, EnsureFails(r) PROVE Past \subseteq Past'
  BY <1>3 DEF EnsureFails, End, Reqs
<1>4. ASSUME NEW r \in Requests, BootFails(r) PROVE Past \subseteq Past'
  BY <1>4 DEF BootFails, End, Reqs
<1>5. ASSUME NEW r \in Requests, Provision(r) PROVE Past \subseteq Past'
  BY <1>5 DEF Provision, Booted, Reqs
<1>6. ASSUME NEW r \in Requests, ProvisionFails(r) PROVE Past \subseteq Past'
  BY <1>6 DEF ProvisionFails, Booted, Reqs
<1>7. ASSUME NEW r \in Requests, Insert(r) PROVE Past \subseteq Past'
  BY <1>7 DEF Insert, Go, Reqs
<1>8. ASSUME NEW r \in Requests, Replay(r) PROVE Past \subseteq Past'
  BY <1>8 DEF Replay, Booted, Reqs
<1>9. ASSUME NEW r \in Requests, ReplayFails(r) PROVE Past \subseteq Past'
  BY <1>9 DEF ReplayFails, Booted, Reqs
<1>10. ASSUME NEW r \in Requests, Register(r) PROVE Past \subseteq Past'
  BY <1>10 DEF Register, Reqs
<1>11. ASSUME NEW r \in Requests, Lock(r) PROVE Past \subseteq Past'
  BY <1>11 DEF Lock, Reqs
<1>12. ASSUME NEW r \in Requests, Ingest(r) PROVE Past \subseteq Past'
  BY <1>12 DEF Ingest, Go, Reqs
<1>13. ASSUME NEW r \in Requests, IngestFails(r) PROVE Past \subseteq Past'
  BY <1>13 DEF IngestFails, Go, Reqs
<1>14. ASSUME NEW r \in Requests, Exec(r) PROVE Past \subseteq Past'
  BY <1>14 DEF Exec, Go, Reqs
<1>15. ASSUME NEW r \in Requests, ExecFails(r) PROVE Past \subseteq Past'
  BY <1>15 DEF ExecFails, Go, Reqs
<1>16. ASSUME NEW r \in Requests, Capture(r) PROVE Past \subseteq Past'
  BY <1>16 DEF Capture, Go, Reqs
<1>17. ASSUME NEW r \in Requests, CaptureFails(r) PROVE Past \subseteq Past'
  BY <1>17 DEF CaptureFails, Go, Reqs
<1>18. ASSUME NEW r \in Requests, Leave(r) PROVE Past \subseteq Past'
  BY <1>18 DEF Leave, End, Reqs
<1>19. ASSUME NEW r \in Requests, Finish(r) PROVE Past \subseteq Past'
  BY <1>19 DEF Finish, End, Reqs
<1>20. ASSUME NEW r \in Requests, NEW p \in Replicas, StartNew(r, p) PROVE Past \subseteq Past'
  BY <1>20 DEF StartNew, Reqs
<1>21. ASSUME NEW r \in Requests, NEW p \in Replicas, Resolve(r, p) PROVE Past \subseteq Past'
  BY <1>21 DEF Resolve, Reqs
<1>22. ASSUME NEW p \in Replicas, Crash(p) PROVE Past \subseteq Past'
  BY <1>22, CrashEnds
<1>23. ASSUME NEW p \in Replicas,
             MarkExpiredIdle(p) \/ Reconcile(p) \/ ReapFails(p) \/ Evict(p) \/
             DeleteRow(p) \/ DeleteSession(p)
     PROVE  Past \subseteq Past'
  BY <1>23 DEF MarkExpiredIdle, Reconcile, ReapFails, Evict, DeleteRow, DeleteSession
<1>24. CASE HardDelete \/ IdlePasses \/ Create \/ UploadBegin \/ UploadEnd
  BY <1>24 DEF HardDelete, IdlePasses, Create, UploadBegin, UploadEnd
<1>25. ASSUME NEW f \in Files,
             DeleteFile(f)
     PROVE  Past \subseteq Past'
  BY <1>25 DEF DeleteFile
<1>26. CASE UNCHANGED vars
  BY <1>26 DEF vars
<1> QED
  BY <1>1, <1>2, <1>3, <1>4, <1>5, <1>6, <1>7, <1>8, <1>9, <1>10, <1>11, <1>12, <1>13, <1>14,
     <1>15, <1>16, <1>17, <1>18, <1>19, <1>20, <1>21, <1>22, <1>23, <1>24, <1>25, <1>26
     DEF Next, RequestStep, RequestTrouble, ReaperStep

LEMMA InitLivesBound == Init => LivesBound
<1> SUFFICES ASSUME Init PROVE LivesBound
  OBVIOUS
<1>1. Past = {}
  BY DEF Init, Past
<1> QED
  BY <1>1, FS_EmptySet DEF Init, LivesBound

LEMMA NextLivesBound ==
  ASSUME Types, LivesBound, [Next]_vars
  PROVE  LivesBound'
<1>0. row \in Rows /\ req \in [Requests -> Reqs]
  BY DEF Types
<1>a. /\ IsFiniteSet(Past) /\ IsFiniteSet(Past') /\ Cardinality(Past) \in Nat
      /\ Cardinality(Past') \in Nat /\ Cardinality(Past) <= Cardinality(Past')
  <2>1. Past \subseteq Requests /\ Past' \subseteq Requests /\ IsFiniteSet(Requests)
    BY ContainersAssumption DEF Past
  <2>2. IsFiniteSet(Past) /\ IsFiniteSet(Past')
    BY <2>1, FS_Subset
  <2> QED
    BY <2>2, FS_Subset, FS_CardinalityType, PastGrows
<1>b. ASSUME NEW r \in Past', r \notin Past
      PROVE  Cardinality(Past) + 1 <= Cardinality(Past')
  <2>1. Cardinality(Past \cup {r}) = Cardinality(Past) + 1
    BY <1>a, <1>b, FS_AddElement
  <2>2. Past \cup {r} \subseteq Past'
    BY <1>b, PastGrows
  <2> QED
    BY <1>a, <2>1, <2>2, FS_Subset
<1>c. row'.lives = row.lives => LivesBound'
  BY <1>0, <1>a DEF LivesBound, Rows
<1> USE <1>0
<1>1. ASSUME NEW r \in Requests, Ensure(r) PROVE LivesBound'
  <2>1. CASE UNCHANGED row
    BY <2>1, <1>c
  <2>2. CASE row' = Inserted /\ Go(r, "boot")
    <3>1. r \in Past' /\ r \notin Past
      BY <1>1, <2>2 DEF Ensure, Go, Past, Reqs
    <3> QED
      BY <2>2, <3>1, <1>a, <1>b DEF Inserted, LivesBound, Rows
  <2> QED
    BY <1>1, <2>1, <2>2 DEF Ensure
<1>2. ASSUME NEW r \in Requests, Provision(r) PROVE LivesBound'
  <2>1. r \in Past' /\ r \notin Past
    BY <1>2 DEF Provision, Booted, Past, Reqs
  <2> QED
    BY <1>2, <2>1, <1>a, <1>b DEF Provision, Inserted, LivesBound, Rows
<1>3. ASSUME NEW r \in Requests, Exec(r) PROVE LivesBound'
  BY <1>3, <1>c DEF Exec, Rows
<1>4. ASSUME NEW p \in Replicas, MarkExpiredIdle(p) PROVE LivesBound'
  BY <1>4, <1>c DEF MarkExpiredIdle, Rows
<1>5. ASSUME NEW p \in Replicas, DeleteRow(p) PROVE LivesBound'
  BY <1>5, <1>c DEF DeleteRow, Rows
<1>6. CASE HardDelete
  BY <1>6, <1>c DEF HardDelete, Rows
<1>7. CASE IdlePasses
  BY <1>7, <1>c DEF IdlePasses, Rows
<1>8. CASE Create
  <2>1. row'.lives = 1
    BY <1>8 DEF Create, Inserted
  <2> QED
    BY <2>1, <1>a DEF LivesBound
<1>9. ASSUME NEW r \in Requests,
             Lookup(r) \/ EnsureFails(r) \/ BootFails(r) \/ ProvisionFails(r) \/ Insert(r)
             \/ Replay(r) \/ ReplayFails(r) \/ Register(r) \/ Lock(r) \/ Ingest(r) \/
             IngestFails(r) \/ ExecFails(r) \/ Capture(r) \/ CaptureFails(r) \/ Leave(r)
             \/ Finish(r)
     PROVE  LivesBound'
  BY <1>9, <1>c
     DEF Lookup, EnsureFails, BootFails, ProvisionFails, Insert, Replay, ReplayFails, Register,
         Lock, Ingest, IngestFails, ExecFails, Capture, CaptureFails, Leave, Finish, dbVars
<1>10. ASSUME NEW r \in Requests, NEW p \in Replicas,
             StartNew(r, p) \/ Resolve(r, p)
     PROVE  LivesBound'
  BY <1>10, <1>c DEF StartNew, Resolve, dbVars
<1>11. ASSUME NEW p \in Replicas,
             Reconcile(p) \/ ReapFails(p) \/ Evict(p) \/ DeleteSession(p) \/ Crash(p)
     PROVE  LivesBound'
  BY <1>11, <1>c DEF Reconcile, ReapFails, Evict, DeleteSession, Crash, dbVars
<1>12. CASE UploadBegin \/ UploadEnd
  BY <1>12, <1>c DEF UploadBegin, UploadEnd, dbVars
<1>13. ASSUME NEW f \in Files,
             DeleteFile(f)
     PROVE  LivesBound'
  BY <1>13, <1>c DEF DeleteFile
<1>14. CASE UNCHANGED vars
  BY <1>14, <1>c DEF vars
<1> QED
  BY <1>1, <1>2, <1>3, <1>4, <1>5, <1>6, <1>7, <1>8, <1>9, <1>10, <1>11, <1>12, <1>13, <1>14
     DEF Next, RequestStep, RequestTrouble, ReaperStep

LEMMA InitFirstLife == Init => FirstLife
BY DEF Init, FirstLife, None

LEMMA NextFirstLife ==
  ASSUME Types, Handles, FirstLife, [Next]_vars
  PROVE  FirstLife'
<1>0. /\ row \in Rows /\ files \subseteq Files /\ req \in [Requests -> Reqs] /\ api \in Apis
      /\ reaper \in [Replicas -> {"sleep", "reconcile", "evict"}]
  BY DEF Types
<1> USE <1>0 DEF FirstLife
<1>1. ASSUME NEW r \in Requests, Lookup(r) PROVE FirstLife'
  BY <1>1 DEF Lookup, dbVars, sweepVars, Rows, Reqs, Apis, Terminal, None
<1>2. ASSUME NEW r \in Requests, Ensure(r) PROVE FirstLife'
  BY <1>2 DEF Ensure, Go, End, Inserted, sweepVars, Rows, Reqs, Apis, Terminal, None
<1>3. ASSUME NEW r \in Requests, EnsureFails(r) PROVE FirstLife'
  BY <1>3 DEF EnsureFails, End, dbVars, sweepVars, Rows, Reqs, Apis, Terminal, None
<1>4. ASSUME NEW r \in Requests, BootFails(r) PROVE FirstLife'
  BY <1>4 DEF BootFails, End, dbVars, sweepVars, Rows, Reqs, Apis, Terminal, None
<1>5. ASSUME NEW r \in Requests, Provision(r) PROVE FirstLife'
  BY <1>5 DEF Provision, Booted, Inserted, sweepVars, Rows, Reqs, Apis, Terminal, None
<1>6. ASSUME NEW r \in Requests, ProvisionFails(r) PROVE FirstLife'
  BY <1>6 DEF ProvisionFails, Booted, sweepVars, Rows, Reqs, Apis, Terminal, None
<1>7. ASSUME NEW r \in Requests, Insert(r) PROVE FirstLife'
  BY <1>7 DEF Insert, Go, dbVars, sweepVars, Rows, Reqs, Apis, Terminal, None
<1>8. ASSUME NEW r \in Requests, Replay(r) PROVE FirstLife'
  BY <1>8 DEF Replay, Booted, sweepVars, Rows, Reqs, Apis, Terminal, None
<1>9. ASSUME NEW r \in Requests, ReplayFails(r) PROVE FirstLife'
  BY <1>9 DEF ReplayFails, Booted, sweepVars, Rows, Reqs, Apis, Terminal, None
<1>10. ASSUME NEW r \in Requests, Register(r) PROVE FirstLife'
  BY <1>10 DEF Register, dbVars, sweepVars, Rows, Reqs, Apis, Terminal, None
<1>11. ASSUME NEW r \in Requests, Lock(r) PROVE FirstLife'
  BY <1>11 DEF Lock, dbVars, sweepVars, Rows, Reqs, Apis, Terminal, None
<1>12. ASSUME NEW r \in Requests, Ingest(r) PROVE FirstLife'
  BY <1>12 DEF Ingest, Go, Stored, sweepVars, Rows, Reqs, Apis, Terminal, None
<1>13. ASSUME NEW r \in Requests, IngestFails(r) PROVE FirstLife'
  BY <1>13 DEF IngestFails, Go, dbVars, sweepVars, Rows, Reqs, Apis, Terminal, None
<1>14. ASSUME NEW r \in Requests, Exec(r) PROVE FirstLife'
  BY <1>14 DEF Exec, Go, sweepVars, Rows, Reqs, Apis, Terminal, None
<1>15. ASSUME NEW r \in Requests, ExecFails(r) PROVE FirstLife'
  BY <1>15 DEF ExecFails, Go, dbVars, sweepVars, Rows, Reqs, Apis, Terminal, None
<1>16. ASSUME NEW r \in Requests, Capture(r) PROVE FirstLife'
  BY <1>16 DEF Capture, Go, Stored, sweepVars, Rows, Reqs, Apis, Terminal, None
<1>17. ASSUME NEW r \in Requests, CaptureFails(r) PROVE FirstLife'
  BY <1>17 DEF CaptureFails, Go, dbVars, sweepVars, Rows, Reqs, Apis, Terminal, None
<1>18. ASSUME NEW r \in Requests, Leave(r) PROVE FirstLife'
  BY <1>18 DEF Leave, End, dbVars, sweepVars, Rows, Reqs, Apis, Terminal, None
<1>19. ASSUME NEW r \in Requests, Finish(r) PROVE FirstLife'
  BY <1>19 DEF Finish, End, dbVars, sweepVars, Rows, Reqs, Apis, Terminal, None
<1>20. ASSUME NEW r \in Requests, NEW p \in Replicas, StartNew(r, p) PROVE FirstLife'
  BY <1>20 DEF StartNew, dbVars, sweepVars, Rows, Reqs, Apis, Terminal, None
<1>21. ASSUME NEW r \in Requests, NEW p \in Replicas, Resolve(r, p) PROVE FirstLife'
  BY <1>21 DEF Resolve, dbVars, sweepVars, Rows, Reqs, Apis, Terminal, None
<1>22. ASSUME NEW p \in Replicas, MarkExpiredIdle(p) PROVE FirstLife'
  BY <1>22 DEF MarkExpiredIdle, ReapAt, Rows, Reqs, Apis, Terminal, None
<1>23. ASSUME NEW p \in Replicas, Reconcile(p) PROVE FirstLife'
  BY <1>23 DEF Reconcile, ReapAt, PassEnds, ToEvict, dbVars, Terminal, None
<1>24. ASSUME NEW p \in Replicas, ReapFails(p) PROVE FirstLife'
  BY <1>24 DEF ReapFails, ReapAt, PassEnds, dbVars, Rows, Reqs, Apis, Terminal, None
<1>25. ASSUME NEW p \in Replicas, Evict(p) PROVE FirstLife'
  BY <1>25 DEF Evict, ReapAt, PassEnds, dbVars, Rows, Reqs, Apis, Terminal, None
<1>26. ASSUME NEW p \in Replicas, DeleteRow(p) PROVE FirstLife'
  BY <1>26 DEF DeleteRow, sweepVars, Rows, Reqs, Apis, Terminal, None
<1>27. ASSUME NEW p \in Replicas, DeleteSession(p) PROVE FirstLife'
  BY <1>27 DEF DeleteSession, dbVars, sweepVars, Rows, Reqs, Apis, Terminal, None
<1>28. ASSUME NEW p \in Replicas, Crash(p) PROVE FirstLife'
  <2>1. \A r \in Requests : req'[r] = req[r] \/ req'[r].pc = "done"
    BY <1>28, CrashEnds
  <2>2. \A r \in Requests : req[r].pc = "new" => req'[r] = req[r]
    BY <1>28, CrashEnds, NamesAssumption DEF Handles
  <2>3. /\ api'.deleting \subseteq api.deleting /\ UNCHANGED <<row, files>>
        /\ \A q \in Replicas : reaper'[q] = reaper[q] \/ reaper'[q] = "sleep"
    BY <1>28 DEF Crash, dbVars, Apis
  <2> QED
    BY <2>1, <2>2, <2>3
<1>29. CASE HardDelete
  BY <1>29 DEF HardDelete, sweepVars, Rows, Reqs, Apis, Terminal, None
<1>30. CASE IdlePasses
  BY <1>30 DEF IdlePasses, sweepVars, Rows, Reqs, Apis, Terminal, None
<1>31. CASE Create
  BY <1>31 DEF Create, Inserted, sweepVars, Rows, Reqs, Apis, Terminal, None
<1>32. CASE UploadBegin
  BY <1>32 DEF UploadBegin, dbVars, sweepVars, Rows, Reqs, Apis, Terminal, None
<1>33. CASE UploadEnd
  BY <1>33 DEF UploadEnd, sweepVars, Rows, Reqs, Apis, Terminal, None
<1>34. ASSUME NEW f \in Files, DeleteFile(f) PROVE FirstLife'
  BY <1>34 DEF DeleteFile, sweepVars, Rows, Reqs, Apis, Terminal, None
<1>35. CASE UNCHANGED vars
  BY <1>35 DEF vars
<1> QED
  BY <1>1, <1>2, <1>3, <1>4, <1>5, <1>6, <1>7, <1>8, <1>9, <1>10, <1>11, <1>12, <1>13, <1>14,
     <1>15, <1>16, <1>17, <1>18, <1>19, <1>20, <1>21, <1>22, <1>23, <1>24, <1>25, <1>26, <1>27,
     <1>28, <1>29, <1>30, <1>31, <1>32, <1>33, <1>34, <1>35
     DEF Next, RequestStep, RequestTrouble, ReaperStep

-----------------------------------------------------------------------------
(* The sessions of a container in its first life.                           *)

LEMMA InitSessions == Init => SessionsInv
BY DEF Init, SessionsInv, OneSession, SavedInFiles, BootKeepsFiles, SessionKeepsFiles, None

LEMMA NextOneSession ==
  ASSUME Types, Handles, FirstLife, OneSession, [Next]_vars
  PROVE  OneSession'
<1>0. /\ row \in Rows /\ req \in [Requests -> Reqs] /\ registry \in [Replicas -> Requests \cup {None}]
      /\ vm \in [Requests -> Vms] /\ api \in Apis
  BY DEF Types
<1> USE <1>0, NamesAssumption DEF OneSession, Handles, Early, Booting, Using, Reqs
<1>1. ASSUME NEW r \in Requests, Lookup(r) PROVE OneSession'
  BY <1>1 DEF Lookup, dbVars, FirstLife, Rows, Vms, Terminal, Referenced, Fresh, NoVm
<1>2. ASSUME NEW r \in Requests, Ensure(r) PROVE OneSession'
  BY <1>2 DEF Ensure, Go, End, Inserted, FirstLife, Rows, Vms, Terminal, Referenced, Fresh, NoVm
<1>3. ASSUME NEW r \in Requests, EnsureFails(r) PROVE OneSession'
  BY <1>3 DEF EnsureFails, End, dbVars, FirstLife, Rows, Vms, Terminal, Referenced, Fresh, NoVm
<1>4. ASSUME NEW r \in Requests, BootFails(r) PROVE OneSession'
  BY <1>4 DEF BootFails, End, dbVars, FirstLife, Rows, Vms, Terminal, Referenced, Fresh, NoVm
<1>5. ASSUME NEW r \in Requests, Provision(r) PROVE OneSession'
  BY <1>5 DEF Provision, Booted, Inserted, FirstLife, Rows, Vms, Terminal, Referenced, Fresh, NoVm
<1>6. ASSUME NEW r \in Requests, ProvisionFails(r) PROVE OneSession'
  BY <1>6 DEF ProvisionFails, Booted, FirstLife, Rows, Vms, Terminal, Referenced, Fresh, NoVm
<1>7. ASSUME NEW r \in Requests, Insert(r) PROVE OneSession'
  BY <1>7
     DEF Insert, Go, TearDown, dbVars, FirstLife, Rows, Vms, Terminal, Referenced, Fresh, NoVm
<1>8. ASSUME NEW r \in Requests, Replay(r) PROVE OneSession'
  BY <1>8 DEF Replay, Booted, FirstLife, Rows, Vms, Terminal, Referenced, Fresh, NoVm
<1>9. ASSUME NEW r \in Requests, ReplayFails(r) PROVE OneSession'
  BY <1>9 DEF ReplayFails, Booted, FirstLife, Rows, Vms, Terminal, Referenced, Fresh, NoVm
<1>10. ASSUME NEW r \in Requests, Register(r) PROVE OneSession'
  <2>1. \A v \in Requests : Referenced(v, registry', req') => vm'[v] = vm[v]
    BY <1>10 DEF Register, TearDown
  <2>2. \A q \in Requests : req'[q].session \in Requests => vm'[req'[q].session] = vm[req'[q].session]
    BY <2>1 DEF Referenced
  <2>3. req[r].at \in Replicas /\ req[r].pc = "register" /\ UNCHANGED row
    BY <1>10 DEF Register, dbVars
  <2>4. ASSUME NEW q \in Requests, req'[q].pc \in Using, q # r
        PROVE  req'[q] = req[q] /\ req[q].session \in Requests
    BY <1>10, <2>4 DEF Register
  <2>5. /\ req'[r].at = req[r].at /\ req'[r].session = registry'[req[r].at]
        /\ \A p \in Replicas : registry[p] # None => registry'[p] = registry[p]
    BY <1>10, <2>3 DEF Register
  <2> QED
    BY <2>2, <2>3, <2>4, <2>5
<1>11. ASSUME NEW r \in Requests, Lock(r) PROVE OneSession'
  BY <1>11 DEF Lock, dbVars, FirstLife, Rows, Vms, Terminal, Referenced, Fresh, NoVm
<1>12. ASSUME NEW r \in Requests, Ingest(r) PROVE OneSession'
  BY <1>12 DEF Ingest, Go, FirstLife, Rows, Vms, Terminal, Referenced, Fresh, NoVm
<1>13. ASSUME NEW r \in Requests, IngestFails(r) PROVE OneSession'
  <2>2. \A v \in Requests : vm'[v].displaced = vm[v].displaced
    BY <1>13 DEF IngestFails, Vms
  <2>3. /\ registry' = registry /\ row'.status = row.status /\ row'.lives = row.lives
        /\ \A q \in Requests :
             /\ req'[q].session = req[q].session /\ req'[q].at = req[q].at
             /\ req'[q].pc \in Using <=> req[q].pc \in Using
    BY <1>13 DEF IngestFails, Go, dbVars
  <2> QED
    BY <2>2, <2>3
<1>14. ASSUME NEW r \in Requests, Exec(r) PROVE OneSession'
  <2>1. \E d : vm' = [vm EXCEPT ![req[r].session].data = d]
    BY <1>14 DEF Exec
  <2>2. \A v \in Requests : vm'[v].displaced = vm[v].displaced
    BY <2>1 DEF Vms
  <2>3. /\ registry' = registry /\ row'.status = row.status /\ row'.lives = row.lives
        /\ \A q \in Requests :
             /\ req'[q].session = req[q].session /\ req'[q].at = req[q].at
             /\ req'[q].pc \in Using <=> req[q].pc \in Using
    BY <1>14 DEF Exec, Go, Rows
  <2> QED
    BY <2>2, <2>3
<1>15. ASSUME NEW r \in Requests, ExecFails(r) PROVE OneSession'
  BY <1>15 DEF ExecFails, Go, dbVars, FirstLife, Rows, Vms, Terminal, Referenced, Fresh, NoVm
<1>16. ASSUME NEW r \in Requests, Capture(r) PROVE OneSession'
  BY <1>16 DEF Capture, Go, FirstLife, Rows, Vms, Terminal, Referenced, Fresh, NoVm
<1>17. ASSUME NEW r \in Requests, CaptureFails(r) PROVE OneSession'
  <2>2. \A v \in Requests : vm'[v].displaced = vm[v].displaced
    BY <1>17 DEF CaptureFails, Vms
  <2>3. /\ registry' = registry /\ row'.status = row.status /\ row'.lives = row.lives
        /\ \A q \in Requests :
             /\ req'[q].session = req[q].session /\ req'[q].at = req[q].at
             /\ req'[q].pc \in Using <=> req[q].pc \in Using
    BY <1>17 DEF CaptureFails, Go, dbVars
  <2> QED
    BY <2>2, <2>3
<1>18. ASSUME NEW r \in Requests, Leave(r) PROVE OneSession'
  BY <1>18
     DEF Leave, End, TearDown, dbVars, FirstLife, Rows, Vms, Terminal, Referenced, Fresh, NoVm
<1>19. ASSUME NEW r \in Requests, Finish(r) PROVE OneSession'
  BY <1>19
     DEF Finish, End, TearDown, dbVars, FirstLife, Rows, Vms, Terminal, Referenced, Fresh, NoVm
<1>20. ASSUME NEW r \in Requests, NEW p \in Replicas, StartNew(r, p) PROVE OneSession'
  BY <1>20 DEF StartNew, dbVars, FirstLife, Rows, Vms, Terminal, Referenced, Fresh, NoVm
<1>21. ASSUME NEW r \in Requests, NEW p \in Replicas, Resolve(r, p) PROVE OneSession'
  BY <1>21 DEF Resolve, dbVars, FirstLife, Rows, Vms, Terminal, Referenced, Fresh, NoVm
<1>22. ASSUME NEW p \in Replicas, MarkExpiredIdle(p) PROVE OneSession'
  BY <1>22 DEF MarkExpiredIdle, FirstLife, Rows, Vms, Terminal, Referenced, Fresh, NoVm
<1>23. ASSUME NEW p \in Replicas, Evict(p) PROVE OneSession'
  BY <1>23 DEF Evict, TearDown, dbVars, FirstLife, Rows, Vms, Terminal, Referenced, Fresh, NoVm
<1>24. ASSUME NEW p \in Replicas, DeleteRow(p) PROVE OneSession'
  BY <1>24 DEF DeleteRow, FirstLife, Rows, Vms, Terminal, Referenced, Fresh, NoVm
<1>25. ASSUME NEW p \in Replicas, DeleteSession(p) PROVE OneSession'
  BY <1>25
     DEF DeleteSession, TearDown, dbVars, FirstLife, Rows, Vms, Terminal, Referenced, Fresh,
         NoVm
<1>26. ASSUME NEW p \in Replicas, Crash(p) PROVE OneSession'
  <2>1. \A v \in Requests : Referenced(v, registry', req') => vm'[v] = vm[v]
    BY <1>26 DEF Crash, TearDown
  <2>2. ASSUME NEW q \in Requests, req'[q].pc \in Using
        PROVE  /\ req'[q] = req[q] /\ req[q].at # p /\ req[q].at \in Replicas
               /\ req[q].session \in Requests
    BY <1>26, <2>2, CrashEnds
  <2>3. UNCHANGED row /\ \A q \in Replicas \ {p} : registry'[q] = registry[q]
    BY <1>26 DEF Crash, dbVars
  <2> QED
    BY <2>1, <2>2, <2>3 DEF Referenced
<1>27. CASE HardDelete
  BY <1>27 DEF HardDelete, Rows, None
<1>28. CASE IdlePasses
  BY <1>28 DEF IdlePasses, FirstLife, Rows, Vms, Terminal, Referenced, Fresh, NoVm
<1>29. CASE Create
  BY <1>29 DEF Create, Inserted, FirstLife, Rows, Vms, Terminal, Referenced, Fresh, NoVm
<1>30. ASSUME NEW p \in Replicas,
             Reconcile(p) \/ ReapFails(p)
     PROVE  OneSession'
  BY <1>30 DEF Reconcile, ReapFails, dbVars
<1>31. CASE UploadBegin \/ UploadEnd
  BY <1>31 DEF UploadBegin, UploadEnd, dbVars
<1>32. ASSUME NEW f \in Files,
             DeleteFile(f)
     PROVE  OneSession'
  BY <1>32 DEF DeleteFile
<1>33. CASE UNCHANGED vars
  BY <1>33 DEF vars
<1> QED
  BY <1>1, <1>2, <1>3, <1>4, <1>5, <1>6, <1>7, <1>8, <1>9, <1>10, <1>11, <1>12, <1>13, <1>14,
     <1>15, <1>16, <1>17, <1>18, <1>19, <1>20, <1>21, <1>22, <1>23, <1>24, <1>25, <1>26, <1>27,
     <1>28, <1>29, <1>30, <1>31, <1>32, <1>33
     DEF Next, RequestStep, RequestTrouble, ReaperStep

LEMMA NextSavedInFiles ==
  ASSUME Types, SavedInFiles, [Next]_vars
  PROVE  SavedInFiles'
<1>0. files \subseteq Files /\ saved \in [Replicas -> SUBSET Files]
  BY DEF Types
<1> USE <1>0 DEF SavedInFiles
<1>1. ASSUME NEW r \in Requests, Insert(r) PROVE SavedInFiles'
  BY <1>1 DEF Insert, dbVars
<1>2. ASSUME NEW r \in Requests, Ingest(r) PROVE SavedInFiles'
  BY <1>2 DEF Ingest, Stored, Kept
<1>3. ASSUME NEW r \in Requests, Exec(r) PROVE SavedInFiles'
  BY <1>3 DEF Exec
<1>4. ASSUME NEW r \in Requests, Capture(r) PROVE SavedInFiles'
  BY <1>4 DEF Capture, Stored, Kept
<1>5. CASE HardDelete
  BY <1>5 DEF HardDelete
<1>6. CASE UploadEnd
  BY <1>6 DEF UploadEnd
<1>7. ASSUME NEW f \in Files, DeleteFile(f) PROVE SavedInFiles'
  BY <1>7 DEF DeleteFile
<1>8. ASSUME NEW r \in Requests,
             Lookup(r) \/ Ensure(r) \/ EnsureFails(r) \/ BootFails(r) \/ Provision(r) \/
             ProvisionFails(r) \/ Replay(r) \/ ReplayFails(r) \/ Register(r) \/ Lock(r) \/
             IngestFails(r) \/ ExecFails(r) \/ CaptureFails(r) \/ Leave(r) \/ Finish(r)
     PROVE  SavedInFiles'
  BY <1>8
     DEF Lookup, Ensure, EnsureFails, BootFails, Provision, ProvisionFails, Replay, ReplayFails,
         Register, Lock, IngestFails, ExecFails, CaptureFails, Leave, Finish, dbVars, Booted
<1>9. ASSUME NEW r \in Requests, NEW p \in Replicas,
             StartNew(r, p) \/ Resolve(r, p)
     PROVE  SavedInFiles'
  BY <1>9 DEF StartNew, Resolve, dbVars
<1>10. ASSUME NEW p \in Replicas,
             MarkExpiredIdle(p) \/ Reconcile(p) \/ ReapFails(p) \/ Evict(p) \/
             DeleteRow(p) \/ DeleteSession(p) \/ Crash(p)
     PROVE  SavedInFiles'
  BY <1>10
     DEF MarkExpiredIdle, Reconcile, ReapFails, Evict, DeleteRow, DeleteSession, Crash, dbVars
<1>11. CASE IdlePasses \/ Create \/ UploadBegin
  BY <1>11 DEF IdlePasses, Create, UploadBegin, dbVars
<1>12. CASE UNCHANGED vars
  BY <1>12 DEF vars
<1> QED
  BY <1>1, <1>2, <1>3, <1>4, <1>5, <1>6, <1>7, <1>8, <1>9, <1>10, <1>11, <1>12
     DEF Next, RequestStep, RequestTrouble, ReaperStep

LEMMA NextKeepsFiles ==
  ASSUME Types, Handles, OneHome, FirstLife, SessionsInv, [Next]_vars
  PROVE  (BootKeepsFiles /\ SessionKeepsFiles)'
<1>0. /\ row \in Rows /\ files \subseteq Files /\ req \in [Requests -> Reqs]
      /\ registry \in [Replicas -> Requests \cup {None}] /\ vm \in [Requests -> Vms]
      /\ saved \in [Replicas -> SUBSET Files]
  BY DEF Types
<1> USE <1>0, NamesAssumption DEF SessionsInv, BootKeepsFiles, SessionKeepsFiles, Handles, Early, Booting, Using, Reqs
<1>1. ASSUME NEW r \in Requests, Lookup(r) PROVE (BootKeepsFiles /\ SessionKeepsFiles)'
  BY <1>1
     DEF Lookup, dbVars, FirstLife, Rows, Vms, Terminal, Referenced, Fresh, NoVm, OneSession,
         OneHome, SavedInFiles
<1>2. ASSUME NEW r \in Requests, Ensure(r) PROVE (BootKeepsFiles /\ SessionKeepsFiles)'
  <2>1. row'.status = "active" /\ row'.lives = 1 => UNCHANGED row
    BY <1>2 DEF Ensure, Inserted, FirstLife, Rows
  <2>2. /\ UNCHANGED <<registry, vm, saved>>
        /\ \A q \in Requests : req'[q].pc \in Booting => req'[q] = req[q]
    BY <1>2 DEF Ensure, Go, End
  <2> QED
    BY <2>1, <2>2
<1>3. ASSUME NEW r \in Requests, EnsureFails(r) PROVE (BootKeepsFiles /\ SessionKeepsFiles)'
  BY <1>3
     DEF EnsureFails, End, dbVars, FirstLife, Rows, Vms, Terminal, Referenced, Fresh, NoVm,
         OneSession, OneHome, SavedInFiles
<1>4. ASSUME NEW r \in Requests, BootFails(r) PROVE (BootKeepsFiles /\ SessionKeepsFiles)'
  BY <1>4
     DEF BootFails, End, dbVars, FirstLife, Rows, Vms, Terminal, Referenced, Fresh, NoVm,
         OneSession, OneHome, SavedInFiles
<1>5. ASSUME NEW r \in Requests, Provision(r) PROVE (BootKeepsFiles /\ SessionKeepsFiles)'
  BY <1>5
     DEF Provision, Booted, Inserted, FirstLife, Rows, Vms, Terminal, Referenced, Fresh, NoVm,
         OneSession, OneHome, SavedInFiles
<1>6. ASSUME NEW r \in Requests, ProvisionFails(r) PROVE (BootKeepsFiles /\ SessionKeepsFiles)'
  BY <1>6
     DEF ProvisionFails, Booted, FirstLife, Rows, Vms, Terminal, Referenced, Fresh, NoVm,
         OneSession, OneHome, SavedInFiles
<1>7. ASSUME NEW r \in Requests, Insert(r) PROVE (BootKeepsFiles /\ SessionKeepsFiles)'
  <2> DEFINE p == req[r].at
             vms == IF registry[p] = None THEN vm ELSE [vm EXCEPT ![registry[p]].displaced = TRUE]
  <2>1. p \in Replicas /\ req[r].session = r /\ req[r].pc = "insert" /\ UNCHANGED row
    BY <1>7 DEF Insert, dbVars
  <2>2. \A v \in Requests : vms[v].data = vm[v].data /\ vms[v].whole = vm[v].whole
    BY <2>1 DEF Vms
  <2>3. /\ registry' = [registry EXCEPT ![p] = r]
        /\ \A q \in Requests : req'[q].session = req[q].session /\ req'[q].at = req[q].at
        /\ \A q \in Requests : req'[q].pc \in Booting => q # r /\ req[q].pc \in Booting
    BY <1>7 DEF Insert, Go
  <2>4. \A v \in Requests : Referenced(v, registry', req') => vm'[v] = vms[v]
    BY <1>7 DEF Insert, TearDown
  <2>5. \A q \in Replicas : saved'[q] = IF q = p /\ registry[p] # None THEN {} ELSE saved[q]
    BY <1>7, <2>1 DEF Insert
  <2> HIDE DEF vms, p
  <2>6. SessionKeepsFiles'
    <3> SUFFICES ASSUME row.status = "active", row.lives = 1, NEW q \in Replicas,
                        registry'[q] # None, vm'[registry'[q]].whole
                 PROVE  saved'[q] \subseteq vm'[registry'[q]].data
      BY <2>1
    <3>1. registry'[q] \in Requests /\ vm'[registry'[q]] = vms[registry'[q]]
      BY <2>3, <2>4 DEF Referenced
    <3>2. vm'[registry'[q]].data = vm[registry'[q]].data /\ vm[registry'[q]].whole
      BY <2>2, <3>1
    <3> QED
      BY <2>1, <2>3, <2>5, <3>2 DEF p
  <2>7. BootKeepsFiles'
    <3> SUFFICES ASSUME row.status = "active", row.lives = 1, NEW q \in Requests,
                        req'[q].pc \in Booting, registry'[req'[q].at] = None, vm'[q].whole
                 PROVE  saved'[req'[q].at] \subseteq vm'[q].data
      BY <2>1
    <3>1. req[q].pc \in Booting /\ req'[q].session = q /\ req[q].at \in Replicas
      BY <2>3
    <3>2. vm'[q] = vms[q]
      BY <2>4, <3>1 DEF Referenced
    <3>3. req[q].at # p /\ registry[req[q].at] = None
      BY <2>1, <2>3, <3>1
    <3> QED
      BY <2>2, <2>3, <2>5, <3>1, <3>2, <3>3
  <2> QED
    BY <2>6, <2>7
<1>8. ASSUME NEW r \in Requests, Replay(r) PROVE (BootKeepsFiles /\ SessionKeepsFiles)'
  BY <1>8
     DEF Replay, Booted, FirstLife, Rows, Vms, Terminal, Referenced, Fresh, NoVm, OneSession,
         OneHome, SavedInFiles
<1>9. ASSUME NEW r \in Requests, ReplayFails(r) PROVE (BootKeepsFiles /\ SessionKeepsFiles)'
  BY <1>9
     DEF ReplayFails, Booted, FirstLife, Rows, Vms, Terminal, Referenced, Fresh, NoVm,
         OneSession, OneHome, SavedInFiles
<1>10. ASSUME NEW r \in Requests, Register(r) PROVE (BootKeepsFiles /\ SessionKeepsFiles)'
  <2>1. req[r].at \in Replicas /\ req[r].session = r /\ req[r].pc = "register" /\ UNCHANGED <<row, saved>>
    BY <1>10 DEF Register, dbVars
  <2>2. \A v \in Requests : Referenced(v, registry', req') => vm'[v] = vm[v]
    BY <1>10 DEF Register, TearDown
  <2>3. /\ \A q \in Requests \ {r} : req'[q] = req[q]
        /\ req'[r].pc = "held"
    BY <1>10 DEF Register
  <2>4. \A q \in Replicas :
          IF registry[q] = None /\ q = req[r].at THEN registry'[q] = r
                                                 ELSE registry'[q] = registry[q]
    BY <1>10, <2>1 DEF Register
  <2>5. SessionKeepsFiles'
    <3> SUFFICES ASSUME row.status = "active", row.lives = 1, NEW q \in Replicas,
                        registry'[q] # None, vm'[registry'[q]].whole
                 PROVE  saved[q] \subseteq vm'[registry'[q]].data
      BY <2>1
    <3>1. registry'[q] \in Requests /\ vm'[registry'[q]] = vm[registry'[q]]
      BY <2>2, <2>4 DEF Referenced
    <3> QED
      BY <2>1, <2>4, <3>1
  <2>6. BootKeepsFiles'
    <3> SUFFICES ASSUME row.status = "active", row.lives = 1, NEW q \in Requests,
                        req'[q].pc \in Booting, registry'[req'[q].at] = None, vm'[q].whole
                 PROVE  saved[req'[q].at] \subseteq vm'[q].data
      BY <2>1
    <3>1. q # r /\ req'[q] = req[q] /\ req[q].session = q /\ req[q].at \in Replicas
      BY <2>3
    <3>2. vm'[q] = vm[q]
      BY <2>2, <3>1 DEF Referenced
    <3> QED
      BY <2>4, <3>1, <3>2
  <2> QED
    BY <2>5, <2>6
<1>11. ASSUME NEW r \in Requests, Lock(r) PROVE (BootKeepsFiles /\ SessionKeepsFiles)'
  BY <1>11
     DEF Lock, dbVars, FirstLife, Rows, Vms, Terminal, Referenced, Fresh, NoVm, OneSession,
         OneHome, SavedInFiles
<1>12. ASSUME NEW r \in Requests, Ingest(r) PROVE (BootKeepsFiles /\ SessionKeepsFiles)'
  BY <1>12
     DEF Ingest, Go, Stored, Kept, FirstLife, Rows, Vms, Terminal, Referenced, Fresh, NoVm,
         OneSession, OneHome, SavedInFiles
<1>13. ASSUME NEW r \in Requests, IngestFails(r) PROVE (BootKeepsFiles /\ SessionKeepsFiles)'
  <2>1. /\ UNCHANGED <<row, registry, saved>>
        /\ \A v \in Requests : vm[v].data \subseteq vm'[v].data /\ vm'[v].whole = vm[v].whole
    <3>1. CASE UNCHANGED vm
      BY <1>13, <3>1 DEF IngestFails, dbVars
    <3>2. CASE vm' = [vm EXCEPT ![req[r].session].data = @ \cup {r},
                                ![req[r].session].snapshot = @ \cup {r}]
      BY <1>13, <3>2 DEF IngestFails, dbVars, Vms
    <3> QED
      BY <1>13, <3>1, <3>2 DEF IngestFails
  <2>2. \A q \in Requests : req'[q].pc \in Booting => req'[q] = req[q]
    BY <1>13 DEF IngestFails, Go
  <2> QED
    BY <2>1, <2>2
<1>14. ASSUME NEW r \in Requests, Exec(r) PROVE (BootKeepsFiles /\ SessionKeepsFiles)'
  <2>1. /\ req[r].pc = "staged" /\ req[r].at \in Replicas /\ req[r].session \in Requests
        /\ registry' = registry /\ row'.status = row.status /\ row'.lives = row.lives
        /\ \A q \in Requests : req'[q].pc \in Booting => q # r /\ req'[q] = req[q]
    BY <1>14 DEF Exec, Go, Rows
  <2>2. CASE vm' = [vm EXCEPT ![req[r].session].data = @ \cup {r}] /\ saved' = saved
    <3>1. \A v \in Requests : vm[v].data \subseteq vm'[v].data /\ vm'[v].whole = vm[v].whole
      BY <2>2 DEF Vms
    <3> QED
      BY <2>1, <2>2, <3>1
  <2>3. ASSUME NEW f, vm' = [vm EXCEPT ![req[r].session].data = @ \ {f}],
               saved' = [saved EXCEPT ![req[r].at] = @ \ {f}]
        PROVE  (BootKeepsFiles /\ SessionKeepsFiles)'
    <3>1. \A v \in Requests :
            /\ vm'[v].whole = vm[v].whole
            /\ vm'[v].data = IF v = req[r].session THEN vm[v].data \ {f} ELSE vm[v].data
      <4>1. \A v \in Requests :
              vm'[v] = IF v = req[r].session THEN [vm[v] EXCEPT !.data = @ \ {f}] ELSE vm[v]
        BY <2>1, <2>3
      <4>2. \A w \in Vms : [w EXCEPT !.data = @ \ {f}].whole = w.whole
                         /\ [w EXCEPT !.data = @ \ {f}].data = w.data \ {f}
        BY DEF Vms
      <4>3. \A v \in Requests : vm[v] \in Vms
        OBVIOUS
      <4> QED
        BY ONLY <4>1, <4>2, <4>3
    <3>2. \A q \in Replicas : saved'[q] = IF q = req[r].at THEN saved[q] \ {f} ELSE saved[q]
      BY <2>1, <2>3
    <3>3. \A q \in Replicas : registry[q] = req[r].session => q = req[r].at
      BY <2>1 DEF OneHome
    <3>4. \A q \in Requests : req'[q].pc \in Booting => q # req[r].session
      BY <2>1
    <3>5. BootKeepsFiles'
      <4> SUFFICES ASSUME row.status = "active", row.lives = 1, NEW q \in Requests,
                          req'[q].pc \in Booting, registry[req'[q].at] = None, vm'[q].whole
                   PROVE  saved'[req'[q].at] \subseteq vm'[q].data
        BY <2>1
      <4>1. req'[q] = req[q] /\ req[q].at \in Replicas
        BY <2>1
      <4>2. saved[req[q].at] \subseteq vm[q].data /\ vm'[q].data = vm[q].data
        BY <3>1, <3>4, <4>1
      <4>3. saved'[req[q].at] \subseteq saved[req[q].at]
        BY ONLY <3>2, <4>1
      <4> QED
        BY ONLY <4>1, <4>2, <4>3
    <3>6. SessionKeepsFiles'
      <4> SUFFICES ASSUME row.status = "active", row.lives = 1, NEW q \in Replicas,
                          registry[q] # None, vm'[registry[q]].whole
                   PROVE  saved'[q] \subseteq vm'[registry[q]].data
        BY <2>1
      <4>1. registry[q] \in Requests
        OBVIOUS
      <4>2. vm[registry[q]].whole
        BY <3>1, <4>1
      <4>3. saved[q] \subseteq vm[registry[q]].data
        BY <4>1, <4>2
      <4> QED
        BY ONLY <3>1, <3>2, <3>3, <4>1, <4>3
    <3> QED
      BY <3>5, <3>6
  <2> QED
    BY <1>14, <2>2, <2>3 DEF Exec
<1>15. ASSUME NEW r \in Requests, ExecFails(r) PROVE (BootKeepsFiles /\ SessionKeepsFiles)'
  BY <1>15
     DEF ExecFails, Go, dbVars, FirstLife, Rows, Vms, Terminal, Referenced, Fresh, NoVm,
         OneSession, OneHome, SavedInFiles
<1>16. ASSUME NEW r \in Requests, Capture(r) PROVE (BootKeepsFiles /\ SessionKeepsFiles)'
  BY <1>16
     DEF Capture, Go, Stored, Kept, FirstLife, Rows, Vms, Terminal, Referenced, Fresh, NoVm,
         OneSession, OneHome, SavedInFiles
<1>17. ASSUME NEW r \in Requests, CaptureFails(r) PROVE (BootKeepsFiles /\ SessionKeepsFiles)'
  <2>1. /\ UNCHANGED <<row, registry, saved>>
        /\ \A v \in Requests : vm'[v].data = vm[v].data /\ vm'[v].whole = vm[v].whole
    BY <1>17 DEF CaptureFails, dbVars, Vms
  <2>2. \A q \in Requests : req'[q].pc \in Booting => req'[q] = req[q]
    BY <1>17 DEF CaptureFails, Go
  <2> QED
    BY <2>1, <2>2
<1>18. ASSUME NEW r \in Requests, Leave(r) PROVE (BootKeepsFiles /\ SessionKeepsFiles)'
  BY <1>18
     DEF Leave, End, TearDown, dbVars, FirstLife, Rows, Vms, Terminal, Referenced, Fresh, NoVm,
         OneSession, OneHome, SavedInFiles
<1>19. ASSUME NEW r \in Requests, Finish(r) PROVE (BootKeepsFiles /\ SessionKeepsFiles)'
  BY <1>19
     DEF Finish, End, TearDown, dbVars, FirstLife, Rows, Vms, Terminal, Referenced, Fresh, NoVm,
         OneSession, OneHome, SavedInFiles
<1>20. ASSUME NEW r \in Requests, NEW p \in Replicas, StartNew(r, p) PROVE (BootKeepsFiles /\ SessionKeepsFiles)'
  BY <1>20
     DEF StartNew, dbVars, FirstLife, Rows, Vms, Terminal, Referenced, Fresh, NoVm, OneSession,
         OneHome, SavedInFiles
<1>21. ASSUME NEW r \in Requests, NEW p \in Replicas, Resolve(r, p) PROVE (BootKeepsFiles /\ SessionKeepsFiles)'
  BY <1>21
     DEF Resolve, dbVars, FirstLife, Rows, Vms, Terminal, Referenced, Fresh, NoVm, OneSession,
         OneHome, SavedInFiles
<1>22. ASSUME NEW p \in Replicas, MarkExpiredIdle(p) PROVE (BootKeepsFiles /\ SessionKeepsFiles)'
  BY <1>22
     DEF MarkExpiredIdle, FirstLife, Rows, Vms, Terminal, Referenced, Fresh, NoVm, OneSession,
         OneHome, SavedInFiles
<1>23. ASSUME NEW p \in Replicas, Evict(p) PROVE (BootKeepsFiles /\ SessionKeepsFiles)'
  BY <1>23
     DEF Evict, TearDown, dbVars, FirstLife, Rows, Vms, Terminal, Referenced, Fresh, NoVm,
         OneSession, OneHome, SavedInFiles
<1>24. ASSUME NEW p \in Replicas, DeleteRow(p) PROVE (BootKeepsFiles /\ SessionKeepsFiles)'
  BY <1>24
     DEF DeleteRow, FirstLife, Rows, Vms, Terminal, Referenced, Fresh, NoVm, OneSession,
         OneHome, SavedInFiles
<1>25. ASSUME NEW p \in Replicas, DeleteSession(p) PROVE (BootKeepsFiles /\ SessionKeepsFiles)'
  BY <1>25
     DEF DeleteSession, TearDown, dbVars, FirstLife, Rows, Vms, Terminal, Referenced, Fresh,
         NoVm, OneSession, OneHome, SavedInFiles
<1>26. ASSUME NEW p \in Replicas, Crash(p) PROVE (BootKeepsFiles /\ SessionKeepsFiles)'
  <2>1. \A v \in Requests : Referenced(v, registry', req') => vm'[v] = vm[v]
    BY <1>26 DEF Crash, TearDown
  <2>2. ASSUME NEW q \in Requests, req'[q].pc \in Booting
        PROVE  /\ req'[q] = req[q] /\ req[q].at # p /\ req[q].at \in Replicas
               /\ req[q].session = q
    BY <1>26, <2>2, CrashEnds
  <2>3. /\ UNCHANGED <<row, saved>>
        /\ \A q \in Replicas : registry'[q] = IF q = p THEN None ELSE registry[q]
    BY <1>26 DEF Crash, dbVars
  <2>4. BootKeepsFiles'
    BY <2>1, <2>2, <2>3 DEF Referenced
  <2>5. SessionKeepsFiles'
    BY <2>1, <2>3 DEF Referenced
  <2> QED
    BY <2>4, <2>5
<1>27. CASE HardDelete
  BY <1>27
     DEF HardDelete, FirstLife, Rows, Vms, Terminal, Referenced, Fresh, NoVm, OneSession,
         OneHome, SavedInFiles
<1>28. CASE IdlePasses
  BY <1>28
     DEF IdlePasses, FirstLife, Rows, Vms, Terminal, Referenced, Fresh, NoVm, OneSession,
         OneHome, SavedInFiles
<1>29. CASE Create
  BY <1>29
     DEF Create, Inserted, FirstLife, Rows, Vms, Terminal, Referenced, Fresh, NoVm, OneSession,
         OneHome, SavedInFiles
<1>30. ASSUME NEW f \in Files, DeleteFile(f) PROVE (BootKeepsFiles /\ SessionKeepsFiles)'
  BY <1>30
     DEF DeleteFile, FirstLife, Rows, Vms, Terminal, Referenced, Fresh, NoVm, OneSession,
         OneHome, SavedInFiles
<1>31. ASSUME NEW p \in Replicas,
             Reconcile(p) \/ ReapFails(p)
     PROVE  (BootKeepsFiles /\ SessionKeepsFiles)'
  BY <1>31 DEF Reconcile, ReapFails, dbVars
<1>32. CASE UploadBegin \/ UploadEnd
  BY <1>32 DEF UploadBegin, UploadEnd, dbVars
<1>33. CASE UNCHANGED vars
  BY <1>33 DEF vars
<1> QED
  BY <1>1, <1>2, <1>3, <1>4, <1>5, <1>6, <1>7, <1>8, <1>9, <1>10, <1>11, <1>12, <1>13, <1>14,
     <1>15, <1>16, <1>17, <1>18, <1>19, <1>20, <1>21, <1>22, <1>23, <1>24, <1>25, <1>26, <1>27,
     <1>28, <1>29, <1>30, <1>31, <1>32, <1>33
     DEF Next, RequestStep, RequestTrouble, ReaperStep

LEMMA NextStatus ==
  ASSUME Types, FirstLife, [Next]_vars
  PROVE  StatusStep
<1>0. row \in Rows
  BY DEF Types
<1> USE <1>0 DEF StatusStep
<1>1. ASSUME NEW r \in Requests, Ensure(r) PROVE StatusStep
  BY <1>1 DEF Ensure, Inserted, Rows, Terminal, None, FirstLife
<1>2. ASSUME NEW r \in Requests, Provision(r) PROVE StatusStep
  BY <1>2 DEF Provision, Inserted, Rows, Terminal, None, FirstLife
<1>3. ASSUME NEW r \in Requests, Exec(r) PROVE StatusStep
  BY <1>3 DEF Exec, Rows, Terminal, None, FirstLife
<1>4. ASSUME NEW p \in Replicas, MarkExpiredIdle(p) PROVE StatusStep
  BY <1>4 DEF MarkExpiredIdle, Rows, Terminal, None, FirstLife
<1>5. ASSUME NEW p \in Replicas, DeleteRow(p) PROVE StatusStep
  BY <1>5 DEF DeleteRow, Rows, Terminal, None, FirstLife
<1>6. CASE HardDelete
  BY <1>6 DEF HardDelete, Rows, Terminal, None, FirstLife
<1>7. CASE IdlePasses
  BY <1>7 DEF IdlePasses, Rows, Terminal, None, FirstLife
<1>8. CASE Create
  BY <1>8 DEF Create, Inserted, Rows, Terminal, None, FirstLife
<1>9. ASSUME NEW r \in Requests,
             Lookup(r) \/ EnsureFails(r) \/ BootFails(r) \/ ProvisionFails(r) \/ Insert(r)
             \/ Replay(r) \/ ReplayFails(r) \/ Register(r) \/ Lock(r) \/ Ingest(r) \/
             IngestFails(r) \/ ExecFails(r) \/ Capture(r) \/ CaptureFails(r) \/ Leave(r)
             \/ Finish(r)
     PROVE  StatusStep
  BY <1>9
     DEF Lookup, EnsureFails, BootFails, ProvisionFails, Insert, Replay, ReplayFails, Register,
         Lock, Ingest, IngestFails, ExecFails, Capture, CaptureFails, Leave, Finish, dbVars
<1>10. ASSUME NEW r \in Requests, NEW p \in Replicas,
             StartNew(r, p) \/ Resolve(r, p)
     PROVE  StatusStep
  BY <1>10 DEF StartNew, Resolve, dbVars
<1>11. ASSUME NEW p \in Replicas,
             Reconcile(p) \/ ReapFails(p) \/ Evict(p) \/ DeleteSession(p) \/ Crash(p)
     PROVE  StatusStep
  BY <1>11 DEF Reconcile, ReapFails, Evict, DeleteSession, Crash, dbVars
<1>12. CASE UploadBegin \/ UploadEnd
  BY <1>12 DEF UploadBegin, UploadEnd, dbVars
<1>13. ASSUME NEW f \in Files,
             DeleteFile(f)
     PROVE  StatusStep
  BY <1>13 DEF DeleteFile
<1>14. CASE UNCHANGED vars
  BY <1>14 DEF vars
<1> QED
  BY <1>1, <1>2, <1>3, <1>4, <1>5, <1>6, <1>7, <1>8, <1>9, <1>10, <1>11, <1>12, <1>13, <1>14
     DEF Next, RequestStep, RequestTrouble, ReaperStep

-----------------------------------------------------------------------------
(* The theorems.                                                            *)

LEMMA InvHolds == Spec => []ContainersInv
<1>1. Init => ContainersInv
  BY InitTypes, InitHandles, InitOneHome, InitVmsUp, InitLocked, InitLivesBound, InitFirstLife
     DEF ContainersInv
<1>2. ContainersInv /\ [Next]_vars => ContainersInv'
  BY NextTypes, NextHandles, NextOneHome, NextVmsUp, NextLocked, NextLivesBound, NextFirstLife
     DEF ContainersInv
<1> QED
  BY <1>1, <1>2, PTL DEF Spec

LEMMA SessionsHold == Spec => []SessionsInv
<1>1. ContainersInv /\ SessionsInv /\ [Next]_vars => SessionsInv'
  BY NextOneSession, NextSavedInFiles, NextKeepsFiles DEF ContainersInv, SessionsInv
<1> QED
  BY <1>1, InitSessions, InvHolds, PTL DEF Spec

(* The variables keep their types, the row is inserted at most once by Create
   and once by each request, and a request that runs a command holds the mutex
   of a session whose VM is up: no eviction, crash or displaced entry takes the
   VM from under it. *)
THEOREM ContainersTyped == Spec => []TypeOK
<1>1. ContainersInv => TypeOK
  <2> SUFFICES ASSUME ContainersInv PROVE TypeOK
    OBVIOUS
  <2> USE DEF ContainersInv
  <2>1. row.lives \in 0 .. Cardinality(Requests) + 1
    <3>1. Past \subseteq Requests /\ IsFiniteSet(Requests)
      BY ContainersAssumption DEF Past
    <3>2. IsFiniteSet(Past) /\ Cardinality(Past) <= Cardinality(Requests)
      BY <3>1, FS_Subset
    <3>3. Cardinality(Past) \in Nat /\ Cardinality(Requests) \in Nat
      BY <3>1, <3>2, FS_CardinalityType
    <3> QED
      BY <3>2, <3>3 DEF Types, Rows, LivesBound
  <2>2. row \in [status : {None, "active"} \cup Terminal, idle : BOOLEAN,
                 lives : 0 .. Cardinality(Requests) + 1]
    BY <2>1 DEF Types, Rows
  <2>3. ASSUME NEW r \in Requests, req[r].pc \in {"ingest", "staged", "capture"}
        PROVE  guard[req[r].session] = r /\ vm[req[r].session].up
    <3>1. req[r].session \in Requests
      BY <2>3, UsedSession DEF Using
    <3> QED
      BY <2>3, <3>1 DEF Locked, VmsUp, Referenced
  <2> QED
    BY <2>2, <2>3 DEF TypeOK, Types, Vms, Reqs, Apis
<1> QED
  BY <1>1, InvHolds, PTL

(* While the container is in its first life and active, the requests of a
   replica share the session that the registry holds, whoever wins the race of
   get_or_try_insert_with. *)
THEOREM SharedSession == Spec => []OneSession
<1>1. SessionsInv => OneSession
  BY DEF SessionsInv
<1> QED
  BY <1>1, SessionsHold, PTL

(* The session that a replica's registry hands out has what the replica's
   commands stored and did not remove, also after a restart and a replay. *)
THEOREM FilesStay == Spec => []SessionKeepsFiles
<1>1. SessionsInv => SessionKeepsFiles
  BY DEF SessionsInv
<1> QED
  BY <1>1, SessionsHold, PTL

(* No step of a request, of the API or of a reaper revives an expired or
   deleted row, and none turns a deleted one into an expired one. *)
THEOREM TerminalStays == Spec => TerminalIsFinal
<1>1. ContainersInv /\ [Next]_vars => [StatusStep]_vars
  BY NextStatus DEF ContainersInv
<1>2. Spec => [][StatusStep]_vars
  BY <1>1, InvHolds, PTL DEF Spec
<1> QED
  BY <1>2 DEF TerminalIsFinal, StatusStep
=============================================================================
