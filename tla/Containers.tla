------------------------------ MODULE Containers ------------------------------
(***************************************************************************)
(* One shell container, cntr_..., on several gateway replicas: its row and *)
(* its files in the database (src/services/containers.rs,                  *)
(* src/db/sqlite/containers.rs), the live sessions that each replica keeps *)
(* in its registry (src/services/container_session.rs), the requests that  *)
(* run commands in them (src/services/shell_tool.rs), the containers API   *)
(* (src/routes/api/containers.rs), the reaper that expires the idle row    *)
(* and frees the sessions (src/jobs/containers_reaper.rs) behind its       *)
(* leader lock (src/jobs/leader_lock.rs), and the cleanup worker           *)
(* (src/jobs/containers_cleanup.rs).                                       *)
(*                                                                         *)
(* A database statement, a registry operation and a call to the VM are one *)
(* step each.  A session is named by the request that booted its VM, and   *)
(* stands for Arc<Mutex<ContainerSession>>: the VM is torn down when the   *)
(* last reference to it is dropped.                                        *)
(***************************************************************************)
EXTENDS Integers, FiniteSets

CONSTANTS
  Requests,     \* responses with a shell tool; also the VMs they boot and the files they write
  Replicas,     \* gateway processes
  Makers,       \* the requests that may name no container
  Roaming,      \* the requests the load balancer may send to any replica
  Front,        \* the replica it sends the others to
  Staged,       \* the requests with input files
  Upload,       \* the file that POST /v1/containers/{id}/files stores
  MaxCommands,  \* shell calls of one response
  MaxTroubles   \* failed calls, crashes and requests to the containers API

ASSUME ContainersAssumption ==
  /\ IsFiniteSet(Requests) /\ IsFiniteSet(Replicas) /\ Upload \notin Requests
  /\ Makers \cup Roaming \cup Staged \subseteq Requests /\ Front \in Replicas
  /\ {MaxCommands, MaxTroubles} \subseteq Nat

None == "none"
NoVm == [up |-> FALSE, data |-> {}, snapshot |-> {}, whole |-> TRUE, kept |-> TRUE,
         displaced |-> FALSE]
Fresh == [NoVm EXCEPT !.up = TRUE]
Files == Requests \cup {Upload}

ASSUME NamesAssumption == None \notin Requests \cup Replicas

VARIABLES
  row,       \* containers: status, idle (last_active_at), lives (inserts)
  files,     \* container_files
  registry,  \* ContainerSessionRegistry.sessions of each replica
  vm,        \* VMs: /mnt/data, the session's snapshot of it, replay complete,
             \* persistence, and (ghost) pushed out of the registry by Insert
  req,       \* requests: where they stand, their replica, session and commands run
  guard,     \* who holds the mutex of each session
  reaper,    \* where the reaper of each replica stands
  leader,    \* holder of the advisory lock CONTAINERS_REAPER
  api,       \* containers API requests under way: deletes by replica, the upload
  troubles,  \* failed calls, crashes and requests to the containers API so far
  saved      \* ghost: files a replica's commands stored and none of them removed since

vars == <<row, files, registry, vm, req, guard, reaper, leader, api, troubles, saved>>
dbVars == <<row, files>>
sweepVars == <<reaper, leader>>

Terminal == {"expired", "deleted"}
Steps == {"new", "lookup", "ensure", "boot", "register",
          "start_new", "insert", "held", "ingest", "staged", "capture", "done"}

Init ==
  /\ row = [status |-> None, idle |-> FALSE, lives |-> 0]
  /\ files = {}
  /\ registry = [p \in Replicas |-> None]
  /\ vm = [v \in Requests |-> NoVm]
  /\ req = [r \in Requests |-> [pc |-> "new", at |-> None, session |-> None, commands |-> 0]]
  /\ guard = [v \in Requests |-> None]
  /\ reaper = [p \in Replicas |-> "sleep"]
  /\ leader = None
  /\ api = [deleting |-> {}, uploading |-> FALSE]
  /\ troubles = 0
  /\ saved = [p \in Replicas |-> {}]

Trouble == troubles < MaxTroubles /\ troubles' = troubles + 1

Go(r, pc) == req' = [req EXCEPT ![r].pc = pc]

(* Drop of ContainerSession: a VM lives while the registry or a request refers
   to it. *)
Referenced(v, sessions, requests) ==
  (\E p \in Replicas : sessions[p] = v) \/ (\E r \in Requests : requests[r].session = v)

TearDown(vms) ==
  vm' = [v \in Requests |-> IF Referenced(v, registry', req') THEN vms[v] ELSE NoVm]

(* The request is over: its executor drops its session handle. *)
End(r) == req' = [req EXCEPT ![r].pc = "done", ![r].session = None, ![r].at = None]

(* provision and create_explicit: insert the row *)
Inserted == [status |-> "active", idle |-> FALSE, lives |-> row.lives + 1]

---------------------------------------------------------------------------
(* The session of a request's first shell call. *)

Serves(r, p) == r \in Roaming \/ p = Front

(* A request that names no container boots one of its own, with a new id: only
   one request makes this container. *)
StartNew(r, p) ==
  /\ req[r].pc = "new" /\ r \in Makers /\ Serves(r, p) /\ row.lives = 0 /\ row.status = None
  /\ \A q \in Requests : req[q].pc = "new"
  /\ req' = [req EXCEPT ![r].pc = "start_new", ![r].at = p]
  /\ UNCHANGED <<dbVars, registry, vm, guard, sweepVars, api, troubles, saved>>

(* A container reference, or the container of previous_response_id: resolved to
   a hint when the row is active. *)
Resolve(r, p) ==
  /\ req[r].pc = "new" /\ Serves(r, p) /\ row.status = "active"
  /\ req' = [req EXCEPT ![r].pc = "lookup", ![r].at = p]
  /\ UNCHANGED <<dbVars, registry, vm, guard, sweepVars, api, troubles, saved>>

(* get_or_try_insert_with: the session that is registered, else a boot outside
   of the map's lock *)
Lookup(r) ==
  /\ req[r].pc = "lookup"
  /\ LET found == registry[req[r].at]
     IN req' = [req EXCEPT ![r].pc = IF found = None THEN "ensure" ELSE "held",
                           ![r].session = found]
  /\ UNCHANGED <<dbVars, registry, vm, guard, sweepVars, api, troubles, saved>>

(* start_attached, ensure_container: an expired or deleted row is an error, a
   missing one is inserted *)
Ensure(r) ==
  /\ req[r].pc = "ensure"
  /\ \/ row.status = "active" /\ Go(r, "boot") /\ UNCHANGED row
     \/ row.status \in Terminal /\ End(r) /\ UNCHANGED row
     \/ row.status = None /\ Go(r, "boot") /\ row' = Inserted
  /\ UNCHANGED <<files, registry, vm, guard, sweepVars, api, troubles, saved>>

EnsureFails(r) ==
  /\ req[r].pc = "ensure" /\ Trouble /\ End(r)
  /\ UNCHANGED <<dbVars, registry, vm, guard, sweepVars, api, saved>>

(* boot_inner: the VM, which no other request can see before it is registered,
   is started in one step with the statement after it. *)
Booted(r, pc, session) ==
  /\ req' = [req EXCEPT ![r].pc = pc, ![r].session = r]
  /\ vm' = [vm EXCEPT ![r] = session]
  /\ UNCHANGED <<files, registry, guard, sweepVars, api, saved>>

BootFails(r) ==
  /\ req[r].pc \in {"boot", "start_new"} /\ Trouble /\ End(r)
  /\ UNCHANGED <<dbVars, registry, vm, guard, sweepVars, api, saved>>

(* a new container's row; without it the session goes on in memory only *)
Provision(r) ==
  /\ req[r].pc = "start_new" /\ Booted(r, "insert", Fresh)
  /\ row' = Inserted /\ UNCHANGED troubles

ProvisionFails(r) ==
  /\ req[r].pc = "start_new" /\ Booted(r, "insert", [Fresh EXCEPT !.kept = FALSE])
  /\ Trouble /\ UNCHANGED row

(* insert: the new entry wins.  The row was there before, so another request may
   have found it, booted its own VM and registered that one. *)
Insert(r) ==
  LET p == req[r].at
      old == registry[p]
  IN /\ req[r].pc = "insert" /\ Go(r, "held")
     /\ registry' = [registry EXCEPT ![p] = r]
     /\ TearDown(IF old = None THEN vm ELSE [vm EXCEPT ![old].displaced = TRUE])
     /\ saved' = IF old = None THEN saved ELSE [saved EXCEPT ![p] = {}]
     /\ UNCHANGED <<dbVars, guard, sweepVars, api, troubles>>

(* Mutant: a booted VM starts empty. *)
ReplayNothing(r) ==
  /\ req[r].pc = "boot" /\ Booted(r, "register", Fresh)
  /\ UNCHANGED <<row, troubles>>

(* replay_from_db, then the baseline snapshot *)
Replay(r) ==
  /\ req[r].pc = "boot"
  /\ Booted(r, "register", [Fresh EXCEPT !.data = files, !.snapshot = files])
  /\ UNCHANGED <<row, troubles>>

(* a replay that fails leaves an empty workspace, one that cannot read or write
   some files skips them; the session is used *)
ReplayFails(r) ==
  /\ req[r].pc = "boot" /\ Trouble /\ UNCHANGED row
  /\ \E part \in SUBSET files :
       Booted(r, "register", [Fresh EXCEPT !.data = part, !.snapshot = part, !.whole = FALSE])

(* Mutant: the later boot replaces the registered session. *)
RegisterLast(r) ==
  /\ req[r].pc = "register" /\ Go(r, "held")
  /\ registry' = [registry EXCEPT ![req[r].at] = r]
  /\ TearDown(vm)
  /\ UNCHANGED <<dbVars, guard, sweepVars, api, troubles, saved>>

(* the second half of get_or_try_insert_with: the session that came first is
   used, and the VM of the loser is dropped *)
Register(r) ==
  LET p == req[r].at
      winner == IF registry[p] = None THEN r ELSE registry[p]
  IN /\ req[r].pc = "register"
     /\ req' = [req EXCEPT ![r].pc = "held", ![r].session = winner]
     /\ registry' = [registry EXCEPT ![p] = winner]
     /\ TearDown(vm)
     /\ UNCHANGED <<dbVars, guard, sweepVars, api, troubles, saved>>

---------------------------------------------------------------------------
(* Shell calls.  The session's mutex is held from here to the end of the
   capture. *)

Unlocked(r) == [guard EXCEPT ![req[r].session] = None]

(* Mutant: the session's mutex is not waited for. *)
LockNoWait(r) ==
  /\ req[r].pc = "held" /\ req[r].commands < MaxCommands
  /\ guard' = [guard EXCEPT ![req[r].session] = r]
  /\ req' = [req EXCEPT ![r].pc = IF r \in Staged /\ req[r].commands = 0
                                   THEN "ingest" ELSE "staged",
                        ![r].commands = @ + 1]
  /\ UNCHANGED <<dbVars, registry, vm, sweepVars, api, troubles, saved>>

Lock(r) ==
  /\ req[r].pc = "held" /\ req[r].commands < MaxCommands
  /\ guard[req[r].session] = None
  /\ guard' = [guard EXCEPT ![req[r].session] = r]
  /\ req' = [req EXCEPT ![r].pc = IF r \in Staged /\ req[r].commands = 0
                                   THEN "ingest" ELSE "staged",
                        ![r].commands = @ + 1]
  /\ UNCHANGED <<dbVars, registry, vm, sweepVars, api, troubles, saved>>

(* persist_files: the rows go with the container, so that nothing is stored
   after the row is gone; a session in memory only stores nothing *)
Stored(r, new) == IF row.status # None /\ vm[req[r].session].kept THEN new ELSE {}

(* ghost: what the next command of the replica may expect to find *)
Kept(r, new) ==
  IF vm[req[r].session].displaced THEN saved ELSE [saved EXCEPT ![req[r].at] = @ \cup new]

(* ingest_user_files, on the first call of a request that has input files *)
Ingest(r) ==
  LET v == req[r].session
      new == Stored(r, {r})
  IN /\ req[r].pc = "ingest" /\ Go(r, "staged")
     /\ vm' = [vm EXCEPT ![v].data = @ \cup {r}, ![v].snapshot = @ \cup {r}]
     /\ files' = files \cup new
     /\ saved' = Kept(r, new)
     /\ UNCHANGED <<row, registry, guard, sweepVars, api, troubles>>

(* the write into the VM fails, or the rows cannot be written: the command runs
   anyway *)
IngestFails(r) ==
  LET v == req[r].session
  IN /\ req[r].pc = "ingest" /\ Trouble /\ Go(r, "staged")
     /\ \/ UNCHANGED vm
        \/ vm' = [vm EXCEPT ![v].data = @ \cup {r}, ![v].snapshot = @ \cup {r}]
     /\ UNCHANGED <<dbVars, registry, guard, sweepVars, api, saved>>

(* exec: the command writes the request's file or removes one, and the activity
   ping moves last_active_at on a row of any status *)
Exec(r) ==
  LET v == req[r].session
      p == req[r].at
  IN /\ req[r].pc = "staged" /\ Go(r, "capture")
     /\ \/ /\ vm' = [vm EXCEPT ![v].data = @ \cup {r}]
           /\ saved' = saved
        \/ \E f \in vm[v].data :
             /\ vm' = [vm EXCEPT ![v].data = @ \ {f}]
             /\ saved' = [saved EXCEPT ![p] = @ \ {f}]
     /\ row' = IF vm[v].kept THEN [row EXCEPT !.idle = FALSE] ELSE row
     /\ UNCHANGED <<files, registry, guard, sweepVars, api, troubles>>

ExecFails(r) ==
  /\ req[r].pc = "staged" /\ Trouble /\ Go(r, "held")
  /\ guard' = Unlocked(r)
  /\ UNCHANGED <<dbVars, registry, vm, sweepVars, api, saved>>

(* capture_changes: what the snapshot does not have is stored; a file that the
   command removed leaves the snapshot, and its row stays *)
Capture(r) ==
  LET v == req[r].session
      new == Stored(r, vm[v].data \ vm[v].snapshot)
  IN /\ req[r].pc = "capture" /\ Go(r, "held")
     /\ files' = files \cup new
     /\ saved' = Kept(r, new)
     /\ vm' = [vm EXCEPT ![v].snapshot = vm[v].data]
     /\ guard' = Unlocked(r)
     /\ UNCHANGED <<row, registry, sweepVars, api, troubles>>

(* the listing of the VM fails, or the rows cannot be written although the
   snapshot has moved on already *)
CaptureFails(r) ==
  LET v == req[r].session
  IN /\ req[r].pc = "capture" /\ Trouble /\ Go(r, "held")
     /\ \/ UNCHANGED vm
        \/ vm' = [vm EXCEPT ![v].snapshot = vm[v].data]
     /\ guard' = Unlocked(r)
     /\ UNCHANGED <<dbVars, registry, sweepVars, api, saved>>

(* the client is gone: no capture, and the request is over *)
Leave(r) ==
  /\ req[r].pc = "capture" /\ End(r)
  /\ guard' = Unlocked(r)
  /\ UNCHANGED registry /\ TearDown(vm)
  /\ UNCHANGED <<dbVars, sweepVars, api, troubles, saved>>

Finish(r) ==
  /\ req[r].pc = "held" /\ req[r].commands > 0 /\ End(r)
  /\ UNCHANGED registry /\ TearDown(vm)
  /\ UNCHANGED <<dbVars, guard, sweepVars, api, troubles, saved>>

---------------------------------------------------------------------------
(* The containers API. *)

(* POST /v1/containers *)
Create ==
  /\ row.lives = 0 /\ row.status = None /\ \A r \in Requests : req[r].pc = "new"
  /\ row' = Inserted
  /\ UNCHANGED <<files, registry, vm, req, guard, sweepVars, api, troubles, saved>>

(* DELETE /v1/containers/{id}, at replica p: the row first, whatever its
   status *)
DeleteRow(p) ==
  /\ row.status # None /\ p \notin api.deleting
  /\ Trouble
  /\ row' = [row EXCEPT !.status = "deleted"]
  /\ api' = [api EXCEPT !.deleting = @ \cup {p}]
  /\ UNCHANGED <<files, registry, vm, req, guard, sweepVars, saved>>

(* then the replica's own session *)
DeleteSession(p) ==
  /\ p \in api.deleting /\ api' = [api EXCEPT !.deleting = @ \ {p}]
  /\ registry' = [registry EXCEPT ![p] = None]
  /\ UNCHANGED req /\ TearDown(vm)
  /\ UNCHANGED <<dbVars, guard, sweepVars, troubles, saved>>

(* POST /v1/containers/{id}/files: the status is checked, then the row of the
   file is written; live sessions do not get it *)
UploadBegin ==
  /\ row.status = "active" /\ ~api.uploading /\ Upload \notin files
  /\ Trouble
  /\ api' = [api EXCEPT !.uploading = TRUE]
  /\ UNCHANGED <<dbVars, registry, vm, req, guard, sweepVars, saved>>

UploadEnd ==
  /\ api.uploading /\ api' = [api EXCEPT !.uploading = FALSE]
  /\ files' = IF row.status # None THEN files \cup {Upload} ELSE files
  /\ UNCHANGED <<row, registry, vm, req, guard, sweepVars, troubles, saved>>

(* DELETE /v1/containers/{id}/files/{file_id}: the row only *)
DeleteFile(f) ==
  /\ f \in files /\ files' = files \ {f}
  /\ Trouble
  /\ saved' = [p \in Replicas |-> saved[p] \ {f}]
  /\ UNCHANGED <<row, registry, vm, req, guard, sweepVars, api>>

---------------------------------------------------------------------------
(* The reaper of a replica, once per interval.  A pass that finds nothing to do
   changes nothing; a try_acquire is one step with the statement after it. *)

ReapAt(p, pc) == reaper' = [reaper EXCEPT ![p] = pc]

(* Mutant: the pass ends and the leader lock stays. *)
PassEndsLocked(p) == ReapAt(p, "sleep") /\ UNCHANGED leader

(* The leader's guard is dropped; its spawned unlock runs before the next
   interval is over. *)
PassEnds(p) == ReapAt(p, "sleep") /\ leader' = IF leader = p THEN None ELSE leader

(* Mutant: the UPDATE has no condition on the status. *)
MarkAnyIdle(p) ==
  /\ reaper[p] = "sleep" /\ row.idle
  /\ leader = None /\ leader' = p /\ ReapAt(p, "reconcile")
  /\ row' = [row EXCEPT !.status = "expired"]
  /\ UNCHANGED <<files, registry, vm, req, guard, api, troubles, saved>>

(* the leader: mark_expired_idle *)
MarkExpiredIdle(p) ==
  /\ reaper[p] = "sleep" /\ row.status = "active" /\ row.idle
  /\ leader = None /\ leader' = p /\ ReapAt(p, "reconcile")
  /\ row' = [row EXCEPT !.status = "expired"]
  /\ UNCHANGED <<files, registry, vm, req, guard, api, troubles, saved>>

ToEvict(p) == registry[p] # None /\ row.status \in Terminal

(* Mutant: only the leader frees its sessions. *)
ReconcileLeader(p) ==
  /\ reaper[p] = "reconcile"
  /\ IF ToEvict(p) THEN ReapAt(p, "evict") /\ UNCHANGED leader ELSE PassEnds(p)
  /\ UNCHANGED <<dbVars, registry, vm, req, guard, api, troubles, saved>>

(* every replica, the leader after its UPDATE: expired_among the ids of the
   registry *)
Reconcile(p) ==
  /\ reaper[p] = "reconcile" \/ (reaper[p] = "sleep" /\ ToEvict(p))
  /\ IF ToEvict(p) THEN ReapAt(p, "evict") /\ UNCHANGED leader ELSE PassEnds(p)
  /\ UNCHANGED <<dbVars, registry, vm, req, guard, api, troubles, saved>>

(* A failed statement is logged: without the UPDATE the leader's pass goes on,
   and without the query it ends. *)
ReapFails(p) ==
  /\ Trouble
  /\ \/ reaper[p] = "sleep" /\ leader = None /\ leader' = p /\ ReapAt(p, "reconcile")
     \/ reaper[p] = "reconcile" /\ PassEnds(p)
  /\ UNCHANGED <<dbVars, registry, vm, req, guard, api, saved>>

Evict(p) ==
  /\ reaper[p] = "evict" /\ PassEnds(p)
  /\ registry' = [registry EXCEPT ![p] = None]
  /\ UNCHANGED req /\ TearDown(vm)
  /\ UNCHANGED <<dbVars, guard, api, troubles, saved>>

(* hard_delete_expired: the row has been terminal for cleanup_delay_secs, which
   may be 0 *)
HardDelete ==
  /\ row.status \in Terminal /\ Trouble
  /\ row' = [row EXCEPT !.status = None, !.idle = FALSE]
  /\ files' = {}
  /\ saved' = [p \in Replicas |-> {}]
  /\ UNCHANGED <<registry, vm, req, guard, sweepVars, api>>

---------------------------------------------------------------------------
(* Clock and faults *)

(* idle_ttl_secs pass since last_active_at *)
IdlePasses ==
  /\ row.status = "active" /\ ~row.idle /\ row' = [row EXCEPT !.idle = TRUE]
  /\ UNCHANGED <<files, registry, vm, req, guard, sweepVars, api, troubles, saved>>

(* A process stops and starts again: its sessions and requests are gone, and the
   database ends its connections and frees its lock. *)
Crash(p) ==
  /\ Trouble
  /\ registry' = [registry EXCEPT ![p] = None]
  /\ req' = [r \in Requests |-> IF req[r].at = p
                THEN [req[r] EXCEPT !.pc = "done", !.session = None, !.at = None] ELSE req[r]]
  /\ guard' = [v \in Requests |-> IF guard[v] # None /\ req[guard[v]].at = p THEN None ELSE guard[v]]
  /\ TearDown(vm)
  /\ reaper' = [reaper EXCEPT ![p] = "sleep"]
  /\ leader' = IF leader = p THEN None ELSE leader
  /\ api' = [api EXCEPT !.deleting = @ \ {p}]
  /\ UNCHANGED <<dbVars, saved>>

---------------------------------------------------------------------------
RequestStep(r) ==
  \/ Lookup(r) \/ Ensure(r) \/ Provision(r) \/ Insert(r) \/ Replay(r)
  \/ Register(r) \/ Lock(r) \/ Ingest(r) \/ Exec(r) \/ Capture(r) \/ Finish(r)

RequestTrouble(r) ==
  \/ EnsureFails(r) \/ BootFails(r) \/ ProvisionFails(r) \/ ReplayFails(r)
  \/ IngestFails(r) \/ ExecFails(r) \/ CaptureFails(r) \/ Leave(r)

ReaperStep(p) ==
  MarkExpiredIdle(p) \/ Reconcile(p) \/ Evict(p)

Next ==
  \/ \E r \in Requests : RequestStep(r) \/ RequestTrouble(r)
  \/ \E r \in Requests, p \in Replicas : StartNew(r, p) \/ Resolve(r, p)
  \/ \E p \in Replicas :
       ReaperStep(p) \/ ReapFails(p) \/ DeleteRow(p) \/ DeleteSession(p) \/ Crash(p)
  \/ HardDelete \/ IdlePasses
  \/ Create \/ UploadBegin \/ UploadEnd
  \/ \E f \in Files : DeleteFile(f)

(* Requests run to their end (a command has a timeout), the reaper loop
   of every process ticks. *)
Fairness ==
  /\ \A r \in Requests : WF_vars(RequestStep(r))
  /\ \A p \in Replicas : WF_vars(ReaperStep(p)) /\ WF_vars(DeleteSession(p))

Spec == Init /\ [][Next]_vars /\ Fairness

---------------------------------------------------------------------------
(* The variables have their types; a request that runs or captures a command
   holds the mutex of its session, whose VM is up. *)
TypeOK ==
  /\ row \in [status : {None, "active"} \cup Terminal, idle : BOOLEAN,
              lives : 0 .. Cardinality(Requests) + 1]
  /\ files \subseteq Files
  /\ registry \in [Replicas -> Requests \cup {None}]
  /\ vm \in [Requests -> [up : BOOLEAN, data : SUBSET Files, snapshot : SUBSET Files,
                         whole : BOOLEAN, kept : BOOLEAN, displaced : BOOLEAN]]
  /\ req \in [Requests -> [pc : Steps, at : Replicas \cup {None},
                          session : Requests \cup {None}, commands : 0 .. MaxCommands]]
  /\ guard \in [Requests -> Requests \cup {None}]
  /\ reaper \in [Replicas -> {"sleep", "reconcile", "evict"}]
  /\ leader \in Replicas \cup {None}
  /\ api \in [deleting : SUBSET Replicas, uploading : BOOLEAN]
  /\ saved \in [Replicas -> SUBSET Files]
  /\ \A r \in Requests : req[r].pc \in {"ingest", "staged", "capture"} =>
       guard[req[r].session] = r /\ vm[req[r].session].up

(* While the container is active, the requests of one replica share one
   session: whoever lost the race of get_or_try_insert_with uses the winner's
   VM, and no request is left with one that the registry has forgotten, but for
   the sessions that NeverDisplaced is about. *)
OneSession ==
  row.status = "active" /\ row.lives = 1 =>
    \A r \in Requests :
      req[r].pc \in {"held", "ingest", "staged", "capture"} /\ ~vm[req[r].session].displaced =>
        req[r].session = registry[req[r].at]

(* What a command of a replica stored, and none of them removed, is there for
   the next command on that replica: in the session that the registry hands
   out, also after the process was restarted and the files were replayed. *)
SessionKeepsFiles ==
  row.status = "active" /\ row.lives = 1 =>
    \A p \in Replicas : registry[p] # None /\ vm[registry[p]].whole =>
      saved[p] \subseteq vm[registry[p]].data

(* No session in use is pushed out of the registry by another one: the shell
   tool's comment on the value that insert returns calls it impossible. *)
NeverDisplaced == \A v \in Requests : ~vm[v].displaced

(* A container that is expired or deleted never becomes active again, and a
   deleted one is never reported as expired: the late activity ping of a command
   and the reaper leave the status alone.  Only the removal of the row ends it. *)
TerminalIsFinal ==
  [][/\ row.status = "deleted" => row'.status \in {"deleted", None}
     /\ row.status = "expired" => row'.status \in {"expired", "deleted", None}]_vars

(* An idle container is expired, unless a command is run in it, whichever
   replica leads the reaper and although a pass of it may fail: the leader lock
   is not left behind. *)
IdleExpires ==
  (row.status = "active" /\ row.idle) ~> ~(row.status = "active" /\ row.idle)

(* Every replica's VM of an expired or deleted container is torn down in the
   end, also one whose boot was under way when the row was flipped on another
   replica; unless the row is removed before. *)
SessionsFreed ==
  (row.status \in Terminal) ~> (row.status \notin Terminal \/ \A v \in Requests : ~vm[v].up)
=============================================================================
