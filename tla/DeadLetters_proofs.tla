-------------------------- MODULE DeadLetters_proofs --------------------------
(***************************************************************************)
(* Invariants of DeadLetters, proved for any letters, bounds and numbers   *)
(* of outages, stops, failed writes and admin requests.                    *)
(***************************************************************************)
EXTENDS DeadLetters, FiniteSetTheorems, SequenceTheorems, TLAPS

-----------------------------------------------------------------------------
(* Sequences of letters.                                                     *)

(* What <<x>> \o s is made of. *)
LEMMA InFront ==
  ASSUME NEW S, NEW x \in S, NEW s \in Seq(S)
  PROVE  /\ <<x>> \o s \in Seq(S) /\ <<x>> \o s # <<>>
         /\ Head(<<x>> \o s) = x /\ Tail(<<x>> \o s) = s
<1> DEFINE c == <<x>> \o s
<1>1. c \in Seq(S) /\ Len(c) = Len(s) + 1 /\ c[1] = x
      /\ \A i \in 1 .. Len(s) : c[i + 1] = s[i]
  OBVIOUS
<1>2. c # <<>> /\ Head(c) = x
  BY <1>1
<1>3. Tail(c) \in Seq(S) /\ Len(Tail(c)) = Len(s)
      /\ \A i \in 1 .. Len(s) : Tail(c)[i] = s[i]
  BY <1>1, <1>2
<1>4. Tail(c) = s
  BY <1>3, SeqEqual
<1> QED
  BY <1>1, <1>2, <1>4

(* The letters of a channel. *)
LEMMA SetOfEmpty == ToSet(<<>>) = {}
BY DEF ToSet

LEMMA SetOfOne ==
  ASSUME NEW x
  PROVE  ToSet(<<x>>) = {x}
BY DEF ToSet

LEMMA SetOfAppend ==
  ASSUME NEW S, NEW s \in Seq(S), NEW x
  PROVE  ToSet(Append(s, x)) = ToSet(s) \cup {x}
<1>1. Len(Append(s, x)) = Len(s) + 1 /\ Append(s, x)[Len(s) + 1] = x
      /\ \A i \in 1 .. Len(s) : Append(s, x)[i] = s[i]
  OBVIOUS
<1>2. DOMAIN Append(s, x) = 1 .. Len(s) + 1 /\ DOMAIN s = 1 .. Len(s) /\ Len(s) \in Nat
  OBVIOUS
<1> QED
  BY <1>1, <1>2 DEF ToSet

LEMMA SetOfTail ==
  ASSUME NEW S, NEW s \in Seq(S), s # <<>>
  PROVE  /\ Tail(s) \in Seq(S) /\ Head(s) \in S /\ Head(s) \in ToSet(s)
         /\ ToSet(s) = {Head(s)} \cup ToSet(Tail(s))
<1>1. /\ Tail(s) \in Seq(S) /\ Len(s) \in Nat \ {0} /\ Head(s) = s[1] /\ Head(s) \in S
      /\ DOMAIN s = 1 .. Len(s) /\ DOMAIN Tail(s) = 1 .. Len(s) - 1
      /\ \A i \in 1 .. Len(s) - 1 : Tail(s)[i] = s[i + 1]
  OBVIOUS
<1>2. ASSUME NEW y \in ToSet(s), y # Head(s)
      PROVE  y \in ToSet(Tail(s))
  <2>1. PICK i \in 1 .. Len(s) : y = s[i]
    BY <1>1, <1>2 DEF ToSet
  <2>2. i - 1 \in 1 .. Len(s) - 1 /\ Tail(s)[i - 1] = s[i]
    BY <1>1, <1>2, <2>1
  <2> QED
    BY <1>1, <2>1, <2>2 DEF ToSet
<1>3. ToSet(Tail(s)) \subseteq ToSet(s) /\ Head(s) \in ToSet(s)
  BY <1>1 DEF ToSet
<1> QED
  BY <1>1, <1>2, <1>3

LEMMA SetTyped ==
  ASSUME NEW S, NEW s \in Seq(S)
  PROVE  ToSet(s) \subseteq S
BY DEF ToSet

-----------------------------------------------------------------------------
(* Types.                                                                    *)

Records == [pc : Steps, letters : Seq(Letters), count : 0 .. Attempts + MaxRetries,
            victims : SUBSET Letters]

Types ==
  /\ kind \in [Letters -> {None, "usage_log", "webhook"}]
  /\ channel \in Seq(Letters) /\ Len(channel) <= MaxPending
  /\ queue \in Seq(Letters) /\ Len(queue) <= QueueSize
  /\ drainer \in Letters \cup {None}
  /\ permits \subseteq Letters /\ Cardinality(permits) <= MaxDeliveries
  /\ task \in [Tasks -> Records]
  /\ index \in [Letters -> Absent .. MaxCount]
  /\ files \in [Letters -> Torn .. MaxCount]
  /\ born \in Seq(Letters)
  /\ recorded \subseteq Letters /\ delivered \subseteq Letters
  /\ dbUp \in BOOLEAN /\ shutdown \in {"running", "asked", "final"}
  /\ excused \subseteq Letters

(* The letters that a task works through: a victim that is being unlinked is
   in front of them. *)
Own(t) == IF task[t].pc = "unlink_victim" THEN Tail(task[t].letters) ELSE task[t].letters

(* Where a task can be, and what it has at hand there. *)
Shape(t) ==
  /\ t = Flusher =>
       /\ task[t].pc \in {"drain", "write_batch", "create", "insert", "enforce", "evict",
                          "unlink_victim", "check", "exited"}
       /\ task[t].pc \notin {"drain", "check", "exited"} => Own(t) # <<>>
       /\ task[t].pc \in {"check", "exited"} => task[t].letters = <<>>
  /\ Pruning(t) =>
       /\ task[t].pc \in {"list", "entry", "prune", "retry", "remove", "unlink", "mark",
                          "truncate", "rewrite", "evict", "unlink_victim", "done"}
       /\ task[t].pc \notin {"list", "prune", "evict", "unlink_victim", "done"}
            => task[t].letters # <<>>
  /\ t \in Letters =>
       /\ task[t].pc \in {"done", "queued", "deliver", "create", "insert", "enforce",
                          "evict", "unlink_victim"}
       /\ task[t].pc \notin {"done", "queued"} => Own(t) = <<t>>
  /\ task[t].pc = "unlink_victim" => task[t].letters # <<>>
  /\ task[t].pc \in {"truncate", "rewrite"} => task[t].count <= MaxCount

Shapes == \A t \in Tasks : Shape(t)

(* A step of task t: where it goes, and with which letters. *)
Sets(t, pc, letters) ==
  /\ task' \in [Tasks -> Records]
  /\ \A u \in Tasks \ {t} : task'[u] = task[u]
  /\ task'[t].pc = pc /\ task'[t].letters = letters

Rest(letters) == IF letters = <<>> THEN <<>> ELSE Tail(letters)

(* It goes on with what comes after its present letter. *)
Resumes(t, letters) ==
  \/ t = Flusher /\ Rest(letters) = <<>> /\ Sets(t, "check", <<>>)
  \/ t = Flusher /\ Rest(letters) # <<>> /\ Sets(t, "create", Rest(letters))
  \/ /\ t = Worker
     /\ \E pc \in {"list", "entry", "prune"} :
          Sets(t, pc, Rest(letters)) /\ (pc = "entry" => Rest(letters) # <<>>)
  \/ t \notin {Flusher, Worker} /\ Sets(t, "done", <<>>)

LEMMA RestTyped ==
  ASSUME NEW s \in Seq(Letters)
  PROVE  Rest(s) \in Seq(Letters)
BY DEF Rest

LEMMA AtTyped ==
  ASSUME NEW pc \in Steps
  PROVE  At(pc) \in Records /\ At(pc).pc = pc /\ At(pc).letters = <<>>
<1>1. 0 \in 0 .. Attempts + MaxRetries /\ <<>> \in Seq(Letters)
  BY DlqAssumption
<1> QED
  BY <1>1 DEF At, Records

LEMMA AtLetters ==
  ASSUME NEW pc \in Steps, NEW s \in Seq(Letters)
  PROVE  /\ [At(pc) EXCEPT !.letters = s] \in Records
         /\ [At(pc) EXCEPT !.letters = s].pc = pc
         /\ [At(pc) EXCEPT !.letters = s].letters = s
BY AtTyped DEF Records

LEMMA AtVictims ==
  ASSUME NEW pc \in Steps, NEW v \in SUBSET Letters
  PROVE  /\ [At(pc) EXCEPT !.victims = v] \in Records
         /\ [At(pc) EXCEPT !.victims = v].pc = pc
         /\ [At(pc) EXCEPT !.victims = v].letters = <<>>
BY AtTyped DEF Records

LEMMA SetsRecord ==
  ASSUME Types, NEW t \in Tasks, NEW r \in Records, task' = [task EXCEPT ![t] = r]
  PROVE  Sets(t, r.pc, r.letters) /\ task'[t] = r
BY DEF Types, Sets

LEMMA GoSets ==
  ASSUME Types, NEW t \in Tasks, NEW pc \in Steps, Go(t, pc)
  PROVE  Sets(t, pc, task[t].letters) /\ task'[t].count = task[t].count
<1> DEFINE r == [task[t] EXCEPT !.pc = pc]
<1>1. r \in Records /\ r.pc = pc /\ r.letters = task[t].letters /\ r.count = task[t].count
  BY DEF Types, Records
<1>2. task' = [task EXCEPT ![t] = r]
  BY DEF Go, Types
<1> HIDE DEF r
<1> QED
  BY <1>1, <1>2, SetsRecord

LEMMA ResumedResumes ==
  ASSUME Types, NEW t \in Tasks, NEW s \in Seq(Letters),
         task' = [task EXCEPT ![t] = Resumed(t, s)]
  PROVE  Resumes(t, s)
<1> DEFINE r == Resumed(t, s)
<1>0. Rest(s) \in Seq(Letters) /\ {"check", "create", "list", "prune", "entry", "done"} \subseteq Steps
  BY RestTyped DEF Steps
<1>1. CASE t = Flusher
  <2>1. r = [At(IF Rest(s) = <<>> THEN "check" ELSE "create") EXCEPT !.letters = Rest(s)]
    BY <1>1 DEF Resumed, Rest
  <2> HIDE DEF r
  <2>2. /\ r \in Records /\ r.letters = Rest(s)
        /\ r.pc = IF Rest(s) = <<>> THEN "check" ELSE "create"
    BY <1>0, <2>1, AtLetters
  <2>3. Sets(t, r.pc, r.letters)
    BY <2>2, SetsRecord DEF r
  <2> QED
    BY <1>1, <2>2, <2>3 DEF Resumes
<1>2. CASE t = Worker /\ t # Flusher
  <2> DEFINE pc == IF s = <<>> THEN "list" ELSE IF Rest(s) = <<>> THEN "prune" ELSE "entry"
  <2>1. r = [At(pc) EXCEPT !.letters = Rest(s)]
    BY <1>2 DEF Resumed, Rest
  <2>2. pc \in Steps /\ pc \in {"list", "entry", "prune"} /\ (pc = "entry" => Rest(s) # <<>>)
    BY <1>0
  <2> HIDE DEF pc
  <2> HIDE DEF r
  <2>3. r \in Records /\ r.letters = Rest(s) /\ r.pc = pc
    BY <1>0, <2>1, <2>2, AtLetters
  <2>4. Sets(t, r.pc, r.letters)
    BY <2>3, SetsRecord DEF r
  <2> QED
    BY <1>2, <2>2, <2>3, <2>4 DEF Resumes
<1>3. CASE t \notin {Flusher, Worker}
  <2>1. r = At("done")
    BY <1>3 DEF Resumed
  <2> HIDE DEF r
  <2>2. r \in Records /\ r.letters = <<>> /\ r.pc = "done"
    BY <1>0, <2>1, AtTyped
  <2>3. Sets(t, r.pc, r.letters)
    BY <2>2, SetsRecord DEF r
  <2> QED
    BY <1>3, <2>2, <2>3 DEF Resumes
<1> QED
  BY <1>1, <1>2, <1>3

LEMMA ResumeResumes ==
  ASSUME Types, NEW t \in Tasks, Resume(t)
  PROVE  Resumes(t, task[t].letters)
<1>1. task[t].letters \in Seq(Letters)
  BY DEF Types, Records
<1> QED
  BY <1>1, ResumedResumes DEF Resume

-----------------------------------------------------------------------------
(* What every operation makes of the task that runs it.                      *)

LEMMA TasksAre ==
  /\ Flusher \in Tasks /\ Worker \in Tasks /\ Admin \in Tasks /\ Letters \subseteq Tasks
  /\ \A i \in Letters : i \notin {Flusher, Worker, Admin, None}
  /\ Flusher # Worker /\ Worker # Admin /\ Admin # Flusher
BY DlqAssumption DEF Tasks

LEMMA RecordsAre ==
  ASSUME Types, NEW t \in Tasks
  PROVE  /\ task[t] \in Records
         /\ task[t].letters \in Seq(Letters) /\ task[t].victims \subseteq Letters
         /\ task[t].count \in 0 .. Attempts + MaxRetries
BY DEF Types, Records

LEMMA SetsAt ==
  ASSUME Types, NEW t \in Tasks, NEW pc \in Steps, task' = [task EXCEPT ![t] = At(pc)]
  PROVE  Sets(t, pc, <<>>)
<1> DEFINE r == At(pc)
<1>1. r \in Records /\ r.pc = pc /\ r.letters = <<>>
  BY AtTyped
<1>2. task' = [task EXCEPT ![t] = r]
  OBVIOUS
<1> HIDE DEF r
<1> QED
  BY <1>1, <1>2, SetsRecord

LEMMA SetsLetters ==
  ASSUME Types, NEW t \in Tasks, NEW pc \in Steps, NEW s \in Seq(Letters),
         task' = [task EXCEPT ![t] = [At(pc) EXCEPT !.letters = s]]
  PROVE  Sets(t, pc, s)
<1> DEFINE r == [At(pc) EXCEPT !.letters = s]
<1>1. r \in Records /\ r.pc = pc /\ r.letters = s
  BY AtLetters
<1>2. task' = [task EXCEPT ![t] = r]
  OBVIOUS
<1> HIDE DEF r
<1> QED
  BY <1>1, <1>2, SetsRecord

LEMMA SetsVictims ==
  ASSUME Types, NEW t \in Tasks, NEW pc \in Steps, NEW v \in SUBSET Letters,
         task' = [task EXCEPT ![t] = [At(pc) EXCEPT !.victims = v]]
  PROVE  Sets(t, pc, <<>>)
<1> DEFINE r == [At(pc) EXCEPT !.victims = v]
<1>1. r \in Records /\ r.pc = pc /\ r.letters = <<>>
  BY AtVictims
<1>2. task' = [task EXCEPT ![t] = r]
  OBVIOUS
<1> HIDE DEF r
<1> QED
  BY <1>1, <1>2, SetsRecord

LEMMA CreateSets ==
  ASSUME Types, NEW t \in Tasks, Create(t)
  PROVE  Sets(t, "insert", task[t].letters)
BY GoSets DEF Create, Steps

LEMMA InsertSets ==
  ASSUME Types, NEW t \in Tasks, Insert(t)
  PROVE  Sets(t, "enforce", task[t].letters)
BY GoSets DEF Insert, Steps

LEMMA OldestTyped ==
  ASSUME NEW k
  PROVE  OldestOf(k) \subseteq Letters
BY DEF OldestOf, Indexed

LEMMA EnforceSets ==
  ASSUME Types, NEW t \in Tasks, Enforce(t)
  PROVE  Resumes(t, task[t].letters) \/ Sets(t, "evict", task[t].letters)
<1>1. CASE Resume(t)
  BY <1>1, ResumeResumes
<1>2. CASE ~Resume(t)
  <2> DEFINE v == OldestOf(Cardinality(Indexed) - MaxFiles)
             r == [task[t] EXCEPT !.pc = "evict", !.victims = v]
  <2>1. task' = [task EXCEPT ![t] = r]
    BY <1>2 DEF Enforce, Types
  <2>2. v \in SUBSET Letters
    BY OldestTyped
  <2> HIDE DEF v
  <2>3. r \in Records /\ r.pc = "evict" /\ r.letters = task[t].letters
    BY <2>2, RecordsAre DEF Records, Steps
  <2> HIDE DEF r
  <2> QED
    BY <2>1, <2>3, SetsRecord
<1> QED
  BY <1>1, <1>2

LEMMA NextVictimSets ==
  ASSUME Types, NEW t \in Tasks, NEW v \in SUBSET Letters, NEW s \in Seq(Letters),
         NextVictim(t, v, s)
  PROVE  (v = {} /\ Resumes(t, s)) \/ (v # {} /\ Sets(t, "evict", s))
<1>1. CASE v = {}
  <2>1. task' = [task EXCEPT ![t] = Resumed(t, s)]
    BY <1>1 DEF NextVictim, Types
  <2> QED
    BY <1>1, <2>1, ResumedResumes
<1>2. CASE v # {}
  <2> DEFINE r == [task[t] EXCEPT !.pc = "evict", !.victims = v, !.letters = s]
  <2>1. task' = [task EXCEPT ![t] = r]
    BY <1>2 DEF NextVictim, Types
  <2>2. r \in Records /\ r.pc = "evict" /\ r.letters = s
    BY RecordsAre DEF Records, Steps
  <2> HIDE DEF r
  <2> QED
    BY <1>2, <2>1, <2>2, SetsRecord
<1> QED
  BY <1>1, <1>2

(* The eviction of entry i: the index and the task before its file goes. *)
Evicts(t, i) ==
  /\ i \in Indexed
  /\ index' = [index EXCEPT ![i] = Absent]
  /\ excused' = excused \cup {i}
  /\ Sets(t, "unlink_victim", <<i>> \o task[t].letters)
  /\ permits' = permits

LEMMA EvictSets ==
  ASSUME Types, NEW t \in Tasks, Evict(t)
  PROVE  \/ \E i \in Letters : Evicts(t, i)
         \/ /\ UNCHANGED <<index, excused>>
            /\ Resumes(t, task[t].letters) \/ Sets(t, "evict", task[t].letters)
            /\ permits' \in {permits, permits \ {t}}
<1>1. PICK i \in Doomed(t) :
        LET rest == task[t].victims \ {i}
        IN IF i \in Indexed
             THEN /\ index' = [index EXCEPT ![i] = Absent]
                  /\ excused' = excused \cup {i}
                  /\ task' = [task EXCEPT ![t] = [@ EXCEPT !.pc = "unlink_victim",
                                                !.victims = rest,
                                                !.letters = <<i>> \o task[t].letters]]
                  /\ UNCHANGED permits
             ELSE NextVictim(t, rest, task[t].letters) /\ UNCHANGED <<index, excused>>
  BY DEF Evict
<1> DEFINE v == task[t].victims \ {i}
           s == <<i>> \o task[t].letters
           r == [task[t] EXCEPT !.pc = "unlink_victim", !.victims = v, !.letters = s]
<1>2. v \in SUBSET Letters /\ task[t].letters \in Seq(Letters)
  BY RecordsAre
<1>3. CASE i \in Indexed
  <2>1. i \in Letters
    BY <1>3 DEF Indexed
  <2>2. s \in Seq(Letters)
    BY <1>2, <2>1, InFront
  <2>3. task' = [task EXCEPT ![t] = r]
    BY <1>1, <1>3 DEF Types
  <2> HIDE DEF v, s
  <2>4. r \in Records /\ r.pc = "unlink_victim" /\ r.letters = s
    BY <1>2, <2>2, RecordsAre DEF Records, Steps
  <2> HIDE DEF r
  <2>5. Sets(t, "unlink_victim", s)
    BY <2>3, <2>4, SetsRecord
  <2> QED
    BY <1>1, <1>3, <2>1, <2>5 DEF Evicts, s
<1>4. CASE i \notin Indexed
  <2>1. NextVictim(t, v, task[t].letters) /\ UNCHANGED <<index, excused>>
    BY <1>1, <1>4
  <2> HIDE DEF v
  <2>2. Resumes(t, task[t].letters) \/ Sets(t, "evict", task[t].letters)
    BY <1>2, <2>1, NextVictimSets
  <2>3. permits' \in {permits, permits \ {t}}
    BY <2>1 DEF NextVictim
  <2> QED
    BY <2>1, <2>2, <2>3
<1> QED
  BY <1>3, <1>4

LEMMA UnlinkVictimSets ==
  ASSUME Types, Shapes, NEW t \in Tasks, UnlinkVictim(t)
  PROVE  /\ Tail(task[t].letters) \in Seq(Letters)
         /\ Resumes(t, Tail(task[t].letters)) \/ Sets(t, "evict", Tail(task[t].letters))
<1>1. task[t].letters # <<>>
  BY DEF Shapes, Shape, UnlinkVictim
<1>2. Tail(task[t].letters) \in Seq(Letters) /\ task[t].victims \in SUBSET Letters
  BY <1>1, RecordsAre
<1>3. NextVictim(t, task[t].victims, Tail(task[t].letters))
  BY DEF UnlinkVictim
<1> QED
  BY <1>2, <1>3, NextVictimSets

LEMMA RemoveEntrySets ==
  ASSUME Types, NEW t \in Tasks, RemoveEntry(t)
  PROVE  \/ /\ index' = [index EXCEPT ![Now(t)] = Absent]
            /\ Sets(t, "unlink", task[t].letters)
         \/ index' = index /\ Resumes(t, task[t].letters)
BY GoSets, ResumeResumes DEF RemoveEntry, Steps

LEMMA MarkSets ==
  ASSUME Types, NEW t \in Tasks, Mark(t)
  PROVE  \/ /\ Now(t) \in Indexed
            /\ \E n \in 1 .. MaxCount :
                 /\ index' = [index EXCEPT ![Now(t)] = n]
                 /\ task'[t].count = n
            /\ Sets(t, "truncate", task[t].letters)
         \/ index' = index /\ Resumes(t, task[t].letters)
<1>1. CASE Now(t) \in Indexed
  <2> DEFINE i == Now(t)
             n == IF index[i] < MaxCount THEN index[i] + 1 ELSE MaxCount
             r == [task[t] EXCEPT !.pc = "truncate", !.count = n]
  <2>0. MaxRetries \in Nat /\ Attempts \in Nat \ {0} /\ MaxCount = MaxRetries + 1
    BY DlqAssumption DEF MaxCount
  <2>1. index[i] \in Absent .. MaxCount /\ index[i] # Absent
    BY <1>1 DEF Types, Indexed
  <2>2. n \in 1 .. MaxCount /\ n \in 0 .. Attempts + MaxRetries
    BY <2>0, <2>1 DEF Absent
  <2>3. index' = [index EXCEPT ![i] = n] /\ task' = [task EXCEPT ![t] = r]
    BY <1>1 DEF Mark, Types
  <2> HIDE DEF i, n
  <2>4. r \in Records /\ r.pc = "truncate" /\ r.letters = task[t].letters /\ r.count = n
    BY <2>2, RecordsAre DEF Records, Steps
  <2> HIDE DEF r
  <2>5. Sets(t, "truncate", task[t].letters) /\ task'[t] = r
    BY <2>3, <2>4, SetsRecord
  <2> QED
    BY <1>1, <2>2, <2>3, <2>4, <2>5 DEF i
<1>2. CASE Now(t) \notin Indexed
  BY <1>2, ResumeResumes DEF Mark
<1> QED
  BY <1>1, <1>2

LEMMA TruncateSets ==
  ASSUME Types, NEW t \in Tasks, Truncate(t)
  PROVE  Sets(t, "rewrite", task[t].letters) /\ task'[t].count = task[t].count
BY GoSets DEF Truncate, Steps

LEMMA DrainSets ==
  ASSUME Types, Drain
  PROVE  \/ /\ channel # <<>> /\ channel' = Tail(channel)
            /\ Sets(Flusher, "drain", Append(task[Flusher].letters, Head(channel)))
         \/ /\ channel' = channel
            /\ channel = <<>> \/ ~(Len(task[Flusher].letters) < DrainLimit)
            /\ Sets(Flusher, IF task[Flusher].letters = <<>> THEN "check" ELSE "write_batch",
                    task[Flusher].letters)
<1> DEFINE batch == task[Flusher].letters
<1>0. Flusher \in Tasks /\ batch \in Seq(Letters)
  BY TasksAre, RecordsAre
<1>1. CASE channel # <<>> /\ Len(batch) < DrainLimit
  <2> DEFINE s == Append(batch, Head(channel))
             r == [task[Flusher] EXCEPT !.letters = s]
  <2>1. task' = [task EXCEPT ![Flusher] = r] /\ channel' = Tail(channel)
        /\ task[Flusher].pc = "drain"
    BY <1>1 DEF Drain, Types
  <2>2. channel \in Seq(Letters)
    BY DEF Types
  <2>3. s \in Seq(Letters)
    BY <1>0, <1>1, <2>2
  <2> HIDE DEF s
  <2>4. r \in Records /\ r.pc = "drain" /\ r.letters = s
    BY <1>0, <2>1, <2>3, RecordsAre DEF Records, Steps
  <2> HIDE DEF r
  <2>5. Sets(Flusher, "drain", s)
    BY <1>0, <2>1, <2>4, SetsRecord
  <2> QED
    BY <1>1, <2>1, <2>5 DEF s
<1>2. CASE ~(channel # <<>> /\ Len(batch) < DrainLimit)
  BY <1>0, <1>2, GoSets DEF Drain, Steps
<1> QED
  BY <1>1, <1>2

LEMMA WriteBatchSets ==
  ASSUME Types, WriteBatch
  PROVE  \/ /\ recorded' = recorded \cup ToSet(task[Flusher].letters)
            /\ Sets(Flusher, "check", <<>>)
         \/ recorded' = recorded /\ Sets(Flusher, "create", task[Flusher].letters)
<1>0. Flusher \in Tasks /\ {"check", "create"} \subseteq Steps
  BY TasksAre DEF Steps
<1>1. CASE dbUp
  <2>1. task' = [task EXCEPT ![Flusher] = At("check")]
    BY <1>1 DEF WriteBatch
  <2>2. Sets(Flusher, "check", <<>>)
    BY <1>0, <2>1, SetsAt
  <2> QED
    BY <1>1, <2>2 DEF WriteBatch
<1>2. CASE ~dbUp
  BY <1>0, <1>2, GoSets DEF WriteBatch
<1> QED
  BY <1>1, <1>2

LEMMA CheckShutdownSets ==
  ASSUME Types, CheckShutdown
  PROVE  \/ /\ shutdown' = shutdown /\ shutdown = "running"
            /\ Sets(Flusher, "drain", task[Flusher].letters)
         \/ /\ shutdown' = "final"
            /\ Sets(Flusher, "drain", task[Flusher].letters)
         \/ /\ shutdown' = shutdown /\ shutdown = "final"
            /\ Sets(Flusher, "exited", task[Flusher].letters)
<1>0. Flusher \in Tasks /\ {"drain", "exited"} \subseteq Steps
  BY TasksAre DEF Steps
<1> QED
  BY <1>0, GoSets DEF CheckShutdown

LEMMA EnqueueSets ==
  ASSUME Types, NEW h \in Letters, Enqueue(h)
  PROVE  \/ queue' = Append(queue, h) /\ Sets(h, "queued", task[h].letters)
         \/ queue' = queue /\ Sets(h, "create", <<h>>)
<1>0. h \in Tasks /\ {"queued", "create"} \subseteq Steps /\ <<h>> \in Seq(Letters)
  BY TasksAre DEF Steps
<1>1. CASE Len(queue) < QueueSize /\ queue' = Append(queue, h) /\ Go(h, "queued")
  BY <1>0, <1>1, GoSets
<1>2. CASE /\ task' = [task EXCEPT ![h] = [At("create") EXCEPT !.letters = <<h>>]]
           /\ UNCHANGED queue
  BY <1>0, <1>2, SetsLetters
<1> QED
  BY <1>1, <1>2 DEF Enqueue

LEMMA AcquireSets ==
  ASSUME Types, Acquire
  PROVE  drainer \in Letters /\ Sets(drainer, "deliver", <<drainer>>)
<1>1. drainer \in Letters
  BY DEF Types, Acquire
<1>2. drainer \in Tasks /\ "deliver" \in Steps /\ <<drainer>> \in Seq(Letters)
  BY <1>1, TasksAre DEF Steps
<1>3. task' = [task EXCEPT ![drainer] = [At("deliver") EXCEPT !.letters = <<drainer>>]]
  BY DEF Acquire
<1> QED
  BY <1>1, <1>2, <1>3, SetsLetters

LEMMA DeliverSets ==
  ASSUME Types, NEW h \in Letters, Deliver(h)
  PROVE  \/ delivered' = delivered \cup {h} /\ Resumes(h, task[h].letters)
         \/ /\ delivered' = delivered
            /\ \E pc \in {"deliver", "create"} : Sets(h, pc, task[h].letters)
<1>0. h \in Tasks
  BY TasksAre
<1>1. CASE delivered' = delivered \cup {h} /\ Resume(h)
  BY <1>0, <1>1, ResumeResumes
<1>2. CASE /\ task' = [task EXCEPT ![h].count = @ + 1] /\ task[h].count + 1 < Attempts
           /\ UNCHANGED delivered
  <2> DEFINE r == [task[h] EXCEPT !.count = @ + 1]
  <2>0. task[h].count \in 0 .. Attempts + MaxRetries
    BY <1>0, RecordsAre
  <2>a. Attempts \in Nat /\ MaxRetries \in Nat /\ task[h].count + 1 < Attempts
    BY <1>2, DlqAssumption
  <2>1. task[h].count + 1 \in 0 .. Attempts + MaxRetries
    BY <2>0, <2>a
  <2>2. r \in Records /\ r.pc = "deliver" /\ r.letters = task[h].letters
    BY <1>0, <2>1, RecordsAre DEF Records, Deliver
  <2>3. task' = [task EXCEPT ![h] = r]
    BY <1>0, <1>2 DEF Types
  <2> HIDE DEF r
  <2>4. Sets(h, "deliver", task[h].letters)
    BY <1>0, <2>2, <2>3, SetsRecord
  <2> QED
    BY <1>2, <2>4
<1>3. CASE /\ task' = [task EXCEPT ![h] = [@ EXCEPT !.pc = "create", !.count = 0]]
           /\ UNCHANGED delivered
  <2> DEFINE r == [task[h] EXCEPT !.pc = "create", !.count = 0]
  <2>1. 0 \in 0 .. Attempts + MaxRetries
    BY DlqAssumption
  <2>2. r \in Records /\ r.pc = "create" /\ r.letters = task[h].letters
    BY <1>0, <2>1, RecordsAre DEF Records, Steps
  <2>3. task' = [task EXCEPT ![h] = r]
    BY <1>0, <1>3 DEF Types
  <2> HIDE DEF r
  <2> QED
    BY <1>0, <1>3, <2>2, <2>3, SetsRecord
<1> QED
  BY <1>1, <1>2, <1>3 DEF Deliver

LEMMA ListSets ==
  ASSUME Types, NEW ready, List(ready)
  PROVE  \E s \in Seq(Letters) :
           /\ ToSet(s) \subseteq Indexed
           /\ Sets(Worker, IF s = <<>> THEN "prune" ELSE "entry", s)
<1> DEFINE found == Listed \cap ready
<1>1. found \subseteq Indexed /\ found \subseteq Letters
  BY DEF Listed, Retriable, Indexed
<1>2. IsFiniteSet(found)
  BY <1>1, FS_Subset, DlqAssumption
<1>3. Cardinality(found) \in Nat
  BY <1>2, FS_CardinalityType
<1>4. PICK due \in [1 .. Cardinality(found) -> found] :
        task' = [task EXCEPT ![Worker] =
                   [At(IF due = <<>> THEN "prune" ELSE "entry") EXCEPT !.letters = due]]
  BY DEF List
<1> HIDE DEF found
<1>5. due \in Seq(found)
  BY <1>3, <1>4
<1>6. due \in Seq(Letters) /\ ToSet(due) \subseteq found
  BY <1>1, <1>5, SetTyped
<1>7. Worker \in Tasks /\ (IF due = <<>> THEN "prune" ELSE "entry") \in Steps
  BY TasksAre DEF Steps
<1>8. Sets(Worker, IF due = <<>> THEN "prune" ELSE "entry", due)
  BY <1>4, <1>6, <1>7, SetsLetters
<1> QED
  BY <1>1, <1>6, <1>8

LEMMA ProcessSets ==
  ASSUME Types, NEW t \in Tasks, Process(t)
  PROVE  \/ /\ Now(t) \in Usage /\ recorded' = recorded \cup {Now(t)}
            /\ Sets(t, "remove", task[t].letters)
         \/ recorded' = recorded /\ Sets(t, "mark", task[t].letters)
         \/ recorded' = recorded /\ Resumes(t, task[t].letters)
<1>0. {"remove", "mark"} \subseteq Steps
  BY DEF Steps
<1>1. CASE Now(t) \in Usage /\ recorded' = recorded \cup {Now(t)} /\ Go(t, "remove")
  BY <1>0, <1>1, GoSets
<1>2. CASE Go(t, "mark") /\ UNCHANGED recorded
  BY <1>0, <1>2, GoSets
<1>3. CASE Resume(t) /\ UNCHANGED recorded
  BY <1>3, ResumeResumes
<1> QED
  BY <1>1, <1>2, <1>3 DEF Process

LEMMA PruneOldSets ==
  ASSUME Types, PruneOld
  PROVE  \E pc \in {"list", "evict"} : Sets(Worker, pc, <<>>)
<1>1. PICK k \in 0 .. Cardinality(Indexed) :
        task' = [task EXCEPT ![Worker] =
                   IF k = 0 THEN At("list") ELSE [At("evict") EXCEPT !.victims = OldestOf(k)]]
  BY DEF PruneOld
<1>2. Worker \in Tasks /\ {"list", "evict"} \subseteq Steps /\ OldestOf(k) \in SUBSET Letters
  BY TasksAre, OldestTyped DEF Steps
<1>3. CASE k = 0
  BY <1>1, <1>2, <1>3, SetsAt
<1>4. CASE k # 0
  BY <1>1, <1>2, <1>4, SetsVictims
<1> QED
  BY <1>3, <1>4

LEMMA AdminRetrySets ==
  ASSUME Types, NEW i \in Letters, AdminRetry(i)
  PROVE  Sets(Admin, "retry", <<i>>)
<1>1. Admin \in Tasks /\ "retry" \in Steps /\ <<i>> \in Seq(Letters)
  BY TasksAre DEF Steps
<1> QED
  BY <1>1, SetsLetters DEF AdminRetry

LEMMA AdminDeleteSets ==
  ASSUME Types, NEW i \in Letters, AdminDelete(i)
  PROVE  Sets(Admin, "remove", <<i>>)
<1>1. Admin \in Tasks /\ "remove" \in Steps /\ <<i>> \in Seq(Letters)
  BY TasksAre DEF Steps
<1> QED
  BY <1>1, SetsLetters DEF AdminDelete

LEMMA AdminPruneSets ==
  ASSUME Types, AdminPrune
  PROVE  Sets(Admin, "evict", <<>>)
<1>1. PICK k \in 1 .. Cardinality(Indexed) :
        task' = [task EXCEPT ![Admin] = [At("evict") EXCEPT !.victims = OldestOf(k)]]
  BY DEF AdminPrune
<1>2. Admin \in Tasks /\ "evict" \in Steps /\ OldestOf(k) \in SUBSET Letters
  BY TasksAre, OldestTyped DEF Steps
<1> QED
  BY <1>1, <1>2, SetsVictims

LEMMA StartsTyped ==
  /\ Starts \in [Tasks -> Records]
  /\ Starts[Flusher].pc = "drain" /\ Starts[Flusher].letters = <<>>
  /\ Starts[Worker].pc = "list" /\ Starts[Worker].letters = <<>>
  /\ \A t \in Tasks \ {Flusher, Worker} : Starts[t].pc = "done" /\ Starts[t].letters = <<>>
<1>1. {"drain", "list", "done"} \subseteq Steps
  BY DEF Steps
<1>2. \A t \in Tasks : Starts[t] = CASE t = Flusher -> At("drain")
                                      [] t = Worker -> At("list")
                                      [] OTHER -> At("done")
  BY DEF Starts
<1>3. Starts[Flusher] = At("drain") /\ Starts[Worker] = At("list")
  BY <1>2, TasksAre
<1>4. \A t \in Tasks \ {Flusher, Worker} : Starts[t] = At("done")
  BY <1>2
<1>5. \A t \in Tasks : Starts[t] \in Records
  BY <1>1, <1>3, <1>4, AtTyped
<1>6. Starts \in [Tasks -> Records]
  BY <1>5 DEF Starts
<1> QED
  BY <1>1, <1>3, <1>4, <1>6, AtTyped

(* The steps, one disjunct for every operation. *)
LEMMA NextCases ==
  ASSUME [Next]_vars
  PROVE  \/ \E t \in Tasks :
              \/ Create(t) \/ CreateFails(t) \/ Insert(t) \/ Enforce(t) \/ Evict(t)
              \/ UnlinkVictim(t) \/ RemoveEntry(t) \/ Unlink(t) \/ Mark(t) \/ Truncate(t)
              \/ Rewrite(t) \/ TruncateFails(t) \/ RewriteFails(t)
         \/ \E i \in Letters :
              Push(i) \/ Enqueue(i) \/ Deliver(i) \/ AdminRetry(i) \/ AdminDelete(i)
         \/ Drain \/ WriteBatch \/ CheckShutdown \/ Receive \/ Acquire
         \/ \E ready \in SUBSET Letters : List(ready)
         \/ ProcessEntry \/ PruneOld \/ AdminProcess \/ AdminPrune \/ AdminPurge
         \/ DbFails \/ DbReturns \/ Shutdown \/ Restart
         \/ UNCHANGED vars
BY TasksAre
   DEF Next, FlusherStep, WorkerStep, AdminStep, AdminRequest, Dispatch, EnvStep, EventStep,
       DlqStep

-----------------------------------------------------------------------------
(* Shapes.                                                                   *)

LEMMA ShapeOfOthers ==
  ASSUME Shapes, NEW t \in Tasks, NEW pc, NEW s, Sets(t, pc, s), Shape(t)'
  PROVE  Shapes'
<1> SUFFICES ASSUME NEW u \in Tasks PROVE Shape(u)'
  BY DEF Shapes
<1>1. CASE u = t
  BY <1>1
<1>2. CASE u # t
  <2>1. task'[u] = task[u] /\ Shape(u)
    BY <1>2 DEF Sets, Shapes
  <2> QED
    BY <2>1 DEF Shape, Own, Pruning
<1> QED
  BY <1>1, <1>2

LEMMA ResumesShape ==
  ASSUME Shapes, NEW t \in Tasks, NEW s \in Seq(Letters), Resumes(t, s)
  PROVE  Shapes'
<1>1. CASE t = Flusher
  <2>1. Shape(t)'
    BY <1>1, TasksAre DEF Resumes, Sets, Shape, Own, Pruning
  <2>2. \E pc, r : Sets(t, pc, r)
    BY <1>1, TasksAre DEF Resumes
  <2> QED
    BY <2>1, <2>2, ShapeOfOthers
<1>2. CASE t # Flusher
  <2>1. PICK pc \in {"list", "entry", "prune", "done"} :
          \E r : Sets(t, pc, r) /\ (pc = "entry" => r # <<>>)
    BY <1>2 DEF Resumes
  <2>2. t \in Letters => pc = "done"
    BY <1>2, <2>1, TasksAre DEF Resumes, Sets
  <2>3. Shape(t)'
    BY <1>2, <2>1, <2>2 DEF Sets, Shape, Own, Pruning
  <2> QED
    BY <2>1, <2>3, ShapeOfOthers
<1> QED
  BY <1>1, <1>2

(* Every step keeps the shapes. *)
LEMMA ShapesStep ==
  ASSUME Types, Shapes, [Next]_vars
  PROVE  Shapes'
<1>1. ASSUME NEW t \in Tasks, Create(t) PROVE Shapes'
  <2>1. Sets(t, "insert", task[t].letters)
    BY <1>1, CreateSets
  <2>2. Shape(t) /\ task[t].pc = "create"
    BY <1>1 DEF Shapes, Create
  <2>3. Shape(t)'
    BY <2>1, <2>2, TasksAre DEF Sets, Shape, Own, Pruning
  <2> QED
    BY <2>1, <2>3, ShapeOfOthers
<1>2. ASSUME NEW t \in Tasks, CreateFails(t) \/ Unlink(t) \/ Rewrite(t) \/
            TruncateFails(t) \/ RewriteFails(t)
      PROVE  Shapes'
  <2>1. task[t].letters \in Seq(Letters) /\ Resumes(t, task[t].letters)
    BY <1>2, RecordsAre, ResumeResumes DEF CreateFails, Unlink, Rewrite, TruncateFails,
       RewriteFails
  <2> QED
    BY <2>1, ResumesShape
<1>3. ASSUME NEW t \in Tasks, Insert(t) PROVE Shapes'
  <2>1. Sets(t, "enforce", task[t].letters)
    BY <1>3, InsertSets
  <2>2. Shape(t) /\ task[t].pc = "insert"
    BY <1>3 DEF Shapes, Insert
  <2>3. Shape(t)'
    BY <2>1, <2>2, TasksAre DEF Sets, Shape, Own, Pruning
  <2> QED
    BY <2>1, <2>3, ShapeOfOthers
<1>4. ASSUME NEW t \in Tasks, Enforce(t) PROVE Shapes'
  <2>0. Shape(t) /\ task[t].pc = "enforce" /\ task[t].letters \in Seq(Letters)
    BY <1>4, RecordsAre DEF Shapes, Enforce
  <2>1. CASE Resumes(t, task[t].letters)
    BY <2>0, <2>1, ResumesShape
  <2>2. CASE Sets(t, "evict", task[t].letters)
    <3>1. Shape(t)'
      BY <2>0, <2>2, TasksAre DEF Sets, Shape, Own, Pruning
    <3> QED
      BY <2>2, <3>1, ShapeOfOthers
  <2> QED
    BY <1>4, <2>1, <2>2, EnforceSets
<1>5. ASSUME NEW t \in Tasks, Evict(t) PROVE Shapes'
  <2>0. Shape(t) /\ task[t].pc = "evict" /\ task[t].letters \in Seq(Letters)
    BY <1>5, RecordsAre DEF Shapes, Evict
  <2>1. CASE Resumes(t, task[t].letters)
    BY <2>0, <2>1, ResumesShape
  <2>2. CASE Sets(t, "evict", task[t].letters)
    <3>1. Shape(t)'
      BY <2>0, <2>2, TasksAre DEF Sets, Shape, Own, Pruning
    <3> QED
      BY <2>2, <3>1, ShapeOfOthers
  <2>3. ASSUME NEW i \in Letters, Evicts(t, i) PROVE Shapes'
    <3>1. Sets(t, "unlink_victim", <<i>> \o task[t].letters)
      BY <2>3 DEF Evicts
    <3>2. <<i>> \o task[t].letters # <<>> /\ Tail(<<i>> \o task[t].letters) = task[t].letters
      BY <2>0, <2>3, InFront
    <3>3. Own(t)' = Own(t) /\ task'[t].pc = "unlink_victim" /\ task'[t].letters # <<>>
      BY <2>0, <3>1, <3>2 DEF Sets, Own
    <3>4. Shape(t)'
      BY <2>0, <3>3, TasksAre DEF Shape, Pruning
    <3> QED
      BY <3>1, <3>4, ShapeOfOthers
  <2> QED
    BY <1>5, <2>1, <2>2, <2>3, EvictSets
<1>6. ASSUME NEW t \in Tasks, UnlinkVictim(t) PROVE Shapes'
  <2>0. /\ Shape(t) /\ task[t].pc = "unlink_victim"
        /\ Tail(task[t].letters) \in Seq(Letters)
    BY <1>6, UnlinkVictimSets DEF Shapes, UnlinkVictim
  <2>1. CASE Resumes(t, Tail(task[t].letters))
    BY <2>0, <2>1, ResumesShape
  <2>2. CASE Sets(t, "evict", Tail(task[t].letters))
    <3>1. Own(t)' = Own(t) /\ task'[t].pc = "evict"
      BY <2>0, <2>2 DEF Sets, Own
    <3>2. Shape(t)'
      BY <2>0, <3>1, TasksAre DEF Shape, Pruning
    <3> QED
      BY <2>2, <3>2, ShapeOfOthers
  <2> QED
    BY <1>6, <2>1, <2>2, UnlinkVictimSets
<1>7. ASSUME NEW t \in Tasks, RemoveEntry(t) PROVE Shapes'
  <2>0. Shape(t) /\ task[t].pc = "remove" /\ task[t].letters \in Seq(Letters)
    BY <1>7, RecordsAre DEF Shapes, RemoveEntry
  <2>1. CASE Resumes(t, task[t].letters)
    BY <2>0, <2>1, ResumesShape
  <2>2. CASE Sets(t, "unlink", task[t].letters)
    <3>1. Shape(t)'
      BY <2>0, <2>2, TasksAre DEF Sets, Shape, Own, Pruning
    <3> QED
      BY <2>2, <3>1, ShapeOfOthers
  <2> QED
    BY <1>7, <2>1, <2>2, RemoveEntrySets
<1>8. ASSUME NEW t \in Tasks, Mark(t) PROVE Shapes'
  <2>0. Shape(t) /\ task[t].pc = "mark" /\ task[t].letters \in Seq(Letters)
    BY <1>8, RecordsAre DEF Shapes, Mark
  <2>1. CASE Resumes(t, task[t].letters)
    BY <2>0, <2>1, ResumesShape
  <2>2. CASE Sets(t, "truncate", task[t].letters) /\ task'[t].count <= MaxCount
    <3>1. Shape(t)'
      BY <2>0, <2>2, TasksAre DEF Sets, Shape, Own, Pruning
    <3> QED
      BY <2>2, <3>1, ShapeOfOthers
  <2> QED
    BY <1>8, <2>1, <2>2, MarkSets
<1>9. ASSUME NEW t \in Tasks, Truncate(t) PROVE Shapes'
  <2>1. Sets(t, "rewrite", task[t].letters) /\ task'[t].count = task[t].count
    BY <1>9, TruncateSets
  <2>2. Shape(t) /\ task[t].pc = "truncate"
    BY <1>9 DEF Shapes, Truncate
  <2>3. Shape(t)'
    BY <2>1, <2>2, TasksAre DEF Sets, Shape, Own, Pruning
  <2> QED
    BY <2>1, <2>3, ShapeOfOthers
<1>10. ASSUME NEW i \in Letters, Push(i) PROVE Shapes'
  <2>1. task' = task
    BY <1>10 DEF Push
  <2> QED
    BY <2>1 DEF Shapes, Shape, Own, Pruning
<1>11. ASSUME NEW i \in Letters, Enqueue(i) PROVE Shapes'
  <2>1. PICK pc \in {"queued", "create"} :
          \E s : Sets(i, pc, s) /\ (pc = "create" => s = <<i>>)
    BY <1>11, EnqueueSets
  <2>2. Shape(i)'
    BY <2>1, TasksAre DEF Sets, Shape, Own, Pruning
  <2> QED
    BY <2>1, <2>2, TasksAre, ShapeOfOthers
<1>12. ASSUME NEW i \in Letters, Deliver(i) PROVE Shapes'
  <2>0. i \in Tasks /\ Shape(i) /\ task[i].pc = "deliver" /\ task[i].letters \in Seq(Letters)
    BY <1>12, RecordsAre, TasksAre DEF Shapes, Deliver
  <2>1. CASE Resumes(i, task[i].letters)
    BY <2>0, <2>1, ResumesShape
  <2>2. ASSUME NEW pc \in {"deliver", "create"}, Sets(i, pc, task[i].letters) PROVE Shapes'
    <3>1. Shape(i)'
      BY <2>0, <2>2, TasksAre DEF Sets, Shape, Own, Pruning
    <3> QED
      BY <2>0, <2>2, <3>1, ShapeOfOthers
  <2> QED
    BY <1>12, <2>1, <2>2, DeliverSets
<1>13. ASSUME NEW i \in Letters, AdminRetry(i) PROVE Shapes'
  <2>1. \E s : Sets(Admin, "retry", s) /\ s # <<>>
    <3>1. Sets(Admin, "retry", <<i>>)
      BY <1>13, AdminRetrySets
    <3>2. <<i>> # <<>>
      OBVIOUS
    <3> QED
      BY <3>1, <3>2
  <2>2. Shape(Admin)'
    BY <2>1, TasksAre DEF Sets, Shape, Own, Pruning
  <2> QED
    BY <2>1, <2>2, TasksAre, ShapeOfOthers
<1>14. ASSUME NEW i \in Letters, AdminDelete(i) PROVE Shapes'
  <2>1. \E s : Sets(Admin, "remove", s) /\ s # <<>>
    <3>1. Sets(Admin, "remove", <<i>>)
      BY <1>14, AdminDeleteSets
    <3>2. <<i>> # <<>>
      OBVIOUS
    <3> QED
      BY <3>1, <3>2
  <2>2. Shape(Admin)'
    BY <2>1, TasksAre DEF Sets, Shape, Own, Pruning
  <2> QED
    BY <2>1, <2>2, TasksAre, ShapeOfOthers
<1>15. CASE Drain
  <2>1. \/ \E s : Sets(Flusher, "drain", s)
        \/ task[Flusher].letters = <<>> /\ Sets(Flusher, "check", <<>>)
        \/ task[Flusher].letters # <<>> /\ Sets(Flusher, "write_batch", task[Flusher].letters)
    BY <1>15, DrainSets
  <2>2. Shape(Flusher)'
    BY <2>1, TasksAre DEF Sets, Shape, Own, Pruning
  <2> QED
    BY <2>1, <2>2, TasksAre, ShapeOfOthers
<1>16. CASE WriteBatch
  <2>0. Own(Flusher) = task[Flusher].letters /\ task[Flusher].letters # <<>>
    BY <1>16, TasksAre DEF Shapes, Shape, WriteBatch, Own
  <2>1. \/ Sets(Flusher, "check", <<>>)
        \/ Sets(Flusher, "create", task[Flusher].letters)
    BY <1>16, WriteBatchSets
  <2>2. Shape(Flusher)'
    BY <2>0, <2>1, TasksAre DEF Sets, Shape, Own, Pruning
  <2> QED
    BY <2>1, <2>2, TasksAre, ShapeOfOthers
<1>17. CASE CheckShutdown
  <2>0. task[Flusher].letters = <<>>
    BY <1>17, TasksAre DEF Shapes, Shape, CheckShutdown
  <2>1. \E pc \in {"drain", "exited"} : Sets(Flusher, pc, <<>>)
    BY <1>17, <2>0, CheckShutdownSets
  <2>2. Shape(Flusher)'
    BY <2>1, TasksAre DEF Sets, Shape, Own, Pruning
  <2> QED
    BY <2>1, <2>2, TasksAre, ShapeOfOthers
<1>18. CASE Receive \/ AdminPurge \/ DbFails \/ DbReturns \/ Shutdown \/ UNCHANGED vars
  <2>1. task' = task
    BY <1>18 DEF Receive, AdminPurge, DbFails, DbReturns, Shutdown, vars
  <2> QED
    BY <2>1 DEF Shapes, Shape, Own, Pruning
<1>19. CASE Acquire
  <2>1. PICK h \in Letters : Sets(h, "deliver", <<h>>)
    BY <1>19, AcquireSets
  <2>2. Shape(h)'
    BY <2>1, TasksAre DEF Sets, Shape, Own, Pruning
  <2> QED
    BY <2>1, <2>2, TasksAre, ShapeOfOthers
<1>20. ASSUME NEW ready \in SUBSET Letters, List(ready) PROVE Shapes'
  <2>1. \E pc \in {"prune", "entry"} :
          \E s : Sets(Worker, pc, s) /\ (pc = "entry" => s # <<>>)
    BY <1>20, ListSets
  <2>2. Shape(Worker)'
    BY <2>1, TasksAre DEF Sets, Shape, Own, Pruning
  <2> QED
    BY <2>1, <2>2, TasksAre, ShapeOfOthers
<1>21. CASE ProcessEntry
  <2>0. /\ Worker \in Tasks /\ task[Worker].letters \in Seq(Letters) /\ Process(Worker)
        /\ task[Worker].letters # <<>>
    BY <1>21, TasksAre, RecordsAre DEF ProcessEntry, Shapes, Shape, Pruning
  <2>1. CASE Resumes(Worker, task[Worker].letters)
    BY <2>0, <2>1, ResumesShape
  <2>2. CASE \E pc \in {"remove", "mark"} : Sets(Worker, pc, task[Worker].letters)
    <3>1. Shape(Worker)'
      BY <2>0, <2>2, TasksAre DEF Sets, Shape, Own, Pruning
    <3> QED
      BY <2>0, <2>2, <3>1, ShapeOfOthers
  <2> QED
    BY <2>0, <2>1, <2>2, ProcessSets
<1>22. CASE PruneOld
  <2>1. \E pc \in {"list", "evict"} : Sets(Worker, pc, <<>>)
    BY <1>22, PruneOldSets
  <2>2. Shape(Worker)'
    BY <2>1, TasksAre DEF Sets, Shape, Own, Pruning
  <2> QED
    BY <2>1, <2>2, TasksAre, ShapeOfOthers
<1>23. CASE AdminProcess
  <2>0. /\ Admin \in Tasks /\ task[Admin].letters \in Seq(Letters) /\ Process(Admin)
        /\ task[Admin].letters # <<>>
    BY <1>23, TasksAre, RecordsAre DEF AdminProcess, Shapes, Shape, Pruning
  <2>1. CASE Resumes(Admin, task[Admin].letters)
    BY <2>0, <2>1, ResumesShape
  <2>2. CASE \E pc \in {"remove", "mark"} : Sets(Admin, pc, task[Admin].letters)
    <3>1. Shape(Admin)'
      BY <2>0, <2>2, TasksAre DEF Sets, Shape, Own, Pruning
    <3> QED
      BY <2>0, <2>2, <3>1, ShapeOfOthers
  <2> QED
    BY <2>0, <2>1, <2>2, ProcessSets
<1>24. CASE AdminPrune
  <2>1. \E s : Sets(Admin, "evict", s)
    BY <1>24, AdminPruneSets
  <2>2. Shape(Admin)'
    BY <2>1, TasksAre DEF Sets, Shape, Own, Pruning
  <2> QED
    BY <2>1, <2>2, TasksAre, ShapeOfOthers
<1>25. CASE Restart
  <2>1. task' = Starts
    BY <1>25 DEF Restart
  <2> QED
    BY <2>1, StartsTyped, TasksAre DEF Shapes, Shape, Own, Pruning, Tasks
<1> QED
  BY NextCases, <1>1, <1>2, <1>3, <1>4, <1>5, <1>6, <1>7, <1>8, <1>9, <1>10, <1>11, <1>12,
     <1>13, <1>14, <1>15, <1>16, <1>17, <1>18, <1>19, <1>20, <1>21, <1>22, <1>23, <1>24,
     <1>25

-----------------------------------------------------------------------------
(* The types are kept.                                                       *)

LEMMA TasksTyped ==
  ASSUME NEW t, NEW s, Resumes(t, s)
  PROVE  task' \in [Tasks -> Records]
BY DEF Resumes, Sets

(* The permits that are left. *)
PermitsTyped == permits \subseteq Letters /\ Cardinality(permits) <= MaxDeliveries

LEMMA PermitsDrop ==
  ASSUME Types, NEW t, permits' \in {permits, permits \ {t}}
  PROVE  PermitsTyped'
<1>1. permits \subseteq Letters /\ Cardinality(permits) <= MaxDeliveries
  BY DEF Types
<1>2. IsFiniteSet(permits)
  BY <1>1, FS_Subset, DlqAssumption
<1>3. IsFiniteSet(permits \ {t}) /\ Cardinality(permits \ {t}) <= Cardinality(permits)
  BY <1>2, FS_Subset
<1>4. Cardinality(permits) \in Nat /\ Cardinality(permits \ {t}) \in Nat /\ MaxDeliveries \in Nat
  BY <1>2, <1>3, FS_CardinalityType, DlqAssumption
<1> QED
  BY <1>1, <1>3, <1>4 DEF PermitsTyped

(* The letter that a push is about. *)
LEMMA PushedLetter ==
  ASSUME Types, Shapes, NEW t \in Tasks,
         task[t].pc \in {"create", "insert", "enforce", "evict"}, ~Pruning(t)
  PROVE  /\ task[t].letters \in Seq(Letters) /\ task[t].letters # <<>>
         /\ Now(t) \in Letters /\ (t \in Letters => Now(t) = t)
<1>1. task[t].letters \in Seq(Letters) /\ Own(t) = task[t].letters /\ Shape(t)
  BY RecordsAre DEF Own, Shapes
<1>2. t = Flusher \/ t \in Letters
  BY DEF Tasks, Pruning
<1>3. CASE t = Flusher
  <2>1. task[t].letters # <<>>
    BY <1>1, <1>3 DEF Shape
  <2> QED
    BY <1>1, <1>3, <2>1, TasksAre DEF Now
<1>4. CASE t \in Letters
  <2>1. task[t].letters = <<t>>
    BY <1>1, <1>4 DEF Shape
  <2> QED
    BY <1>1, <1>4, <2>1 DEF Now
<1> QED
  BY <1>2, <1>3, <1>4

LEMMA Pushers ==
  ASSUME Shapes, NEW t \in Tasks, task[t].pc \in {"create", "insert", "enforce"}
  PROVE  ~Pruning(t)
BY DEF Shapes, Shape

(* Every step keeps the types. *)
LEMMA TypesStep ==
  ASSUME Types, Shapes, [Next]_vars
  PROVE  Types'
<1>1. ASSUME NEW t \in Tasks, Create(t) PROVE Types'
  <2>1. Torn \in Torn .. MaxCount /\ Absent \in Torn .. MaxCount
        /\ Absent \in Absent .. MaxCount /\ 0 \in Torn .. MaxCount /\ 0 \in Absent .. MaxCount
    BY DlqAssumption DEF Torn, Absent, MaxCount
  <2>2. Now(t) \in Letters
    BY <1>1, Pushers, PushedLetter DEF Create
  <2>3. Append(born, Now(t)) \in Seq(Letters)
    BY <2>2 DEF Types
  <2>8. task' \in [Tasks -> Records]
    BY <1>1, CreateSets, TasksTyped, TasksAre DEF Sets
  <2> QED
    BY <1>1, <2>8, <2>1, <2>3 DEF Create, Types, hookVars, dlqVars, outVars, envVars
<1>2. ASSUME NEW t \in Tasks, CreateFails(t) PROVE Types'
  <2>1. Torn \in Torn .. MaxCount /\ Absent \in Torn .. MaxCount
        /\ Absent \in Absent .. MaxCount /\ 0 \in Torn .. MaxCount /\ 0 \in Absent .. MaxCount
    BY DlqAssumption DEF Torn, Absent, MaxCount
  <2>2. Now(t) \in Letters
    BY <1>2, Pushers, PushedLetter DEF CreateFails
  <2>3. Append(born, Now(t)) \in Seq(Letters)
    BY <2>2 DEF Types
  <2>5. PICK rest \in {Absent, Torn} : files' = [files EXCEPT ![Now(t)] = rest]
    BY <1>2 DEF CreateFails
  <2>4. files' \in [Letters -> Torn .. MaxCount]
    BY <2>1, <2>5 DEF Types
  <2>7. PermitsTyped'
    <3>1. Resume(t)
      BY <1>2 DEF CreateFails
    <3>2. permits' \in {permits, permits \ {t}}
      BY <3>1 DEF Resume
    <3> QED
      BY <3>2, PermitsDrop
  <2>8. task' \in [Tasks -> Records]
    BY <1>2, ResumeResumes, TasksTyped DEF CreateFails
  <2> QED
    BY <1>2, <2>8, <2>2, <2>3, <2>4, <2>7 DEF CreateFails, Trouble, PermitsTyped, Types,
       hookVars, dlqVars, outVars, envVars
<1>3. ASSUME NEW t \in Tasks, Insert(t) \/ Truncate(t) PROVE Types'
  <2>1. Torn \in Torn .. MaxCount /\ Absent \in Torn .. MaxCount
        /\ Absent \in Absent .. MaxCount /\ 0 \in Torn .. MaxCount /\ 0 \in Absent .. MaxCount
    BY DlqAssumption DEF Torn, Absent, MaxCount
  <2>8. task' \in [Tasks -> Records]
    BY <1>3, InsertSets, TruncateSets, TasksTyped, TasksAre DEF Sets
  <2> QED
    BY <1>3, <2>8, <2>1 DEF Insert, Truncate, Types, hookVars, dlqVars, outVars, envVars
<1>4. ASSUME NEW t \in Tasks, Enforce(t) PROVE Types'
  <2>7. PermitsTyped'
    BY <1>4, PermitsDrop DEF Enforce, Resume
  <2>8. task' \in [Tasks -> Records]
    BY <1>4, EnforceSets, TasksTyped, TasksAre DEF Sets
  <2> QED
    BY <1>4, <2>8, <2>7 DEF Enforce, PermitsTyped, Types, hookVars, dlqVars, outVars,
       envVars
<1>5. ASSUME NEW t \in Tasks, Evict(t) PROVE Types'
  <2>1. Torn \in Torn .. MaxCount /\ Absent \in Torn .. MaxCount
        /\ Absent \in Absent .. MaxCount /\ 0 \in Torn .. MaxCount /\ 0 \in Absent .. MaxCount
    BY DlqAssumption DEF Torn, Absent, MaxCount
  <2>6. permits' \in {permits, permits \ {t}}
    BY <1>5, EvictSets DEF Evicts
  <2>7. PermitsTyped'
    BY <2>6, PermitsDrop
  <2>2. \/ \E i \in Letters : /\ index' = [index EXCEPT ![i] = Absent]
                            /\ excused' = excused \cup {i}
        \/ UNCHANGED <<index, excused>>
    BY <1>5, EvictSets DEF Evicts
  <2>3. index' \in [Letters -> Absent .. MaxCount] /\ excused' \subseteq Letters
    BY <2>1, <2>2 DEF Types
  <2>8. task' \in [Tasks -> Records]
    BY <1>5, EvictSets, TasksTyped, TasksAre DEF Sets, Evicts
  <2> QED
    BY <1>5, <2>8, <2>3, <2>7 DEF Evict, PermitsTyped, Types, hookVars, dlqVars, outVars,
       envVars
<1>6. ASSUME NEW t \in Tasks, UnlinkVictim(t) PROVE Types'
  <2>1. Torn \in Torn .. MaxCount /\ Absent \in Torn .. MaxCount
        /\ Absent \in Absent .. MaxCount /\ 0 \in Torn .. MaxCount /\ 0 \in Absent .. MaxCount
    BY DlqAssumption DEF Torn, Absent, MaxCount
  <2>7. PermitsTyped'
    BY <1>6, PermitsDrop DEF UnlinkVictim, NextVictim
  <2>8. task' \in [Tasks -> Records]
    BY <1>6, UnlinkVictimSets, TasksTyped, TasksAre DEF Sets
  <2> QED
    BY <1>6, <2>8, <2>1, <2>7 DEF UnlinkVictim, PermitsTyped, Types, hookVars, dlqVars,
       outVars, envVars
<1>7. ASSUME NEW t \in Tasks, RemoveEntry(t) PROVE Types'
  <2>1. Torn \in Torn .. MaxCount /\ Absent \in Torn .. MaxCount
        /\ Absent \in Absent .. MaxCount /\ 0 \in Torn .. MaxCount /\ 0 \in Absent .. MaxCount
    BY DlqAssumption DEF Torn, Absent, MaxCount
  <2>7. PermitsTyped'
    BY <1>7, PermitsDrop DEF RemoveEntry, Resume
  <2>8. task' \in [Tasks -> Records]
    BY <1>7, RemoveEntrySets, TasksTyped, TasksAre DEF Sets
  <2> QED
    BY <1>7, <2>8, <2>1, <2>7 DEF RemoveEntry, PermitsTyped, Types, hookVars, dlqVars,
       outVars, envVars
<1>8. ASSUME NEW t \in Tasks, Unlink(t) PROVE Types'
  <2>1. Torn \in Torn .. MaxCount /\ Absent \in Torn .. MaxCount
        /\ Absent \in Absent .. MaxCount /\ 0 \in Torn .. MaxCount /\ 0 \in Absent .. MaxCount
    BY DlqAssumption DEF Torn, Absent, MaxCount
  <2>7. PermitsTyped'
    BY <1>8, PermitsDrop DEF Unlink, Resume
  <2>8. task' \in [Tasks -> Records]
    BY <1>8, ResumeResumes, TasksTyped DEF Unlink
  <2> QED
    BY <1>8, <2>8, <2>1, <2>7 DEF Unlink, PermitsTyped, Types, hookVars, dlqVars, outVars,
       envVars
<1>9. ASSUME NEW t \in Tasks, Mark(t) PROVE Types'
  <2>7. PermitsTyped'
    BY <1>9, PermitsDrop DEF Mark, Resume
  <2>2. \/ \E n \in 1 .. MaxCount : index' = [index EXCEPT ![Now(t)] = n]
        \/ index' = index
    BY <1>9, MarkSets
  <2>3. 1 .. MaxCount \subseteq Absent .. MaxCount
    BY DEF Absent
  <2>4. index' \in [Letters -> Absent .. MaxCount]
    BY <2>2, <2>3 DEF Types
  <2>8. task' \in [Tasks -> Records]
    BY <1>9, MarkSets, TasksTyped, TasksAre DEF Sets
  <2> QED
    BY <1>9, <2>8, <2>4, <2>7 DEF Mark, PermitsTyped, Types, hookVars, dlqVars, outVars,
       envVars
<1>10. ASSUME NEW t \in Tasks, Rewrite(t) PROVE Types'
  <2>1. Torn \in Torn .. MaxCount /\ Absent \in Torn .. MaxCount
        /\ Absent \in Absent .. MaxCount /\ 0 \in Torn .. MaxCount /\ 0 \in Absent .. MaxCount
    BY DlqAssumption DEF Torn, Absent, MaxCount
  <2>7. PermitsTyped'
    BY <1>10, PermitsDrop DEF Rewrite, Resume
  <2>2. task[t].count \in Torn .. MaxCount
    BY <1>10, RecordsAre, DlqAssumption DEF Rewrite, Shapes, Shape, Torn
  <2>3. Written(Now(t), task[t].count) \subseteq Torn .. MaxCount
    BY <2>1, <2>2 DEF Written
  <2>4. files' \in [Letters -> Torn .. MaxCount]
    BY <1>10, <2>3 DEF Rewrite, Types
  <2>8. task' \in [Tasks -> Records]
    BY <1>10, ResumeResumes, TasksTyped DEF Rewrite
  <2> QED
    BY <1>10, <2>8, <2>4, <2>7 DEF Rewrite, PermitsTyped, Types, hookVars, dlqVars,
       outVars, envVars
<1>11. ASSUME NEW t \in Tasks, TruncateFails(t) PROVE Types'
  <2>7. PermitsTyped'
    BY <1>11, PermitsDrop DEF TruncateFails, Resume
  <2>8. task' \in [Tasks -> Records]
    BY <1>11, ResumeResumes, TasksTyped DEF TruncateFails
  <2> QED
    BY <1>11, <2>8, <2>7 DEF TruncateFails, Trouble, PermitsTyped, Types, hookVars,
       dlqVars, outVars, envVars
<1>12. ASSUME NEW t \in Tasks, RewriteFails(t) PROVE Types'
  <2>1. Torn \in Torn .. MaxCount /\ Absent \in Torn .. MaxCount
        /\ Absent \in Absent .. MaxCount /\ 0 \in Torn .. MaxCount /\ 0 \in Absent .. MaxCount
    BY DlqAssumption DEF Torn, Absent, MaxCount
  <2>7. PermitsTyped'
    BY <1>12, PermitsDrop DEF RewriteFails, Resume
  <2>2. Written(Now(t), Torn) \subseteq Torn .. MaxCount
    BY <2>1 DEF Written
  <2>3. PICK n \in Written(Now(t), Torn) \cup {files[Now(t)]} :
          files' = [files EXCEPT ![Now(t)] = n]
    BY <1>12 DEF RewriteFails
  <2>5. Now(t) \in Letters => n \in Torn .. MaxCount
    BY <2>2, <2>3 DEF Types
  <2>4. files' \in [Letters -> Torn .. MaxCount]
    BY <2>3, <2>5 DEF Types
  <2>8. task' \in [Tasks -> Records]
    BY <1>12, ResumeResumes, TasksTyped DEF RewriteFails
  <2> QED
    BY <1>12, <2>8, <2>4, <2>7 DEF RewriteFails, Trouble, PermitsTyped, Types, hookVars,
       dlqVars, outVars, envVars
<1>13. ASSUME NEW i \in Letters, Push(i) PROVE Types'
  <2>1. channel' \in Seq(Letters) /\ Len(channel') <= MaxPending
    BY <1>13, DlqAssumption DEF Push, Types
  <2> QED
    BY <1>13, <2>1 DEF Push, Types, hookVars, dlqVars, outVars, envVars
<1>14. ASSUME NEW i \in Letters, Enqueue(i) PROVE Types'
  <2>0. queue \in Seq(Letters) /\ Len(queue) <= QueueSize /\ QueueSize \in Nat
    BY DlqAssumption DEF Types
  <2>2. queue' = queue \/ (Len(queue) < QueueSize /\ queue' = Append(queue, i))
    BY <1>14 DEF Enqueue
  <2>1. queue' \in Seq(Letters) /\ Len(queue') <= QueueSize
    BY <1>14, <2>0, <2>2
  <2>8. task' \in [Tasks -> Records]
    BY <1>14, EnqueueSets, TasksTyped, TasksAre DEF Sets
  <2> QED
    BY <1>14, <2>8, <2>1 DEF Enqueue, Types, hookVars, dlqVars, outVars, envVars
<1>15. ASSUME NEW i \in Letters, Deliver(i) PROVE Types'
  <2>7. PermitsTyped'
    BY <1>15, PermitsDrop DEF Deliver, Resume
  <2>8. task' \in [Tasks -> Records]
    BY <1>15, DeliverSets, TasksTyped, TasksAre DEF Sets
  <2> QED
    BY <1>15, <2>8, <2>7 DEF Deliver, PermitsTyped, Types, hookVars, dlqVars, outVars,
       envVars
<1>16. ASSUME NEW i \in Letters, AdminRetry(i) \/ AdminDelete(i) PROVE Types'
  <2>8. task' \in [Tasks -> Records]
    BY <1>16, AdminRetrySets, AdminDeleteSets, TasksTyped, TasksAre DEF Sets
  <2> QED
    BY <1>16, <2>8 DEF AdminRetry, AdminDelete, AdminStart, Trouble, Types, hookVars,
       dlqVars, outVars, envVars
<1>17. CASE Drain
  <2>0. channel \in Seq(Letters) /\ Len(channel) <= MaxPending
    BY DEF Types
  <2>1. channel' = channel \/ (channel # <<>> /\ channel' = Tail(channel))
    BY <1>17 DEF Drain
  <2>3. Len(channel) \in Nat /\ MaxPending \in Nat
    BY <2>0, DlqAssumption
  <2>4. channel # <<>> => Tail(channel) \in Seq(Letters) /\ Len(Tail(channel)) = Len(channel) - 1
    BY <2>0
  <2>2. channel' \in Seq(Letters) /\ Len(channel') <= MaxPending
    BY <2>0, <2>1, <2>3, <2>4
  <2>8. task' \in [Tasks -> Records]
    BY <1>17, DrainSets, TasksTyped, TasksAre DEF Sets
  <2> QED
    BY <1>17, <2>8, <2>2 DEF Drain, Types, hookVars, dlqVars, outVars, envVars
<1>18. CASE WriteBatch
  <2>1. ToSet(task[Flusher].letters) \subseteq Letters
    BY TasksAre, RecordsAre, SetTyped
  <2>2. recorded' \subseteq Letters
    BY <1>18, <2>1 DEF WriteBatch, Types
  <2>8. task' \in [Tasks -> Records]
    BY <1>18, WriteBatchSets, TasksTyped, TasksAre DEF Sets
  <2> QED
    BY <1>18, <2>8, <2>2 DEF WriteBatch, Types, hookVars, dlqVars, outVars, envVars
<1>19. CASE CheckShutdown \/ PruneOld
  <2>8. task' \in [Tasks -> Records]
    BY <1>19, CheckShutdownSets, PruneOldSets, TasksTyped, TasksAre DEF Sets
  <2> QED
    BY <1>19, <2>8 DEF CheckShutdown, PruneOld, Types, hookVars, dlqVars, outVars, envVars
<1>20. CASE Receive
  <2>1. queue \in Seq(Letters) /\ queue # <<>> /\ Len(queue) <= QueueSize
    BY <1>20 DEF Receive, Types
  <2>2. queue' \in Seq(Letters) /\ Len(queue') <= QueueSize /\ drainer' \in Letters
    BY <1>20, <2>1, DlqAssumption DEF Receive
  <2> QED
    BY <1>20, <2>2 DEF Receive, Types, dlqVars, outVars, envVars
<1>21. CASE Acquire
  <2>1. drainer \in Letters /\ permits \subseteq Letters /\ Cardinality(permits) < MaxDeliveries
    BY <1>21 DEF Types, Acquire
  <2>2. IsFiniteSet(permits)
    BY <2>1, FS_Subset, DlqAssumption
  <2>3. Cardinality(permits \cup {drainer}) \in {Cardinality(permits), Cardinality(permits) + 1}
    BY <2>2, FS_AddElement
  <2>4. Cardinality(permits) \in Nat /\ MaxDeliveries \in Nat
    BY <2>2, FS_CardinalityType, DlqAssumption
  <2>7. permits' \subseteq Letters /\ Cardinality(permits') <= MaxDeliveries
    BY <1>21, <2>1, <2>3, <2>4 DEF Acquire
  <2>8. task' \in [Tasks -> Records]
    BY <1>21, AcquireSets, TasksTyped DEF Sets
  <2> QED
    BY <1>21, <2>8, <2>7 DEF Acquire, PermitsTyped, Types, hookVars, dlqVars, outVars,
       envVars
<1>22. ASSUME NEW ready \in SUBSET Letters, List(ready) PROVE Types'
  <2>8. task' \in [Tasks -> Records]
    BY <1>22, ListSets, TasksTyped, TasksAre DEF Sets
  <2> QED
    BY <1>22, <2>8 DEF List, Types, hookVars, dlqVars, outVars, envVars
<1>23. CASE ProcessEntry
  <2>1. permits' \in {permits, permits \ {Worker}}
    BY <1>23 DEF ProcessEntry, Process, Resume
  <2>7. PermitsTyped'
    BY <2>1, PermitsDrop
  <2>2. recorded' \subseteq Letters
    BY <1>23 DEF ProcessEntry, Process, Usage, Types
  <2>8. task' \in [Tasks -> Records]
    BY <1>23, ProcessSets, TasksTyped, TasksAre DEF ProcessEntry, Sets
  <2> QED
    BY <1>23, <2>8, <2>2, <2>7 DEF ProcessEntry, PermitsTyped, Types, hookVars, dlqVars,
       outVars, envVars
<1>24. CASE AdminProcess
  <2>1. permits' \in {permits, permits \ {Admin}}
    BY <1>24 DEF AdminProcess, Process, Resume
  <2>7. PermitsTyped'
    BY <2>1, PermitsDrop
  <2>2. recorded' \subseteq Letters
    BY <1>24 DEF AdminProcess, Process, Usage, Types
  <2>8. task' \in [Tasks -> Records]
    BY <1>24, ProcessSets, TasksTyped, TasksAre DEF AdminProcess, Sets
  <2> QED
    BY <1>24, <2>8, <2>2, <2>7 DEF AdminProcess, PermitsTyped, Types, hookVars, dlqVars,
       outVars, envVars
<1>25. CASE AdminPrune
  <2>8. task' \in [Tasks -> Records]
    BY <1>25, AdminPruneSets, TasksTyped, TasksAre DEF Sets
  <2> QED
    BY <1>25, <2>8 DEF AdminPrune, AdminStart, Trouble, Types, hookVars, dlqVars, outVars,
       envVars
<1>26. CASE AdminPurge
  <2>1. Torn \in Torn .. MaxCount /\ Absent \in Torn .. MaxCount
        /\ Absent \in Absent .. MaxCount /\ 0 \in Torn .. MaxCount /\ 0 \in Absent .. MaxCount
    BY DlqAssumption DEF Torn, Absent, MaxCount
  <2>2. index' \in [Letters -> Absent .. MaxCount] /\ files' \in [Letters -> Torn .. MaxCount]
    BY <1>26, <2>1 DEF AdminPurge, Types
  <2> QED
    BY <1>26, <2>2 DEF AdminPurge, AdminStart, Trouble, Indexed, Types, hookVars, outVars
<1>27. CASE DbFails \/ DbReturns \/ Shutdown
  BY <1>27 DEF DbFails, DbReturns, Shutdown, Trouble, Types, hookVars, dlqVars, outVars
<1>28. CASE Restart
  <2>1. Torn \in Torn .. MaxCount /\ Absent \in Torn .. MaxCount
        /\ Absent \in Absent .. MaxCount /\ 0 \in Torn .. MaxCount /\ 0 \in Absent .. MaxCount
    BY DlqAssumption DEF Torn, Absent, MaxCount
  <2>2. index' \in [Letters -> Absent .. MaxCount]
    <3>1. ASSUME NEW i \in Letters
          PROVE  (IF files[i] = Torn THEN Absent ELSE files[i]) \in Absent .. MaxCount
      <4>1. files[i] \in Torn .. MaxCount
        BY <3>1 DEF Types
      <4>2. MaxCount \in Nat
        BY DlqAssumption DEF MaxCount
      <4> QED
        BY <4>1, <4>2 DEF Torn, Absent
    <3> QED
      BY <1>28, <3>1 DEF Restart
  <2>3. task' \in [Tasks -> Records]
    BY <1>28, StartsTyped DEF Restart
  <2>4. Len(<<>>) <= MaxPending /\ Len(<<>>) <= QueueSize /\ <<>> \in Seq(Letters)
    BY DlqAssumption
  <2>5. permits' = {} /\ Cardinality({}) <= MaxDeliveries
    BY <1>28, FS_EmptySet, DlqAssumption DEF Restart
  <2> QED
    BY <1>28, <2>2, <2>3, <2>4, <2>5 DEF Restart, Types, outVars
<1>29. CASE UNCHANGED vars
  BY <1>29 DEF vars, Types
<1> QED
  BY NextCases, <1>1, <1>2, <1>3, <1>4, <1>5, <1>6, <1>7, <1>8, <1>9, <1>10, <1>11, <1>12,
     <1>13, <1>14, <1>15, <1>16, <1>17, <1>18, <1>19, <1>20, <1>21, <1>22, <1>23, <1>24,
     <1>25, <1>26, <1>27, <1>28, <1>29

LEMMA InitTypes == Init => Types /\ Shapes
<1> SUFFICES ASSUME Init PROVE Types /\ Shapes
  OBVIOUS
<1>1. task = Starts
  BY DEF Init
<1>2. Shapes
  BY <1>1, StartsTyped, TasksAre DEF Shapes, Shape, Own, Pruning, Tasks
<1>3. Len(<<>>) <= MaxPending /\ Len(<<>>) <= QueueSize /\ <<>> \in Seq(Letters)
      /\ Absent \in Absent .. MaxCount /\ Absent \in Torn .. MaxCount
  BY DlqAssumption DEF Absent, Torn, MaxCount
<1>4. Cardinality({}) <= MaxDeliveries
  BY FS_EmptySet, DlqAssumption
<1>5. Types
  BY <1>1, <1>3, <1>4, StartsTyped DEF Init, Types
<1> QED
  BY <1>2, <1>5

-----------------------------------------------------------------------------
(* Nothing vanishes.                                                         *)

Given == recorded \cup excused
Safe == Indexed \cup recorded \cup delivered \cup excused

(* What is taken off the queue was recorded, or its loss named. *)
DisposableBy(t) == task[t].pc \in {"remove", "unlink", "unlink_victim"} => Now(t) \in Given
Disposable == \A t \in Tasks : DisposableBy(t)

(* The letter of a push that has listed it is safe. *)
OwnedBy(t) ==
  ~Pruning(t) /\ task[t].pc \in {"enforce", "evict", "unlink_victim"}
    => Head(Own(t)) \in Safe
Owned == \A t \in Tasks : OwnedBy(t)

(* Usage that is not safe is in the buffer or in the flusher's batch, an
   event that is not safe has its task. *)
KeptUsage(i) == i \in ToSet(channel) \cup ToSet(Own(Flusher)) \cup Safe
KeptEvent(h) == task[h].pc # "done" \/ h \in Safe
Kept ==
  \A i \in Letters : /\ kind[i] = "usage_log" => KeptUsage(i)
                     /\ kind[i] = "webhook" => KeptEvent(i)

Grows == Given \subseteq Given' /\ Safe \subseteq Safe'

(* No step but the end of the process makes a letter unsafe. *)
LEMMA GrowsStep ==
  ASSUME Types, Disposable, [Next]_vars
  PROVE  Restart \/ Grows
<1>1. ASSUME NEW t \in Tasks, Create(t) \/ CreateFails(t) \/ Enforce(t) \/
            UnlinkVictim(t) \/ Unlink(t) \/ Truncate(t) \/ Rewrite(t) \/
            TruncateFails(t) \/ RewriteFails(t)
      PROVE  Restart \/ Grows
  <2>1. /\ index' = index /\ recorded \subseteq recorded' /\ delivered \subseteq delivered'
        /\ excused \subseteq excused'
    BY <1>1 DEF Create, CreateFails, Enforce, UnlinkVictim, Unlink, Truncate, Rewrite,
       TruncateFails, RewriteFails, dlqVars, outVars
  <2> QED
    BY <2>1 DEF Grows, Given, Safe, Indexed
<1>2. ASSUME NEW t \in Tasks, Insert(t) PROVE Restart \/ Grows
  <2>1. index' = [index EXCEPT ![Now(t)] = 0] /\ UNCHANGED <<recorded, delivered, excused>>
    BY <1>2 DEF Insert, outVars
  <2> QED
    BY <2>1 DEF Grows, Given, Safe, Indexed, Types, Absent
<1>3. ASSUME NEW t \in Tasks, Evict(t) PROVE Restart \/ Grows
  <2>1. /\ UNCHANGED <<recorded, delivered>>
        /\ \/ UNCHANGED <<index, excused>>
           \/ \E i \in Letters : /\ index' = [index EXCEPT ![i] = Absent]
                               /\ excused' = excused \cup {i}
    BY <1>3, EvictSets DEF Evict, Evicts, outVars
  <2> QED
    BY <2>1 DEF Grows, Given, Safe, Indexed, Types
<1>4. ASSUME NEW t \in Tasks, RemoveEntry(t) PROVE Restart \/ Grows
  <2>1. Now(t) \in Given
    BY <1>4 DEF RemoveEntry, Disposable, DisposableBy
  <2>2. /\ index' = index \/ index' = [index EXCEPT ![Now(t)] = Absent]
        /\ UNCHANGED <<recorded, delivered, excused>>
    BY <1>4 DEF RemoveEntry, outVars
  <2> QED
    BY <2>1, <2>2 DEF Grows, Given, Safe, Indexed, Types
<1>5. ASSUME NEW t \in Tasks, Mark(t) PROVE Restart \/ Grows
  <2>1. UNCHANGED <<recorded, delivered, excused>>
    BY <1>5 DEF Mark, outVars
  <2>2. index' = index \/ \E n \in 1 .. MaxCount : index' = [index EXCEPT ![Now(t)] = n]
    BY <1>5, MarkSets
  <2>3. \A n \in 1 .. MaxCount : n # Absent
    BY DEF Absent
  <2> QED
    BY <2>1, <2>2, <2>3 DEF Grows, Given, Safe, Indexed, Types
<1>6. ASSUME NEW i \in Letters, Push(i) \/ Enqueue(i) \/ Deliver(i) \/ AdminRetry(i) \/
            AdminDelete(i)
      PROVE  Restart \/ Grows
  <2>1. /\ index' = index /\ recorded \subseteq recorded' /\ delivered \subseteq delivered'
        /\ excused \subseteq excused'
    BY <1>6 DEF Push, Enqueue, Deliver, AdminRetry, AdminDelete, dlqVars, outVars
  <2> QED
    BY <2>1 DEF Grows, Given, Safe, Indexed
<1>7. CASE Drain \/ WriteBatch \/ CheckShutdown \/ Receive \/ Acquire \/ PruneOld \/
          AdminPrune \/ DbFails \/ DbReturns \/ Shutdown
  <2>1. /\ index' = index /\ recorded \subseteq recorded' /\ delivered \subseteq delivered'
        /\ excused \subseteq excused'
    BY <1>7 DEF Drain, WriteBatch, CheckShutdown, Receive, Acquire, PruneOld, AdminPrune,
       DbFails, DbReturns, Shutdown, dlqVars, outVars
  <2> QED
    BY <2>1 DEF Grows, Given, Safe, Indexed
<1>8. ASSUME NEW ready \in SUBSET Letters, List(ready) PROVE Restart \/ Grows
  <2>1. /\ index' = index /\ recorded \subseteq recorded' /\ delivered \subseteq delivered'
        /\ excused \subseteq excused'
    BY <1>8 DEF List, dlqVars, outVars
  <2> QED
    BY <2>1 DEF Grows, Given, Safe, Indexed
<1>9. CASE ProcessEntry \/ AdminProcess
  <2>1. /\ index' = index /\ recorded \subseteq recorded' /\ delivered \subseteq delivered'
        /\ excused \subseteq excused'
    BY <1>9 DEF ProcessEntry, AdminProcess, Process, dlqVars, outVars
  <2> QED
    BY <2>1 DEF Grows, Given, Safe, Indexed
<1>10. CASE AdminPurge
  <2>1. UNCHANGED <<recorded, delivered>> /\ excused' = excused \cup Indexed
    BY <1>10 DEF AdminPurge, outVars
  <2> QED
    BY <2>1 DEF Grows, Given, Safe
<1>11. CASE Restart
  BY <1>11
<1>12. CASE UNCHANGED vars
  BY <1>12 DEF vars, Grows, Given, Safe, Indexed
<1> QED
  BY NextCases, <1>1, <1>2, <1>3, <1>4, <1>5, <1>6, <1>7, <1>8, <1>9, <1>10, <1>11, <1>12

LEMMA DisposableOthers ==
  ASSUME Disposable, Grows, NEW t \in Tasks, NEW pc, NEW s, Sets(t, pc, s),
         pc \in {"remove", "unlink", "unlink_victim"} => Head(s) \in Given'
  PROVE  Disposable'
<1> SUFFICES ASSUME NEW u \in Tasks, task'[u].pc \in {"remove", "unlink", "unlink_victim"}
             PROVE  Head(task'[u].letters) \in Given'
  BY DEF Disposable, DisposableBy, Now
<1>1. CASE u = t
  BY <1>1 DEF Sets
<1>2. CASE u # t
  BY <1>2 DEF Sets, Disposable, DisposableBy, Now, Grows
<1> QED
  BY <1>1, <1>2

LEMMA DisposableResumes ==
  ASSUME Disposable, Grows, NEW t \in Tasks, NEW s, Resumes(t, s)
  PROVE  Disposable'
<1>1. PICK pc \in {"check", "create", "list", "entry", "prune", "done"} : \E r : Sets(t, pc, r)
  BY DEF Resumes
<1> QED
  BY <1>1, DisposableOthers

LEMMA DisposableStep ==
  ASSUME Types, Shapes, Disposable, [Next]_vars
  PROVE  Disposable'
<1>a. CASE Restart
  <2>1. task' = Starts
    BY <1>a DEF Restart
  <2> QED
    BY <2>1, StartsTyped DEF Disposable, DisposableBy
<1> SUFFICES ASSUME Grows PROVE Disposable'
  BY <1>a, GrowsStep
<1>1. ASSUME NEW t \in Tasks, Create(t) PROVE Disposable'
  <2>1. \/ \E s : Resumes(t, s)
        \/ \E pc \in {"insert"} : \E s : Sets(t, pc, s)
    BY <1>1, CreateSets, TasksAre
  <2> QED
    BY <2>1, DisposableResumes, DisposableOthers, TasksAre
<1>2. ASSUME NEW t \in Tasks, CreateFails(t) \/ Unlink(t) \/ Rewrite(t) \/
            TruncateFails(t) \/ RewriteFails(t)
      PROVE  Disposable'
  <2>1. \E s : Resumes(t, s)
    BY <1>2, ResumeResumes DEF CreateFails, Unlink, Rewrite, TruncateFails, RewriteFails
  <2> QED
    BY <2>1, DisposableResumes
<1>3. ASSUME NEW t \in Tasks, Insert(t) PROVE Disposable'
  <2>1. \/ \E s : Resumes(t, s)
        \/ \E pc \in {"enforce"} : \E s : Sets(t, pc, s)
    BY <1>3, InsertSets, TasksAre
  <2> QED
    BY <2>1, DisposableResumes, DisposableOthers, TasksAre
<1>4. ASSUME NEW t \in Tasks, Enforce(t) \/ UnlinkVictim(t) PROVE Disposable'
  <2>1. \/ \E s : Resumes(t, s)
        \/ \E pc \in {"evict"} : \E s : Sets(t, pc, s)
    BY <1>4, EnforceSets, UnlinkVictimSets, TasksAre
  <2> QED
    BY <2>1, DisposableResumes, DisposableOthers, TasksAre
<1>5. ASSUME NEW t \in Tasks, Evict(t) PROVE Disposable'
  <2>0. task[t].letters \in Seq(Letters)
    BY RecordsAre
  <2>1. CASE Resumes(t, task[t].letters) \/ Sets(t, "evict", task[t].letters)
    BY <2>1, DisposableResumes, DisposableOthers
  <2>2. ASSUME NEW i \in Letters, Evicts(t, i) PROVE Disposable'
    <3>1. Sets(t, "unlink_victim", <<i>> \o task[t].letters) /\ i \in excused'
      BY <2>2 DEF Evicts
    <3>2. Head(<<i>> \o task[t].letters) \in Given'
      BY <2>0, <3>1, InFront DEF Given
    <3> QED
      BY <3>1, <3>2, DisposableOthers
  <2> QED
    BY <1>5, <2>1, <2>2, EvictSets
<1>6. ASSUME NEW t \in Tasks, RemoveEntry(t) PROVE Disposable'
  <2>1. Now(t) \in Given'
    BY <1>6 DEF Disposable, DisposableBy, RemoveEntry, Grows
  <2>2. CASE Resumes(t, task[t].letters)
    BY <2>2, DisposableResumes
  <2>3. CASE Sets(t, "unlink", task[t].letters)
    BY <2>1, <2>3, DisposableOthers DEF Now
  <2> QED
    BY <1>6, <2>2, <2>3, RemoveEntrySets
<1>7. ASSUME NEW t \in Tasks, Mark(t) PROVE Disposable'
  <2>1. \/ \E s : Resumes(t, s)
        \/ \E pc \in {"truncate"} : \E s : Sets(t, pc, s)
    BY <1>7, MarkSets, TasksAre
  <2> QED
    BY <2>1, DisposableResumes, DisposableOthers, TasksAre
<1>8. ASSUME NEW t \in Tasks, Truncate(t) PROVE Disposable'
  <2>1. \/ \E s : Resumes(t, s)
        \/ \E pc \in {"rewrite"} : \E s : Sets(t, pc, s)
    BY <1>8, TruncateSets, TasksAre
  <2> QED
    BY <2>1, DisposableResumes, DisposableOthers, TasksAre
<1>9. ASSUME NEW i \in Letters, Push(i) PROVE Disposable'
  <2>1. task' = task
    BY <1>9 DEF Push
  <2> QED
    BY <2>1 DEF Disposable, DisposableBy, Now, Grows
<1>10. ASSUME NEW i \in Letters, Enqueue(i) PROVE Disposable'
  <2>1. \/ \E s : Resumes(i, s)
        \/ \E pc \in {"queued", "create"} : \E s : Sets(i, pc, s)
    BY <1>10, EnqueueSets, TasksAre
  <2> QED
    BY <2>1, DisposableResumes, DisposableOthers, TasksAre
<1>11. ASSUME NEW i \in Letters, Deliver(i) PROVE Disposable'
  <2>1. \/ \E s : Resumes(i, s)
        \/ \E pc \in {"deliver", "create"} : \E s : Sets(i, pc, s)
    BY <1>11, DeliverSets, TasksAre
  <2> QED
    BY <2>1, DisposableResumes, DisposableOthers, TasksAre
<1>12. ASSUME NEW i \in Letters, AdminRetry(i) PROVE Disposable'
  <2>1. \/ \E s : Resumes(Admin, s)
        \/ \E pc \in {"retry"} : \E s : Sets(Admin, pc, s)
    BY <1>12, AdminRetrySets, TasksAre
  <2> QED
    BY <2>1, DisposableResumes, DisposableOthers, TasksAre
<1>13. ASSUME NEW i \in Letters, AdminDelete(i) PROVE Disposable'
  <2>1. Sets(Admin, "remove", <<i>>) /\ i \in Given'
    BY <1>13, AdminDeleteSets DEF AdminDelete, Given
  <2>2. Head(<<i>>) = i
    OBVIOUS
  <2> QED
    BY <2>1, <2>2, DisposableOthers, TasksAre
<1>14. CASE Drain
  <2>1. \/ \E s : Resumes(Flusher, s)
        \/ \E pc \in {"drain", "check", "write_batch"} : \E s : Sets(Flusher, pc, s)
    BY <1>14, DrainSets, TasksAre
  <2> QED
    BY <2>1, DisposableResumes, DisposableOthers, TasksAre
<1>15. CASE WriteBatch
  <2>1. \/ \E s : Resumes(Flusher, s)
        \/ \E pc \in {"check", "create"} : \E s : Sets(Flusher, pc, s)
    BY <1>15, WriteBatchSets, TasksAre
  <2> QED
    BY <2>1, DisposableResumes, DisposableOthers, TasksAre
<1>16. CASE CheckShutdown
  <2>1. \/ \E s : Resumes(Flusher, s)
        \/ \E pc \in {"drain", "exited"} : \E s : Sets(Flusher, pc, s)
    BY <1>16, CheckShutdownSets, TasksAre
  <2> QED
    BY <2>1, DisposableResumes, DisposableOthers, TasksAre
<1>17. CASE Receive \/ AdminPurge \/ DbFails \/ DbReturns \/ Shutdown \/ UNCHANGED vars
  <2>1. task' = task
    BY <1>17 DEF Receive, AdminPurge, DbFails, DbReturns, Shutdown, vars
  <2> QED
    BY <2>1 DEF Disposable, DisposableBy, Now, Grows
<1>18. CASE Acquire
  <2>1. PICK h \in Letters : Sets(h, "deliver", <<h>>)
    BY <1>18, AcquireSets
  <2> QED
    BY <2>1, DisposableOthers, TasksAre
<1>19. ASSUME NEW ready \in SUBSET Letters, List(ready) PROVE Disposable'
  <2>1. \/ \E s : Resumes(Worker, s)
        \/ \E pc \in {"prune", "entry"} : \E s : Sets(Worker, pc, s)
    BY <1>19, ListSets, TasksAre
  <2> QED
    BY <2>1, DisposableResumes, DisposableOthers, TasksAre
<1>20. CASE ProcessEntry
  <2>0. Worker \in Tasks /\ Process(Worker)
    BY <1>20, TasksAre DEF ProcessEntry
  <2>1. CASE \/ Resumes(Worker, task[Worker].letters)
             \/ Sets(Worker, "mark", task[Worker].letters)
    BY <2>0, <2>1, DisposableResumes, DisposableOthers
  <2>2. CASE recorded' = recorded \cup {Now(Worker)} /\ Sets(Worker, "remove", task[Worker].letters)
    <3>1. Head(task[Worker].letters) \in Given'
      BY <2>2 DEF Given, Now
    <3> QED
      BY <2>0, <2>2, <3>1, DisposableOthers
  <2> QED
    BY <2>0, <2>1, <2>2, ProcessSets
<1>21. CASE PruneOld
  <2>1. \/ \E s : Resumes(Worker, s)
        \/ \E pc \in {"list", "evict"} : \E s : Sets(Worker, pc, s)
    BY <1>21, PruneOldSets, TasksAre
  <2> QED
    BY <2>1, DisposableResumes, DisposableOthers, TasksAre
<1>22. CASE AdminProcess
  <2>0. Admin \in Tasks /\ Process(Admin)
    BY <1>22, TasksAre DEF AdminProcess
  <2>1. CASE \/ Resumes(Admin, task[Admin].letters)
             \/ Sets(Admin, "mark", task[Admin].letters)
    BY <2>0, <2>1, DisposableResumes, DisposableOthers
  <2>2. CASE recorded' = recorded \cup {Now(Admin)} /\ Sets(Admin, "remove", task[Admin].letters)
    <3>1. Head(task[Admin].letters) \in Given'
      BY <2>2 DEF Given, Now
    <3> QED
      BY <2>0, <2>2, <3>1, DisposableOthers
  <2> QED
    BY <2>0, <2>1, <2>2, ProcessSets
<1>23. CASE AdminPrune
  <2>1. \/ \E s : Resumes(Admin, s)
        \/ \E pc \in {"evict"} : \E s : Sets(Admin, pc, s)
    BY <1>23, AdminPruneSets, TasksAre
  <2> QED
    BY <2>1, DisposableResumes, DisposableOthers, TasksAre
<1>24. CASE Restart
  <2>1. task' = Starts
    BY <1>24 DEF Restart
  <2> QED
    BY <2>1, StartsTyped DEF Disposable, DisposableBy
<1> QED
  BY NextCases, <1>1, <1>2, <1>3, <1>4, <1>5, <1>6, <1>7, <1>8, <1>9, <1>10, <1>11, <1>12,
     <1>13, <1>14, <1>15, <1>16, <1>17, <1>18, <1>19, <1>20, <1>21, <1>22, <1>23, <1>24

LEMMA OwnedOthers ==
  ASSUME Owned, Grows, NEW t \in Tasks, NEW pc, NEW s, Sets(t, pc, s), OwnedBy(t)'
  PROVE  Owned'
<1> SUFFICES ASSUME NEW u \in Tasks PROVE OwnedBy(u)'
  BY DEF Owned
<1>1. CASE u = t
  BY <1>1
<1>2. CASE u # t
  <2>1. task'[u] = task[u] /\ OwnedBy(u) /\ Safe \subseteq Safe'
    BY <1>2 DEF Sets, Owned, Grows
  <2> QED
    BY <2>1 DEF OwnedBy, Own, Pruning
<1> QED
  BY <1>1, <1>2

(* A task that is not inside a push has no letter to account for. *)
LEMMA OwnedElsewhere ==
  ASSUME Owned, Grows, NEW t \in Tasks, NEW pc, NEW s, Sets(t, pc, s),
         Pruning(t) \/ pc \notin {"enforce", "evict", "unlink_victim"}
  PROVE  Owned'
<1>1. OwnedBy(t)'
  BY DEF Sets, OwnedBy, Pruning
<1> QED
  BY <1>1, OwnedOthers

LEMMA OwnedResumes ==
  ASSUME Owned, Grows, NEW t \in Tasks, NEW s, Resumes(t, s)
  PROVE  Owned'
<1>1. PICK pc \in {"check", "create", "list", "entry", "prune", "done"} : \E r : Sets(t, pc, r)
  BY DEF Resumes
<1> QED
  BY <1>1, OwnedElsewhere

LEMMA OwnedStep ==
  ASSUME Types, Shapes, Disposable, Owned, [Next]_vars
  PROVE  Owned'
<1>a. CASE Restart
  <2>1. task' = Starts
    BY <1>a DEF Restart
  <2> QED
    BY <2>1, StartsTyped DEF Owned, OwnedBy
<1> SUFFICES ASSUME Grows PROVE Owned'
  BY <1>a, GrowsStep
<1>1. ASSUME NEW t \in Tasks, Create(t) PROVE Owned'
  <2>1. \/ \E s : Resumes(t, s)
        \/ \E pc \in {"insert"} : \E s : Sets(t, pc, s)
    BY <1>1, CreateSets, TasksAre
  <2> QED
    BY <2>1, OwnedResumes, OwnedElsewhere, TasksAre
<1>2. ASSUME NEW t \in Tasks, CreateFails(t) \/ Unlink(t) \/ Rewrite(t) \/
            TruncateFails(t) \/ RewriteFails(t)
      PROVE  Owned'
  <2>1. \E s : Resumes(t, s)
    BY <1>2, ResumeResumes DEF CreateFails, Unlink, Rewrite, TruncateFails, RewriteFails
  <2> QED
    BY <2>1, OwnedResumes
<1>3. ASSUME NEW t \in Tasks, Insert(t) PROVE Owned'
  <2>1. ~Pruning(t) /\ Now(t) \in Letters /\ Sets(t, "enforce", task[t].letters)
    BY <1>3, Pushers, PushedLetter, InsertSets DEF Insert
  <2>2. index' = [index EXCEPT ![Now(t)] = 0] /\ index \in [Letters -> Absent .. MaxCount]
    BY <1>3 DEF Insert, Types
  <2>3. Now(t) \in Safe'
    BY <2>1, <2>2 DEF Safe, Indexed, Absent
  <2>4. OwnedBy(t)'
    BY <2>1, <2>3 DEF OwnedBy, Own, Sets, Now
  <2> QED
    BY <2>1, <2>4, OwnedOthers
<1>4. ASSUME NEW t \in Tasks, Enforce(t) PROVE Owned'
  <2>0. task[t].pc = "enforce" /\ OwnedBy(t) /\ Grows
    BY <1>4 DEF Enforce, Owned
  <2>1. ASSUME NEW pc \in {"enforce", "evict"}, Sets(t, pc, task[t].letters) PROVE Owned'
    <3>1. Own(t)' = Own(t)
      BY <2>0, <2>1 DEF Sets, Own
    <3>2. OwnedBy(t)'
      BY <2>0, <3>1 DEF OwnedBy, Grows, Pruning
    <3> QED
      BY <2>0, <2>1, <3>2, OwnedOthers
  <2>3. CASE Resumes(t, task[t].letters)
    BY <2>0, <2>3, OwnedResumes
  <2> QED
    BY <1>4, <2>1, <2>3, EnforceSets
<1>5. ASSUME NEW t \in Tasks, Evict(t) PROVE Owned'
  <2>0. task[t].pc = "evict" /\ OwnedBy(t) /\ Grows
    BY <1>5 DEF Evict, Owned
  <2>1. ASSUME NEW pc \in {"enforce", "evict"}, Sets(t, pc, task[t].letters) PROVE Owned'
    <3>1. Own(t)' = Own(t)
      BY <2>0, <2>1 DEF Sets, Own
    <3>2. OwnedBy(t)'
      BY <2>0, <3>1 DEF OwnedBy, Grows, Pruning
    <3> QED
      BY <2>0, <2>1, <3>2, OwnedOthers
  <2>2. ASSUME NEW i \in Letters, Evicts(t, i) PROVE Owned'
    <3>1. Sets(t, "unlink_victim", <<i>> \o task[t].letters) /\ task[t].letters \in Seq(Letters)
      BY <2>2, RecordsAre DEF Evicts
    <3>2. Tail(<<i>> \o task[t].letters) = task[t].letters
      BY <2>2, <3>1, InFront
    <3>3. Own(t)' = Own(t)
      BY <2>0, <3>1, <3>2 DEF Sets, Own
    <3>4. OwnedBy(t)'
      BY <2>0, <3>3 DEF OwnedBy, Grows, Pruning
    <3> QED
      BY <2>0, <3>1, <3>4, OwnedOthers
  <2>3. CASE Resumes(t, task[t].letters)
    BY <2>0, <2>3, OwnedResumes
  <2> QED
    BY <1>5, <2>1, <2>2, <2>3, EvictSets
<1>6. ASSUME NEW t \in Tasks, UnlinkVictim(t) PROVE Owned'
  <2>0. task[t].pc = "unlink_victim" /\ OwnedBy(t) /\ Grows
    BY <1>6 DEF UnlinkVictim, Owned
  <2>1. CASE Sets(t, "evict", Tail(task[t].letters))
    <3>1. Own(t)' = Own(t)
      BY <2>0, <2>1 DEF Sets, Own
    <3>2. OwnedBy(t)'
      BY <2>0, <3>1 DEF OwnedBy, Grows, Pruning
    <3> QED
      BY <2>0, <2>1, <3>2, OwnedOthers
  <2>2. CASE Resumes(t, Tail(task[t].letters))
    BY <2>0, <2>2, OwnedResumes
  <2> QED
    BY <1>6, <2>1, <2>2, UnlinkVictimSets
<1>7. ASSUME NEW t \in Tasks, RemoveEntry(t) PROVE Owned'
  <2>1. \/ \E s : Resumes(t, s)
        \/ \E pc \in {"unlink"} : \E s : Sets(t, pc, s)
    BY <1>7, RemoveEntrySets, TasksAre
  <2> QED
    BY <2>1, OwnedResumes, OwnedElsewhere, TasksAre
<1>8. ASSUME NEW t \in Tasks, Mark(t) PROVE Owned'
  <2>1. \/ \E s : Resumes(t, s)
        \/ \E pc \in {"truncate"} : \E s : Sets(t, pc, s)
    BY <1>8, MarkSets, TasksAre
  <2> QED
    BY <2>1, OwnedResumes, OwnedElsewhere, TasksAre
<1>9. ASSUME NEW t \in Tasks, Truncate(t) PROVE Owned'
  <2>1. \/ \E s : Resumes(t, s)
        \/ \E pc \in {"rewrite"} : \E s : Sets(t, pc, s)
    BY <1>9, TruncateSets, TasksAre
  <2> QED
    BY <2>1, OwnedResumes, OwnedElsewhere, TasksAre
<1>10. ASSUME NEW i \in Letters, Push(i) PROVE Owned'
  <2>1. task' = task
    BY <1>10 DEF Push
  <2> QED
    BY <2>1 DEF Owned, OwnedBy, Own, Pruning, Grows
<1>11. ASSUME NEW i \in Letters, Enqueue(i) PROVE Owned'
  <2>1. \/ \E s : Resumes(i, s)
        \/ \E pc \in {"queued", "create"} : \E s : Sets(i, pc, s)
    BY <1>11, EnqueueSets, TasksAre
  <2> QED
    BY <2>1, OwnedResumes, OwnedElsewhere, TasksAre
<1>12. ASSUME NEW i \in Letters, Deliver(i) PROVE Owned'
  <2>1. \/ \E s : Resumes(i, s)
        \/ \E pc \in {"deliver", "create"} : \E s : Sets(i, pc, s)
    BY <1>12, DeliverSets, TasksAre
  <2> QED
    BY <2>1, OwnedResumes, OwnedElsewhere, TasksAre
<1>13. ASSUME NEW i \in Letters, AdminRetry(i) PROVE Owned'
  <2>1. \/ \E s : Resumes(Admin, s)
        \/ \E pc \in {"retry"} : \E s : Sets(Admin, pc, s)
    BY <1>13, AdminRetrySets, TasksAre
  <2> QED
    BY <2>1, OwnedResumes, OwnedElsewhere, TasksAre DEF Pruning
<1>14. ASSUME NEW i \in Letters, AdminDelete(i) PROVE Owned'
  <2>1. \/ \E s : Resumes(Admin, s)
        \/ \E pc \in {"remove"} : \E s : Sets(Admin, pc, s)
    BY <1>14, AdminDeleteSets, TasksAre
  <2> QED
    BY <2>1, OwnedResumes, OwnedElsewhere, TasksAre DEF Pruning
<1>15. CASE Drain
  <2>1. \/ \E s : Resumes(Flusher, s)
        \/ \E pc \in {"drain", "check", "write_batch"} : \E s : Sets(Flusher, pc, s)
    BY <1>15, DrainSets, TasksAre
  <2> QED
    BY <2>1, OwnedResumes, OwnedElsewhere, TasksAre
<1>16. CASE WriteBatch
  <2>1. \/ \E s : Resumes(Flusher, s)
        \/ \E pc \in {"check", "create"} : \E s : Sets(Flusher, pc, s)
    BY <1>16, WriteBatchSets, TasksAre
  <2> QED
    BY <2>1, OwnedResumes, OwnedElsewhere, TasksAre
<1>17. CASE CheckShutdown
  <2>1. \/ \E s : Resumes(Flusher, s)
        \/ \E pc \in {"drain", "exited"} : \E s : Sets(Flusher, pc, s)
    BY <1>17, CheckShutdownSets, TasksAre
  <2> QED
    BY <2>1, OwnedResumes, OwnedElsewhere, TasksAre
<1>18. CASE Receive \/ AdminPurge \/ DbFails \/ DbReturns \/ Shutdown \/ UNCHANGED vars
  <2>1. task' = task
    BY <1>18 DEF Receive, AdminPurge, DbFails, DbReturns, Shutdown, vars
  <2> QED
    BY <2>1 DEF Owned, OwnedBy, Own, Pruning, Grows
<1>19. CASE Acquire
  <2>1. PICK h \in Letters : Sets(h, "deliver", <<h>>)
    BY <1>19, AcquireSets
  <2> QED
    BY <2>1, OwnedElsewhere, TasksAre
<1>20. ASSUME NEW ready \in SUBSET Letters, List(ready) PROVE Owned'
  <2>1. \/ \E s : Resumes(Worker, s)
        \/ \E pc \in {"prune", "entry"} : \E s : Sets(Worker, pc, s)
    BY <1>20, ListSets, TasksAre
  <2> QED
    BY <2>1, OwnedResumes, OwnedElsewhere, TasksAre DEF Pruning
<1>21. CASE ProcessEntry
  <2>1. \/ \E s : Resumes(Worker, s)
        \/ \E pc \in {"remove", "mark"} : \E s : Sets(Worker, pc, s)
    BY <1>21, ProcessSets, TasksAre DEF ProcessEntry
  <2> QED
    BY <2>1, OwnedResumes, OwnedElsewhere, TasksAre
<1>22. CASE PruneOld
  <2>1. \/ \E s : Resumes(Worker, s)
        \/ \E pc \in {"list", "evict"} : \E s : Sets(Worker, pc, s)
    BY <1>22, PruneOldSets, TasksAre
  <2> QED
    BY <2>1, OwnedResumes, OwnedElsewhere, TasksAre DEF Pruning
<1>23. CASE AdminProcess
  <2>1. \/ \E s : Resumes(Admin, s)
        \/ \E pc \in {"remove", "mark"} : \E s : Sets(Admin, pc, s)
    BY <1>23, ProcessSets, TasksAre DEF AdminProcess
  <2> QED
    BY <2>1, OwnedResumes, OwnedElsewhere, TasksAre
<1>24. CASE AdminPrune
  <2>1. \/ \E s : Resumes(Admin, s)
        \/ \E pc \in {"evict"} : \E s : Sets(Admin, pc, s)
    BY <1>24, AdminPruneSets, TasksAre
  <2> QED
    BY <2>1, OwnedResumes, OwnedElsewhere, TasksAre DEF Pruning
<1>25. CASE Restart
  <2>1. task' = Starts
    BY <1>25 DEF Restart
  <2> QED
    BY <2>1, StartsTyped DEF Owned, OwnedBy
<1> QED
  BY NextCases, <1>1, <1>2, <1>3, <1>4, <1>5, <1>6, <1>7, <1>8, <1>9, <1>10, <1>11, <1>12,
     <1>13, <1>14, <1>15, <1>16, <1>17, <1>18, <1>19, <1>20, <1>21, <1>22, <1>23, <1>24,
     <1>25

-----------------------------------------------------------------------------
(* What the buffer, the batch and the events' tasks hand on.                 *)

Carries ==
  /\ ToSet(channel) \cup ToSet(Own(Flusher))
       \subseteq ToSet(channel') \cup ToSet(Own(Flusher)') \cup Safe'
  /\ \A h \in Letters : task[h].pc # "done" => task'[h].pc # "done" \/ h \in Safe'

LEMMA KeptCarries ==
  ASSUME Types, Kept, Grows, Carries,
         \A i \in Letters : \/ kind'[i] = kind[i]
                            \/ kind'[i] = "usage_log" /\ KeptUsage(i)'
                            \/ kind'[i] = "webhook" /\ KeptEvent(i)'
  PROVE  Kept'
<1> SUFFICES ASSUME NEW i \in Letters
             PROVE  /\ kind'[i] = "usage_log" => KeptUsage(i)'
                    /\ kind'[i] = "webhook" => KeptEvent(i)'
  BY DEF Kept
<1>1. CASE kind'[i] = kind[i]
  <2>1. kind[i] = "usage_log" => KeptUsage(i)
    BY DEF Kept
  <2>2. kind[i] = "webhook" => KeptEvent(i)
    BY DEF Kept
  <2>3. KeptUsage(i) => KeptUsage(i)'
    BY DEF KeptUsage, Grows, Carries
  <2>4. KeptEvent(i) => KeptEvent(i)'
    BY DEF KeptEvent, Grows, Carries
  <2> QED
    BY <1>1, <2>1, <2>2, <2>3, <2>4
<1> QED
  BY <1>1

LEMMA CarriesBy ==
  ASSUME NEW t \in Tasks, NEW pc, NEW s, Sets(t, pc, s), channel' = channel,
         t = Flusher => ToSet(Own(t)) \subseteq ToSet(Own(t)') \cup Safe',
         t \in Letters => pc # "done" \/ t \in Safe'
  PROVE  Carries
<1>1. t # Flusher => Own(Flusher)' = Own(Flusher)
  BY TasksAre DEF Sets, Own
<1>2. ToSet(Own(Flusher)) \subseteq ToSet(Own(Flusher)') \cup Safe'
  <2>1. CASE t = Flusher
    BY <2>1
  <2>2. CASE t # Flusher
    BY <1>1, <2>2
  <2> QED
    BY <2>1, <2>2
<1>3. ASSUME NEW h \in Letters, task[h].pc # "done"
      PROVE  task'[h].pc # "done" \/ h \in Safe'
  BY <1>3, TasksAre DEF Sets
<1> QED
  BY <1>2, <1>3 DEF Carries

LEMMA ResumesSets ==
  ASSUME NEW t, NEW s, Resumes(t, s)
  PROVE  \E pc, r : Sets(t, pc, r)
BY DEF Resumes

LEMMA PruningCarries ==
  ASSUME NEW t \in Tasks, Pruning(t), \E pc, s : Sets(t, pc, s), channel' = channel
  PROVE  Carries
<1>1. t # Flusher /\ t \notin Letters
  BY TasksAre DEF Pruning
<1> QED
  BY <1>1, CarriesBy

(* A task goes on from a letter that is safe. *)
LEMMA ResumesCarries ==
  ASSUME Shapes, NEW t \in Tasks, Resumes(t, Own(t)), Own(t) \in Seq(Letters),
         channel' = channel, task[t].pc \notin {"drain", "check", "exited", "done", "queued"},
         ~Pruning(t) => Head(Own(t)) \in Safe'
  PROVE  Carries
<1>1. CASE Pruning(t)
  BY <1>1, ResumesSets, PruningCarries
<1>2. CASE t = Flusher
  <2>1. Shape(t) /\ ~Pruning(t)
    BY <1>2, TasksAre DEF Shapes, Pruning
  <2>2. Own(t) # <<>>
    BY <1>2, <2>1 DEF Shape
  <2>3. Head(Own(t)) \in Safe' /\ Rest(Own(t)) = Tail(Own(t))
    BY <2>1, <2>2 DEF Rest
  <2>4. ToSet(Own(t)) = {Head(Own(t))} \cup ToSet(Tail(Own(t)))
    BY <2>2, SetOfTail
  <2>5. \E pc \in {"check", "create"} : Sets(t, pc, Rest(Own(t)))
    BY <1>2, TasksAre DEF Resumes
  <2>6. Own(t)' = Tail(Own(t))
    BY <2>3, <2>5 DEF Sets, Own
  <2>7. ToSet(Own(t)) \subseteq ToSet(Own(t)') \cup Safe' /\ t \notin Letters
    BY <1>2, <2>3, <2>4, <2>6, TasksAre
  <2> QED
    BY <2>5, <2>7, CarriesBy
<1>3. CASE t \in Letters
  <2>1. Shape(t) /\ ~Pruning(t) /\ t # Flusher
    BY <1>3, TasksAre DEF Shapes, Pruning
  <2>2. Own(t) = <<t>>
    BY <1>3, <2>1 DEF Shape
  <2>3. t \in Safe'
    BY <2>1, <2>2
  <2> QED
    BY <2>1, <2>3, ResumesSets, CarriesBy
<1> QED
  BY <1>1, <1>2, <1>3 DEF Tasks, Pruning

LEMMA KeptStep ==
  ASSUME Types, Shapes, Disposable, Owned, Kept, [Next]_vars
  PROVE  Kept'
<1>a. CASE Restart
  <2>1. \A i \in Letters : kind'[i] # None => i \in Safe'
    BY <1>a DEF Restart, Safe, Indexed, outVars, Types
  <2> QED
    BY <2>1 DEF Kept, KeptUsage, KeptEvent, None
<1> SUFFICES ASSUME Grows PROVE Kept'
  BY <1>a, GrowsStep
<1>1. ASSUME NEW t \in Tasks, Create(t) PROVE Kept'
  <2>1. Sets(t, "insert", task[t].letters) /\ task[t].pc = "create" /\ channel' = channel
    BY <1>1, CreateSets DEF Create
  <2>2. Own(t)' = Own(t)
    BY <2>1 DEF Sets, Own
  <2>9. Carries
    BY <2>1, <2>2, CarriesBy
  <2> QED
    BY <1>1, <2>9, KeptCarries DEF Create
<1>2. ASSUME NEW t \in Tasks, CreateFails(t) PROVE Kept'
  <2>1. /\ task[t].pc = "create" /\ channel' = channel /\ Own(t) = task[t].letters
        /\ Own(t) \in Seq(Letters) /\ Resumes(t, Own(t))
    BY <1>2, ResumeResumes, RecordsAre DEF CreateFails, Own
  <2>2. Head(Own(t)) \in Safe'
    BY <1>2, <2>1 DEF CreateFails, Safe, Now
  <2>9. Carries
    BY <2>1, <2>2, ResumesCarries
  <2> QED
    BY <1>2, <2>9, KeptCarries DEF CreateFails
<1>3. ASSUME NEW t \in Tasks, Insert(t) PROVE Kept'
  <2>1. Sets(t, "enforce", task[t].letters) /\ task[t].pc = "insert" /\ channel' = channel
    BY <1>3, InsertSets DEF Insert
  <2>2. Own(t)' = Own(t)
    BY <2>1 DEF Sets, Own
  <2>9. Carries
    BY <2>1, <2>2, CarriesBy
  <2> QED
    BY <1>3, <2>9, KeptCarries DEF Insert
<1>4. ASSUME NEW t \in Tasks, Enforce(t) PROVE Kept'
  <2>1. /\ task[t].pc = "enforce" /\ channel' = channel /\ Own(t) = task[t].letters
        /\ Own(t) \in Seq(Letters)
    BY <1>4, EnforceSets, RecordsAre DEF Enforce, Own
  <2>2. ~Pruning(t) => Head(Own(t)) \in Safe'
    BY <2>1 DEF Owned, OwnedBy, Grows
  <2>9. Carries
    <3>3. CASE Resumes(t, Own(t))
      BY <2>1, <2>2, <3>3, ResumesCarries
    <3>4. CASE Sets(t, "evict", Own(t))
        <4>1. Own(t)' = Own(t)
        BY <3>4 DEF Sets, Own
        <4> QED
        BY <2>1, <3>4, <4>1, CarriesBy
    <3> QED
      BY <1>4, <2>1, <3>3, <3>4, EnforceSets
  <2> QED
    BY <1>4, <2>9, KeptCarries DEF Enforce
<1>5. ASSUME NEW t \in Tasks, Evict(t) PROVE Kept'
  <2>1. /\ task[t].pc = "evict" /\ channel' = channel /\ Own(t) = task[t].letters
        /\ Own(t) \in Seq(Letters)
    BY <1>5, EvictSets, RecordsAre DEF Evict, Own
  <2>2. ~Pruning(t) => Head(Own(t)) \in Safe'
    BY <2>1 DEF Owned, OwnedBy, Grows
  <2>9. Carries
    <3>3. CASE Resumes(t, Own(t))
      BY <2>1, <2>2, <3>3, ResumesCarries
    <3>4. CASE Sets(t, "evict", Own(t))
        <4>1. Own(t)' = Own(t)
        BY <3>4 DEF Sets, Own
        <4> QED
        BY <2>1, <3>4, <4>1, CarriesBy
    <3>5. ASSUME NEW i \in Letters, Evicts(t, i) PROVE Carries
      <4>1. Sets(t, "unlink_victim", <<i>> \o task[t].letters)
        BY <3>5 DEF Evicts
      <4>2. Tail(<<i>> \o task[t].letters) = task[t].letters
        BY <2>1, <3>5, InFront
      <4>3. Own(t)' = Own(t)
        BY <2>1, <4>1, <4>2 DEF Sets, Own
      <4> QED
        BY <2>1, <4>1, <4>3, CarriesBy
    <3> QED
      BY <1>5, <2>1, <3>3, <3>4, <3>5, EvictSets
  <2> QED
    BY <1>5, <2>9, KeptCarries DEF Evict
<1>6. ASSUME NEW t \in Tasks, UnlinkVictim(t) PROVE Kept'
  <2>1. /\ task[t].pc = "unlink_victim" /\ channel' = channel /\ Own(t) = Tail(task[t].letters)
        /\ Own(t) \in Seq(Letters)
    BY <1>6, UnlinkVictimSets DEF UnlinkVictim, Own
  <2>2. ~Pruning(t) => Head(Own(t)) \in Safe'
    BY <2>1 DEF Owned, OwnedBy, Grows
  <2>9. Carries
    <3>3. CASE Resumes(t, Own(t))
      BY <2>1, <2>2, <3>3, ResumesCarries
    <3>4. CASE Sets(t, "evict", Own(t))
        <4>1. Own(t)' = Own(t)
        BY <3>4 DEF Sets, Own
        <4> QED
        BY <2>1, <3>4, <4>1, CarriesBy
    <3> QED
      BY <1>6, <2>1, <3>3, <3>4, UnlinkVictimSets
  <2> QED
    BY <1>6, <2>9, KeptCarries DEF UnlinkVictim
<1>7. ASSUME NEW t \in Tasks, RemoveEntry(t) \/ Mark(t) \/ Truncate(t) PROVE Kept'
  <2>1. Pruning(t) /\ channel' = channel
    BY <1>7, TasksAre DEF RemoveEntry, Mark, Truncate, Shapes, Shape, Tasks, Pruning
  <2>2. \E pc, s : Sets(t, pc, s)
    BY <1>7, RemoveEntrySets, MarkSets, TruncateSets, ResumesSets DEF RemoveEntry, Mark,
       Truncate
  <2>9. Carries
    BY <2>1, <2>2, PruningCarries
  <2> QED
    BY <1>7, <2>9, KeptCarries DEF RemoveEntry, Mark, Truncate
<1>8. ASSUME NEW t \in Tasks, Unlink(t) \/ Rewrite(t) \/ TruncateFails(t) \/
            RewriteFails(t)
      PROVE  Kept'
  <2>1. Pruning(t) /\ channel' = channel
    BY <1>8, TasksAre DEF Unlink, Rewrite, TruncateFails, RewriteFails, Shapes, Shape,
       Tasks, Pruning
  <2>2. \E pc, s : Sets(t, pc, s)
    BY <1>8, ResumeResumes, ResumesSets DEF Unlink, Rewrite, TruncateFails, RewriteFails
  <2>9. Carries
    BY <2>1, <2>2, PruningCarries
  <2> QED
    BY <1>8, <2>9, KeptCarries DEF Unlink, Rewrite, TruncateFails, RewriteFails
<1>9. ASSUME NEW i \in Letters, Push(i) PROVE Kept'
  <2>1. channel \in Seq(Letters) /\ task' = task
    BY <1>9 DEF Push, Types
  <2>2. ToSet(channel) \subseteq ToSet(channel') /\ i \in ToSet(channel') \cup excused'
    BY <1>9, <2>1, SetOfAppend DEF Push
  <2>3. Own(Flusher)' = Own(Flusher)
    BY <2>1 DEF Own
  <2>4. Carries
    BY <2>1, <2>2, <2>3 DEF Carries
  <2>5. KeptUsage(i)'
    BY <2>2 DEF KeptUsage, Safe
  <2>6. \A j \in Letters : kind'[j] = kind[j] \/ (j = i /\ kind'[j] = "usage_log")
    BY <1>9 DEF Push, Types
  <2> QED
    BY <2>4, <2>5, <2>6, KeptCarries
<1>10. ASSUME NEW i \in Letters, Enqueue(i) PROVE Kept'
  <2>1. PICK pc \in {"queued", "create"} : \E s : Sets(i, pc, s)
    BY <1>10, EnqueueSets
  <2>2. i \in Tasks /\ i # Flusher /\ channel' = channel
    BY <1>10, TasksAre DEF Enqueue
  <2>3. Carries
    BY <2>1, <2>2, CarriesBy
  <2>4. KeptEvent(i)'
    BY <2>1 DEF KeptEvent, Sets
  <2>6. \A j \in Letters : kind'[j] = kind[j] \/ (j = i /\ kind'[j] = "webhook")
    BY <1>10 DEF Enqueue, Types
  <2> QED
    BY <2>3, <2>4, <2>6, KeptCarries
<1>11. ASSUME NEW i \in Letters, Deliver(i) PROVE Kept'
  <2>1. i \in Tasks /\ i # Flusher /\ channel' = channel
    BY <1>11, TasksAre DEF Deliver
  <2>2. CASE i \in delivered' /\ Resumes(i, task[i].letters)
    <3>1. i \in Safe' /\ \E pc, s : Sets(i, pc, s)
      BY <2>2, ResumesSets DEF Safe
    <3>2. Carries
      BY <2>1, <3>1, CarriesBy
    <3> QED
      BY <1>11, <3>2, KeptCarries DEF Deliver
  <2>3. CASE \E pc \in {"deliver", "create"} : Sets(i, pc, task[i].letters)
    <3>2. Carries
      BY <2>1, <2>3, CarriesBy
    <3> QED
      BY <1>11, <3>2, KeptCarries DEF Deliver
  <2> QED
    BY <1>11, <2>2, <2>3, DeliverSets
<1>12. ASSUME NEW i \in Letters, AdminRetry(i) \/ AdminDelete(i) PROVE Kept'
  <2>1. Admin \in Tasks /\ Pruning(Admin) /\ channel' = channel
    BY <1>12, TasksAre DEF AdminRetry, AdminDelete, Pruning
  <2>2. \E pc, s : Sets(Admin, pc, s)
    BY <1>12, <2>1, AdminRetrySets, AdminDeleteSets
  <2>9. Carries
    BY <2>1, <2>2, PruningCarries
  <2> QED
    BY <1>12, <2>9, KeptCarries DEF AdminRetry, AdminDelete
<1>13. CASE Drain
  <2>1. Flusher \in Tasks /\ task[Flusher].pc = "drain" /\ Flusher \notin Letters
    BY <1>13, TasksAre DEF Drain
  <2>2. /\ Own(Flusher) = task[Flusher].letters /\ Own(Flusher) \in Seq(Letters)
        /\ channel \in Seq(Letters)
    BY <2>1, RecordsAre DEF Own, Types
  <2>3. CASE /\ channel # <<>> /\ channel' = Tail(channel)
             /\ Sets(Flusher, "drain", Append(task[Flusher].letters, Head(channel)))
    <3>1. Own(Flusher)' = Append(Own(Flusher), Head(channel))
      BY <2>2, <2>3 DEF Sets, Own
    <3>2. ToSet(Own(Flusher)') = ToSet(Own(Flusher)) \cup {Head(channel)}
      BY <2>2, <3>1, SetOfAppend
    <3>3. ToSet(channel) = {Head(channel)} \cup ToSet(channel')
      BY <2>2, <2>3, SetOfTail
    <3>4. \A h \in Letters : task'[h].pc = task[h].pc
      BY <2>1, <2>3, TasksAre DEF Sets
    <3>5. Carries
      BY <3>2, <3>3, <3>4 DEF Carries
    <3> QED
      BY <1>13, <3>5, KeptCarries DEF Drain
  <2>4. CASE /\ channel' = channel
             /\ \E pc \in {"check", "write_batch"} : Sets(Flusher, pc, task[Flusher].letters)
    <3>1. Own(Flusher)' = Own(Flusher)
      BY <2>2, <2>4 DEF Sets, Own
    <3>2. Carries
      BY <2>1, <2>4, <3>1, CarriesBy
    <3> QED
      BY <1>13, <3>2, KeptCarries DEF Drain
  <2> QED
    BY <1>13, <2>3, <2>4, DrainSets
<1>14. CASE WriteBatch
  <2>1. /\ Flusher \in Tasks /\ Flusher \notin Letters /\ channel' = channel
        /\ Own(Flusher) = task[Flusher].letters
    BY <1>14, TasksAre DEF WriteBatch, Own
  <2>2. CASE /\ recorded' = recorded \cup ToSet(task[Flusher].letters)
             /\ Sets(Flusher, "check", <<>>)
    <3>1. ToSet(Own(Flusher)) \subseteq Safe'
      BY <2>1, <2>2 DEF Safe
    <3>2. Carries
      BY <2>1, <2>2, <3>1, CarriesBy
    <3> QED
      BY <1>14, <3>2, KeptCarries DEF WriteBatch
  <2>3. CASE Sets(Flusher, "create", task[Flusher].letters)
    <3>1. Own(Flusher)' = Own(Flusher)
      BY <2>1, <2>3 DEF Sets, Own
    <3>2. Carries
      BY <2>1, <2>3, <3>1, CarriesBy
    <3> QED
      BY <1>14, <3>2, KeptCarries DEF WriteBatch
  <2> QED
    BY <1>14, <2>2, <2>3, WriteBatchSets
<1>15. CASE CheckShutdown
  <2>1. /\ Flusher \in Tasks /\ Flusher \notin Letters /\ channel' = channel
        /\ Own(Flusher) = task[Flusher].letters
    BY <1>15, TasksAre DEF CheckShutdown, Own
  <2>2. \E pc \in {"drain", "exited"} : Sets(Flusher, pc, task[Flusher].letters)
    BY <1>15, CheckShutdownSets
  <2>3. Own(Flusher)' = Own(Flusher)
    BY <2>1, <2>2 DEF Sets, Own
  <2>9. Carries
    BY <2>1, <2>2, <2>3, CarriesBy
  <2> QED
    BY <1>15, <2>9, KeptCarries DEF CheckShutdown
<1>16. CASE Receive \/ AdminPurge \/ DbFails \/ DbReturns \/ Shutdown \/ UNCHANGED vars
  <2>1. UNCHANGED <<task, channel, kind>>
    BY <1>16 DEF Receive, AdminPurge, DbFails, DbReturns, Shutdown, vars
  <2>2. Carries
    BY <2>1 DEF Carries, Own
  <2> QED
    BY <2>1, <2>2, KeptCarries
<1>17. CASE Acquire
  <2>1. PICK h \in Letters : Sets(h, "deliver", <<h>>)
    BY <1>17, AcquireSets
  <2>2. h \in Tasks /\ h # Flusher /\ channel' = channel
    BY <1>17, TasksAre DEF Acquire
  <2>9. Carries
    BY <2>1, <2>2, CarriesBy
  <2> QED
    BY <1>17, <2>9, KeptCarries DEF Acquire
<1>18. ASSUME NEW ready \in SUBSET Letters, List(ready) PROVE Kept'
  <2>1. Worker \in Tasks /\ Pruning(Worker) /\ channel' = channel
    BY <1>18, TasksAre DEF List, Pruning
  <2>2. \E pc, s : Sets(Worker, pc, s)
    BY <1>18, <2>1, ListSets
  <2>9. Carries
    BY <2>1, <2>2, PruningCarries
  <2> QED
    BY <1>18, <2>9, KeptCarries DEF List
<1>19. CASE ProcessEntry
  <2>1. Worker \in Tasks /\ Pruning(Worker) /\ channel' = channel
    BY <1>19, TasksAre DEF ProcessEntry, Pruning
  <2>2. \E pc, s : Sets(Worker, pc, s)
    BY <1>19, <2>1, ProcessSets, ResumesSets DEF ProcessEntry
  <2>9. Carries
    BY <2>1, <2>2, PruningCarries
  <2> QED
    BY <1>19, <2>9, KeptCarries DEF ProcessEntry
<1>20. CASE PruneOld
  <2>1. Worker \in Tasks /\ Pruning(Worker) /\ channel' = channel
    BY <1>20, TasksAre DEF PruneOld, Pruning
  <2>2. \E pc, s : Sets(Worker, pc, s)
    BY <1>20, <2>1, PruneOldSets
  <2>9. Carries
    BY <2>1, <2>2, PruningCarries
  <2> QED
    BY <1>20, <2>9, KeptCarries DEF PruneOld
<1>21. CASE AdminProcess
  <2>1. Admin \in Tasks /\ Pruning(Admin) /\ channel' = channel
    BY <1>21, TasksAre DEF AdminProcess, Pruning
  <2>2. \E pc, s : Sets(Admin, pc, s)
    BY <1>21, <2>1, ProcessSets, ResumesSets DEF AdminProcess
  <2>9. Carries
    BY <2>1, <2>2, PruningCarries
  <2> QED
    BY <1>21, <2>9, KeptCarries DEF AdminProcess
<1>22. CASE AdminPrune
  <2>1. Admin \in Tasks /\ Pruning(Admin) /\ channel' = channel
    BY <1>22, TasksAre DEF AdminPrune, Pruning
  <2>2. \E pc, s : Sets(Admin, pc, s)
    BY <1>22, <2>1, AdminPruneSets
  <2>9. Carries
    BY <2>1, <2>2, PruningCarries
  <2> QED
    BY <1>22, <2>9, KeptCarries DEF AdminPrune
<1>23. CASE Restart
  <2>1. \A i \in Letters : kind'[i] # None => i \in Safe'
    BY <1>23 DEF Restart, Safe, Indexed, outVars, Types
  <2> QED
    BY <2>1 DEF Kept, KeptUsage, KeptEvent, None
<1> QED
  BY NextCases, <1>1, <1>2, <1>3, <1>4, <1>5, <1>6, <1>7, <1>8, <1>9, <1>10, <1>11, <1>12,
     <1>13, <1>14, <1>15, <1>16, <1>17, <1>18, <1>19, <1>20, <1>21, <1>22, <1>23

LEMMA InitKept == Init => Disposable /\ Owned /\ Kept
<1> SUFFICES ASSUME Init PROVE Disposable /\ Owned /\ Kept
  OBVIOUS
<1>1. task = Starts /\ \A i \in Letters : kind[i] = None
  BY DEF Init
<1>2. Disposable /\ Owned
  BY <1>1, StartsTyped DEF Disposable, DisposableBy, Owned, OwnedBy
<1>3. Kept
  BY <1>1 DEF Kept, None
<1> QED
  BY <1>2, <1>3

LEMMA KeptSuffices ==
  ASSUME Types, Shapes, Kept
  PROVE  NothingVanishes
<1> SUFFICES ASSUME NEW i \in Letters, kind[i] # None
             PROVE  i \in Carried \cup recorded \cup delivered \cup excused \cup Indexed
  BY DEF NothingVanishes
<1>1. kind[i] \in {"usage_log", "webhook"}
  BY DEF Types
<1>2. Flusher \in Tasks /\ Shape(Flusher) /\ task[Flusher].letters \in Seq(Letters)
  BY TasksAre, RecordsAre DEF Shapes
<1>3. ToSet(Own(Flusher)) \subseteq ToSet(task[Flusher].letters)
  <2>1. CASE task[Flusher].pc = "unlink_victim"
    BY <1>2, <2>1, SetOfTail DEF Own, Shape
  <2>2. CASE task[Flusher].pc # "unlink_victim"
    BY <2>2 DEF Own
  <2> QED
    BY <2>1, <2>2
<1>4. CASE kind[i] = "usage_log"
  BY <1>3, <1>4 DEF Kept, KeptUsage, Safe, Carried
<1>5. CASE kind[i] = "webhook"
  BY <1>5 DEF Kept, KeptEvent, Safe, Carried
<1> QED
  BY <1>1, <1>4, <1>5

(* No usage entry that push() took and no webhook event that enqueue() took
   vanishes without its loss being named, whatever the sizes of the buffer,
   the batches, the channel and the directory, and however often the process
   stops, the database fails or a write of the queue does not succeed.  The
   letter of a push is in its task until the index lists it; a letter only
   leaves the index when it was recorded or its removal named; a restart
   forgets what has no readable file, which is named too. *)
THEOREM NoneVanishes == Spec => []NothingVanishes
<1> DEFINE Inv == Types /\ Shapes /\ Disposable /\ Owned /\ Kept
<1>1. Init => Inv
  BY InitTypes, InitKept
<1>2. Inv /\ [Next]_vars => Inv'
  BY TypesStep, ShapesStep, DisposableStep, OwnedStep, KeptStep
<1>3. Inv => NothingVanishes
  BY KeptSuffices
<1> QED
  BY <1>1, <1>2, <1>3, PTL DEF Spec

-----------------------------------------------------------------------------
(* Sequences without repetition.                                             *)

LEMMA InjectiveAppend ==
  ASSUME NEW S, NEW s \in Seq(S), NEW x, IsInjective(s), x \notin ToSet(s)
  PROVE  IsInjective(Append(s, x))
<1>1. Len(Append(s, x)) = Len(s) + 1 /\ Append(s, x)[Len(s) + 1] = x
      /\ \A i \in 1 .. Len(s) : Append(s, x)[i] = s[i]
  OBVIOUS
<1>2. DOMAIN Append(s, x) = 1 .. Len(s) + 1 /\ DOMAIN s = 1 .. Len(s) /\ Len(s) \in Nat
  OBVIOUS
<1>3. \A i \in 1 .. Len(s) : s[i] # x
  BY <1>2 DEF ToSet
<1> QED
  BY <1>1, <1>2, <1>3 DEF IsInjective

LEMMA InjectiveTail ==
  ASSUME NEW S, NEW s \in Seq(S), s # <<>>, IsInjective(s)
  PROVE  IsInjective(Tail(s)) /\ Head(s) \notin ToSet(Tail(s))
<1>1. /\ Tail(s) \in Seq(S) /\ Len(s) \in Nat \ {0} /\ Head(s) = s[1]
      /\ DOMAIN s = 1 .. Len(s) /\ DOMAIN Tail(s) = 1 .. Len(s) - 1
      /\ \A i \in 1 .. Len(s) - 1 : Tail(s)[i] = s[i + 1]
  OBVIOUS
<1>2. \A i, j \in 1 .. Len(s) : s[i] = s[j] => i = j
  BY <1>1 DEF IsInjective
<1>3. IsInjective(Tail(s))
  BY <1>1, <1>2 DEF IsInjective
<1>4. \A i \in 1 .. Len(s) - 1 : Tail(s)[i] # Head(s)
  BY <1>1, <1>2
<1> QED
  BY <1>1, <1>3, <1>4 DEF ToSet

LEMMA InjectiveEmpty == IsInjective(<<>>)
BY DEF IsInjective

(* A sequence without repetition as long as a finite set is many has all of
   it. *)
LEMMA InjectiveCovers ==
  ASSUME NEW S, IsFiniteSet(S), NEW s \in Seq(S), IsInjective(s), Len(s) >= Cardinality(S)
  PROVE  ToSet(s) = S
<1>1. s \in [1 .. Len(s) -> S] /\ Len(s) \in Nat
  OBVIOUS
<1>2. s \in Injection(1 .. Len(s), S)
  BY <1>1 DEF Injection
<1>3. Cardinality(1 .. Len(s)) = Len(s)
  <2>1. 1 \in Int /\ Len(s) \in Int
    BY <1>1
  <2>2. Cardinality(1 .. Len(s)) = IF 1 > Len(s) THEN 0 ELSE Len(s) - 1 + 1
    BY <2>1, FS_Interval
  <2> QED
    BY <1>1, <2>2
<1>4. Cardinality(S) \in Nat
  BY FS_CardinalityType
<1>5. s \in Surjection(1 .. Len(s), S)
  BY <1>1, <1>2, <1>3, <1>4, FS_Injection
<1> QED
  BY <1>1, <1>5 DEF Surjection, ToSet

LEMMA TypedBySet ==
  ASSUME NEW S, NEW T, NEW s \in Seq(S), ToSet(s) \subseteq T
  PROVE  s \in Seq(T)
<1>1. s \in [1 .. Len(s) -> S] /\ Len(s) \in Nat /\ DOMAIN s = 1 .. Len(s)
  OBVIOUS
<1>2. \A i \in 1 .. Len(s) : s[i] \in T
  BY <1>1 DEF ToSet
<1>3. s \in [1 .. Len(s) -> T]
  BY <1>1, <1>2
<1> QED
  BY <1>1, <1>3

-----------------------------------------------------------------------------
(* What the flush worker has still to push, and what was pushed.             *)

Todo ==
  CASE task[Flusher].pc \in {"drain", "write_batch", "create"} -> task[Flusher].letters
    [] task[Flusher].pc \in {"insert", "enforce", "evict", "unlink_victim"} -> Tail(Own(Flusher))
    [] OTHER -> <<>>

(* The batch and the buffer hold different entries, none of which is a dead
   letter yet. *)
Fresh ==
  /\ IsInjective(Todo) /\ IsInjective(channel) /\ ToSet(Todo) \cap ToSet(channel) = {}
  /\ ToSet(Todo) \cup ToSet(channel) \subseteq Usage \ ToSet(born)

(* A letter is pushed to the dead-letter queue once. *)
BornOnce == IsInjective(born) /\ ToSet(born) \subseteq Usage \cup Events

(* Only an event has a task, and it is no dead letter before its push. *)
EventBy(h) ==
  /\ task[h].pc # "done" => h \in Events
  /\ task[h].pc \in {"queued", "deliver", "create"} => h \notin ToSet(born)
Eventful == \A h \in Letters : EventBy(h)

(* The dispatcher's channel, and the event it has taken from there. *)
Queued == {h \in Letters : task[h].pc = "queued"}
InLine ==
  /\ IsInjective(queue) /\ drainer \notin ToSet(queue)
  /\ ToSet(queue) \cup ({drainer} \ {None}) \subseteq Queued

(* Usage is recorded, events are delivered. *)
Sorted == permits \subseteq Events /\ recorded \subseteq Usage /\ delivered \subseteq Events

KindsGrow == Usage \subseteq Usage' /\ Events \subseteq Events'

LEMMA KindsDiffer == Usage \cap Events = {} /\ Usage \subseteq Letters /\ Events \subseteq Letters
BY DEF Usage, Events

LEMMA SameKinds ==
  ASSUME kind' = kind
  PROVE  KindsGrow
BY DEF KindsGrow, Usage, Events

LEMMA NewKinds ==
  ASSUME Types, NEW i \in Letters, kind[i] = None, NEW k, kind' = [kind EXCEPT ![i] = k]
  PROVE  KindsGrow
<1>1. \A j \in Letters : kind[j] # None => kind'[j] = kind[j]
  BY DEF Types
<1> QED
  BY <1>1 DEF KindsGrow, Usage, Events, None

(* A letter keeps its kind. *)
LEMMA KindsStep ==
  ASSUME Types, [Next]_vars
  PROVE  KindsGrow
<1>1. ASSUME NEW t \in Tasks, Create(t) \/ CreateFails(t) \/ Insert(t) \/ Enforce(t) \/
            Evict(t) \/ UnlinkVictim(t) \/ RemoveEntry(t) \/ Unlink(t) \/ Mark(t) \/
            Truncate(t) \/ Rewrite(t) \/ TruncateFails(t) \/ RewriteFails(t)
      PROVE  KindsGrow
  BY <1>1, SameKinds DEF Create, CreateFails, Insert, Enforce, Evict, UnlinkVictim,
     RemoveEntry, Unlink, Mark, Truncate, Rewrite, TruncateFails, RewriteFails
<1>2. ASSUME NEW i \in Letters, Push(i) \/ Enqueue(i) PROVE KindsGrow
  BY <1>2, NewKinds DEF Push, Enqueue
<1>3. ASSUME NEW i \in Letters, Deliver(i) \/ AdminRetry(i) \/ AdminDelete(i)
      PROVE  KindsGrow
  BY <1>3, SameKinds DEF Deliver, AdminRetry, AdminDelete
<1>4. CASE Drain \/ WriteBatch \/ CheckShutdown \/ Receive \/ Acquire \/ ProcessEntry \/
          PruneOld \/ AdminProcess \/ AdminPrune \/ AdminPurge \/ DbFails \/ DbReturns
          \/ Shutdown \/ Restart \/ UNCHANGED vars
  BY <1>4, SameKinds DEF Drain, WriteBatch, CheckShutdown, Receive, Acquire, ProcessEntry,
     PruneOld, AdminProcess, AdminPrune, AdminPurge, DbFails, DbReturns, Shutdown,
     Restart, vars
<1>5. ASSUME NEW ready \in SUBSET Letters, List(ready) PROVE KindsGrow
  BY <1>5, SameKinds DEF List
<1> QED
  BY NextCases, <1>1, <1>2, <1>3, <1>4, <1>5

(* Todo is a sequence of letters. *)
LEMMA TodoTyped ==
  ASSUME Types, Shapes
  PROVE  Todo \in Seq(Letters)
<1>0. task[Flusher].letters \in Seq(Letters) /\ <<>> \in Seq(Letters) /\ Shape(Flusher)
  BY TasksAre, RecordsAre DEF Shapes
<1>1. CASE task[Flusher].pc \in {"insert", "enforce", "evict", "unlink_victim"}
  <2>1. Own(Flusher) # <<>>
    BY <1>0, <1>1 DEF Shape
  <2>2. Own(Flusher) \in Seq(Letters)
    BY <1>0 DEF Own, Shape
  <2>3. Tail(Own(Flusher)) \in Seq(Letters)
    BY <2>1, <2>2
  <2> QED
    BY <1>1, <2>3 DEF Todo
<1>2. CASE task[Flusher].pc \in {"drain", "write_batch", "create"}
  BY <1>0, <1>2 DEF Todo
<1>3. CASE task[Flusher].pc \notin {"insert", "enforce", "evict", "unlink_victim",
                                     "drain", "write_batch", "create"}
  BY <1>0, <1>3 DEF Todo
<1> QED
  BY <1>1, <1>2, <1>3

(* What a step of the flush worker makes of it. *)
LEMMA TodoBatch ==
  ASSUME NEW pc \in {"drain", "write_batch", "create"}, NEW s, Sets(Flusher, pc, s)
  PROVE  Todo' = s
BY DEF Sets, Todo

LEMMA TodoPushed ==
  ASSUME NEW pc \in {"insert", "enforce", "evict", "unlink_victim"}, task'[Flusher].pc = pc
  PROVE  Todo' = Tail(Own(Flusher)')
BY DEF Todo

LEMMA TodoNone ==
  ASSUME NEW pc \in {"check", "exited"}, NEW s, Sets(Flusher, pc, s)
  PROVE  Todo' = <<>>
BY DEF Sets, Todo

LEMMA TodoOthers ==
  ASSUME NEW t \in Tasks \ {Flusher}, NEW pc, NEW s, Sets(t, pc, s)
  PROVE  Todo' = Todo
<1>1. task'[Flusher] = task[Flusher]
  BY TasksAre DEF Sets
<1> QED
  BY <1>1 DEF Todo, Own

LEMMA TodoResumes ==
  ASSUME Shapes, NEW t \in Tasks, NEW s, Resumes(t, s),
         t = Flusher => s = Own(t) /\ task[t].pc \in {"create", "insert", "enforce", "evict",
                                                      "unlink_victim"}
  PROVE  \/ Todo' = Todo /\ (t = Flusher => task[t].pc # "create")
         \/ task[t].pc = "create" /\ Todo # <<>> /\ Todo' = Tail(Todo)
<1>1. CASE t # Flusher
  BY <1>1, ResumesSets, TodoOthers
<1>2. CASE t = Flusher
  <2>1. Own(t) # <<>>
    BY <1>2 DEF Shapes, Shape
  <2>2. Rest(Own(t)) = Tail(Own(t))
    BY <2>1 DEF Rest
  <2>3. Todo' = Tail(Own(t))
    <3>1. CASE Rest(Own(t)) = <<>> /\ Sets(t, "check", <<>>)
      BY <1>2, <2>2, <3>1, TodoNone
    <3>2. CASE Sets(t, "create", Rest(Own(t)))
      BY <1>2, <2>2, <3>2, TodoBatch
    <3> QED
      BY <1>2, <3>1, <3>2, TasksAre DEF Resumes
  <2>4. CASE task[t].pc = "create"
    <3>1. Todo = task[t].letters /\ Own(t) = task[t].letters
      BY <1>2, <2>4 DEF Todo, Own
    <3> QED
      BY <2>1, <2>3, <2>4, <3>1
  <2>5. CASE task[t].pc \in {"insert", "enforce", "evict", "unlink_victim"}
    <3>1. Todo = Tail(Own(t))
      BY <1>2, <2>5 DEF Todo
    <3> QED
      BY <2>3, <2>5, <3>1
  <2> QED
    BY <1>2, <2>4, <2>5
<1> QED
  BY <1>1, <1>2

TodoShrinks ==
  \/ Todo' = Todo
  \/ Todo' = <<>>
  \/ Todo # <<>> /\ Todo' = Tail(Todo)

LEMMA FreshKept ==
  ASSUME Types, Shapes, Fresh, KindsGrow, TodoShrinks, channel' = channel, born' = born
  PROVE  Fresh'
<1>1. Todo \in Seq(Letters)
  BY TodoTyped
<1>2. IsInjective(Todo) /\ IsInjective(Todo')
  BY <1>1, InjectiveTail, InjectiveEmpty DEF Fresh, TodoShrinks
<1>3. ToSet(Todo') \subseteq ToSet(Todo)
  BY <1>1, SetOfTail, SetOfEmpty DEF TodoShrinks
<1> QED
  BY <1>2, <1>3 DEF Fresh, KindsGrow

(* A task that stays inside its push. *)
LEMMA TodoStays ==
  ASSUME NEW t \in Tasks, NEW pc, NEW s, Sets(t, pc, s),
         t = Flusher => /\ {pc, task[t].pc} \subseteq {"insert", "enforce", "evict", "unlink_victim"}
                        /\ Own(t)' = Own(t)
  PROVE  TodoShrinks
<1>1. CASE t # Flusher
  BY <1>1, TodoOthers DEF TodoShrinks
<1>2. CASE t = Flusher
  <2>1. Todo = Tail(Own(Flusher))
    BY <1>2 DEF Todo
  <2>2. Todo' = Tail(Own(Flusher)')
    BY <1>2, TodoPushed DEF Sets
  <2> QED
    BY <1>2, <2>1, <2>2 DEF TodoShrinks
<1> QED
  BY <1>1, <1>2

LEMMA TodoElsewhere ==
  ASSUME NEW t \in Tasks, t # Flusher, \E pc, s : Sets(t, pc, s)
  PROVE  TodoShrinks
BY TodoOthers DEF TodoShrinks

(* The letter that is pushed is new to the queue. *)
LEMMA CreateNew ==
  ASSUME Types, Shapes, Fresh, Eventful, NEW t \in Tasks, task[t].pc = "create"
  PROVE  /\ Now(t) \in Letters /\ Now(t) \notin ToSet(born)
         /\ t = Flusher => Todo # <<>> /\ Now(t) = Head(Todo) /\ Now(t) \in Usage
         /\ t # Flusher => t \in Letters /\ Now(t) = t /\ t \in Events
<1>1. ~Pruning(t)
  BY Pushers
<1>2. /\ task[t].letters \in Seq(Letters) /\ task[t].letters # <<>>
      /\ Now(t) \in Letters /\ (t \in Letters => Now(t) = t)
  BY <1>1, PushedLetter
<1>3. CASE t = Flusher
  <2>1. Todo = task[t].letters
    BY <1>3 DEF Todo
  <2>2. Now(t) \in ToSet(Todo)
    BY <1>2, <2>1, SetOfTail DEF Now
  <2> QED
    BY <1>2, <1>3, <2>1, <2>2 DEF Fresh, Now
<1>4. CASE t # Flusher
  <2>1. t \in Letters
    BY <1>1, <1>4 DEF Tasks, Pruning
  <2> QED
    BY <1>2, <1>4, <2>1 DEF Eventful, EventBy
<1> QED
  BY <1>3, <1>4

(* Every step keeps the batch and the buffer fresh. *)
LEMMA FreshStep ==
  ASSUME Types, Shapes, Fresh, BornOnce, Eventful, [Next]_vars
  PROVE  Fresh'
<1>1. ASSUME NEW t \in Tasks, Create(t) PROVE Fresh'
  <2>1. /\ Now(t) \in Letters /\ Now(t) \notin ToSet(born)
        /\ t = Flusher => Todo # <<>> /\ Now(t) = Head(Todo) /\ Now(t) \in Usage
        /\ t # Flusher => t \in Letters /\ Now(t) = t /\ t \in Events
    BY <1>1, CreateNew DEF Create
  <2>2. /\ channel' = channel /\ born' = Append(born, Now(t)) /\ born \in Seq(Letters)
        /\ Todo \in Seq(Letters) /\ KindsGrow
    BY <1>1, KindsStep, TodoTyped DEF Create, Types
  <2>3. ToSet(born') = ToSet(born) \cup {Now(t)}
    BY <2>2, SetOfAppend
  <2>4. Sets(t, "insert", task[t].letters) /\ task[t].pc = "create"
    BY <1>1, CreateSets DEF Create
  <2>5. CASE t = Flusher
    <3>1. Todo = task[t].letters /\ Own(t)' = task[t].letters
      BY <2>4, <2>5 DEF Todo, Own, Sets
    <3>2. Todo' = Tail(Todo)
      BY <2>4, <2>5, <3>1, TodoPushed DEF Sets
    <3>3. IsInjective(Todo') /\ Head(Todo) \notin ToSet(Todo')
      BY <2>1, <2>2, <2>5, <3>2, InjectiveTail DEF Fresh
    <3>4. ToSet(Todo) = {Head(Todo)} \cup ToSet(Todo')
      BY <2>1, <2>2, <2>5, <3>2, SetOfTail
    <3> QED
      BY <2>1, <2>2, <2>3, <2>5, <3>3, <3>4 DEF Fresh, KindsGrow
  <2>6. CASE t # Flusher
    <3>1. Todo' = Todo
      BY <2>4, <2>6, TodoOthers
    <3>2. Now(t) \notin Usage
      BY <2>1, <2>6, KindsDiffer
    <3> QED
      BY <2>2, <2>3, <3>1, <3>2 DEF Fresh, KindsGrow
  <2> QED
    BY <2>5, <2>6
<1>2. ASSUME NEW t \in Tasks, CreateFails(t) PROVE Fresh'
  <2>1. /\ Now(t) \in Letters /\ Now(t) \notin ToSet(born)
        /\ t = Flusher => Todo # <<>> /\ Now(t) = Head(Todo) /\ Now(t) \in Usage
        /\ t # Flusher => t \in Letters /\ Now(t) = t /\ t \in Events
    BY <1>2, CreateNew DEF CreateFails
  <2>2. /\ channel' = channel /\ born' = Append(born, Now(t)) /\ born \in Seq(Letters)
        /\ Todo \in Seq(Letters) /\ KindsGrow
    BY <1>2, KindsStep, TodoTyped DEF CreateFails, Types
  <2>3. ToSet(born') = ToSet(born) \cup {Now(t)}
    BY <2>2, SetOfAppend
  <2>4. task[t].pc = "create" /\ Own(t) = task[t].letters /\ Resumes(t, task[t].letters)
    BY <1>2, ResumeResumes DEF CreateFails, Own
  <2>5. CASE t = Flusher
    <3>2. Todo' = Tail(Todo)
      BY <2>4, <2>5, TodoResumes
    <3>3. IsInjective(Todo') /\ Head(Todo) \notin ToSet(Todo')
      BY <2>1, <2>2, <2>5, <3>2, InjectiveTail DEF Fresh
    <3>4. ToSet(Todo) = {Head(Todo)} \cup ToSet(Todo')
      BY <2>1, <2>2, <2>5, <3>2, SetOfTail
    <3> QED
      BY <2>1, <2>2, <2>3, <2>5, <3>3, <3>4 DEF Fresh, KindsGrow
  <2>6. CASE t # Flusher
    <3>1. Todo' = Todo
      BY <2>4, <2>6, ResumesSets, TodoOthers
    <3>2. Now(t) \notin Usage
      BY <2>1, <2>6, KindsDiffer
    <3> QED
      BY <2>2, <2>3, <3>1, <3>2 DEF Fresh, KindsGrow
  <2> QED
    BY <2>5, <2>6
<1>3. ASSUME NEW t \in Tasks, Insert(t) PROVE Fresh'
  <2>1. task[t].pc = "insert" /\ Sets(t, "enforce", task[t].letters)
    BY <1>3, InsertSets DEF Insert
  <2>2. Own(t)' = Own(t)
    BY <2>1 DEF Sets, Own
  <2>8. TodoShrinks
    BY <2>1, <2>2, TodoStays
  <2>9. channel' = channel /\ born' = born
    BY <1>3 DEF Insert, dlqVars
  <2> QED
    BY <2>8, <2>9, KindsStep, FreshKept
<1>4. ASSUME NEW t \in Tasks, Enforce(t) PROVE Fresh'
  <2>1. task[t].pc = "enforce" /\ Own(t) = task[t].letters
    BY <1>4 DEF Enforce, Own
  <2>8. TodoShrinks
    <3>1. CASE Resumes(t, Own(t))
      BY <2>1, <3>1, TodoResumes DEF TodoShrinks
    <3>2. CASE Sets(t, "evict", Own(t))
      <4>1. Own(t)' = Own(t)
        BY <3>2 DEF Sets, Own
      <4> QED
        BY <2>1, <3>2, <4>1, TodoStays
    <3> QED
      BY <1>4, <2>1, <3>1, <3>2, EnforceSets
  <2>9. channel' = channel /\ born' = born
    BY <1>4 DEF Enforce, dlqVars
  <2> QED
    BY <2>8, <2>9, KindsStep, FreshKept
<1>5. ASSUME NEW t \in Tasks, Evict(t) PROVE Fresh'
  <2>1. task[t].pc = "evict" /\ Own(t) = task[t].letters
    BY <1>5 DEF Evict, Own
  <2>8. TodoShrinks
    <3>1. CASE Resumes(t, Own(t))
      BY <2>1, <3>1, TodoResumes DEF TodoShrinks
    <3>2. CASE Sets(t, "evict", Own(t))
      <4>1. Own(t)' = Own(t)
        BY <3>2 DEF Sets, Own
      <4> QED
        BY <2>1, <3>2, <4>1, TodoStays
    <3>3. ASSUME NEW i \in Letters, Evicts(t, i) PROVE TodoShrinks
      <4>1. Sets(t, "unlink_victim", <<i>> \o task[t].letters)
        BY <3>3 DEF Evicts
      <4>2. Tail(<<i>> \o task[t].letters) = task[t].letters
        BY <3>3, RecordsAre, InFront
      <4>3. Own(t)' = Own(t)
        BY <2>1, <4>1, <4>2 DEF Sets, Own
      <4> QED
        BY <2>1, <4>1, <4>3, TodoStays
    <3> QED
      BY <1>5, <2>1, <3>1, <3>2, <3>3, EvictSets
  <2>9. channel' = channel /\ born' = born
    BY <1>5 DEF Evict, dlqVars
  <2> QED
    BY <2>8, <2>9, KindsStep, FreshKept
<1>6. ASSUME NEW t \in Tasks, UnlinkVictim(t) PROVE Fresh'
  <2>1. task[t].pc = "unlink_victim" /\ Own(t) = Tail(task[t].letters)
    BY <1>6 DEF UnlinkVictim, Own
  <2>8. TodoShrinks
    <3>1. CASE Resumes(t, Own(t))
      BY <2>1, <3>1, TodoResumes DEF TodoShrinks
    <3>2. CASE Sets(t, "evict", Own(t))
      <4>1. Own(t)' = Own(t)
        BY <3>2 DEF Sets, Own
      <4> QED
        BY <2>1, <3>2, <4>1, TodoStays
    <3> QED
      BY <1>6, <2>1, <3>1, <3>2, UnlinkVictimSets
  <2>9. channel' = channel /\ born' = born
    BY <1>6 DEF UnlinkVictim, dlqVars
  <2> QED
    BY <2>8, <2>9, KindsStep, FreshKept
<1>7. ASSUME NEW t \in Tasks, RemoveEntry(t) \/ Mark(t) \/ Truncate(t) PROVE Fresh'
  <2>1. t # Flusher
    BY <1>7, TasksAre DEF RemoveEntry, Mark, Truncate, Shapes, Shape
  <2>2. \E pc, s : Sets(t, pc, s)
    BY <1>7, RemoveEntrySets, MarkSets, TruncateSets, ResumesSets DEF RemoveEntry, Mark,
       Truncate
  <2>8. TodoShrinks
    BY <2>1, <2>2, TodoElsewhere
  <2>9. channel' = channel /\ born' = born
    BY <1>7 DEF RemoveEntry, Mark, Truncate, dlqVars
  <2> QED
    BY <2>8, <2>9, KindsStep, FreshKept
<1>8. ASSUME NEW t \in Tasks, Unlink(t) \/ Rewrite(t) \/ TruncateFails(t) \/
            RewriteFails(t)
      PROVE  Fresh'
  <2>1. t # Flusher
    BY <1>8, TasksAre DEF Unlink, Rewrite, TruncateFails, RewriteFails, Shapes, Shape
  <2>2. \E pc, s : Sets(t, pc, s)
    BY <1>8, ResumeResumes, ResumesSets DEF Unlink, Rewrite, TruncateFails, RewriteFails
  <2>8. TodoShrinks
    BY <2>1, <2>2, TodoElsewhere
  <2>9. channel' = channel /\ born' = born
    BY <1>8 DEF Unlink, Rewrite, TruncateFails, RewriteFails, dlqVars
  <2> QED
    BY <2>8, <2>9, KindsStep, FreshKept
<1>9. ASSUME NEW i \in Letters, Push(i) PROVE Fresh'
  <2>1. /\ kind[i] = None /\ task' = task /\ born' = born
        /\ channel' = channel \/ channel' = Append(channel, i)
    BY <1>9 DEF Push, dlqVars
  <2>2. Todo' = Todo
    BY <2>1 DEF Todo, Own
  <2>3. CASE channel' = channel
    BY <2>1, <2>2, <2>3, KindsStep, FreshKept DEF TodoShrinks
  <2>4. CASE channel' = Append(channel, i)
    <3>1. i \notin Usage \cup Events /\ i \in Usage'
      BY <1>9, <2>1 DEF Usage, Events, None, Push, Types
    <3>2. channel \in Seq(Letters)
      BY DEF Types
    <3>3. i \notin ToSet(channel) /\ i \notin ToSet(Todo) /\ i \notin ToSet(born)
      BY <3>1 DEF Fresh, BornOnce
    <3>4. ToSet(channel') = ToSet(channel) \cup {i} /\ IsInjective(channel')
      BY <2>4, <3>2, <3>3, SetOfAppend, InjectiveAppend DEF Fresh
    <3>5. KindsGrow
      BY KindsStep
    <3> QED
      BY <2>1, <2>2, <3>1, <3>3, <3>4, <3>5 DEF Fresh, KindsGrow
  <2> QED
    BY <2>1, <2>3, <2>4
<1>10. ASSUME NEW i \in Letters, Enqueue(i) PROVE Fresh'
  <2>1. i \in Tasks /\ i # Flusher
    BY TasksAre
  <2>2. \E pc, s : Sets(i, pc, s)
    BY <1>10, <2>1, EnqueueSets
  <2>8. TodoShrinks
    BY <2>1, <2>2, TodoElsewhere
  <2>9. channel' = channel /\ born' = born
    BY <1>10 DEF Enqueue, dlqVars
  <2> QED
    BY <2>8, <2>9, KindsStep, FreshKept
<1>11. ASSUME NEW i \in Letters, Deliver(i) PROVE Fresh'
  <2>1. i \in Tasks /\ i # Flusher
    BY TasksAre
  <2>2. \E pc, s : Sets(i, pc, s)
    BY <1>11, <2>1, DeliverSets, ResumesSets
  <2>8. TodoShrinks
    BY <2>1, <2>2, TodoElsewhere
  <2>9. channel' = channel /\ born' = born
    BY <1>11 DEF Deliver, dlqVars
  <2> QED
    BY <2>8, <2>9, KindsStep, FreshKept
<1>12. ASSUME NEW i \in Letters, AdminRetry(i) \/ AdminDelete(i) PROVE Fresh'
  <2>1. Admin \in Tasks /\ Admin # Flusher
    BY TasksAre
  <2>2. \E pc, s : Sets(Admin, pc, s)
    BY <1>12, <2>1, AdminRetrySets, AdminDeleteSets
  <2>8. TodoShrinks
    BY <2>1, <2>2, TodoElsewhere
  <2>9. channel' = channel /\ born' = born
    BY <1>12 DEF AdminRetry, AdminDelete, dlqVars
  <2> QED
    BY <2>8, <2>9, KindsStep, FreshKept
<1>13. CASE Drain
  <2>1. /\ Todo = task[Flusher].letters /\ Todo \in Seq(Letters)
        /\ channel \in Seq(Letters) /\ born' = born /\ KindsGrow
    BY <1>13, TodoTyped, KindsStep DEF Drain, Todo, Types, dlqVars
  <2>2. CASE /\ channel # <<>> /\ channel' = Tail(channel)
             /\ Sets(Flusher, "drain", Append(task[Flusher].letters, Head(channel)))
    <3>1. Todo' = Append(Todo, Head(channel))
      BY <2>1, <2>2, TodoBatch
    <3>2. /\ ToSet(channel) = {Head(channel)} \cup ToSet(channel')
          /\ IsInjective(channel') /\ Head(channel) \notin ToSet(channel')
      BY <2>1, <2>2, SetOfTail, InjectiveTail DEF Fresh
    <3>3. Head(channel) \notin ToSet(Todo)
      BY <3>2 DEF Fresh
    <3>4. ToSet(Todo') = ToSet(Todo) \cup {Head(channel)} /\ IsInjective(Todo')
      BY <2>1, <3>1, <3>3, SetOfAppend, InjectiveAppend DEF Fresh
    <3> QED
      BY <2>1, <3>2, <3>4 DEF Fresh, KindsGrow
  <2>3. CASE /\ channel' = channel
             /\ Sets(Flusher, IF task[Flusher].letters = <<>> THEN "check" ELSE "write_batch",
                     task[Flusher].letters)
    <3>1. TodoShrinks
      BY <2>1, <2>3, TodoBatch, TodoNone DEF TodoShrinks
    <3> QED
      BY <2>1, <2>3, <3>1, FreshKept
  <2> QED
    BY <1>13, <2>2, <2>3, DrainSets
<1>14. CASE WriteBatch
  <2>1. Todo = task[Flusher].letters
    BY <1>14 DEF WriteBatch, Todo
  <2>8. TodoShrinks
    BY <1>14, <2>1, WriteBatchSets, TodoBatch, TodoNone DEF TodoShrinks
  <2>9. channel' = channel /\ born' = born
    BY <1>14 DEF WriteBatch, dlqVars
  <2> QED
    BY <2>8, <2>9, KindsStep, FreshKept
<1>15. CASE CheckShutdown
  <2>1. task[Flusher].letters = <<>>
    BY <1>15, TasksAre DEF CheckShutdown, Shapes, Shape
  <2>8. TodoShrinks
    BY <1>15, <2>1, CheckShutdownSets, TodoBatch, TodoNone DEF TodoShrinks
  <2>9. channel' = channel /\ born' = born
    BY <1>15 DEF CheckShutdown, dlqVars
  <2> QED
    BY <2>8, <2>9, KindsStep, FreshKept
<1>16. CASE Receive \/ AdminPurge \/ DbFails \/ DbReturns \/ Shutdown \/ UNCHANGED vars
  <2>1. task' = task /\ channel' = channel /\ born' = born
    BY <1>16 DEF Receive, AdminPurge, DbFails, DbReturns, Shutdown, vars, dlqVars
  <2>2. TodoShrinks
    BY <2>1 DEF TodoShrinks, Todo, Own
  <2> QED
    BY <2>1, <2>2, KindsStep, FreshKept
<1>17. CASE Acquire
  <2>1. PICK h \in Letters : Sets(h, "deliver", <<h>>)
    BY <1>17, AcquireSets
  <2>8. TodoShrinks
    BY <2>1, TasksAre, TodoElsewhere
  <2>9. channel' = channel /\ born' = born
    BY <1>17 DEF Acquire, dlqVars
  <2> QED
    BY <2>8, <2>9, KindsStep, FreshKept
<1>18. ASSUME NEW ready \in SUBSET Letters, List(ready) PROVE Fresh'
  <2>1. Worker \in Tasks /\ Worker # Flusher
    BY TasksAre
  <2>2. \E pc, s : Sets(Worker, pc, s)
    BY <1>18, <2>1, ListSets
  <2>8. TodoShrinks
    BY <2>1, <2>2, TodoElsewhere
  <2>9. channel' = channel /\ born' = born
    BY <1>18 DEF List, dlqVars
  <2> QED
    BY <2>8, <2>9, KindsStep, FreshKept
<1>19. CASE ProcessEntry
  <2>1. Worker \in Tasks /\ Worker # Flusher
    BY TasksAre
  <2>2. \E pc, s : Sets(Worker, pc, s)
    BY <1>19, <2>1, ProcessSets, ResumesSets DEF ProcessEntry
  <2>8. TodoShrinks
    BY <2>1, <2>2, TodoElsewhere
  <2>9. channel' = channel /\ born' = born
    BY <1>19 DEF ProcessEntry, dlqVars
  <2> QED
    BY <2>8, <2>9, KindsStep, FreshKept
<1>20. CASE PruneOld
  <2>1. Worker \in Tasks /\ Worker # Flusher
    BY TasksAre
  <2>2. \E pc, s : Sets(Worker, pc, s)
    BY <1>20, <2>1, PruneOldSets
  <2>8. TodoShrinks
    BY <2>1, <2>2, TodoElsewhere
  <2>9. channel' = channel /\ born' = born
    BY <1>20 DEF PruneOld, dlqVars
  <2> QED
    BY <2>8, <2>9, KindsStep, FreshKept
<1>21. CASE AdminProcess
  <2>1. Admin \in Tasks /\ Admin # Flusher
    BY TasksAre
  <2>2. \E pc, s : Sets(Admin, pc, s)
    BY <1>21, <2>1, ProcessSets, ResumesSets DEF AdminProcess
  <2>8. TodoShrinks
    BY <2>1, <2>2, TodoElsewhere
  <2>9. channel' = channel /\ born' = born
    BY <1>21 DEF AdminProcess, dlqVars
  <2> QED
    BY <2>8, <2>9, KindsStep, FreshKept
<1>22. CASE AdminPrune
  <2>1. Admin \in Tasks /\ Admin # Flusher
    BY TasksAre
  <2>2. \E pc, s : Sets(Admin, pc, s)
    BY <1>22, <2>1, AdminPruneSets
  <2>8. TodoShrinks
    BY <2>1, <2>2, TodoElsewhere
  <2>9. channel' = channel /\ born' = born
    BY <1>22 DEF AdminPrune, dlqVars
  <2> QED
    BY <2>8, <2>9, KindsStep, FreshKept
<1>23. CASE Restart
  <2>1. task' = Starts /\ channel' = <<>> /\ Todo' = <<>>
    BY <1>23, StartsTyped DEF Restart, Todo
  <2> QED
    BY <2>1, InjectiveEmpty, SetOfEmpty DEF Fresh
<1> QED
  BY NextCases, <1>1, <1>2, <1>3, <1>4, <1>5, <1>6, <1>7, <1>8, <1>9, <1>10, <1>11, <1>12,
     <1>13, <1>14, <1>15, <1>16, <1>17, <1>18, <1>19, <1>20, <1>21, <1>22, <1>23

LEMMA BornOnceStep ==
  ASSUME Types, Shapes, Fresh, BornOnce, Eventful, [Next]_vars
  PROVE  BornOnce'
<1>1. ASSUME NEW t \in Tasks, Create(t) \/ CreateFails(t) PROVE BornOnce'
  <2>1. Now(t) \in Letters /\ Now(t) \notin ToSet(born) /\ Now(t) \in Usage \cup Events
    BY <1>1, CreateNew DEF Create, CreateFails
  <2>2. born' = Append(born, Now(t)) /\ born \in Seq(Letters)
    BY <1>1 DEF Create, CreateFails, Types
  <2>3. ToSet(born') = ToSet(born) \cup {Now(t)} /\ IsInjective(born')
    BY <2>1, <2>2, SetOfAppend, InjectiveAppend DEF BornOnce
  <2> QED
    BY <2>1, <2>3, KindsStep DEF BornOnce, KindsGrow
<1>2. ASSUME NEW t \in Tasks, Insert(t) \/ Enforce(t) \/ Evict(t) \/ UnlinkVictim(t) \/
            RemoveEntry(t) \/ Unlink(t) \/ Mark(t) \/ Truncate(t) \/ Rewrite(t) \/
            TruncateFails(t) \/ RewriteFails(t)
      PROVE  BornOnce'
  <2>1. born' = born
    BY <1>2 DEF Insert, Enforce, Evict, UnlinkVictim, RemoveEntry, Unlink, Mark, Truncate,
       Rewrite, TruncateFails, RewriteFails, dlqVars
  <2> QED
    BY <2>1, KindsStep DEF BornOnce, KindsGrow
<1>3. ASSUME NEW i \in Letters, Push(i) \/ Enqueue(i) \/ Deliver(i) \/ AdminRetry(i) \/
            AdminDelete(i)
      PROVE  BornOnce'
  <2>1. born' = born
    BY <1>3 DEF Push, Enqueue, Deliver, AdminRetry, AdminDelete, dlqVars
  <2> QED
    BY <2>1, KindsStep DEF BornOnce, KindsGrow
<1>4. CASE Drain \/ WriteBatch \/ CheckShutdown \/ Receive \/ Acquire \/ ProcessEntry \/
          PruneOld \/ AdminProcess \/ AdminPrune \/ AdminPurge \/ DbFails \/ DbReturns
          \/ Shutdown \/ Restart \/ UNCHANGED vars
  <2>1. born' = born
    BY <1>4 DEF Drain, WriteBatch, CheckShutdown, Receive, Acquire, ProcessEntry,
       PruneOld, AdminProcess, AdminPrune, AdminPurge, DbFails, DbReturns, Shutdown,
       Restart, vars, dlqVars
  <2> QED
    BY <2>1, KindsStep DEF BornOnce, KindsGrow
<1>5. ASSUME NEW ready \in SUBSET Letters, List(ready) PROVE BornOnce'
  <2>1. born' = born
    BY <1>5 DEF List, dlqVars
  <2> QED
    BY <2>1, KindsStep DEF BornOnce, KindsGrow
<1> QED
  BY NextCases, <1>1, <1>2, <1>3, <1>4, <1>5

-----------------------------------------------------------------------------
(* The events' tasks.                                                        *)

LEMMA EventfulOthers ==
  ASSUME Eventful, KindsGrow, NEW t \in Tasks, NEW pc, NEW s, Sets(t, pc, s), born' = born,
         t \in Letters => EventBy(t)'
  PROVE  Eventful'
<1> SUFFICES ASSUME NEW h \in Letters PROVE EventBy(h)'
  BY DEF Eventful
<1>1. CASE h = t
  BY <1>1
<1>2. CASE h # t
  <2>1. task'[h] = task[h] /\ EventBy(h)
    BY <1>2, TasksAre DEF Sets, Eventful
  <2> QED
    BY <2>1 DEF EventBy, KindsGrow
<1> QED
  BY <1>1, <1>2

(* A task that ends, or goes on after its push, asks for nothing more. *)
LEMMA EventfulMoves ==
  ASSUME Eventful, KindsGrow, NEW t \in Tasks, NEW pc, NEW s, Sets(t, pc, s), born' = born,
         task[t].pc # "done",
         t \in Letters => pc \notin {"queued", "deliver", "create"}
  PROVE  Eventful'
<1>1. ASSUME t \in Letters PROVE EventBy(t)'
  BY <1>1 DEF Eventful, EventBy, Sets, KindsGrow
<1> QED
  BY <1>1, EventfulOthers

LEMMA EventfulResumes ==
  ASSUME Eventful, KindsGrow, NEW t \in Tasks, NEW s, Resumes(t, s), born' = born
  PROVE  Eventful'
<1>1. PICK pc, r : Sets(t, pc, r) /\ (t \in Letters => pc = "done")
  BY TasksAre DEF Resumes
<1>2. ASSUME t \in Letters PROVE EventBy(t)'
  BY <1>1, <1>2 DEF EventBy, Sets
<1> QED
  BY <1>1, <1>2, EventfulOthers

(* Every step keeps the events' tasks. *)
LEMMA EventfulStep ==
  ASSUME Types, Shapes, Fresh, BornOnce, Eventful, InLine, [Next]_vars
  PROVE  Eventful'
<1>1. ASSUME NEW t \in Tasks, Create(t) PROVE Eventful'
  <2>1. /\ Now(t) \notin ToSet(born)
        /\ t = Flusher => Now(t) \in Usage
        /\ t # Flusher => t \in Letters /\ Now(t) = t /\ t \in Events
    BY <1>1, CreateNew DEF Create
  <2>2. /\ born' = Append(born, Now(t)) /\ born \in Seq(Letters) /\ KindsGrow
        /\ Sets(t, "insert", task[t].letters)
    BY <1>1, KindsStep, CreateSets DEF Create, Types
  <2>3. ToSet(born') = ToSet(born) \cup {Now(t)}
    BY <2>2, SetOfAppend
  <2>4. ASSUME NEW h \in Letters PROVE EventBy(h)'
    <3>1. CASE h = t
      BY <2>1, <2>2, <3>1, TasksAre DEF EventBy, Sets, KindsGrow
    <3>2. CASE h # t
      <4>1. task'[h] = task[h] /\ EventBy(h)
        BY <2>2, <3>2, TasksAre DEF Sets, Eventful
      <4>2. task[h].pc # "done" => h # Now(t)
        BY <2>1, <3>2, <4>1, KindsDiffer DEF EventBy
      <4> QED
        BY <2>2, <2>3, <4>1, <4>2 DEF EventBy, KindsGrow
    <3> QED
      BY <3>1, <3>2
  <2> QED
    BY <2>4 DEF Eventful
<1>2. ASSUME NEW t \in Tasks, CreateFails(t) PROVE Eventful'
  <2>1. /\ Now(t) \notin ToSet(born)
        /\ t = Flusher => Now(t) \in Usage
        /\ t # Flusher => t \in Letters /\ Now(t) = t /\ t \in Events
    BY <1>2, CreateNew DEF CreateFails
  <2>2. /\ born' = Append(born, Now(t)) /\ born \in Seq(Letters) /\ KindsGrow
    BY <1>2, KindsStep DEF CreateFails, Types
  <2>5. Resumes(t, task[t].letters)
    BY <1>2, ResumeResumes DEF CreateFails
  <2>6. PICK pc, r : Sets(t, pc, r) /\ (t \in Letters => pc = "done")
    BY <2>5, TasksAre DEF Resumes
  <2>3. ToSet(born') = ToSet(born) \cup {Now(t)}
    BY <2>2, SetOfAppend
  <2>4. ASSUME NEW h \in Letters PROVE EventBy(h)'
    <3>1. CASE h = t
      BY <2>6, <3>1 DEF EventBy, Sets, KindsGrow
    <3>2. CASE h # t
      <4>1. task'[h] = task[h] /\ EventBy(h)
        BY <2>6, <3>2, TasksAre DEF Sets, Eventful
      <4>2. task[h].pc # "done" => h # Now(t)
        BY <2>1, <3>2, <4>1, KindsDiffer DEF EventBy
      <4> QED
        BY <2>2, <2>3, <4>1, <4>2 DEF EventBy, KindsGrow
    <3> QED
      BY <3>1, <3>2
  <2> QED
    BY <2>4 DEF Eventful
<1>3. ASSUME NEW t \in Tasks, Insert(t) PROVE Eventful'
  <2>1. task[t].pc = "insert" /\ born' = born
    BY <1>3 DEF Insert, dlqVars
  <2>2. \/ \E s : Resumes(t, s)
        \/ \E pc \in {"enforce"} : \E s : Sets(t, pc, s)
    BY <1>3, InsertSets
  <2> QED
    BY <2>1, <2>2, KindsStep, EventfulResumes, EventfulMoves
<1>4. ASSUME NEW t \in Tasks, Enforce(t) PROVE Eventful'
  <2>1. task[t].pc = "enforce" /\ born' = born
    BY <1>4 DEF Enforce, dlqVars
  <2>2. \/ \E s : Resumes(t, s)
        \/ \E pc \in {"evict"} : \E s : Sets(t, pc, s)
    BY <1>4, EnforceSets
  <2> QED
    BY <2>1, <2>2, KindsStep, EventfulResumes, EventfulMoves
<1>5. ASSUME NEW t \in Tasks, Evict(t) PROVE Eventful'
  <2>1. task[t].pc = "evict" /\ born' = born
    BY <1>5 DEF Evict, dlqVars
  <2>2. \/ \E s : Resumes(t, s)
        \/ \E pc \in {"evict", "unlink_victim"} : \E s : Sets(t, pc, s)
    BY <1>5, EvictSets DEF Evicts
  <2> QED
    BY <2>1, <2>2, KindsStep, EventfulResumes, EventfulMoves
<1>6. ASSUME NEW t \in Tasks, UnlinkVictim(t) PROVE Eventful'
  <2>1. task[t].pc = "unlink_victim" /\ born' = born
    BY <1>6 DEF UnlinkVictim, dlqVars
  <2>2. \/ \E s : Resumes(t, s)
        \/ \E pc \in {"evict"} : \E s : Sets(t, pc, s)
    BY <1>6, UnlinkVictimSets
  <2> QED
    BY <2>1, <2>2, KindsStep, EventfulResumes, EventfulMoves
<1>7. ASSUME NEW t \in Tasks, RemoveEntry(t) PROVE Eventful'
  <2>1. task[t].pc = "remove" /\ born' = born
    BY <1>7 DEF RemoveEntry, dlqVars
  <2>2. \/ \E s : Resumes(t, s)
        \/ \E pc \in {"unlink"} : \E s : Sets(t, pc, s)
    BY <1>7, RemoveEntrySets
  <2> QED
    BY <2>1, <2>2, KindsStep, EventfulResumes, EventfulMoves
<1>8. ASSUME NEW t \in Tasks, Unlink(t) \/ Rewrite(t) \/ TruncateFails(t) \/
            RewriteFails(t)
      PROVE  Eventful'
  <2>1. Resumes(t, task[t].letters) /\ born' = born
    BY <1>8, ResumeResumes DEF Unlink, Rewrite, TruncateFails, RewriteFails, dlqVars
  <2> QED
    BY <2>1, KindsStep, EventfulResumes
<1>9. ASSUME NEW t \in Tasks, Mark(t) PROVE Eventful'
  <2>1. task[t].pc = "mark" /\ born' = born
    BY <1>9 DEF Mark, dlqVars
  <2>2. \/ \E s : Resumes(t, s)
        \/ \E pc \in {"truncate"} : \E s : Sets(t, pc, s)
    BY <1>9, MarkSets
  <2> QED
    BY <2>1, <2>2, KindsStep, EventfulResumes, EventfulMoves
<1>10. ASSUME NEW t \in Tasks, Truncate(t) PROVE Eventful'
  <2>1. task[t].pc = "truncate" /\ born' = born
    BY <1>10 DEF Truncate, dlqVars
  <2>2. \/ \E s : Resumes(t, s)
        \/ \E pc \in {"rewrite"} : \E s : Sets(t, pc, s)
    BY <1>10, TruncateSets
  <2> QED
    BY <2>1, <2>2, KindsStep, EventfulResumes, EventfulMoves
<1>11. ASSUME NEW i \in Letters, Push(i) PROVE Eventful'
  <2>1. task' = task /\ born' = born
    BY <1>11 DEF Push, dlqVars
  <2> QED
    BY <2>1, KindsStep DEF Eventful, EventBy, KindsGrow
<1>12. ASSUME NEW i \in Letters, Enqueue(i) PROVE Eventful'
  <2>1. /\ kind[i] = None /\ i \in Events' /\ i \notin Usage \cup Events /\ born' = born
    BY <1>12 DEF Enqueue, Events, Usage, None, Types, dlqVars
  <2>2. i \in Tasks /\ \E pc, s : Sets(i, pc, s)
    BY <1>12, TasksAre, EnqueueSets
  <2>3. EventBy(i)'
    BY <2>1 DEF EventBy, BornOnce
  <2> QED
    BY <2>1, <2>2, <2>3, KindsStep, EventfulOthers
<1>13. ASSUME NEW i \in Letters, Deliver(i) PROVE Eventful'
  <2>1. i \in Tasks /\ task[i].pc = "deliver" /\ born' = born /\ KindsGrow
    BY <1>13, TasksAre, KindsStep DEF Deliver, dlqVars
  <2>2. CASE Resumes(i, task[i].letters)
    BY <2>1, <2>2, EventfulResumes
  <2>3. ASSUME NEW pc \in {"deliver", "create"}, Sets(i, pc, task[i].letters) PROVE Eventful'
    <3>1. EventBy(i)'
      BY <2>1, <2>3 DEF Eventful, EventBy, KindsGrow
    <3> QED
      BY <2>1, <2>3, <3>1, EventfulOthers
  <2> QED
    BY <1>13, <2>2, <2>3, DeliverSets
<1>14. ASSUME NEW i \in Letters, AdminRetry(i) \/ AdminDelete(i) PROVE Eventful'
  <2>1. Admin \in Tasks /\ Admin \notin Letters /\ born' = born
    BY <1>14, TasksAre DEF AdminRetry, AdminDelete, dlqVars
  <2>2. \E pc, s : Sets(Admin, pc, s)
    BY <1>14, <2>1, AdminRetrySets, AdminDeleteSets
  <2> QED
    BY <2>1, <2>2, KindsStep, EventfulOthers
<1>15. CASE Drain \/ WriteBatch \/ CheckShutdown
  <2>1. Flusher \in Tasks /\ Flusher \notin Letters /\ born' = born
    BY <1>15, TasksAre DEF Drain, WriteBatch, CheckShutdown, dlqVars
  <2>2. \E pc, s : Sets(Flusher, pc, s)
    BY <1>15, <2>1, DrainSets, WriteBatchSets, CheckShutdownSets
  <2> QED
    BY <2>1, <2>2, KindsStep, EventfulOthers
<1>16. CASE Receive \/ AdminPurge \/ DbFails \/ DbReturns \/ Shutdown \/ UNCHANGED vars
  <2>1. task' = task /\ born' = born
    BY <1>16 DEF Receive, AdminPurge, DbFails, DbReturns, Shutdown, vars, dlqVars
  <2> QED
    BY <2>1, KindsStep DEF Eventful, EventBy, KindsGrow
<1>17. CASE Acquire
  <2>1. PICK h \in Letters : h = drainer /\ Sets(h, "deliver", <<h>>)
    BY <1>17, AcquireSets
  <2>2. h \in Queued /\ born' = born /\ KindsGrow
    BY <1>17, <2>1, TasksAre, KindsStep DEF InLine, Acquire, dlqVars
  <2>3. EventBy(h)'
    BY <2>2 DEF Queued, Eventful, EventBy, KindsGrow
  <2> QED
    BY <2>1, <2>2, <2>3, TasksAre, EventfulOthers
<1>18. ASSUME NEW ready \in SUBSET Letters, List(ready) PROVE Eventful'
  <2>1. Worker \in Tasks /\ Worker \notin Letters /\ born' = born
    BY <1>18, TasksAre DEF List, dlqVars
  <2>2. \E pc, s : Sets(Worker, pc, s)
    BY <1>18, <2>1, ListSets
  <2> QED
    BY <2>1, <2>2, KindsStep, EventfulOthers
<1>19. CASE ProcessEntry
  <2>1. Worker \in Tasks /\ Worker \notin Letters /\ born' = born
    BY <1>19, TasksAre DEF ProcessEntry, dlqVars
  <2>2. \E pc, s : Sets(Worker, pc, s)
    BY <1>19, <2>1, ProcessSets, ResumesSets DEF ProcessEntry
  <2> QED
    BY <2>1, <2>2, KindsStep, EventfulOthers
<1>20. CASE PruneOld
  <2>1. Worker \in Tasks /\ Worker \notin Letters /\ born' = born
    BY <1>20, TasksAre DEF PruneOld, dlqVars
  <2>2. \E pc, s : Sets(Worker, pc, s)
    BY <1>20, <2>1, PruneOldSets
  <2> QED
    BY <2>1, <2>2, KindsStep, EventfulOthers
<1>21. CASE AdminProcess
  <2>1. Admin \in Tasks /\ Admin \notin Letters /\ born' = born
    BY <1>21, TasksAre DEF AdminProcess, dlqVars
  <2>2. \E pc, s : Sets(Admin, pc, s)
    BY <1>21, <2>1, ProcessSets, ResumesSets DEF AdminProcess
  <2> QED
    BY <2>1, <2>2, KindsStep, EventfulOthers
<1>22. CASE AdminPrune
  <2>1. Admin \in Tasks /\ Admin \notin Letters /\ born' = born
    BY <1>22, TasksAre DEF AdminPrune, dlqVars
  <2>2. \E pc, s : Sets(Admin, pc, s)
    BY <1>22, <2>1, AdminPruneSets
  <2> QED
    BY <2>1, <2>2, KindsStep, EventfulOthers
<1>23. CASE Restart
  <2>1. task' = Starts
    BY <1>23 DEF Restart
  <2>2. \A h \in Letters : task'[h].pc = "done"
    BY <2>1, StartsTyped, TasksAre
  <2> QED
    BY <2>2 DEF Eventful, EventBy
<1> QED
  BY NextCases, <1>1, <1>2, <1>3, <1>4, <1>5, <1>6, <1>7, <1>8, <1>9, <1>10, <1>11, <1>12,
     <1>13, <1>14, <1>15, <1>16, <1>17, <1>18, <1>19, <1>20, <1>21, <1>22, <1>23

LEMMA InLineOthers ==
  ASSUME InLine, NEW t \in Tasks, NEW pc, NEW s, Sets(t, pc, s), t \notin Queued,
         UNCHANGED <<queue, drainer>>
  PROVE  InLine'
<1>1. Queued \subseteq Queued'
  BY TasksAre DEF Queued, Sets
<1> QED
  BY <1>1 DEF InLine

LEMMA InLineStep ==
  ASSUME Types, Shapes, Eventful, InLine, [Next]_vars
  PROVE  InLine'
<1>1. ASSUME NEW t \in Tasks, Create(t) \/ Insert(t) \/ Truncate(t) PROVE InLine'
  <2>1. t \notin Queued /\ UNCHANGED <<queue, drainer>>
    BY <1>1 DEF Create, Insert, Truncate, Queued, hookVars
  <2>2. \E pc, s : Sets(t, pc, s)
    BY <1>1, CreateSets, InsertSets, TruncateSets
  <2> QED
    BY <2>1, <2>2, InLineOthers
<1>2. ASSUME NEW t \in Tasks, CreateFails(t) \/ Unlink(t) \/ Rewrite(t) \/
            TruncateFails(t) \/ RewriteFails(t)
      PROVE  InLine'
  <2>1. t \notin Queued /\ UNCHANGED <<queue, drainer>>
    BY <1>2 DEF CreateFails, Unlink, Rewrite, TruncateFails, RewriteFails, Queued, hookVars
  <2>2. \E pc, s : Sets(t, pc, s)
    BY <1>2, ResumeResumes, ResumesSets DEF CreateFails, Unlink, Rewrite, TruncateFails,
       RewriteFails
  <2> QED
    BY <2>1, <2>2, InLineOthers
<1>3. ASSUME NEW t \in Tasks, Enforce(t) \/ UnlinkVictim(t) \/ RemoveEntry(t) \/ Mark(t)
      PROVE  InLine'
  <2>1. t \notin Queued /\ UNCHANGED <<queue, drainer>>
    BY <1>3 DEF Enforce, UnlinkVictim, RemoveEntry, Mark, Queued, hookVars
  <2>2. \E pc, s : Sets(t, pc, s)
    BY <1>3, EnforceSets, UnlinkVictimSets, RemoveEntrySets, MarkSets, ResumesSets
  <2> QED
    BY <2>1, <2>2, InLineOthers
<1>4. ASSUME NEW t \in Tasks, Evict(t) PROVE InLine'
  <2>1. t \notin Queued /\ UNCHANGED <<queue, drainer>>
    BY <1>4 DEF Evict, Queued, hookVars
  <2>2. \E pc, s : Sets(t, pc, s)
    BY <1>4, EvictSets, ResumesSets DEF Evicts
  <2> QED
    BY <2>1, <2>2, InLineOthers
<1>5. ASSUME NEW i \in Letters, Push(i) PROVE InLine'
  <2>1. UNCHANGED <<task, queue, drainer>>
    BY <1>5 DEF Push, hookVars
  <2> QED
    BY <2>1 DEF InLine, Queued
<1>6. ASSUME NEW i \in Letters, Enqueue(i) PROVE InLine'
  <2>1. /\ i \in Tasks /\ i \notin Events /\ drainer' = drainer /\ queue \in Seq(Letters)
        /\ i # None
    BY <1>6, TasksAre DEF Enqueue, Events, None, Types
  <2>2. i \notin Queued
    BY <2>1 DEF Queued, Eventful, EventBy
  <2>3. CASE queue' = queue /\ Sets(i, "create", <<i>>)
    BY <2>1, <2>2, <2>3, InLineOthers
  <2>4. CASE queue' = Append(queue, i) /\ Sets(i, "queued", task[i].letters)
    <3>1. i \notin ToSet(queue) /\ i # drainer
      BY <2>1, <2>2 DEF InLine
    <3>2. ToSet(queue') = ToSet(queue) \cup {i} /\ IsInjective(queue')
      BY <2>1, <2>4, <3>1, SetOfAppend, InjectiveAppend DEF InLine
    <3>3. Queued \cup {i} \subseteq Queued'
      BY <2>1, <2>4, TasksAre DEF Queued, Sets
    <3> QED
      BY <2>1, <3>1, <3>2, <3>3 DEF InLine
  <2> QED
    BY <1>6, <2>3, <2>4, EnqueueSets
<1>7. ASSUME NEW i \in Letters, Deliver(i) PROVE InLine'
  <2>1. i \in Tasks /\ i \notin Queued /\ UNCHANGED <<queue, drainer>>
    BY <1>7, TasksAre DEF Deliver, Queued
  <2>2. \E pc, s : Sets(i, pc, s)
    BY <1>7, <2>1, DeliverSets, ResumesSets
  <2> QED
    BY <2>1, <2>2, InLineOthers
<1>8. ASSUME NEW i \in Letters, AdminRetry(i) \/ AdminDelete(i) PROVE InLine'
  <2>1. Admin \in Tasks /\ Admin \notin Queued /\ UNCHANGED <<queue, drainer>>
    BY <1>8, TasksAre DEF AdminRetry, AdminDelete, Queued, hookVars
  <2>2. \E pc, s : Sets(Admin, pc, s)
    BY <1>8, <2>1, AdminRetrySets, AdminDeleteSets
  <2> QED
    BY <2>1, <2>2, InLineOthers
<1>9. CASE Drain \/ WriteBatch \/ CheckShutdown
  <2>1. Flusher \in Tasks /\ Flusher \notin Queued /\ UNCHANGED <<queue, drainer>>
    BY <1>9, TasksAre DEF Drain, WriteBatch, CheckShutdown, Queued, hookVars
  <2>2. \E pc, s : Sets(Flusher, pc, s)
    BY <1>9, <2>1, DrainSets, WriteBatchSets, CheckShutdownSets
  <2> QED
    BY <2>1, <2>2, InLineOthers
<1>10. CASE Receive
  <2>1. /\ queue \in Seq(Letters) /\ queue # <<>> /\ task' = task
        /\ drainer' = Head(queue) /\ queue' = Tail(queue)
    BY <1>10 DEF Receive, Types
  <2>2. /\ ToSet(queue) = {Head(queue)} \cup ToSet(queue')
        /\ IsInjective(queue') /\ Head(queue) \notin ToSet(queue')
    BY <2>1, SetOfTail, InjectiveTail DEF InLine
  <2>3. Queued' = Queued
    BY <2>1 DEF Queued
  <2> QED
    BY <2>1, <2>2, <2>3 DEF InLine
<1>11. CASE Acquire
  <2>1. PICK h \in Letters : h = drainer /\ Sets(h, "deliver", <<h>>)
    BY <1>11, AcquireSets
  <2>2. queue' = queue /\ drainer' = None
    BY <1>11 DEF Acquire
  <2>3. Queued \ {drainer} \subseteq Queued'
    BY <2>1, TasksAre DEF Queued, Sets
  <2>4. None \notin ToSet(queue)
    BY TasksAre DEF InLine, Queued
  <2> QED
    BY <2>2, <2>3, <2>4 DEF InLine
<1>12. ASSUME NEW ready \in SUBSET Letters, List(ready) PROVE InLine'
  <2>1. Worker \in Tasks /\ Worker \notin Queued /\ UNCHANGED <<queue, drainer>>
    BY <1>12, TasksAre DEF List, Queued, hookVars
  <2>2. \E pc, s : Sets(Worker, pc, s)
    BY <1>12, <2>1, ListSets
  <2> QED
    BY <2>1, <2>2, InLineOthers
<1>13. CASE ProcessEntry
  <2>1. Worker \in Tasks /\ Worker \notin Queued /\ UNCHANGED <<queue, drainer>>
    BY <1>13, TasksAre DEF ProcessEntry, Queued, hookVars
  <2>2. \E pc, s : Sets(Worker, pc, s)
    BY <1>13, <2>1, ProcessSets, ResumesSets DEF ProcessEntry
  <2> QED
    BY <2>1, <2>2, InLineOthers
<1>14. CASE PruneOld
  <2>1. Worker \in Tasks /\ Worker \notin Queued /\ UNCHANGED <<queue, drainer>>
    BY <1>14, TasksAre DEF PruneOld, Queued, hookVars
  <2>2. \E pc, s : Sets(Worker, pc, s)
    BY <1>14, <2>1, PruneOldSets
  <2> QED
    BY <2>1, <2>2, InLineOthers
<1>15. CASE AdminProcess
  <2>1. Admin \in Tasks /\ Admin \notin Queued /\ UNCHANGED <<queue, drainer>>
    BY <1>15, TasksAre DEF AdminProcess, Queued, hookVars
  <2>2. \E pc, s : Sets(Admin, pc, s)
    BY <1>15, <2>1, ProcessSets, ResumesSets DEF AdminProcess
  <2> QED
    BY <2>1, <2>2, InLineOthers
<1>16. CASE AdminPrune
  <2>1. Admin \in Tasks /\ Admin \notin Queued /\ UNCHANGED <<queue, drainer>>
    BY <1>16, TasksAre DEF AdminPrune, Queued, hookVars
  <2>2. \E pc, s : Sets(Admin, pc, s)
    BY <1>16, <2>1, AdminPruneSets
  <2> QED
    BY <2>1, <2>2, InLineOthers
<1>17. CASE AdminPurge \/ DbFails \/ DbReturns \/ Shutdown \/ UNCHANGED vars
  <2>1. UNCHANGED <<task, queue, drainer>>
    BY <1>17 DEF AdminPurge, DbFails, DbReturns, Shutdown, vars, hookVars
  <2> QED
    BY <2>1 DEF InLine, Queued
<1>18. CASE Restart
  <2>1. queue' = <<>> /\ drainer' = None
    BY <1>18 DEF Restart
  <2> QED
    BY <2>1, InjectiveEmpty, SetOfEmpty DEF InLine
<1> QED
  BY NextCases, <1>1, <1>2, <1>3, <1>4, <1>5, <1>6, <1>7, <1>8, <1>9, <1>10, <1>11, <1>12,
     <1>13, <1>14, <1>15, <1>16, <1>17, <1>18

LEMMA SortedStep ==
  ASSUME Types, Shapes, Fresh, Eventful, InLine, Sorted, [Next]_vars
  PROVE  Sorted'
<1>1. ASSUME NEW t \in Tasks, Create(t) \/ CreateFails(t) \/ Insert(t) \/ Enforce(t) \/
            RemoveEntry(t) \/ Unlink(t) \/ Mark(t) \/ Truncate(t) \/ Rewrite(t) \/
            TruncateFails(t) \/ RewriteFails(t)
      PROVE  Sorted'
  <2>1. permits' \subseteq permits /\ recorded' = recorded /\ delivered' = delivered
    BY <1>1 DEF Create, CreateFails, Insert, Enforce, RemoveEntry, Unlink, Mark, Truncate,
       Rewrite, TruncateFails, RewriteFails, Resume, hookVars, outVars
  <2> QED
    BY <2>1, KindsStep DEF Sorted, KindsGrow
<1>2. ASSUME NEW t \in Tasks, Evict(t) PROVE Sorted'
  <2>1. permits' \subseteq permits /\ recorded' = recorded /\ delivered' = delivered
    BY <1>2, EvictSets DEF Evict, Evicts, outVars
  <2> QED
    BY <2>1, KindsStep DEF Sorted, KindsGrow
<1>3. ASSUME NEW t \in Tasks, UnlinkVictim(t) PROVE Sorted'
  <2>1. permits' \subseteq permits /\ recorded' = recorded /\ delivered' = delivered
    BY <1>3 DEF UnlinkVictim, NextVictim, Resume, hookVars, outVars
  <2> QED
    BY <2>1, KindsStep DEF Sorted, KindsGrow
<1>4. ASSUME NEW i \in Letters, Push(i) \/ Enqueue(i) \/ AdminRetry(i) \/ AdminDelete(i)
      PROVE  Sorted'
  <2>1. permits' \subseteq permits /\ recorded' = recorded /\ delivered' = delivered
    BY <1>4 DEF Push, Enqueue, AdminRetry, AdminDelete, Resume, hookVars, outVars
  <2> QED
    BY <2>1, KindsStep DEF Sorted, KindsGrow
<1>5. ASSUME NEW i \in Letters, Deliver(i) PROVE Sorted'
  <2>1. i \in Events
    BY <1>5 DEF Deliver, Eventful, EventBy
  <2>2. permits' \subseteq permits /\ recorded' = recorded /\ delivered' \subseteq delivered \cup {i}
    BY <1>5 DEF Deliver, Resume
  <2> QED
    BY <2>1, <2>2, KindsStep DEF Sorted, KindsGrow
<1>6. CASE Drain \/ CheckShutdown \/ Receive \/ PruneOld \/ AdminPrune \/ AdminPurge \/
          DbFails \/ DbReturns \/ Shutdown \/ Restart \/ UNCHANGED vars
  <2>1. permits' \subseteq permits /\ recorded' = recorded /\ delivered' = delivered
    BY <1>6 DEF Drain, CheckShutdown, Receive, PruneOld, AdminPrune, AdminPurge, DbFails,
       DbReturns, Shutdown, Restart, vars, Resume, hookVars, outVars
  <2> QED
    BY <2>1, KindsStep DEF Sorted, KindsGrow
<1>7. CASE WriteBatch
  <2>1. task[Flusher].letters = Todo
    BY <1>7 DEF WriteBatch, Todo
  <2>2. ToSet(task[Flusher].letters) \subseteq Usage
    BY <2>1 DEF Fresh
  <2>3. recorded' \subseteq recorded \cup Usage /\ UNCHANGED <<permits, delivered>>
    BY <1>7, <2>2 DEF WriteBatch, hookVars
  <2> QED
    BY <2>3, KindsStep DEF Sorted, KindsGrow
<1>8. CASE Acquire
  <2>1. drainer \in Queued
    BY <1>8 DEF Acquire, InLine
  <2>2. drainer \in Events
    BY <2>1 DEF Queued, Eventful, EventBy
  <2>3. permits' = permits \cup {drainer} /\ UNCHANGED <<recorded, delivered>>
    BY <1>8 DEF Acquire, outVars
  <2> QED
    BY <2>2, <2>3, KindsStep DEF Sorted, KindsGrow
<1>9. ASSUME NEW ready \in SUBSET Letters, List(ready) PROVE Sorted'
  <2>1. permits' \subseteq permits /\ recorded' = recorded /\ delivered' = delivered
    BY <1>9 DEF List, Resume, hookVars, outVars
  <2> QED
    BY <2>1, KindsStep DEF Sorted, KindsGrow
<1>10. CASE ProcessEntry \/ AdminProcess
  <2>1. /\ permits' \subseteq permits /\ recorded' \subseteq recorded \cup Usage
        /\ delivered' = delivered
    BY <1>10 DEF ProcessEntry, AdminProcess, Process, Resume
  <2> QED
    BY <2>1, KindsStep DEF Sorted, KindsGrow
<1> QED
  BY NextCases, <1>1, <1>2, <1>3, <1>4, <1>5, <1>6, <1>7, <1>8, <1>9, <1>10

Orderly == Types /\ Shapes /\ Fresh /\ BornOnce /\ Eventful /\ InLine /\ Sorted

LEMMA InitOrderly == Init => Orderly
<1> SUFFICES ASSUME Init PROVE Orderly
  OBVIOUS
<1>1. Types /\ Shapes /\ task = Starts
  BY InitTypes DEF Init
<1>2. /\ channel = <<>> /\ queue = <<>> /\ born = <<>> /\ drainer = None
      /\ permits = {} /\ recorded = {} /\ delivered = {}
  BY DEF Init
<1>3. Todo = <<>> /\ \A h \in Letters : task[h].pc = "done"
  BY <1>1, StartsTyped, TasksAre DEF Todo
<1>4. Fresh /\ BornOnce /\ InLine
  BY <1>2, <1>3, InjectiveEmpty, SetOfEmpty DEF Fresh, BornOnce, InLine
<1>5. Eventful /\ Sorted
  BY <1>2, <1>3 DEF Eventful, EventBy, Sorted
<1> QED
  BY <1>1, <1>4, <1>5 DEF Orderly

LEMMA OrderlyStep ==
  ASSUME Orderly, [Next]_vars
  PROVE  Orderly'
BY TypesStep, ShapesStep, FreshStep, BornOnceStep, EventfulStep, InLineStep, SortedStep
   DEF Orderly

LEMMA OrderlyTyped ==
  ASSUME Orderly
  PROVE  TypeOK
<1> USE DEF Orderly
<1>1. channel \in Seq(Usage)
  BY TypedBySet DEF Types, Fresh
<1>2. ToSet(queue) \subseteq Events /\ drainer \in Events \cup {None}
  BY DEF InLine, Queued, Eventful, EventBy
<1>3. queue \in Seq(Events)
  BY <1>2, TypedBySet DEF Types
<1>4. ASSUME NEW t \in Tasks
      PROVE  /\ task[t].pc \in Steps /\ task[t].letters \in Seq(Letters)
             /\ task[t].count \in 0 .. Attempts + MaxRetries /\ task[t].victims \subseteq Letters
  BY <1>4 DEF Types, Records
<1> QED
  BY <1>1, <1>2, <1>3, <1>4 DEF Types, TypeOK, BornOnce, Sorted

(* The type invariant of the buffer, the dispatcher and the queue: the usage
   buffer and the dispatcher's channel keep to their capacities, usage never
   mixes with events, and no letter becomes a dead letter twice. *)
THEOREM TypeCorrect == Spec => []TypeOK
<1>1. Orderly /\ [Next]_vars => Orderly'
  BY OrderlyStep
<1>2. Orderly => TypeOK
  BY OrderlyTyped
<1> QED
  BY InitOrderly, <1>1, <1>2, PTL DEF Spec

-----------------------------------------------------------------------------
(* The last round of the flush worker.                                       *)

Flushed ==
  /\ shutdown = "final" /\ task[Flusher].pc # "drain" => ToSet(channel) \subseteq excused
  /\ task[Flusher].pc = "exited" => shutdown = "final"

LEMMA FlushedKept ==
  ASSUME Flushed, UNCHANGED <<channel, shutdown>>, excused \subseteq excused',
         \/ task'[Flusher] = task[Flusher]
         \/ task[Flusher].pc # "drain" /\ task'[Flusher].pc # "exited"
  PROVE  Flushed'
BY DEF Flushed

(* A step of any task but the flusher's own round. *)
LEMMA FlushedMoves ==
  ASSUME Flushed, UNCHANGED <<channel, shutdown>>, excused \subseteq excused',
         NEW t \in Tasks, NEW pc, NEW s, Sets(t, pc, s), task[t].pc # "drain", pc # "exited"
  PROVE  Flushed'
<1>1. CASE t = Flusher
  BY <1>1, FlushedKept DEF Sets
<1>2. CASE t # Flusher
  BY <1>2, FlushedKept, TasksAre DEF Sets
<1> QED
  BY <1>1, <1>2

LEMMA FlushedResumes ==
  ASSUME Flushed, UNCHANGED <<channel, shutdown>>, excused \subseteq excused',
         NEW t \in Tasks, NEW s, Resumes(t, s), task[t].pc # "drain"
  PROVE  Flushed'
<1>1. PICK pc \in {"check", "create", "list", "entry", "prune", "done"} : \E r : Sets(t, pc, r)
  BY DEF Resumes
<1> QED
  BY <1>1, FlushedMoves

(* Every step keeps the last round. *)
LEMMA FlushedStep ==
  ASSUME Types, Shapes, Fresh, Flushed, [Next]_vars
  PROVE  Flushed'
<1>1. ASSUME NEW t \in Tasks, Create(t) PROVE Flushed'
  <2>1. task[t].pc # "drain" /\ UNCHANGED <<channel, shutdown>>
    BY <1>1 DEF Create, envVars
  <2>2. /\ excused \subseteq excused'
        /\ \/ \E s : Resumes(t, s)
           \/ \E pc \in {"insert"} : \E s : Sets(t, pc, s)
    BY <1>1, CreateSets DEF Create
  <2> QED
    BY <2>1, <2>2, FlushedMoves, FlushedResumes
<1>2. ASSUME NEW t \in Tasks, CreateFails(t) \/ Unlink(t) \/ Rewrite(t) \/
            TruncateFails(t) \/ RewriteFails(t)
      PROVE  Flushed'
  <2>1. /\ task[t].pc # "drain" /\ UNCHANGED <<channel, shutdown>> /\ excused \subseteq excused'
        /\ Resumes(t, task[t].letters)
    BY <1>2, ResumeResumes DEF CreateFails, Unlink, Rewrite, TruncateFails, RewriteFails,
       envVars
  <2> QED
    BY <2>1, FlushedResumes
<1>3. ASSUME NEW t \in Tasks, Insert(t) PROVE Flushed'
  <2>1. task[t].pc # "drain" /\ UNCHANGED <<channel, shutdown>>
    BY <1>3 DEF Insert, envVars
  <2>2. /\ excused \subseteq excused'
        /\ \/ \E s : Resumes(t, s)
           \/ \E pc \in {"enforce"} : \E s : Sets(t, pc, s)
    BY <1>3, InsertSets DEF Insert
  <2> QED
    BY <2>1, <2>2, FlushedMoves, FlushedResumes
<1>4. ASSUME NEW t \in Tasks, Enforce(t) \/ UnlinkVictim(t) PROVE Flushed'
  <2>1. task[t].pc # "drain" /\ UNCHANGED <<channel, shutdown>>
    BY <1>4 DEF Enforce, UnlinkVictim, envVars
  <2>2. /\ excused \subseteq excused'
        /\ \/ \E s : Resumes(t, s)
           \/ \E pc \in {"evict"} : \E s : Sets(t, pc, s)
    BY <1>4, EnforceSets, UnlinkVictimSets DEF Enforce, UnlinkVictim
  <2> QED
    BY <2>1, <2>2, FlushedMoves, FlushedResumes
<1>5. ASSUME NEW t \in Tasks, Evict(t) PROVE Flushed'
  <2>1. task[t].pc # "drain" /\ UNCHANGED <<channel, shutdown>>
    BY <1>5 DEF Evict, envVars
  <2>2. /\ excused \subseteq excused'
        /\ \/ \E s : Resumes(t, s)
           \/ \E pc \in {"evict", "unlink_victim"} : \E s : Sets(t, pc, s)
    BY <1>5, EvictSets DEF Evict, Evicts
  <2> QED
    BY <2>1, <2>2, FlushedMoves, FlushedResumes
<1>6. ASSUME NEW t \in Tasks, RemoveEntry(t) PROVE Flushed'
  <2>1. task[t].pc # "drain" /\ UNCHANGED <<channel, shutdown>>
    BY <1>6 DEF RemoveEntry, envVars
  <2>2. /\ excused \subseteq excused'
        /\ \/ \E s : Resumes(t, s)
           \/ \E pc \in {"unlink"} : \E s : Sets(t, pc, s)
    BY <1>6, RemoveEntrySets DEF RemoveEntry
  <2> QED
    BY <2>1, <2>2, FlushedMoves, FlushedResumes
<1>7. ASSUME NEW t \in Tasks, Mark(t) PROVE Flushed'
  <2>1. task[t].pc # "drain" /\ UNCHANGED <<channel, shutdown>>
    BY <1>7 DEF Mark, envVars
  <2>2. /\ excused \subseteq excused'
        /\ \/ \E s : Resumes(t, s)
           \/ \E pc \in {"truncate"} : \E s : Sets(t, pc, s)
    BY <1>7, MarkSets DEF Mark
  <2> QED
    BY <2>1, <2>2, FlushedMoves, FlushedResumes
<1>8. ASSUME NEW t \in Tasks, Truncate(t) PROVE Flushed'
  <2>1. task[t].pc # "drain" /\ UNCHANGED <<channel, shutdown>>
    BY <1>8 DEF Truncate, envVars
  <2>2. /\ excused \subseteq excused'
        /\ \/ \E s : Resumes(t, s)
           \/ \E pc \in {"rewrite"} : \E s : Sets(t, pc, s)
    BY <1>8, TruncateSets DEF Truncate
  <2> QED
    BY <2>1, <2>2, FlushedMoves, FlushedResumes
<1>9. ASSUME NEW i \in Letters, Push(i) PROVE Flushed'
  <2>1. /\ channel \in Seq(Letters) /\ UNCHANGED <<task, shutdown>>
        /\ channel' = channel \/ channel' = Append(channel, i)
        /\ excused' = IF Len(channel) < MaxPending /\ shutdown # "final" THEN excused
                      ELSE excused \cup {i}
    BY <1>9 DEF Push, Types, envVars
  <2>2. ToSet(channel') \subseteq ToSet(channel) \cup {i}
    BY <2>1, SetOfAppend
  <2> QED
    BY <2>1, <2>2 DEF Flushed
<1>10. ASSUME NEW i \in Letters, Enqueue(i) PROVE Flushed'
  <2>1. /\ i \in Tasks /\ i # Flusher /\ UNCHANGED <<channel, shutdown>>
        /\ excused \subseteq excused'
    BY <1>10, TasksAre DEF Enqueue, envVars
  <2>2. \E pc, s : Sets(i, pc, s)
    BY <1>10, <2>1, EnqueueSets
  <2>3. task'[Flusher] = task[Flusher]
    BY <2>1, <2>2, TasksAre DEF Sets
  <2> QED
    BY <2>1, <2>3, FlushedKept
<1>11. ASSUME NEW i \in Letters, Deliver(i) PROVE Flushed'
  <2>1. /\ i \in Tasks /\ i # Flusher /\ UNCHANGED <<channel, shutdown>>
        /\ excused \subseteq excused'
    BY <1>11, TasksAre DEF Deliver, envVars
  <2>2. \E pc, s : Sets(i, pc, s)
    BY <1>11, <2>1, DeliverSets, ResumesSets
  <2>3. task'[Flusher] = task[Flusher]
    BY <2>1, <2>2, TasksAre DEF Sets
  <2> QED
    BY <2>1, <2>3, FlushedKept
<1>12. ASSUME NEW i \in Letters, AdminRetry(i) \/ AdminDelete(i) PROVE Flushed'
  <2>1. /\ Admin \in Tasks /\ Admin # Flusher /\ UNCHANGED <<channel, shutdown>>
        /\ excused \subseteq excused'
    BY <1>12, TasksAre DEF AdminRetry, AdminDelete, envVars
  <2>2. \E pc, s : Sets(Admin, pc, s)
    BY <1>12, <2>1, AdminRetrySets, AdminDeleteSets
  <2>3. task'[Flusher] = task[Flusher]
    BY <2>1, <2>2, TasksAre DEF Sets
  <2> QED
    BY <2>1, <2>3, FlushedKept
<1>13. CASE Drain
  <2>1. /\ Flusher \in Tasks /\ task[Flusher].pc = "drain" /\ UNCHANGED <<shutdown, excused>>
        /\ Todo = task[Flusher].letters /\ Todo \in Seq(Letters) /\ channel \in Seq(Letters)
    BY <1>13, TasksAre, TodoTyped DEF Drain, envVars, Todo, Types
  <2>2. CASE Sets(Flusher, "drain", Append(task[Flusher].letters, Head(channel)))
    BY <2>1, <2>2 DEF Sets, Flushed
  <2>3. CASE /\ channel' = channel
             /\ channel = <<>> \/ ~(Len(task[Flusher].letters) < DrainLimit)
             /\ Sets(Flusher, IF task[Flusher].letters = <<>> THEN "check" ELSE "write_batch",
                     task[Flusher].letters)
    <3>1. ASSUME shutdown = "final" PROVE ToSet(channel) = {}
      <4>1. CASE channel = <<>>
        BY <4>1, SetOfEmpty
      <4>2. CASE ~(Len(Todo) < DrainLimit)
        <5>1. DrainLimit = Cardinality(Letters)
          BY <3>1 DEF DrainLimit
        <5>2. Cardinality(Letters) \in Nat /\ Len(Todo) \in Nat
          BY <2>1, FS_CardinalityType, DlqAssumption
        <5>3. ToSet(Todo) = Letters
          BY <2>1, <4>2, <5>1, <5>2, InjectiveCovers, DlqAssumption DEF Fresh
        <5>4. ToSet(channel) \subseteq Letters
          BY <2>1, SetTyped
        <5> QED
          BY <5>3, <5>4 DEF Fresh
      <4> QED
        BY <2>1, <2>3, <4>1, <4>2
    <3>2. task'[Flusher].pc # "exited"
      BY <2>3 DEF Sets
    <3> QED
      BY <2>1, <2>3, <3>1, <3>2 DEF Flushed
  <2> QED
    BY <1>13, <2>2, <2>3, DrainSets
<1>14. CASE WriteBatch
  <2>1. Flusher \in Tasks /\ task[Flusher].pc # "drain" /\ UNCHANGED <<channel, shutdown, excused>>
    BY <1>14, TasksAre DEF WriteBatch, envVars
  <2>2. \E pc \in {"check", "create"} : \E s : Sets(Flusher, pc, s)
    BY <1>14, WriteBatchSets
  <2> QED
    BY <2>1, <2>2, FlushedMoves
<1>15. CASE CheckShutdown
  <2>1. /\ Flusher \in Tasks /\ task[Flusher].pc = "check" /\ UNCHANGED <<channel, excused>>
    BY <1>15, TasksAre DEF CheckShutdown
  <2>2. \/ task'[Flusher].pc = "drain"
        \/ task'[Flusher].pc = "exited" /\ shutdown = "final" /\ shutdown' = shutdown
    BY <1>15, CheckShutdownSets DEF Sets
  <2> QED
    BY <2>1, <2>2 DEF Flushed
<1>16. CASE Receive \/ AdminPurge \/ DbFails \/ DbReturns \/ UNCHANGED vars
  <2>1. UNCHANGED <<task, channel, shutdown>> /\ excused \subseteq excused'
    BY <1>16 DEF Receive, AdminPurge, DbFails, DbReturns, vars, envVars
  <2> QED
    BY <2>1, FlushedKept
<1>17. CASE Acquire
  <2>1. UNCHANGED <<channel, shutdown, excused>>
    BY <1>17 DEF Acquire, envVars
  <2>2. PICK h \in Letters : Sets(h, "deliver", <<h>>)
    BY <1>17, AcquireSets
  <2>3. task'[Flusher] = task[Flusher]
    BY <2>2, TasksAre DEF Sets
  <2> QED
    BY <2>1, <2>3, FlushedKept
<1>18. ASSUME NEW ready \in SUBSET Letters, List(ready) PROVE Flushed'
  <2>1. /\ Worker \in Tasks /\ Worker # Flusher /\ UNCHANGED <<channel, shutdown>>
        /\ excused \subseteq excused'
    BY <1>18, TasksAre DEF List, envVars
  <2>2. \E pc, s : Sets(Worker, pc, s)
    BY <1>18, <2>1, ListSets
  <2>3. task'[Flusher] = task[Flusher]
    BY <2>1, <2>2, TasksAre DEF Sets
  <2> QED
    BY <2>1, <2>3, FlushedKept
<1>19. CASE ProcessEntry
  <2>1. /\ Worker \in Tasks /\ Worker # Flusher /\ UNCHANGED <<channel, shutdown>>
        /\ excused \subseteq excused'
    BY <1>19, TasksAre DEF ProcessEntry, envVars
  <2>2. \E pc, s : Sets(Worker, pc, s)
    BY <1>19, <2>1, ProcessSets, ResumesSets DEF ProcessEntry
  <2>3. task'[Flusher] = task[Flusher]
    BY <2>1, <2>2, TasksAre DEF Sets
  <2> QED
    BY <2>1, <2>3, FlushedKept
<1>20. CASE PruneOld
  <2>1. /\ Worker \in Tasks /\ Worker # Flusher /\ UNCHANGED <<channel, shutdown>>
        /\ excused \subseteq excused'
    BY <1>20, TasksAre DEF PruneOld, envVars
  <2>2. \E pc, s : Sets(Worker, pc, s)
    BY <1>20, <2>1, PruneOldSets
  <2>3. task'[Flusher] = task[Flusher]
    BY <2>1, <2>2, TasksAre DEF Sets
  <2> QED
    BY <2>1, <2>3, FlushedKept
<1>21. CASE AdminProcess
  <2>1. /\ Admin \in Tasks /\ Admin # Flusher /\ UNCHANGED <<channel, shutdown>>
        /\ excused \subseteq excused'
    BY <1>21, TasksAre DEF AdminProcess, envVars
  <2>2. \E pc, s : Sets(Admin, pc, s)
    BY <1>21, <2>1, ProcessSets, ResumesSets DEF AdminProcess
  <2>3. task'[Flusher] = task[Flusher]
    BY <2>1, <2>2, TasksAre DEF Sets
  <2> QED
    BY <2>1, <2>3, FlushedKept
<1>22. CASE AdminPrune
  <2>1. /\ Admin \in Tasks /\ Admin # Flusher /\ UNCHANGED <<channel, shutdown>>
        /\ excused \subseteq excused'
    BY <1>22, TasksAre DEF AdminPrune, envVars
  <2>2. \E pc, s : Sets(Admin, pc, s)
    BY <1>22, <2>1, AdminPruneSets
  <2>3. task'[Flusher] = task[Flusher]
    BY <2>1, <2>2, TasksAre DEF Sets
  <2> QED
    BY <2>1, <2>3, FlushedKept
<1>23. CASE Shutdown
  BY <1>23 DEF Shutdown, Flushed
<1>24. CASE Restart
  <2>1. task' = Starts
    BY <1>24 DEF Restart
  <2> QED
    BY <2>1, StartsTyped DEF Flushed
<1> QED
  BY NextCases, <1>1, <1>2, <1>3, <1>4, <1>5, <1>6, <1>7, <1>8, <1>9, <1>10, <1>11, <1>12,
     <1>13, <1>14, <1>15, <1>16, <1>17, <1>18, <1>19, <1>20, <1>21, <1>22, <1>23, <1>24

(* A graceful shutdown loses no usage: when the flush worker has exited, what
   is in its buffer came after it had seen the flag.  Its last drain takes the
   whole buffer, because the batch and the buffer hold different entries, so a
   batch as large as all there is leaves none behind. *)
THEOREM ShutdownLosesNothing == Spec => []ShutdownFlushes
<1> DEFINE Inv == Orderly /\ Flushed
<1>1. Init => Inv
  <2>1. Init => Flushed
    BY StartsTyped DEF Init, Flushed
  <2> QED
    BY <2>1, InitOrderly
<1>2. Inv /\ [Next]_vars => Inv'
  BY OrderlyStep, FlushedStep DEF Orderly
<1>3. Inv => ShutdownFlushes
  BY DEF Flushed, ShutdownFlushes
<1> QED
  BY <1>1, <1>2, <1>3, PTL DEF Spec

-----------------------------------------------------------------------------
(* The index and the files.                                                  *)

(* The entries that a task reads, rewrites or removes. *)
Handles(t) ==
  IF Pruning(t) THEN ToSet(task[t].letters)
  ELSE IF task[t].pc = "unlink_victim" THEN {Now(t)} ELSE {}
Touched == Indexed \cup UNION {Handles(t) : t \in Tasks}

(* What is listed, handled or on the disk was pushed, ... *)
Known ==
  /\ Touched \subseteq ToSet(born)
  /\ \A i \in Letters : files[i] # Absent => i \in ToSet(born)

(* ... and between the creation of a file and its entry in the index nobody
   else knows of the letter. *)
InsertBy(u) ==
  task[u].pc = "insert" =>
    /\ Now(u) \in Letters /\ Now(u) \in ToSet(born) /\ files[Now(u)] >= 0
    /\ u = Flusher => Now(u) \in Usage
    /\ Now(u) \notin Touched
Inserted == \A u \in Tasks : InsertBy(u)
Apart == Known /\ Inserted

FilesKept == \A i \in Letters : files'[i] = files[i] \/ i \in Touched

LEMMA ApartKept ==
  ASSUME Apart, KindsGrow, born' = born, Touched' \subseteq Touched, FilesKept,
         \A u \in Tasks : task'[u].pc = "insert" => task'[u] = task[u]
  PROVE  Apart'
<1>1. Known'
  BY DEF Apart, Known, FilesKept
<1>2. ASSUME NEW u \in Tasks, task'[u].pc = "insert" PROVE InsertBy(u)'
  <2>1. task'[u] = task[u]
    BY <1>2
  <2>2. InsertBy(u) /\ task[u].pc = "insert" /\ Now(u)' = Now(u)
    BY <1>2, <2>1 DEF Apart, Inserted, Now
  <2>3. /\ Now(u) \in Letters /\ Now(u) \in ToSet(born) /\ files[Now(u)] >= 0
        /\ u = Flusher => Now(u) \in Usage
        /\ Now(u) \notin Touched
    BY <2>2 DEF InsertBy
  <2>4. files'[Now(u)] = files[Now(u)]
    BY <2>3 DEF FilesKept
  <2>5. /\ Now(u)' \in Letters /\ Now(u)' \in ToSet(born') /\ files'[Now(u)'] >= 0
        /\ u = Flusher => Now(u)' \in Usage'
        /\ Now(u)' \notin Touched'
    BY <2>2, <2>3, <2>4 DEF KindsGrow
  <2> QED
    BY <2>5 DEF InsertBy
<1>3. Inserted'
  BY <1>2 DEF Inserted, InsertBy
<1> QED
  BY <1>1, <1>3 DEF Apart

LEMMA TouchedSets ==
  ASSUME NEW t \in Tasks, NEW pc, NEW s, Sets(t, pc, s), Indexed' \subseteq Touched,
         Pruning(t) => ToSet(s) \subseteq Touched,
         ~Pruning(t) => pc # "unlink_victim" \/ Head(s) \in Touched
  PROVE  Touched' \subseteq Touched
<1>1. Handles(t)' \subseteq Touched
  BY DEF Handles, Sets, Now, Pruning
<1>2. ASSUME NEW u \in Tasks, u # t PROVE Handles(u)' = Handles(u)
  BY <1>2 DEF Handles, Sets, Now, Pruning
<1>3. ASSUME NEW u \in Tasks PROVE Handles(u)' \subseteq Touched
  BY <1>1, <1>2 DEF Touched
<1> QED
  BY <1>3 DEF Touched

LEMMA ApartSets ==
  ASSUME Apart, KindsGrow, born' = born, FilesKept, Indexed' \subseteq Indexed,
         NEW t \in Tasks, NEW pc, NEW s, Sets(t, pc, s), pc # "insert",
         Pruning(t) => ToSet(s) \subseteq Touched,
         ~Pruning(t) => pc # "unlink_victim" \/ Head(s) \in Touched
  PROVE  Apart'
<1>1. Touched' \subseteq Touched
  BY TouchedSets DEF Touched
<1>2. \A u \in Tasks : task'[u].pc = "insert" => task'[u] = task[u]
  BY DEF Sets
<1> QED
  BY <1>1, <1>2, ApartKept

LEMMA HandlesTouched ==
  ASSUME NEW t \in Tasks
  PROVE  /\ Handles(t) \subseteq Touched /\ Indexed \subseteq Touched
         /\ Pruning(t) => ToSet(task[t].letters) \subseteq Touched
BY DEF Touched, Handles

LEMMA ApartResumes ==
  ASSUME Apart, KindsGrow, born' = born, FilesKept, Indexed' \subseteq Indexed,
         NEW t \in Tasks, NEW s \in Seq(Letters), Resumes(t, s),
         Pruning(t) => ToSet(s) \subseteq Touched
  PROVE  Apart'
<1>1. ToSet(<<>>) \subseteq Touched /\ ToSet(Rest(s)) \subseteq ToSet(s)
  BY SetOfEmpty, SetOfTail DEF Rest
<1>2. PICK pc \in {"check", "create", "list", "entry", "prune", "done"} :
        \E r \in {<<>>, Rest(s)} : Sets(t, pc, r)
  BY DEF Resumes
<1> QED
  BY <1>1, <1>2, ApartSets

LEMMA NowTouched ==
  ASSUME Types, Shapes, NEW t \in Tasks,
         task[t].pc \in {"entry", "retry", "remove", "unlink", "mark", "truncate", "rewrite",
                         "unlink_victim"}
  PROVE  Now(t) \in Touched
<1>0. Shape(t) /\ task[t].letters \in Seq(Letters)
  BY RecordsAre DEF Shapes
<1>1. task[t].letters # <<>>
  BY <1>0 DEF Shape, Tasks, Pruning
<1>2. Now(t) \in ToSet(task[t].letters)
  BY <1>0, <1>1, SetOfTail DEF Now
<1>3. Now(t) \in Handles(t)
  BY <1>0, <1>2 DEF Handles, Shape, Tasks, Pruning
<1> QED
  BY <1>3, HandlesTouched

(* The letters of two pushes at work are different. *)
LEMMA InsertersDiffer ==
  ASSUME Types, Shapes, Eventful, Apart, NEW t \in Tasks, NEW u \in Tasks, t # u,
         task[t].pc = "insert", task[u].pc = "insert"
  PROVE  Now(t) # Now(u)
<1>1. ASSUME NEW v \in Tasks, task[v].pc = "insert", v # Flusher
      PROVE  Now(v) = v /\ v \in Events
  <2>1. v \in Letters /\ Now(v) = v
    BY <1>1, Pushers, PushedLetter DEF Tasks, Pruning
  <2> QED
    BY <1>1, <2>1 DEF Eventful, EventBy
<1>2. ASSUME NEW v \in Tasks, task[v].pc = "insert", v = Flusher
      PROVE  Now(v) \in Usage
  BY <1>2 DEF Apart, Inserted, InsertBy
<1>3. CASE t = Flusher
  <2>1. Now(t) \in Usage /\ Now(u) \in Events
    BY <1>1, <1>2, <1>3
  <2> QED
    BY <2>1, KindsDiffer
<1>4. CASE u = Flusher
  <2>1. Now(u) \in Usage /\ Now(t) \in Events
    BY <1>1, <1>2, <1>4
  <2> QED
    BY <2>1, KindsDiffer
<1>5. CASE t # Flusher /\ u # Flusher
  BY <1>1, <1>5
<1> QED
  BY <1>3, <1>4, <1>5

LEMMA IndexSet ==
  ASSUME Types, NEW i, NEW n, index' = [index EXCEPT ![i] = n]
  PROVE  /\ n = Absent => Indexed' \subseteq Indexed \ {i}
         /\ i \in Indexed => Indexed' \subseteq Indexed
         /\ Indexed' \subseteq Indexed \cup {i}
<1>1. index \in [Letters -> Absent .. MaxCount]
  BY DEF Types
<1>2. \A j \in Letters : index'[j] = IF j = i THEN n ELSE index[j]
  BY <1>1
<1> QED
  BY <1>2 DEF Indexed

LEMMA FileSet ==
  ASSUME Types, NEW i, NEW n, files' = [files EXCEPT ![i] = n]
  PROVE  /\ \A j \in Letters : files'[j] = IF j = i THEN n ELSE files[j]
         /\ i \in Touched => FilesKept
<1>1. files \in [Letters -> Torn .. MaxCount]
  BY DEF Types
<1>2. \A j \in Letters : files'[j] = IF j = i THEN n ELSE files[j]
  BY <1>1
<1> QED
  BY <1>2 DEF FilesKept

LEMMA SameFiles ==
  ASSUME files' = files
  PROVE  FilesKept
BY DEF FilesKept

LEMMA SameIndex ==
  ASSUME index' = index
  PROVE  Indexed' = Indexed
BY DEF Indexed

(* Every step keeps what is listed and handled known, and new letters apart. *)
LEMMA ApartStep ==
  ASSUME Types, Shapes, Fresh, Eventful, Apart, [Next]_vars
  PROVE  Apart'
<1>1. ASSUME NEW t \in Tasks, Create(t) PROVE Apart'
  <2>1. /\ Now(t) \in Letters /\ Now(t) \notin ToSet(born)
        /\ t = Flusher => Now(t) \in Usage
    BY <1>1, CreateNew DEF Create
  <2>2. /\ born' = Append(born, Now(t)) /\ born \in Seq(Letters) /\ KindsGrow
        /\ Sets(t, "insert", task[t].letters) /\ ~Pruning(t) /\ Indexed' = Indexed
        /\ files' = [files EXCEPT ![Now(t)] = 0]
    BY <1>1, KindsStep, CreateSets, Pushers, SameIndex DEF Create, Types
  <2>3. ToSet(born') = ToSet(born) \cup {Now(t)}
    BY <2>2, SetOfAppend
  <2>4. \A j \in Letters : files'[j] = IF j = Now(t) THEN 0 ELSE files[j]
    BY <2>2, FileSet
  <2>5. Touched' \subseteq Touched
    BY <2>2, HandlesTouched, TouchedSets
  <2>6. Known'
    BY <2>3, <2>4, <2>5 DEF Apart, Known
  <2>7. ASSUME NEW u \in Tasks, task'[u].pc = "insert" PROVE InsertBy(u)'
    <3>1. CASE u = t
      <4>1. Now(u)' = Now(t)
        BY <2>2, <3>1 DEF Sets, Now
      <4>2. Now(t) \notin Touched'
        BY <2>1, <2>5 DEF Apart, Known
      <4>3. files'[Now(t)] >= 0 /\ (u = Flusher => Now(t) \in Usage')
        BY <2>1, <2>2, <2>4, <3>1 DEF KindsGrow
      <4> QED
        BY <2>1, <2>3, <4>1, <4>2, <4>3 DEF InsertBy
    <3>2. CASE u # t
      <4>1. task'[u] = task[u]
        BY <2>2, <3>2 DEF Sets
      <4>2. InsertBy(u) /\ task[u].pc = "insert" /\ Now(u)' = Now(u)
        BY <2>7, <4>1 DEF Apart, Inserted, Now
      <4>3. /\ Now(u) \in Letters /\ Now(u) \in ToSet(born) /\ files[Now(u)] >= 0
            /\ u = Flusher => Now(u) \in Usage
            /\ Now(u) \notin Touched
        BY <4>2 DEF InsertBy
      <4>4. files'[Now(u)] >= 0 /\ (u = Flusher => Now(u) \in Usage')
        BY <2>2, <2>4, <4>3 DEF KindsGrow
      <4> QED
        BY <2>3, <2>5, <4>2, <4>3, <4>4 DEF InsertBy
    <3> QED
      BY <3>1, <3>2
  <2>8. Inserted'
    BY <2>7 DEF Inserted, InsertBy
  <2> QED
    BY <2>6, <2>8 DEF Apart
<1>2. ASSUME NEW t \in Tasks, CreateFails(t) PROVE Apart'
  <2>1. Now(t) \in Letters /\ Now(t) \notin ToSet(born)
    BY <1>2, CreateNew DEF CreateFails
  <2>2. /\ born' = Append(born, Now(t)) /\ born \in Seq(Letters) /\ KindsGrow
        /\ Resumes(t, task[t].letters) /\ ~Pruning(t) /\ Indexed' = Indexed
    BY <1>2, KindsStep, ResumeResumes, Pushers, SameIndex DEF CreateFails, Types
  <2>3. PICK rest \in {Absent, Torn} : files' = [files EXCEPT ![Now(t)] = rest]
    BY <1>2 DEF CreateFails
  <2>4. PICK pc \in {"check", "create", "list", "entry", "prune", "done"} : \E s : Sets(t, pc, s)
    BY <2>2 DEF Resumes
  <2>5. ToSet(born') = ToSet(born) \cup {Now(t)}
    BY <2>2, SetOfAppend
  <2>6. \A j \in Letters : j # Now(t) => files'[j] = files[j]
    BY <2>3, FileSet
  <2>7. Touched' \subseteq Touched
    BY <2>2, <2>4, HandlesTouched, TouchedSets
  <2>8. Known'
    BY <2>5, <2>6, <2>7 DEF Apart, Known
  <2>9. ASSUME NEW u \in Tasks, task'[u].pc = "insert" PROVE InsertBy(u)'
    <3>1. u # t
      BY <2>4, <2>9 DEF Sets
    <3>2. task'[u] = task[u]
      BY <2>4, <3>1 DEF Sets
    <3>3. InsertBy(u) /\ task[u].pc = "insert" /\ Now(u)' = Now(u)
      BY <2>9, <3>2 DEF Apart, Inserted, Now
    <3>4. /\ Now(u) \in Letters /\ Now(u) \in ToSet(born) /\ files[Now(u)] >= 0
          /\ u = Flusher => Now(u) \in Usage
          /\ Now(u) \notin Touched
      BY <3>3 DEF InsertBy
    <3>5. Now(u) # Now(t)
      BY <2>1, <3>4
    <3>6. files'[Now(u)] >= 0 /\ (u = Flusher => Now(u) \in Usage')
      BY <2>2, <2>6, <3>4, <3>5 DEF KindsGrow
    <3> QED
      BY <2>5, <2>7, <3>3, <3>4, <3>6 DEF InsertBy
  <2>a. Inserted'
    BY <2>9 DEF Inserted, InsertBy
  <2> QED
    BY <2>8, <2>a DEF Apart
<1>3. ASSUME NEW t \in Tasks, Insert(t) PROVE Apart'
  <2>1. /\ born' = born /\ files' = files /\ KindsGrow /\ task[t].pc = "insert"
        /\ Sets(t, "enforce", task[t].letters) /\ ~Pruning(t)
        /\ index' = [index EXCEPT ![Now(t)] = 0]
    BY <1>3, KindsStep, InsertSets, Pushers DEF Insert
  <2>2. Now(t) \in ToSet(born) /\ Indexed' \subseteq Indexed \cup {Now(t)}
    BY <2>1, IndexSet DEF Apart, Inserted, InsertBy
  <2>3. Touched' \subseteq Touched \cup {Now(t)}
    <3>1. \A u \in Tasks : Handles(u)' \subseteq Handles(u)
      BY <2>1 DEF Handles, Sets, Pruning, Now
    <3> QED
      BY <2>2, <3>1 DEF Touched
  <2>4. Known'
    BY <2>1, <2>2, <2>3 DEF Apart, Known
  <2>5. ASSUME NEW u \in Tasks, task'[u].pc = "insert" PROVE InsertBy(u)'
    <3>1. u # t
      BY <2>1, <2>5 DEF Sets
    <3>2. task'[u] = task[u]
      BY <2>1, <3>1 DEF Sets
    <3>3. InsertBy(u) /\ task[u].pc = "insert" /\ Now(u)' = Now(u)
      BY <2>5, <3>2 DEF Apart, Inserted, Now
    <3>4. Now(u) # Now(t)
      BY <2>1, <3>1, <3>3, InsertersDiffer
    <3> QED
      BY <2>1, <2>3, <3>3, <3>4 DEF InsertBy, KindsGrow
  <2>6. Inserted'
    BY <2>5 DEF Inserted, InsertBy
  <2> QED
    BY <2>4, <2>6 DEF Apart
<1>4. ASSUME NEW t \in Tasks, Enforce(t) PROVE Apart'
  <2>1. /\ born' = born /\ FilesKept /\ Indexed' = Indexed /\ KindsGrow
        /\ task[t].letters \in Seq(Letters)
    BY <1>4, SameFiles, SameIndex, KindsStep, RecordsAre DEF Enforce, dlqVars
  <2>2. CASE Resumes(t, task[t].letters)
    BY <2>1, <2>2, HandlesTouched, ApartResumes
  <2>3. CASE Sets(t, "evict", task[t].letters)
    BY <2>1, <2>3, HandlesTouched, ApartSets
  <2> QED
    BY <1>4, <2>2, <2>3, EnforceSets
<1>5. ASSUME NEW t \in Tasks, Evict(t) PROVE Apart'
  <2>1. /\ born' = born /\ FilesKept /\ KindsGrow /\ task[t].letters \in Seq(Letters)
    BY <1>5, SameFiles, KindsStep, RecordsAre DEF Evict
  <2>2. CASE /\ index' = index
             /\ Resumes(t, task[t].letters) \/ Sets(t, "evict", task[t].letters)
    BY <2>1, <2>2, SameIndex, HandlesTouched, ApartResumes, ApartSets
  <2>3. ASSUME NEW i \in Letters, Evicts(t, i) PROVE Apart'
    <3>1. /\ Sets(t, "unlink_victim", <<i>> \o task[t].letters) /\ i \in Indexed
          /\ index' = [index EXCEPT ![i] = Absent]
      BY <2>3 DEF Evicts
    <3>2. Indexed' \subseteq Indexed /\ i \in Touched
      BY <3>1, IndexSet, HandlesTouched
    <3> DEFINE s == <<i>> \o task[t].letters
    <3>3. s \in Seq(Letters) /\ s # <<>> /\ Head(s) = i /\ Tail(s) = task[t].letters
      BY <2>1, <2>3, InFront
    <3>4. Sets(t, "unlink_victim", s)
      BY <3>1
    <3> HIDE DEF s
    <3>5. ToSet(s) = {i} \cup ToSet(task[t].letters)
      BY <3>3, SetOfTail
    <3> QED
      BY <2>1, <3>2, <3>3, <3>4, <3>5, HandlesTouched, ApartSets
  <2> QED
    BY <1>5, <2>2, <2>3, EvictSets
<1>6. ASSUME NEW t \in Tasks, UnlinkVictim(t) PROVE Apart'
  <2>1. /\ born' = born /\ Indexed' = Indexed /\ KindsGrow /\ Now(t) \in Touched
        /\ task[t].letters \in Seq(Letters) /\ Tail(task[t].letters) \in Seq(Letters)
    BY <1>6, SameIndex, KindsStep, RecordsAre, NowTouched, UnlinkVictimSets DEF UnlinkVictim
  <2>2. FilesKept
    BY <1>6, <2>1, FileSet DEF UnlinkVictim
  <2>3. Pruning(t) => ToSet(Tail(task[t].letters)) \subseteq Touched
    <3>1. task[t].letters # <<>>
      BY <1>6 DEF UnlinkVictim, Shapes, Shape
    <3> QED
      BY <2>1, <3>1, SetOfTail, HandlesTouched
  <2>4. CASE Resumes(t, Tail(task[t].letters))
    BY <2>1, <2>2, <2>3, <2>4, ApartResumes
  <2>5. CASE Sets(t, "evict", Tail(task[t].letters))
    BY <2>1, <2>2, <2>3, <2>5, ApartSets
  <2> QED
    BY <1>6, <2>4, <2>5, UnlinkVictimSets
<1>7. ASSUME NEW t \in Tasks, RemoveEntry(t) PROVE Apart'
  <2>1. born' = born /\ FilesKept /\ KindsGrow /\ task[t].letters \in Seq(Letters)
    BY <1>7, SameFiles, KindsStep, RecordsAre DEF RemoveEntry
  <2>2. Indexed' \subseteq Indexed
    BY <1>7, RemoveEntrySets, IndexSet, SameIndex
  <2>3. CASE Resumes(t, task[t].letters)
    BY <2>1, <2>2, <2>3, HandlesTouched, ApartResumes
  <2>4. CASE Sets(t, "unlink", task[t].letters)
    BY <2>1, <2>2, <2>4, HandlesTouched, ApartSets
  <2> QED
    BY <1>7, <2>3, <2>4, RemoveEntrySets
<1>8. ASSUME NEW t \in Tasks, Unlink(t) \/ Rewrite(t) \/ RewriteFails(t) PROVE Apart'
  <2>1. /\ born' = born /\ Indexed' = Indexed /\ KindsGrow /\ Now(t) \in Touched
        /\ Resumes(t, task[t].letters) /\ task[t].letters \in Seq(Letters)
    BY <1>8, SameIndex, KindsStep, ResumeResumes, RecordsAre, NowTouched DEF Unlink,
       Rewrite, RewriteFails
  <2>2. PICK n : files' = [files EXCEPT ![Now(t)] = n]
    BY <1>8 DEF Unlink, Rewrite, RewriteFails
  <2>3. FilesKept
    BY <2>1, <2>2, FileSet
  <2> QED
    BY <2>1, <2>3, HandlesTouched, ApartResumes
<1>9. ASSUME NEW t \in Tasks, Mark(t) PROVE Apart'
  <2>1. born' = born /\ FilesKept /\ KindsGrow /\ task[t].letters \in Seq(Letters)
    BY <1>9, SameFiles, KindsStep, RecordsAre DEF Mark
  <2>2. Indexed' \subseteq Indexed
    BY <1>9, MarkSets, IndexSet, SameIndex
  <2>3. CASE Resumes(t, task[t].letters)
    BY <2>1, <2>2, <2>3, HandlesTouched, ApartResumes
  <2>4. CASE Sets(t, "truncate", task[t].letters)
    BY <2>1, <2>2, <2>4, HandlesTouched, ApartSets
  <2> QED
    BY <1>9, <2>3, <2>4, MarkSets
<1>10. ASSUME NEW t \in Tasks, Truncate(t) PROVE Apart'
  <2>1. /\ born' = born /\ Indexed' = Indexed /\ KindsGrow /\ Now(t) \in Touched
        /\ Sets(t, "rewrite", task[t].letters)
    BY <1>10, SameIndex, KindsStep, NowTouched, TruncateSets DEF Truncate
  <2>2. FilesKept
    BY <1>10, <2>1, FileSet DEF Truncate
  <2> QED
    BY <2>1, <2>2, HandlesTouched, ApartSets
<1>11. ASSUME NEW t \in Tasks, TruncateFails(t) PROVE Apart'
  <2>1. /\ born' = born /\ FilesKept /\ Indexed' = Indexed /\ KindsGrow
        /\ Resumes(t, task[t].letters) /\ task[t].letters \in Seq(Letters)
    BY <1>11, SameFiles, SameIndex, KindsStep, ResumeResumes, RecordsAre DEF
       TruncateFails, dlqVars
  <2> QED
    BY <2>1, HandlesTouched, ApartResumes
<1>12. ASSUME NEW i \in Letters, Push(i) PROVE Apart'
  <2>1. born' = born /\ task' = task /\ FilesKept /\ Indexed' = Indexed /\ KindsGrow
    BY <1>12, KindsStep, SameFiles, SameIndex DEF Push, dlqVars
  <2>2. Touched' = Touched
    BY <2>1 DEF Touched, Handles, Now
  <2> QED
    BY <2>1, <2>2, ApartKept
<1>13. ASSUME NEW i \in Letters, Enqueue(i) PROVE Apart'
  <2>1. /\ born' = born /\ FilesKept /\ Indexed' = Indexed /\ KindsGrow /\ i \in Tasks
    BY <1>13, SameFiles, SameIndex, KindsStep, TasksAre DEF Enqueue, dlqVars
  <2>2. ~Pruning(i) /\ \E pc \in {"queued", "create"} : \E s : Sets(i, pc, s)
    BY <1>13, EnqueueSets, TasksAre DEF Pruning
  <2> QED
    BY <2>1, <2>2, ApartSets
<1>14. ASSUME NEW i \in Letters, Deliver(i) PROVE Apart'
  <2>1. /\ born' = born /\ FilesKept /\ Indexed' = Indexed /\ KindsGrow /\ i \in Tasks
    BY <1>14, SameFiles, SameIndex, KindsStep, TasksAre DEF Deliver, dlqVars
  <2>2. ~Pruning(i) /\ task[i].letters \in Seq(Letters)
    BY <2>1, RecordsAre, TasksAre DEF Pruning
  <2>3. CASE Resumes(i, task[i].letters)
    BY <2>1, <2>2, <2>3, ApartResumes
  <2>4. CASE \E pc \in {"deliver", "create"} : Sets(i, pc, task[i].letters)
    BY <2>1, <2>2, <2>4, ApartSets
  <2> QED
    BY <1>14, <2>3, <2>4, DeliverSets
<1>15. ASSUME NEW i \in Letters, AdminRetry(i) PROVE Apart'
  <2>1. /\ born' = born /\ FilesKept /\ Indexed' = Indexed /\ KindsGrow /\ Admin \in Tasks
    BY <1>15, SameFiles, SameIndex, KindsStep, TasksAre DEF AdminRetry, dlqVars
  <2>2. Pruning(Admin) /\ Sets(Admin, "retry", <<i>>) /\ i \in Indexed
    BY <1>15, AdminRetrySets DEF Pruning, AdminRetry
  <2>3. ToSet(<<i>>) \subseteq Touched
    BY <2>1, <2>2, SetOfOne, HandlesTouched
  <2> QED
    BY <2>1, <2>2, <2>3, ApartSets
<1>16. ASSUME NEW i \in Letters, AdminDelete(i) PROVE Apart'
  <2>1. /\ born' = born /\ FilesKept /\ Indexed' = Indexed /\ KindsGrow /\ Admin \in Tasks
    BY <1>16, SameFiles, SameIndex, KindsStep, TasksAre DEF AdminDelete, dlqVars
  <2>2. Pruning(Admin) /\ Sets(Admin, "remove", <<i>>) /\ i \in Indexed
    BY <1>16, AdminDeleteSets DEF Pruning, AdminDelete
  <2>3. ToSet(<<i>>) \subseteq Touched
    BY <2>1, <2>2, SetOfOne, HandlesTouched
  <2> QED
    BY <2>1, <2>2, <2>3, ApartSets
<1>17. CASE Drain
  <2>1. /\ born' = born /\ FilesKept /\ Indexed' = Indexed /\ KindsGrow /\ Flusher \in Tasks
    BY <1>17, SameFiles, SameIndex, KindsStep, TasksAre DEF Drain, dlqVars
  <2>2. ~Pruning(Flusher) /\ \E pc \in {"drain", "check", "write_batch"} : \E s : Sets(Flusher, pc, s)
    BY <1>17, DrainSets, TasksAre DEF Pruning
  <2> QED
    BY <2>1, <2>2, ApartSets
<1>18. CASE WriteBatch
  <2>1. /\ born' = born /\ FilesKept /\ Indexed' = Indexed /\ KindsGrow /\ Flusher \in Tasks
    BY <1>18, SameFiles, SameIndex, KindsStep, TasksAre DEF WriteBatch, dlqVars
  <2>2. ~Pruning(Flusher) /\ \E pc \in {"check", "create"} : \E s : Sets(Flusher, pc, s)
    BY <1>18, WriteBatchSets, TasksAre DEF Pruning
  <2> QED
    BY <2>1, <2>2, ApartSets
<1>19. CASE CheckShutdown
  <2>1. /\ born' = born /\ FilesKept /\ Indexed' = Indexed /\ KindsGrow /\ Flusher \in Tasks
    BY <1>19, SameFiles, SameIndex, KindsStep, TasksAre DEF CheckShutdown, dlqVars
  <2>2. ~Pruning(Flusher) /\ \E pc \in {"drain", "exited"} : \E s : Sets(Flusher, pc, s)
    BY <1>19, CheckShutdownSets, TasksAre DEF Pruning
  <2> QED
    BY <2>1, <2>2, ApartSets
<1>20. CASE Receive \/ DbFails \/ DbReturns \/ Shutdown \/ UNCHANGED vars
  <2>1. born' = born /\ task' = task /\ FilesKept /\ Indexed' = Indexed /\ KindsGrow
    BY <1>20, KindsStep, SameFiles, SameIndex DEF Receive, DbFails, DbReturns, Shutdown,
       vars, dlqVars
  <2>2. Touched' = Touched
    BY <2>1 DEF Touched, Handles, Now
  <2> QED
    BY <2>1, <2>2, ApartKept
<1>21. CASE Acquire
  <2>1. born' = born /\ FilesKept /\ Indexed' = Indexed /\ KindsGrow
    BY <1>21, SameFiles, SameIndex, KindsStep DEF Acquire, dlqVars
  <2>2. PICK h \in Letters : Sets(h, "deliver", <<h>>)
    BY <1>21, AcquireSets
  <2>3. h \in Tasks /\ ~Pruning(h)
    BY TasksAre DEF Pruning
  <2> QED
    BY <2>1, <2>2, <2>3, ApartSets
<1>22. ASSUME NEW ready \in SUBSET Letters, List(ready) PROVE Apart'
  <2>1. /\ born' = born /\ FilesKept /\ Indexed' = Indexed /\ KindsGrow /\ Worker \in Tasks
    BY <1>22, SameFiles, SameIndex, KindsStep, TasksAre DEF List, dlqVars
  <2>2. Pruning(Worker) /\ \E pc \in {"prune", "entry"} : \E s \in Seq(Letters) :
          ToSet(s) \subseteq Indexed /\ Sets(Worker, pc, s)
    BY <1>22, ListSets DEF Pruning
  <2> QED
    BY <2>1, <2>2, HandlesTouched, ApartSets
<1>23. CASE ProcessEntry
  <2>1. /\ born' = born /\ FilesKept /\ Indexed' = Indexed /\ KindsGrow /\ Worker \in Tasks
    BY <1>23, SameFiles, SameIndex, KindsStep, TasksAre DEF ProcessEntry, dlqVars
  <2>2. Process(Worker) /\ Pruning(Worker) /\ task[Worker].letters \in Seq(Letters)
    BY <1>23, <2>1, RecordsAre DEF ProcessEntry, Pruning
  <2>3. CASE Resumes(Worker, task[Worker].letters)
    BY <2>1, <2>2, <2>3, HandlesTouched, ApartResumes
  <2>4. CASE \E pc \in {"remove", "mark"} : Sets(Worker, pc, task[Worker].letters)
    BY <2>1, <2>2, <2>4, HandlesTouched, ApartSets
  <2> QED
    BY <2>1, <2>2, <2>3, <2>4, ProcessSets
<1>24. CASE PruneOld
  <2>1. /\ born' = born /\ FilesKept /\ Indexed' = Indexed /\ KindsGrow /\ Worker \in Tasks
    BY <1>24, SameFiles, SameIndex, KindsStep, TasksAre DEF PruneOld, dlqVars
  <2>2. Pruning(Worker) /\ \E pc \in {"list", "evict"} : Sets(Worker, pc, <<>>)
    BY <1>24, PruneOldSets DEF Pruning
  <2> QED
    BY <2>1, <2>2, SetOfEmpty, ApartSets
<1>25. CASE AdminProcess
  <2>1. /\ born' = born /\ FilesKept /\ Indexed' = Indexed /\ KindsGrow /\ Admin \in Tasks
    BY <1>25, SameFiles, SameIndex, KindsStep, TasksAre DEF AdminProcess, dlqVars
  <2>2. Process(Admin) /\ Pruning(Admin) /\ task[Admin].letters \in Seq(Letters)
    BY <1>25, <2>1, RecordsAre DEF AdminProcess, Pruning
  <2>3. CASE Resumes(Admin, task[Admin].letters)
    BY <2>1, <2>2, <2>3, HandlesTouched, ApartResumes
  <2>4. CASE \E pc \in {"remove", "mark"} : Sets(Admin, pc, task[Admin].letters)
    BY <2>1, <2>2, <2>4, HandlesTouched, ApartSets
  <2> QED
    BY <2>1, <2>2, <2>3, <2>4, ProcessSets
<1>26. CASE AdminPrune
  <2>1. /\ born' = born /\ FilesKept /\ Indexed' = Indexed /\ KindsGrow /\ Admin \in Tasks
    BY <1>26, SameFiles, SameIndex, KindsStep, TasksAre DEF AdminPrune, dlqVars
  <2>2. Pruning(Admin) /\ Sets(Admin, "evict", <<>>)
    BY <1>26, AdminPruneSets DEF Pruning
  <2> QED
    BY <2>1, <2>2, SetOfEmpty, ApartSets
<1>27. CASE AdminPurge
  <2>1. born' = born /\ task' = task /\ KindsGrow
    BY <1>27, KindsStep DEF AdminPurge
  <2>2. Indexed' = {} /\ FilesKept
    BY <1>27 DEF AdminPurge, Indexed, FilesKept, Touched
  <2>3. Touched' \subseteq Touched
    BY <2>1, <2>2 DEF Touched, Handles, Now
  <2> QED
    BY <2>1, <2>2, <2>3, ApartKept
<1>28. CASE Restart
  <2>1. /\ task' = Starts /\ born' = born /\ files' = files
        /\ index' = [i \in Letters |-> IF files[i] = Torn THEN Absent ELSE files[i]]
    BY <1>28 DEF Restart
  <2>2. Indexed' \subseteq ToSet(born)
    BY <2>1 DEF Indexed, Apart, Known
  <2>3. \A t \in Tasks : task'[t].letters = <<>> /\ task'[t].pc \notin {"insert", "unlink_victim"}
    BY <2>1, StartsTyped
  <2>4. \A t \in Tasks : Handles(t)' = {}
    BY <2>3, SetOfEmpty DEF Handles, Pruning
  <2>5. Known'
    BY <2>1, <2>2, <2>4 DEF Apart, Known, Touched
  <2>6. Inserted'
    BY <2>3 DEF Inserted, InsertBy
  <2> QED
    BY <2>5, <2>6 DEF Apart
<1> QED
  BY NextCases, <1>1, <1>2, <1>3, <1>4, <1>5, <1>6, <1>7, <1>8, <1>9, <1>10, <1>11, <1>12,
     <1>13, <1>14, <1>15, <1>16, <1>17, <1>18, <1>19, <1>20, <1>21, <1>22, <1>23, <1>24,
     <1>25, <1>26, <1>27, <1>28

(* A file that is being unlinked has left the index for good. *)
UnlinkedBy(t) == task[t].pc \in {"unlink", "unlink_victim"} => Now(t) \notin Indexed
Unlinked == \A t \in Tasks : UnlinkedBy(t)

LEMMA UnlinkedSets ==
  ASSUME Unlinked, Indexed' \subseteq Indexed, NEW t \in Tasks, NEW pc, NEW s, Sets(t, pc, s),
         pc \in {"unlink", "unlink_victim"} => Head(s) \notin Indexed'
  PROVE  Unlinked'
<1> SUFFICES ASSUME NEW u \in Tasks, task'[u].pc \in {"unlink", "unlink_victim"}
             PROVE  Head(task'[u].letters) \notin Indexed'
  BY DEF Unlinked, UnlinkedBy, Now
<1>1. CASE u = t
  BY <1>1 DEF Sets
<1>2. CASE u # t
  BY <1>2 DEF Sets, Unlinked, UnlinkedBy, Now
<1> QED
  BY <1>1, <1>2

LEMMA UnlinkedResumes ==
  ASSUME Unlinked, Indexed' \subseteq Indexed, NEW t \in Tasks, NEW s, Resumes(t, s)
  PROVE  Unlinked'
<1>1. PICK pc \in {"check", "create", "list", "entry", "prune", "done"} : \E r : Sets(t, pc, r)
  BY DEF Resumes
<1> QED
  BY <1>1, UnlinkedSets

LEMMA UnlinkedStep ==
  ASSUME Types, Shapes, Apart, Unlinked, [Next]_vars
  PROVE  Unlinked'
<1>1. ASSUME NEW t \in Tasks, Create(t) PROVE Unlinked'
  <2>1. t \in Tasks /\ Indexed' = Indexed
    BY <1>1, TasksAre, SameIndex DEF Create, dlqVars
  <2>2. \/ \E s : Resumes(t, s)
        \/ \E pc \in {"insert"} : \E s : Sets(t, pc, s)
    BY <1>1, <2>1, CreateSets
  <2> QED
    BY <2>1, <2>2, UnlinkedResumes, UnlinkedSets
<1>2. ASSUME NEW t \in Tasks, CreateFails(t) \/ Unlink(t) \/ Rewrite(t) \/
            TruncateFails(t) \/ RewriteFails(t)
      PROVE  Unlinked'
  <2>1. Indexed' = Indexed /\ Resumes(t, task[t].letters)
    BY <1>2, SameIndex, ResumeResumes DEF CreateFails, Unlink, Rewrite, TruncateFails,
       RewriteFails, dlqVars
  <2> QED
    BY <2>1, UnlinkedResumes
<1>3. ASSUME NEW t \in Tasks, Insert(t) PROVE Unlinked'
  <2>1. /\ task[t].pc = "insert" /\ Sets(t, "enforce", task[t].letters)
        /\ index' = [index EXCEPT ![Now(t)] = 0]
    BY <1>3, InsertSets DEF Insert
  <2>2. Indexed' \subseteq Indexed \cup {Now(t)} /\ Now(t) \notin Touched
    BY <2>1, IndexSet DEF Apart, Inserted, InsertBy
  <2>3. ASSUME NEW u \in Tasks, task'[u].pc \in {"unlink", "unlink_victim"}
        PROVE  Now(u)' \notin Indexed'
    <3>1. task'[u] = task[u]
      BY <2>1, <2>3 DEF Sets
    <3>2. Now(u)' = Now(u) /\ Now(u) \in Touched /\ Now(u) \notin Indexed
      BY <2>3, <3>1, NowTouched DEF Now, Unlinked, UnlinkedBy
    <3> QED
      BY <2>2, <3>2
  <2> QED
    BY <2>3 DEF Unlinked, UnlinkedBy
<1>4. ASSUME NEW t \in Tasks, Enforce(t) \/ UnlinkVictim(t) PROVE Unlinked'
  <2>1. t \in Tasks /\ Indexed' = Indexed
    BY <1>4, TasksAre, SameIndex DEF Enforce, UnlinkVictim, dlqVars
  <2>2. \/ \E s : Resumes(t, s)
        \/ \E pc \in {"evict"} : \E s : Sets(t, pc, s)
    BY <1>4, <2>1, EnforceSets, UnlinkVictimSets
  <2> QED
    BY <2>1, <2>2, UnlinkedResumes, UnlinkedSets
<1>5. ASSUME NEW t \in Tasks, Evict(t) PROVE Unlinked'
  <2>1. CASE /\ index' = index
             /\ Resumes(t, task[t].letters) \/ Sets(t, "evict", task[t].letters)
    BY <2>1, SameIndex, UnlinkedResumes, UnlinkedSets
  <2>2. ASSUME NEW i \in Letters, Evicts(t, i) PROVE Unlinked'
    <3>1. /\ Sets(t, "unlink_victim", <<i>> \o task[t].letters)
          /\ index' = [index EXCEPT ![i] = Absent]
      BY <2>2 DEF Evicts
    <3>2. Indexed' \subseteq Indexed \ {i}
      BY <3>1, IndexSet
    <3>3. Head(<<i>> \o task[t].letters) = i
      BY <2>2, RecordsAre, InFront
    <3> QED
      BY <3>1, <3>2, <3>3, UnlinkedSets
  <2> QED
    BY <1>5, <2>1, <2>2, EvictSets
<1>6. ASSUME NEW t \in Tasks, RemoveEntry(t) PROVE Unlinked'
  <2>1. CASE index' = index /\ Resumes(t, task[t].letters)
    BY <2>1, SameIndex, UnlinkedResumes
  <2>2. CASE /\ index' = [index EXCEPT ![Now(t)] = Absent]
             /\ Sets(t, "unlink", task[t].letters)
    <3>1. Indexed' \subseteq Indexed \ {Now(t)}
      BY <2>2, IndexSet
    <3> QED
      BY <2>2, <3>1, UnlinkedSets DEF Now
  <2> QED
    BY <1>6, <2>1, <2>2, RemoveEntrySets
<1>7. ASSUME NEW t \in Tasks, Mark(t) PROVE Unlinked'
  <2>1. Indexed' \subseteq Indexed
    BY <1>7, MarkSets, IndexSet, SameIndex
  <2> QED
    BY <1>7, <2>1, MarkSets, UnlinkedSets, UnlinkedResumes
<1>8. ASSUME NEW t \in Tasks, Truncate(t) PROVE Unlinked'
  <2>1. t \in Tasks /\ Indexed' = Indexed
    BY <1>8, TasksAre, SameIndex DEF Truncate, dlqVars
  <2>2. \/ \E s : Resumes(t, s)
        \/ \E pc \in {"rewrite"} : \E s : Sets(t, pc, s)
    BY <1>8, <2>1, TruncateSets
  <2> QED
    BY <2>1, <2>2, UnlinkedResumes, UnlinkedSets
<1>9. ASSUME NEW i \in Letters, Push(i) PROVE Unlinked'
  <2>1. task' = task /\ Indexed' = Indexed
    BY <1>9, SameIndex DEF Push, dlqVars
  <2> QED
    BY <2>1 DEF Unlinked, UnlinkedBy, Now
<1>10. ASSUME NEW i \in Letters, Enqueue(i) PROVE Unlinked'
  <2>1. i \in Tasks /\ Indexed' = Indexed
    BY <1>10, TasksAre, SameIndex DEF Enqueue, dlqVars
  <2>2. \/ \E s : Resumes(i, s)
        \/ \E pc \in {"queued", "create"} : \E s : Sets(i, pc, s)
    BY <1>10, <2>1, EnqueueSets
  <2> QED
    BY <2>1, <2>2, UnlinkedResumes, UnlinkedSets
<1>11. ASSUME NEW i \in Letters, Deliver(i) PROVE Unlinked'
  <2>1. i \in Tasks /\ Indexed' = Indexed
    BY <1>11, TasksAre, SameIndex DEF Deliver, dlqVars
  <2>2. \/ \E s : Resumes(i, s)
        \/ \E pc \in {"deliver", "create"} : \E s : Sets(i, pc, s)
    BY <1>11, <2>1, DeliverSets
  <2> QED
    BY <2>1, <2>2, UnlinkedResumes, UnlinkedSets
<1>12. ASSUME NEW i \in Letters, AdminRetry(i) PROVE Unlinked'
  <2>1. Admin \in Tasks /\ Indexed' = Indexed
    BY <1>12, TasksAre, SameIndex DEF AdminRetry, dlqVars
  <2>2. \/ \E s : Resumes(Admin, s)
        \/ \E pc \in {"retry"} : \E s : Sets(Admin, pc, s)
    BY <1>12, <2>1, AdminRetrySets
  <2> QED
    BY <2>1, <2>2, UnlinkedResumes, UnlinkedSets
<1>13. ASSUME NEW i \in Letters, AdminDelete(i) PROVE Unlinked'
  <2>1. Admin \in Tasks /\ Indexed' = Indexed
    BY <1>13, TasksAre, SameIndex DEF AdminDelete, dlqVars
  <2>2. \/ \E s : Resumes(Admin, s)
        \/ \E pc \in {"remove"} : \E s : Sets(Admin, pc, s)
    BY <1>13, <2>1, AdminDeleteSets
  <2> QED
    BY <2>1, <2>2, UnlinkedResumes, UnlinkedSets
<1>14. CASE Drain
  <2>1. Flusher \in Tasks /\ Indexed' = Indexed
    BY <1>14, TasksAre, SameIndex DEF Drain, dlqVars
  <2>2. \/ \E s : Resumes(Flusher, s)
        \/ \E pc \in {"drain", "check", "write_batch"} : \E s : Sets(Flusher, pc, s)
    BY <1>14, <2>1, DrainSets
  <2> QED
    BY <2>1, <2>2, UnlinkedResumes, UnlinkedSets
<1>15. CASE WriteBatch
  <2>1. Flusher \in Tasks /\ Indexed' = Indexed
    BY <1>15, TasksAre, SameIndex DEF WriteBatch, dlqVars
  <2>2. \/ \E s : Resumes(Flusher, s)
        \/ \E pc \in {"check", "create"} : \E s : Sets(Flusher, pc, s)
    BY <1>15, <2>1, WriteBatchSets
  <2> QED
    BY <2>1, <2>2, UnlinkedResumes, UnlinkedSets
<1>16. CASE CheckShutdown
  <2>1. Flusher \in Tasks /\ Indexed' = Indexed
    BY <1>16, TasksAre, SameIndex DEF CheckShutdown, dlqVars
  <2>2. \/ \E s : Resumes(Flusher, s)
        \/ \E pc \in {"drain", "exited"} : \E s : Sets(Flusher, pc, s)
    BY <1>16, <2>1, CheckShutdownSets
  <2> QED
    BY <2>1, <2>2, UnlinkedResumes, UnlinkedSets
<1>17. CASE Receive \/ DbFails \/ DbReturns \/ Shutdown \/ UNCHANGED vars
  <2>1. task' = task /\ Indexed' = Indexed
    BY <1>17, SameIndex DEF Receive, DbFails, DbReturns, Shutdown, vars, dlqVars
  <2> QED
    BY <2>1 DEF Unlinked, UnlinkedBy, Now
<1>18. CASE Acquire
  <2>1. Indexed' = Indexed
    BY <1>18, SameIndex DEF Acquire, dlqVars
  <2>2. PICK h \in Letters : Sets(h, "deliver", <<h>>)
    BY <1>18, AcquireSets
  <2> QED
    BY <2>1, <2>2, TasksAre, UnlinkedSets
<1>19. ASSUME NEW ready \in SUBSET Letters, List(ready) PROVE Unlinked'
  <2>1. Worker \in Tasks /\ Indexed' = Indexed
    BY <1>19, TasksAre, SameIndex DEF List, dlqVars
  <2>2. \/ \E s : Resumes(Worker, s)
        \/ \E pc \in {"prune", "entry"} : \E s : Sets(Worker, pc, s)
    BY <1>19, <2>1, ListSets
  <2> QED
    BY <2>1, <2>2, UnlinkedResumes, UnlinkedSets
<1>20. CASE ProcessEntry
  <2>1. Worker \in Tasks /\ Indexed' = Indexed
    BY <1>20, TasksAre, SameIndex DEF ProcessEntry, dlqVars
  <2>2. \/ \E s : Resumes(Worker, s)
        \/ \E pc \in {"remove", "mark"} : \E s : Sets(Worker, pc, s)
    BY <1>20, <2>1, ProcessSets DEF ProcessEntry
  <2> QED
    BY <2>1, <2>2, UnlinkedResumes, UnlinkedSets
<1>21. CASE PruneOld
  <2>1. Worker \in Tasks /\ Indexed' = Indexed
    BY <1>21, TasksAre, SameIndex DEF PruneOld, dlqVars
  <2>2. \/ \E s : Resumes(Worker, s)
        \/ \E pc \in {"list", "evict"} : \E s : Sets(Worker, pc, s)
    BY <1>21, <2>1, PruneOldSets
  <2> QED
    BY <2>1, <2>2, UnlinkedResumes, UnlinkedSets
<1>22. CASE AdminProcess
  <2>1. Admin \in Tasks /\ Indexed' = Indexed
    BY <1>22, TasksAre, SameIndex DEF AdminProcess, dlqVars
  <2>2. \/ \E s : Resumes(Admin, s)
        \/ \E pc \in {"remove", "mark"} : \E s : Sets(Admin, pc, s)
    BY <1>22, <2>1, ProcessSets DEF AdminProcess
  <2> QED
    BY <2>1, <2>2, UnlinkedResumes, UnlinkedSets
<1>23. CASE AdminPrune
  <2>1. Admin \in Tasks /\ Indexed' = Indexed
    BY <1>23, TasksAre, SameIndex DEF AdminPrune, dlqVars
  <2>2. \/ \E s : Resumes(Admin, s)
        \/ \E pc \in {"evict"} : \E s : Sets(Admin, pc, s)
    BY <1>23, <2>1, AdminPruneSets
  <2> QED
    BY <2>1, <2>2, UnlinkedResumes, UnlinkedSets
<1>24. CASE AdminPurge
  <2>1. Indexed' = {}
    BY <1>24 DEF AdminPurge, Indexed
  <2> QED
    BY <2>1 DEF Unlinked, UnlinkedBy
<1>25. CASE Restart
  <2>1. task' = Starts
    BY <1>25 DEF Restart
  <2> QED
    BY <2>1, StartsTyped DEF Unlinked, UnlinkedBy
<1> QED
  BY NextCases, <1>1, <1>2, <1>3, <1>4, <1>5, <1>6, <1>7, <1>8, <1>9, <1>10, <1>11, <1>12,
     <1>13, <1>14, <1>15, <1>16, <1>17, <1>18, <1>19, <1>20, <1>21, <1>22, <1>23, <1>24,
     <1>25

(* The entries of the index keep their files; mark_retried, which may tear the
   file of its entry, has counted a retry of it before. *)
Counting ==
  \A t \in Tasks :
    task[t].pc \in {"truncate", "rewrite"} /\ Now(t) \in Indexed => index[Now(t)] > 0
Durable == ListedIsDurable /\ Counting

IndexKeeps == \A i \in Indexed' : i \in Indexed /\ (index[i] > 0 => index'[i] > 0)
FilesGood ==
  \A i \in Indexed' :
    files'[i] = files[i] \/ (files'[i] # Absent /\ (files'[i] = Torn => index'[i] > 0))

LEMMA DurableSets ==
  ASSUME Durable, IndexKeeps, FilesGood, NEW t \in Tasks, NEW pc, NEW s, Sets(t, pc, s),
         pc \in {"truncate", "rewrite"} /\ Head(s) \in Indexed' => index'[Head(s)] > 0
  PROVE  Durable'
<1>1. ListedIsDurable'
  BY DEF Durable, ListedIsDurable, IndexKeeps, FilesGood
<1>2. ASSUME NEW u \in Tasks, task'[u].pc \in {"truncate", "rewrite"},
             Head(task'[u].letters) \in Indexed'
      PROVE  index'[Head(task'[u].letters)] > 0
  <2>1. CASE u = t
    BY <1>2, <2>1 DEF Sets
  <2>2. CASE u # t
    <3>1. task'[u] = task[u]
      BY <2>2 DEF Sets
    <3> QED
      BY <1>2, <3>1 DEF Durable, Counting, IndexKeeps, Now
  <2> QED
    BY <2>1, <2>2
<1> QED
  BY <1>1, <1>2 DEF Durable, Counting, Now

LEMMA DurableResumes ==
  ASSUME Durable, IndexKeeps, FilesGood, NEW t \in Tasks, NEW s, Resumes(t, s)
  PROVE  Durable'
<1>1. PICK pc \in {"check", "create", "list", "entry", "prune", "done"} : \E r : Sets(t, pc, r)
  BY DEF Resumes
<1> QED
  BY <1>1, DurableSets

LEMMA GoodFiles ==
  ASSUME files' = files
  PROVE  FilesGood
BY DEF FilesGood

LEMMA GoodIndex ==
  ASSUME index' = index
  PROVE  IndexKeeps
BY DEF IndexKeeps, Indexed

LEMMA IndexKept ==
  ASSUME Types, NEW i, NEW n, index' = [index EXCEPT ![i] = n],
         n = Absent \/ (i \in Indexed /\ n > 0)
  PROVE  IndexKeeps
<1>1. index \in [Letters -> Absent .. MaxCount]
  BY DEF Types
<1>2. \A j \in Letters : index'[j] = IF j = i THEN n ELSE index[j]
  BY <1>1
<1> QED
  BY <1>2 DEF IndexKeeps, Indexed

(* What a step writes to the file of one letter. *)
LEMMA FileGood ==
  ASSUME Types, NEW i, NEW n, files' = [files EXCEPT ![i] = n],
         i \in Indexed' => n # Absent /\ (n = Torn => index'[i] > 0)
  PROVE  FilesGood
<1>1. \A j \in Letters : files'[j] = IF j = i THEN n ELSE files[j]
  BY FileSet
<1>2. Indexed' \subseteq Letters
  BY DEF Indexed
<1> QED
  BY <1>1, <1>2 DEF FilesGood

(* Every step keeps what is listed on the disk. *)
LEMMA DurableStep ==
  ASSUME Types, Shapes, Fresh, Eventful, Apart, Unlinked, Durable, [Next]_vars
  PROVE  Durable'
<1>1. ASSUME NEW t \in Tasks, Create(t) PROVE Durable'
  <2>1. /\ index' = index /\ files' = [files EXCEPT ![Now(t)] = 0]
        /\ Sets(t, "insert", task[t].letters)
    BY <1>1, CreateSets DEF Create
  <2>3. 0 # Absent /\ 0 # Torn
    BY DEF Absent, Torn
  <2>2. IndexKeeps /\ FilesGood
    BY <2>1, <2>3, GoodIndex, FileGood
  <2> QED
    BY <2>1, <2>2, DurableSets
<1>2. ASSUME NEW t \in Tasks, CreateFails(t) PROVE Durable'
  <2>1. index' = index /\ Resumes(t, task[t].letters) /\ Indexed' = Indexed
    BY <1>2, SameIndex, ResumeResumes DEF CreateFails
  <2>2. Now(t) \notin Indexed
    BY <1>2, CreateNew DEF CreateFails, Apart, Known, Touched
  <2>3. PICK rest \in {Absent, Torn} : files' = [files EXCEPT ![Now(t)] = rest]
    BY <1>2 DEF CreateFails
  <2>4. IndexKeeps /\ FilesGood
    BY <2>1, <2>2, <2>3, GoodIndex, FileGood
  <2> QED
    BY <2>1, <2>4, DurableResumes
<1>3. ASSUME NEW t \in Tasks, Insert(t) PROVE Durable'
  <2>1. /\ task[t].pc = "insert" /\ Sets(t, "enforce", task[t].letters) /\ files' = files
        /\ index' = [index EXCEPT ![Now(t)] = 0] /\ index \in [Letters -> Absent .. MaxCount]
    BY <1>3, InsertSets DEF Insert, Types
  <2>2. /\ Now(t) \notin Touched /\ files[Now(t)] # Absent /\ files[Now(t)] # Torn
    BY <2>1 DEF Apart, Inserted, InsertBy, Absent, Torn
  <2>3. \A j \in Letters : index'[j] = IF j = Now(t) THEN 0 ELSE index[j]
    BY <2>1
  <2>4. ListedIsDurable'
    BY <2>1, <2>2, <2>3 DEF Durable, ListedIsDurable, Indexed
  <2>5. ASSUME NEW u \in Tasks, task'[u].pc \in {"truncate", "rewrite"}, Now(u)' \in Indexed'
        PROVE  index'[Now(u)'] > 0
    <3>1. task'[u] = task[u]
      BY <2>1, <2>5 DEF Sets
    <3>2. Now(u)' = Now(u) /\ Now(u) \in Touched
      BY <2>5, <3>1, NowTouched DEF Now
    <3>3. Now(u) \in Indexed /\ index'[Now(u)] = index[Now(u)]
      BY <2>2, <2>3, <2>5, <3>2 DEF Indexed
    <3> QED
      BY <2>5, <3>1, <3>2, <3>3 DEF Durable, Counting
  <2> QED
    BY <2>4, <2>5 DEF Durable, Counting
<1>4. ASSUME NEW t \in Tasks, Enforce(t) PROVE Durable'
  <2>1. t \in Tasks /\ IndexKeeps /\ FilesGood
    BY <1>4, TasksAre, GoodIndex, GoodFiles DEF Enforce, dlqVars
  <2>2. \/ \E s : Resumes(t, s)
        \/ \E pc \in {"evict"} : \E s : Sets(t, pc, s)
    BY <1>4, <2>1, EnforceSets
  <2> QED
    BY <2>1, <2>2, DurableSets, DurableResumes
<1>5. ASSUME NEW t \in Tasks, Evict(t) PROVE Durable'
  <2>1. FilesGood
    BY <1>5, GoodFiles DEF Evict
  <2>2. CASE /\ index' = index
             /\ Resumes(t, task[t].letters) \/ Sets(t, "evict", task[t].letters)
    BY <2>1, <2>2, GoodIndex, DurableSets, DurableResumes
  <2>3. ASSUME NEW i \in Letters, Evicts(t, i) PROVE Durable'
    BY <2>1, <2>3, IndexKept, DurableSets DEF Evicts
  <2> QED
    BY <1>5, <2>2, <2>3, EvictSets
<1>6. ASSUME NEW t \in Tasks, UnlinkVictim(t) PROVE Durable'
  <2>1. /\ index' = index /\ Indexed' = Indexed /\ files' = [files EXCEPT ![Now(t)] = Absent]
        /\ task[t].pc \in {"unlink", "unlink_victim"}
    BY <1>6, SameIndex DEF UnlinkVictim
  <2>2. Now(t) \notin Indexed
    BY <2>1 DEF Unlinked, UnlinkedBy
  <2>3. IndexKeeps /\ FilesGood
    BY <2>1, <2>2, GoodIndex, FileGood
  <2>4. \/ \E s : Resumes(t, s)
        \/ \E s : Sets(t, "evict", s)
    BY <1>6, UnlinkVictimSets
  <2> QED
    BY <2>3, <2>4, DurableSets, DurableResumes
<1>7. ASSUME NEW t \in Tasks, RemoveEntry(t) PROVE Durable'
  <2>1. FilesGood
    BY <1>7, GoodFiles DEF RemoveEntry
  <2>2. IndexKeeps
    BY <1>7, RemoveEntrySets, IndexKept, GoodIndex
  <2> QED
    BY <1>7, <2>1, <2>2, RemoveEntrySets, DurableSets, DurableResumes
<1>8. ASSUME NEW t \in Tasks, Unlink(t) PROVE Durable'
  <2>1. /\ index' = index /\ Indexed' = Indexed /\ files' = [files EXCEPT ![Now(t)] = Absent]
        /\ task[t].pc \in {"unlink", "unlink_victim"}
    BY <1>8, SameIndex DEF Unlink
  <2>2. Now(t) \notin Indexed
    BY <2>1 DEF Unlinked, UnlinkedBy
  <2>3. IndexKeeps /\ FilesGood
    BY <2>1, <2>2, GoodIndex, FileGood
  <2>4. \/ \E s : Resumes(t, s)
        \/ \E s : Sets(t, "evict", s)
    BY <1>8, ResumeResumes DEF Unlink
  <2> QED
    BY <2>3, <2>4, DurableSets, DurableResumes
<1>9. ASSUME NEW t \in Tasks, Mark(t) PROVE Durable'
  <2>1. FilesGood
    BY <1>9, GoodFiles DEF Mark
  <2>2. CASE index' = index /\ Resumes(t, task[t].letters)
    BY <2>1, <2>2, GoodIndex, DurableResumes
  <2>3. ASSUME Now(t) \in Indexed, NEW n \in 1 .. MaxCount,
               index' = [index EXCEPT ![Now(t)] = n], Sets(t, "truncate", task[t].letters)
        PROVE  Durable'
    <3>1. n > 0
      BY <2>3
    <3>2. IndexKeeps
      BY <2>3, <3>1, IndexKept
    <3>3. index'[Now(t)] > 0
      BY <2>3, <3>1 DEF Types, Indexed
    <3> QED
      BY <2>1, <2>3, <3>2, <3>3, DurableSets DEF Now
  <2> QED
    BY <1>9, <2>2, <2>3, MarkSets
<1>10. ASSUME NEW t \in Tasks, Truncate(t) PROVE Durable'
  <2>1. /\ index' = index /\ Indexed' = Indexed /\ files' = [files EXCEPT ![Now(t)] = Torn]
        /\ task[t].pc = "truncate" /\ Sets(t, "rewrite", task[t].letters)
    BY <1>10, SameIndex, TruncateSets DEF Truncate
  <2>2. Now(t) \in Indexed => index[Now(t)] > 0
    BY <2>1 DEF Durable, Counting
  <2>4. Torn # Absent
    BY DEF Absent, Torn
  <2>3. IndexKeeps /\ FilesGood
    BY <2>1, <2>2, <2>4, GoodIndex, FileGood
  <2> QED
    BY <2>1, <2>2, <2>3, DurableSets DEF Now
<1>11. ASSUME NEW t \in Tasks, Rewrite(t) PROVE Durable'
  <2>1. /\ index' = index /\ Indexed' = Indexed /\ task[t].pc = "rewrite"
        /\ Resumes(t, task[t].letters)
    BY <1>11, SameIndex, ResumeResumes DEF Rewrite
  <2>2. Now(t) \in Indexed => index[Now(t)] > 0 /\ files[Now(t)] # Absent
    BY <2>1 DEF Durable, Counting, ListedIsDurable
  <2>3. PICK n \in Written(Now(t), task[t].count) : files' = [files EXCEPT ![Now(t)] = n]
    BY <1>11 DEF Rewrite
  <2>4. task[t].count # Absent /\ Torn # Absent
    BY RecordsAre DEF Absent, Torn
  <2>5. Now(t) \in Indexed => n # Absent
    BY <2>2, <2>3, <2>4 DEF Written
  <2>6. IndexKeeps /\ FilesGood
    BY <2>1, <2>2, <2>3, <2>5, GoodIndex, FileGood
  <2> QED
    BY <2>1, <2>6, DurableResumes
<1>12. ASSUME NEW t \in Tasks, TruncateFails(t) PROVE Durable'
  <2>1. IndexKeeps /\ FilesGood /\ Resumes(t, task[t].letters)
    BY <1>12, GoodIndex, GoodFiles, ResumeResumes DEF TruncateFails, dlqVars
  <2> QED
    BY <2>1, DurableResumes
<1>13. ASSUME NEW t \in Tasks, RewriteFails(t) PROVE Durable'
  <2>1. /\ index' = index /\ Indexed' = Indexed /\ task[t].pc = "rewrite"
        /\ Resumes(t, task[t].letters)
    BY <1>13, SameIndex, ResumeResumes DEF RewriteFails
  <2>2. Now(t) \in Indexed => index[Now(t)] > 0 /\ files[Now(t)] # Absent
    BY <2>1 DEF Durable, Counting, ListedIsDurable
  <2>3. PICK n \in Written(Now(t), Torn) \cup {files[Now(t)]} : files' = [files EXCEPT ![Now(t)] = n]
    BY <1>13 DEF RewriteFails
  <2>4. Torn # Absent /\ Torn # Absent
    BY RecordsAre DEF Absent, Torn
  <2>5. Now(t) \in Indexed => n # Absent
    BY <2>2, <2>3, <2>4 DEF Written
  <2>6. IndexKeeps /\ FilesGood
    BY <2>1, <2>2, <2>3, <2>5, GoodIndex, FileGood
  <2> QED
    BY <2>1, <2>6, DurableResumes
<1>14. ASSUME NEW i \in Letters, Push(i) PROVE Durable'
  <2>1. UNCHANGED <<task, files, index>>
    BY <1>14 DEF Push, dlqVars
  <2> QED
    BY <2>1 DEF Durable, ListedIsDurable, Counting, Indexed, Now
<1>15. ASSUME NEW i \in Letters, Enqueue(i) PROVE Durable'
  <2>1. i \in Tasks /\ IndexKeeps /\ FilesGood
    BY <1>15, TasksAre, GoodIndex, GoodFiles DEF Enqueue, dlqVars
  <2>2. \/ \E s : Resumes(i, s)
        \/ \E pc \in {"queued", "create"} : \E s : Sets(i, pc, s)
    BY <1>15, <2>1, EnqueueSets
  <2> QED
    BY <2>1, <2>2, DurableSets, DurableResumes
<1>16. ASSUME NEW i \in Letters, Deliver(i) PROVE Durable'
  <2>1. i \in Tasks /\ IndexKeeps /\ FilesGood
    BY <1>16, TasksAre, GoodIndex, GoodFiles DEF Deliver, dlqVars
  <2>2. \/ \E s : Resumes(i, s)
        \/ \E pc \in {"deliver", "create"} : \E s : Sets(i, pc, s)
    BY <1>16, <2>1, DeliverSets
  <2> QED
    BY <2>1, <2>2, DurableSets, DurableResumes
<1>17. ASSUME NEW i \in Letters, AdminRetry(i) PROVE Durable'
  <2>1. Admin \in Tasks /\ IndexKeeps /\ FilesGood
    BY <1>17, TasksAre, GoodIndex, GoodFiles DEF AdminRetry, dlqVars
  <2>2. \/ \E s : Resumes(Admin, s)
        \/ \E pc \in {"retry"} : \E s : Sets(Admin, pc, s)
    BY <1>17, <2>1, AdminRetrySets
  <2> QED
    BY <2>1, <2>2, DurableSets, DurableResumes
<1>18. ASSUME NEW i \in Letters, AdminDelete(i) PROVE Durable'
  <2>1. Admin \in Tasks /\ IndexKeeps /\ FilesGood
    BY <1>18, TasksAre, GoodIndex, GoodFiles DEF AdminDelete, dlqVars
  <2>2. \/ \E s : Resumes(Admin, s)
        \/ \E pc \in {"remove"} : \E s : Sets(Admin, pc, s)
    BY <1>18, <2>1, AdminDeleteSets
  <2> QED
    BY <2>1, <2>2, DurableSets, DurableResumes
<1>19. CASE Drain
  <2>1. Flusher \in Tasks /\ IndexKeeps /\ FilesGood
    BY <1>19, TasksAre, GoodIndex, GoodFiles DEF Drain, dlqVars
  <2>2. \/ \E s : Resumes(Flusher, s)
        \/ \E pc \in {"drain", "check", "write_batch"} : \E s : Sets(Flusher, pc, s)
    BY <1>19, <2>1, DrainSets
  <2> QED
    BY <2>1, <2>2, DurableSets, DurableResumes
<1>20. CASE WriteBatch
  <2>1. Flusher \in Tasks /\ IndexKeeps /\ FilesGood
    BY <1>20, TasksAre, GoodIndex, GoodFiles DEF WriteBatch, dlqVars
  <2>2. \/ \E s : Resumes(Flusher, s)
        \/ \E pc \in {"check", "create"} : \E s : Sets(Flusher, pc, s)
    BY <1>20, <2>1, WriteBatchSets
  <2> QED
    BY <2>1, <2>2, DurableSets, DurableResumes
<1>21. CASE CheckShutdown
  <2>1. Flusher \in Tasks /\ IndexKeeps /\ FilesGood
    BY <1>21, TasksAre, GoodIndex, GoodFiles DEF CheckShutdown, dlqVars
  <2>2. \/ \E s : Resumes(Flusher, s)
        \/ \E pc \in {"drain", "exited"} : \E s : Sets(Flusher, pc, s)
    BY <1>21, <2>1, CheckShutdownSets
  <2> QED
    BY <2>1, <2>2, DurableSets, DurableResumes
<1>22. CASE Receive \/ DbFails \/ DbReturns \/ Shutdown \/ UNCHANGED vars
  <2>1. UNCHANGED <<task, files, index>>
    BY <1>22 DEF Receive, DbFails, DbReturns, Shutdown, vars, dlqVars
  <2> QED
    BY <2>1 DEF Durable, ListedIsDurable, Counting, Indexed, Now
<1>23. CASE Acquire
  <2>1. IndexKeeps /\ FilesGood
    BY <1>23, GoodIndex, GoodFiles DEF Acquire, dlqVars
  <2>2. PICK h \in Letters : Sets(h, "deliver", <<h>>)
    BY <1>23, AcquireSets
  <2> QED
    BY <2>1, <2>2, TasksAre, DurableSets
<1>24. ASSUME NEW ready \in SUBSET Letters, List(ready) PROVE Durable'
  <2>1. Worker \in Tasks /\ IndexKeeps /\ FilesGood
    BY <1>24, TasksAre, GoodIndex, GoodFiles DEF List, dlqVars
  <2>2. \/ \E s : Resumes(Worker, s)
        \/ \E pc \in {"prune", "entry"} : \E s : Sets(Worker, pc, s)
    BY <1>24, <2>1, ListSets
  <2> QED
    BY <2>1, <2>2, DurableSets, DurableResumes
<1>25. CASE ProcessEntry
  <2>1. Worker \in Tasks /\ IndexKeeps /\ FilesGood
    BY <1>25, TasksAre, GoodIndex, GoodFiles DEF ProcessEntry, dlqVars
  <2>2. \/ \E s : Resumes(Worker, s)
        \/ \E pc \in {"remove", "mark"} : \E s : Sets(Worker, pc, s)
    BY <1>25, <2>1, ProcessSets DEF ProcessEntry
  <2> QED
    BY <2>1, <2>2, DurableSets, DurableResumes
<1>26. CASE PruneOld
  <2>1. Worker \in Tasks /\ IndexKeeps /\ FilesGood
    BY <1>26, TasksAre, GoodIndex, GoodFiles DEF PruneOld, dlqVars
  <2>2. \/ \E s : Resumes(Worker, s)
        \/ \E pc \in {"list", "evict"} : \E s : Sets(Worker, pc, s)
    BY <1>26, <2>1, PruneOldSets
  <2> QED
    BY <2>1, <2>2, DurableSets, DurableResumes
<1>27. CASE AdminProcess
  <2>1. Admin \in Tasks /\ IndexKeeps /\ FilesGood
    BY <1>27, TasksAre, GoodIndex, GoodFiles DEF AdminProcess, dlqVars
  <2>2. \/ \E s : Resumes(Admin, s)
        \/ \E pc \in {"remove", "mark"} : \E s : Sets(Admin, pc, s)
    BY <1>27, <2>1, ProcessSets DEF AdminProcess
  <2> QED
    BY <2>1, <2>2, DurableSets, DurableResumes
<1>28. CASE AdminPrune
  <2>1. Admin \in Tasks /\ IndexKeeps /\ FilesGood
    BY <1>28, TasksAre, GoodIndex, GoodFiles DEF AdminPrune, dlqVars
  <2>2. \/ \E s : Resumes(Admin, s)
        \/ \E pc \in {"evict"} : \E s : Sets(Admin, pc, s)
    BY <1>28, <2>1, AdminPruneSets
  <2> QED
    BY <2>1, <2>2, DurableSets, DurableResumes
<1>29. CASE AdminPurge
  <2>1. Indexed' = {}
    BY <1>29 DEF AdminPurge, Indexed
  <2> QED
    BY <2>1 DEF Durable, ListedIsDurable, Counting
<1>30. CASE Restart
  <2>1. /\ files' = files /\ task' = Starts
        /\ index' = [i \in Letters |-> IF files[i] = Torn THEN Absent ELSE files[i]]
    BY <1>30 DEF Restart
  <2>2. ListedIsDurable'
    BY <2>1 DEF ListedIsDurable, Indexed
  <2>3. Counting'
    BY <2>1, StartsTyped DEF Counting
  <2> QED
    BY <2>2, <2>3 DEF Durable
<1> QED
  BY NextCases, <1>1, <1>2, <1>3, <1>4, <1>5, <1>6, <1>7, <1>8, <1>9, <1>10, <1>11, <1>12,
     <1>13, <1>14, <1>15, <1>16, <1>17, <1>18, <1>19, <1>20, <1>21, <1>22, <1>23, <1>24,
     <1>25, <1>26, <1>27, <1>28, <1>29, <1>30

LEMMA InitApart == Init => Apart /\ Unlinked /\ Durable
<1> SUFFICES ASSUME Init PROVE Apart /\ Unlinked /\ Durable
  OBVIOUS
<1>1. task = Starts /\ Indexed = {} /\ \A i \in Letters : files[i] = Absent
  BY DEF Init, Indexed
<1>2. \A t \in Tasks : task[t].letters = <<>> /\ task[t].pc \notin {"insert", "unlink", "unlink_victim"}
  BY <1>1, StartsTyped
<1>3. \A t \in Tasks : Handles(t) = {}
  BY <1>2, SetOfEmpty DEF Handles
<1>4. Touched = {}
  BY <1>1, <1>3 DEF Touched
<1>5. Apart
  BY <1>1, <1>2, <1>4 DEF Apart, Known, Inserted, InsertBy
<1> QED
  BY <1>1, <1>2, <1>5 DEF Unlinked, UnlinkedBy, Durable, ListedIsDurable, Counting

(* What the queue lists has its file, and one that load_from_disk can read
   unless a retry of the entry was counted, at every moment of any
   interleaving of pushes, retries, evictions, prunes and purges, and whatever
   writes fail.  A file is unlinked only after its entry left the index, and
   no entry comes back: a push puts an entry into the index for a letter that
   no other task can know of yet.  A file is torn only by mark_retried, which
   has counted the retry before it writes, or by a push that fails and then
   never lists its letter. *)
THEOREM ListedSurvives == Spec => []ListedIsDurable
<1> DEFINE Inv == Orderly /\ Apart /\ Unlinked /\ Durable
<1>1. Init => Inv
  BY InitOrderly, InitApart
<1>2. Inv /\ [Next]_vars => Inv'
  BY OrderlyStep, ApartStep, UnlinkedStep, DurableStep DEF Orderly
<1>3. Inv => ListedIsDurable
  BY DEF Durable
<1> QED
  BY <1>1, <1>2, <1>3, PTL DEF Spec

-----------------------------------------------------------------------------
(* Room in the directory.                                                    *)

LEMMA Finite ==
  /\ IsFiniteSet(Indexed) /\ IsFiniteSet(Tasks) /\ Cardinality(Indexed) \in Nat
  /\ \A S \in SUBSET Indexed : IsFiniteSet(S) /\ Cardinality(S) \in Nat
  /\ \A S \in SUBSET Tasks : IsFiniteSet(S) /\ Cardinality(S) \in Nat
<1>1. IsFiniteSet(Letters) /\ Indexed \subseteq Letters
  BY DlqAssumption DEF Indexed
<1>2. IsFiniteSet(Indexed)
  BY <1>1, FS_Subset
<1>3. IsFiniteSet(Tasks)
  <2>1. IsFiniteSet(Letters \cup {Flusher})
    BY <1>1, FS_AddElement
  <2>2. IsFiniteSet((Letters \cup {Flusher}) \cup {Worker})
    BY <2>1, FS_AddElement
  <2>3. IsFiniteSet(((Letters \cup {Flusher}) \cup {Worker}) \cup {Admin})
    BY <2>2, FS_AddElement
  <2>4. Tasks = ((Letters \cup {Flusher}) \cup {Worker}) \cup {Admin}
    BY DEF Tasks
  <2> QED
    BY <2>3, <2>4
<1>4. \A S \in SUBSET Indexed : IsFiniteSet(S)
  BY <1>2, FS_Subset
<1>5. \A S \in SUBSET Tasks : IsFiniteSet(S)
  BY <1>3, FS_Subset
<1> QED
  BY <1>2, <1>3, <1>4, <1>5, FS_CardinalityType

(* created_at orders what was pushed. *)
LEMMA OlderOrders ==
  ASSUME Types, BornOnce, NEW i \in ToSet(born), NEW j \in ToSet(born)
  PROVE  /\ i # j => Older(i, j) \/ Older(j, i)
         /\ ~Older(i, i)
         /\ \A k : Older(k, i) /\ Older(i, j) => Older(k, j)
<1>1. born \in Seq(Letters) /\ DOMAIN born = 1 .. Len(born) /\ Len(born) \in Nat
  BY DEF Types
<1>2. \A m, n \in DOMAIN born : born[m] = born[n] => m = n
  BY DEF BornOnce, IsInjective
<1>3. PICK m \in DOMAIN born : born[m] = i
  BY DEF ToSet
<1>4. PICK n \in DOMAIN born : born[n] = j
  BY DEF ToSet
<1>5. m \in Int /\ n \in Int /\ DOMAIN born \subseteq Int
  BY <1>1
<1>6. i # j => Older(i, j) \/ Older(j, i)
  BY <1>3, <1>4, <1>5 DEF Older
<1>7. ~Older(i, i)
  BY <1>2, <1>5 DEF Older
<1>8. ASSUME NEW k, Older(k, i), Older(i, j) PROVE Older(k, j)
  <2>1. PICK p, q \in DOMAIN born : p < q /\ born[p] = k /\ born[q] = i
    BY <1>8 DEF Older
  <2>2. PICK r, s \in DOMAIN born : r < s /\ born[r] = i /\ born[s] = j
    BY <1>8 DEF Older
  <2>3. q = r
    BY <1>2, <2>1, <2>2
  <2>4. p < s
    BY <1>5, <2>1, <2>2, <2>3
  <2> QED
    BY <2>1, <2>2, <2>4 DEF Older
<1> QED
  BY <1>6, <1>7, <1>8

(* enforce_max_files picks enough of them: the entries that stay have at
   least k older ones, and different numbers of them. *)
LEMMA OldestEnough ==
  ASSUME Types, BornOnce, Known, NEW k \in Nat, k <= Cardinality(Indexed)
  PROVE  Cardinality(Indexed \ OldestOf(k)) <= Cardinality(Indexed) - k
<1> DEFINE n == Cardinality(Indexed)
           Before(i) == {j \in Indexed : Older(j, i)}
           Stay == Indexed \ OldestOf(k)
           rank == [i \in Stay |-> Cardinality(Before(i))]
<1>1. Indexed \subseteq ToSet(born) /\ n \in Nat /\ Stay \subseteq Indexed
  BY Finite DEF Known, Touched
<1>2. ASSUME NEW i \in Indexed
      PROVE  /\ i \notin Before(i) /\ Before(i) \subseteq Indexed
             /\ IsFiniteSet(Before(i)) /\ Cardinality(Before(i)) \in Nat
  BY <1>1, <1>2, OlderOrders, Finite
<1>3. ASSUME NEW i \in Indexed, NEW S \in SUBSET Indexed, Before(i) \cup {i} \subseteq S
      PROVE  Cardinality(Before(i)) < Cardinality(S)
  <2>1. Cardinality(Before(i) \cup {i}) = Cardinality(Before(i)) + 1
    BY <1>2, FS_AddElement
  <2>2. IsFiniteSet(S) /\ Cardinality(S) \in Nat
    BY Finite
  <2>3. Cardinality(Before(i) \cup {i}) <= Cardinality(S)
    BY <1>3, <2>2, FS_Subset
  <2> QED
    BY <1>2, <2>1, <2>2, <2>3
<1>4. ASSUME NEW i \in Indexed, NEW j \in Indexed, Older(i, j)
      PROVE  Cardinality(Before(i)) < Cardinality(Before(j))
  <2>1. Before(i) \cup {i} \subseteq Before(j)
    BY <1>1, <1>4, OlderOrders
  <2>2. Before(j) \in SUBSET Indexed
    BY <1>2
  <2> HIDE DEF Before
  <2> QED
    BY <1>3, <2>1, <2>2
<1>5. ASSUME NEW i \in Stay
      PROVE  Cardinality(Before(i)) \in k .. n - 1
  <2>1. i \in Indexed /\ ~(Cardinality(Before(i)) < k)
    BY <1>1, <1>5 DEF OldestOf
  <2>2. Cardinality(Before(i)) \in Nat /\ Before(i) \cup {i} \subseteq Indexed
    BY <1>2, <2>1
  <2>3. Cardinality(Before(i)) < n
    BY <1>3, <2>1, <2>2
  <2> HIDE DEF Before, n
  <2> QED
    BY <1>1, <2>1, <2>2, <2>3
<1>6. ASSUME NEW i \in Stay, NEW j \in Stay, i # j
      PROVE  Cardinality(Before(i)) # Cardinality(Before(j))
  <2>1. i \in Indexed /\ j \in Indexed /\ (Older(i, j) \/ Older(j, i))
    BY <1>1, <1>6, OlderOrders
  <2>2. Cardinality(Before(i)) \in Nat /\ Cardinality(Before(j)) \in Nat
    BY <1>2, <2>1
  <2>3. \/ Cardinality(Before(i)) < Cardinality(Before(j))
        \/ Cardinality(Before(j)) < Cardinality(Before(i))
    BY <1>4, <2>1
  <2> HIDE DEF Before
  <2> QED
    BY <2>2, <2>3
<1> HIDE DEF Before, Stay, n
<1>7. rank \in Injection(Stay, k .. n - 1)
  <2>1. rank \in [Stay -> k .. n - 1]
    BY <1>5
  <2>2. IsInjective(rank)
    BY <1>6 DEF IsInjective
  <2> QED
    BY <2>1, <2>2 DEF Injection
<1>8. IsFiniteSet(k .. n - 1) /\ Cardinality(k .. n - 1) = n - k
  <2>1. k \in Int /\ n - 1 \in Int /\ k <= n
    BY <1>1 DEF n
  <2>2. /\ IsFiniteSet(k .. n - 1)
        /\ Cardinality(k .. n - 1) = IF k > n - 1 THEN 0 ELSE (n - 1) - k + 1
    BY <2>1, FS_Interval
  <2> QED
    BY <1>1, <2>1, <2>2
<1>9. Cardinality(Stay) <= Cardinality(k .. n - 1)
  BY <1>7, <1>8, FS_Injection
<1> QED
  BY <1>8, <1>9 DEF Stay, n

(* The pushes that evict, and what they have yet to remove. *)
Evicting == {t \in Tasks : task[t].pc \in {"evict", "unlink_victim"} /\ ~Pruning(t)}
Marked(P) == UNION {task[t].victims : t \in P}

(* Pushes that are evicting leave no surplus: without their victims the index
   has at most max_files entries, and one more for every other push. *)
Room(P) == Cardinality(Indexed \ Marked(P)) <= MaxFiles + Cardinality(Pushing \ P)
RoomMade == \A P \in SUBSET Evicting : P # {} => Room(P)

(* What a step can be to the pushes: nothing, ... *)
Quiet ==
  /\ Indexed' \subseteq Indexed /\ Pushing' = Pushing /\ Evicting' = Evicting
  /\ \A t \in Evicting : Indexed' \cap task[t].victims \subseteq task'[t].victims

(* ... a new entry, ... *)
Joins(t) ==
  /\ t \notin Pushing /\ Pushing' = Pushing \cup {t} /\ Evicting' = Evicting
  /\ \A u \in Evicting : task'[u].victims = task[u].victims
  /\ \E i : Indexed' \subseteq Indexed \cup {i}

(* ... the choice of victims, ... *)
Plans(t) ==
  /\ Indexed' = Indexed /\ Pushing' = Pushing
  /\ t \notin Evicting /\ Evicting' = Evicting \cup {t}
  /\ \A u \in Evicting : task'[u].victims = task[u].victims
  /\ Cardinality(Indexed \ task'[t].victims) <= MaxFiles

(* ... or the end of a push. *)
Ends(t) ==
  /\ Indexed' = Indexed /\ t \in Pushing /\ Pushing' = Pushing \ {t}
  /\ Evicting' = Evicting \ {t}
  /\ \A u \in Evicting \ {t} : task'[u].victims = task[u].victims
  /\ \/ Cardinality(Indexed) <= MaxFiles
     \/ t \in Evicting /\ Indexed \cap task[t].victims = {}

LEMMA SmallerSet ==
  ASSUME NEW S, NEW T, IsFiniteSet(T), S \subseteq T
  PROVE  Cardinality(S) <= Cardinality(T) /\ Cardinality(S) \in Nat /\ Cardinality(T) \in Nat
BY FS_Subset, FS_CardinalityType

LEMMA PushingTasks == Pushing \subseteq Tasks /\ Evicting \subseteq Pushing
BY DEF Pushing, Evicting

LEMMA QuietRoom ==
  ASSUME RoomMade, Quiet
  PROVE  RoomMade'
<1> SUFFICES ASSUME NEW P \in SUBSET Evicting', P # {} PROVE Room(P)'
  BY DEF RoomMade
<1>1. P \subseteq Evicting /\ Room(P) /\ Pushing' = Pushing
  BY DEF Quiet, RoomMade
<1>2. Indexed' \ Marked(P)' \subseteq Indexed \ Marked(P)
  BY <1>1 DEF Quiet, Marked
<1>3. IsFiniteSet(Indexed \ Marked(P)) /\ IsFiniteSet(Pushing \ P)
  BY Finite, PushingTasks
<1>4. /\ Cardinality(Indexed' \ Marked(P)') <= Cardinality(Indexed \ Marked(P))
      /\ Cardinality(Indexed' \ Marked(P)') \in Nat /\ Cardinality(Indexed \ Marked(P)) \in Nat
  BY <1>2, <1>3, SmallerSet
<1>5. Cardinality(Pushing \ P) \in Nat /\ MaxFiles \in Nat
  BY <1>3, FS_CardinalityType, DlqAssumption
<1> QED
  BY <1>1, <1>4, <1>5 DEF Room

LEMMA JoinsRoom ==
  ASSUME RoomMade, NEW t, Joins(t)
  PROVE  RoomMade'
<1> SUFFICES ASSUME NEW P \in SUBSET Evicting', P # {} PROVE Room(P)'
  BY DEF RoomMade
<1>1. P \subseteq Evicting /\ Room(P) /\ t \notin P /\ t \notin Pushing
  BY PushingTasks DEF Joins, RoomMade
<1>2. Marked(P)' = Marked(P)
  BY <1>1 DEF Joins, Marked
<1>3. PICK i : Indexed' \subseteq Indexed \cup {i}
  BY DEF Joins
<1>4. Indexed' \ Marked(P)' \subseteq (Indexed \ Marked(P)) \cup {i}
  BY <1>2, <1>3
<1>5. IsFiniteSet(Indexed \ Marked(P)) /\ IsFiniteSet(Pushing \ P)
  BY Finite, PushingTasks
<1>6. /\ IsFiniteSet((Indexed \ Marked(P)) \cup {i})
      /\ Cardinality((Indexed \ Marked(P)) \cup {i})
           \in {Cardinality(Indexed \ Marked(P)), Cardinality(Indexed \ Marked(P)) + 1}
  BY <1>5, FS_AddElement
<1>7. /\ Cardinality(Indexed' \ Marked(P)') <= Cardinality((Indexed \ Marked(P)) \cup {i})
      /\ Cardinality(Indexed' \ Marked(P)') \in Nat
  BY <1>4, <1>6, SmallerSet
<1>8. Pushing' \ P = (Pushing \ P) \cup {t} /\ t \notin Pushing \ P
  BY <1>1 DEF Joins
<1>9. Cardinality(Pushing' \ P) = Cardinality(Pushing \ P) + 1
  BY <1>5, <1>8, FS_AddElement
<1>10. /\ Cardinality(Pushing \ P) \in Nat /\ MaxFiles \in Nat
       /\ Cardinality(Indexed \ Marked(P)) \in Nat
  BY <1>5, FS_CardinalityType, DlqAssumption
<1> QED
  BY <1>1, <1>6, <1>7, <1>9, <1>10 DEF Room

LEMMA PlansRoom ==
  ASSUME RoomMade, NEW t, Plans(t)
  PROVE  RoomMade'
<1> SUFFICES ASSUME NEW P \in SUBSET Evicting', P # {} PROVE Room(P)'
  BY DEF RoomMade
<1>1. CASE t \notin P
  <2>1. P \subseteq Evicting /\ Room(P) /\ Pushing' = Pushing /\ Indexed' = Indexed
    BY <1>1 DEF Plans, RoomMade
  <2>2. Marked(P)' = Marked(P)
    BY <2>1 DEF Plans, Marked
  <2> QED
    BY <2>1, <2>2 DEF Room
<1>2. CASE t \in P
  <2>1. /\ Indexed' \ Marked(P)' \subseteq Indexed \ task'[t].victims
        /\ Cardinality(Indexed \ task'[t].victims) <= MaxFiles /\ MaxFiles \in Nat
    BY <1>2, DlqAssumption DEF Plans, Marked
  <2>2. IsFiniteSet(Indexed \ task'[t].victims) /\ IsFiniteSet(Pushing \ P)
    BY Finite, PushingTasks
  <2>3. /\ Cardinality(Indexed' \ Marked(P)') <= Cardinality(Indexed \ task'[t].victims)
        /\ Cardinality(Indexed' \ Marked(P)') \in Nat
        /\ Cardinality(Indexed \ task'[t].victims) \in Nat
    BY <2>1, <2>2, SmallerSet
  <2>4. Cardinality(Pushing \ P) \in Nat /\ Pushing' = Pushing
    BY <2>2, FS_CardinalityType DEF Plans
  <2> QED
    BY <2>1, <2>3, <2>4 DEF Room
<1> QED
  BY <1>1, <1>2

(* What a push leaves, with whatever other pushes are evicting. *)
LEMMA EndsLeave ==
  ASSUME RoomMade, NEW t, Ends(t), NEW P \in SUBSET (Evicting \ {t})
  PROVE  Cardinality(Indexed \ Marked(P)) <= MaxFiles + Cardinality((Pushing \ {t}) \ P)
<1>0. /\ IsFiniteSet(Indexed) /\ IsFiniteSet((Pushing \ {t}) \ P)
      /\ Cardinality((Pushing \ {t}) \ P) \in Nat /\ MaxFiles \in Nat
  BY Finite, PushingTasks, DlqAssumption
<1>1. CASE Cardinality(Indexed) <= MaxFiles
  <2>1. /\ Cardinality(Indexed \ Marked(P)) <= Cardinality(Indexed)
        /\ Cardinality(Indexed \ Marked(P)) \in Nat /\ Cardinality(Indexed) \in Nat
    BY <1>0, SmallerSet
  <2> QED
    BY <1>0, <1>1, <2>1
<1>2. CASE t \in Evicting /\ Indexed \cap task[t].victims = {}
  <2>1. Room(P \cup {t})
    BY <1>2 DEF RoomMade
  <2>2. Indexed \ Marked(P \cup {t}) = Indexed \ Marked(P)
    BY <1>2 DEF Marked
  <2>3. Pushing \ (P \cup {t}) = (Pushing \ {t}) \ P
    OBVIOUS
  <2> QED
    BY <2>1, <2>2, <2>3 DEF Room
<1> QED
  BY <1>1, <1>2 DEF Ends

LEMMA EndsRoom ==
  ASSUME RoomMade, NEW t, Ends(t)
  PROVE  RoomMade' /\ Cardinality(Indexed') <= MaxFiles + Cardinality(Pushing')
<1>1. ASSUME NEW P \in SUBSET Evicting' PROVE Room(P)'
  <2>1. P \in SUBSET (Evicting \ {t}) /\ Indexed' = Indexed /\ Pushing' = Pushing \ {t}
    BY DEF Ends
  <2>2. Marked(P)' = Marked(P)
    BY <2>1 DEF Ends, Marked
  <2>3. Cardinality(Indexed \ Marked(P)) <= MaxFiles + Cardinality((Pushing \ {t}) \ P)
    BY <2>1, EndsLeave
  <2> QED
    BY <2>1, <2>2, <2>3 DEF Room
<1>2. Room({})' /\ Marked({})' = {}
  BY <1>1 DEF Marked
<1>3. Indexed' \ {} = Indexed' /\ Pushing' \ {} = Pushing'
  OBVIOUS
<1> QED
  BY <1>1, <1>2, <1>3 DEF RoomMade, Room

(* The steps of a task, as far as the pushes go. *)
LEMMA PushingSets ==
  ASSUME NEW t \in Tasks, NEW pc, NEW s, Sets(t, pc, s)
  PROVE  /\ Pushing' = IF pc \in {"enforce", "evict", "unlink_victim"} /\ ~Pruning(t)
                         THEN Pushing \cup {t} ELSE Pushing \ {t}
         /\ Evicting' = IF pc \in {"evict", "unlink_victim"} /\ ~Pruning(t)
                          THEN Evicting \cup {t} ELSE Evicting \ {t}
         /\ \A u \in Evicting \ {t} : task'[u].victims = task[u].victims
BY DEF Sets, Pushing, Evicting, Pruning

LEMMA QuietSets ==
  ASSUME NEW t \in Tasks, NEW pc, NEW s, Sets(t, pc, s), Indexed' \subseteq Indexed,
         \/ Pruning(t)
         \/ {task[t].pc, pc} \cap {"enforce", "evict", "unlink_victim"} = {}
  PROVE  Quiet
<1>1. t \notin Pushing /\ t \notin Evicting
  BY DEF Pushing, Evicting
<1>2. ~(pc \in {"enforce", "evict", "unlink_victim"} /\ ~Pruning(t))
  OBVIOUS
<1>3. /\ Pushing' = Pushing \ {t} /\ Evicting' = Evicting \ {t}
      /\ \A u \in Evicting \ {t} : task'[u].victims = task[u].victims
  BY <1>2, PushingSets
<1>4. Pushing \ {t} = Pushing /\ Evicting \ {t} = Evicting
  BY <1>1
<1> QED
  BY <1>3, <1>4 DEF Quiet

LEMMA QuietResumes ==
  ASSUME NEW t \in Tasks, NEW s, Resumes(t, s), Indexed' \subseteq Indexed,
         Pruning(t) \/ task[t].pc \notin {"enforce", "evict", "unlink_victim"}
  PROVE  Quiet
<1>1. PICK pc \in {"check", "create", "list", "entry", "prune", "done"} : \E r : Sets(t, pc, r)
  BY DEF Resumes
<1> QED
  BY <1>1, QuietSets

LEMMA ResumesEnds ==
  ASSUME NEW t \in Tasks, NEW s, Resumes(t, s), Indexed' = Indexed, t \in Pushing,
         \/ Cardinality(Indexed) <= MaxFiles
         \/ t \in Evicting /\ Indexed \cap task[t].victims = {}
  PROVE  Ends(t)
<1>1. PICK pc \in {"check", "create", "list", "entry", "prune", "done"} : \E r : Sets(t, pc, r)
  BY DEF Resumes
<1>2. /\ Pushing' = Pushing \ {t} /\ Evicting' = Evicting \ {t}
      /\ \A u \in Evicting \ {t} : task'[u].victims = task[u].victims
  BY <1>1, PushingSets
<1> QED
  BY <1>2 DEF Ends

(* On to the next victim. *)
LEMMA QuietEvicts ==
  ASSUME Types, NEW t \in Evicting, NEW r \in Records, task' = [task EXCEPT ![t] = r],
         r.pc \in {"evict", "unlink_victim"}, Indexed' \subseteq Indexed,
         Indexed' \cap task[t].victims \subseteq r.victims
  PROVE  Quiet
<1>1. t \in Tasks /\ ~Pruning(t) /\ t \in Pushing
  BY DEF Evicting, Pushing
<1>2. Sets(t, r.pc, r.letters) /\ task'[t] = r
  BY <1>1, SetsRecord
<1>3. Pushing' = Pushing /\ Evicting' = Evicting
  BY <1>1, <1>2, PushingSets
<1>4. ASSUME NEW u \in Evicting PROVE Indexed' \cap task[u].victims \subseteq task'[u].victims
  BY <1>2, <1>4, PushingSets, <1>1
<1> QED
  BY <1>3, <1>4 DEF Quiet

(* After a victim is gone: the next one, or the end of the push. *)
LEMMA NextVictimRoom ==
  ASSUME Types, NEW t \in Evicting, NEW v \in SUBSET Letters, NEW s \in Seq(Letters),
         NextVictim(t, v, s), Indexed' = Indexed, Indexed \cap task[t].victims \subseteq v
  PROVE  Quiet \/ Ends(t)
<1>0. t \in Tasks /\ t \in Pushing
  BY DEF Evicting, Pushing
<1>1. CASE v = {}
  <2>1. Resumes(t, s)
    BY <1>0, <1>1, NextVictimSets
  <2> QED
    BY <1>0, <1>1, <2>1, ResumesEnds
<1>2. CASE v # {}
  <2> DEFINE r == [task[t] EXCEPT !.pc = "evict", !.victims = v, !.letters = s]
  <2>1. task' = [task EXCEPT ![t] = r]
    BY <1>0, <1>2 DEF NextVictim, Types
  <2>2. r \in Records /\ r.pc = "evict" /\ r.victims = v
    BY <1>0, RecordsAre DEF Records, Steps
  <2> HIDE DEF r
  <2> QED
    BY <2>1, <2>2, QuietEvicts
<1> QED
  BY <1>1, <1>2

RoomStep == Quiet \/ Restart \/ \E t \in Tasks : Joins(t) \/ Plans(t) \/ Ends(t)

(* Every step is one of these to the pushes. *)
LEMMA RoomCases ==
  ASSUME Types, Shapes, BornOnce, Eventful, InLine, Apart, [Next]_vars
  PROVE  RoomStep
<1>1. ASSUME NEW t \in Tasks, Create(t) PROVE RoomStep
  <2>1. t \in Tasks /\ Indexed' = Indexed
    BY <1>1, TasksAre, SameIndex DEF Create, dlqVars
  <2>2. task[t].pc \notin {"enforce", "evict", "unlink_victim"}
    BY <1>1, <2>1 DEF Create
  <2>3. \/ \E s : Resumes(t, s)
        \/ \E pc \in {"insert"} : \E s : Sets(t, pc, s)
    BY <1>1, <2>1, CreateSets
  <2> QED
    BY <2>1, <2>2, <2>3, QuietResumes, QuietSets DEF RoomStep
<1>2. ASSUME NEW t \in Tasks, CreateFails(t) \/ Unlink(t) \/ Rewrite(t) \/
            TruncateFails(t) \/ RewriteFails(t)
      PROVE  RoomStep
  <2>1. /\ Indexed' = Indexed /\ Resumes(t, task[t].letters)
        /\ task[t].pc \notin {"enforce", "evict", "unlink_victim"}
    BY <1>2, SameIndex, ResumeResumes DEF CreateFails, Unlink, Rewrite, TruncateFails,
       RewriteFails, dlqVars
  <2> QED
    BY <2>1, QuietResumes DEF RoomStep
<1>3. ASSUME NEW t \in Tasks, Insert(t) PROVE RoomStep
  <2>1. /\ Sets(t, "enforce", task[t].letters) /\ task[t].pc = "insert" /\ ~Pruning(t)
        /\ index' = [index EXCEPT ![Now(t)] = 0]
    BY <1>3, InsertSets, Pushers DEF Insert
  <2>2. Indexed' \subseteq Indexed \cup {Now(t)} /\ t \notin Pushing /\ t \notin Evicting
    BY <2>1, IndexSet DEF Pushing, Evicting
  <2>3. /\ Pushing' = Pushing \cup {t} /\ Evicting' = Evicting \ {t}
        /\ \A u \in Evicting \ {t} : task'[u].victims = task[u].victims
    BY <2>1, PushingSets
  <2>4. Evicting \ {t} = Evicting
    BY <2>2
  <2>5. Joins(t)
    BY <2>2, <2>3, <2>4 DEF Joins
  <2> QED
    BY <2>5 DEF RoomStep
<1>4. ASSUME NEW t \in Tasks, Enforce(t) PROVE RoomStep
  <2>1. Indexed' = Indexed /\ t \in Pushing /\ t \notin Evicting /\ ~Pruning(t)
    BY <1>4, SameIndex, Pushers DEF Enforce, dlqVars, Pushing, Evicting
  <2>2. CASE Cardinality(Indexed) <= MaxFiles
    <3>1. Resumes(t, task[t].letters)
      BY <1>4, <2>2, ResumeResumes DEF Enforce
    <3> QED
      BY <2>1, <2>2, <3>1, ResumesEnds DEF RoomStep
  <2>3. CASE ~(Cardinality(Indexed) <= MaxFiles)
    <3> DEFINE k == Cardinality(Indexed) - MaxFiles
               r == [task[t] EXCEPT !.pc = "evict", !.victims = OldestOf(k)]
    <3>1. Cardinality(Indexed) \in Nat /\ MaxFiles \in Nat
      BY Finite, DlqAssumption
    <3>2. k \in Nat /\ k <= Cardinality(Indexed) /\ Cardinality(Indexed) - k = MaxFiles
      BY <2>3, <3>1
    <3>3. task' = [task EXCEPT ![t] = r]
      BY <1>4, <2>3 DEF Enforce, Types
    <3> HIDE DEF k
    <3>4. Cardinality(Indexed \ OldestOf(k)) <= MaxFiles
      BY <3>2, OldestEnough DEF Apart
    <3>5. r \in Records /\ r.pc = "evict" /\ r.victims = OldestOf(k)
      BY OldestTyped, RecordsAre DEF Records, Steps
    <3> HIDE DEF r
    <3>6. Sets(t, "evict", r.letters) /\ task'[t] = r
      BY <3>3, <3>5, SetsRecord
    <3>7. /\ Pushing' = Pushing \cup {t} /\ Evicting' = Evicting \cup {t}
          /\ \A u \in Evicting \ {t} : task'[u].victims = task[u].victims
      BY <2>1, <3>6, PushingSets
    <3>8. Plans(t)
      BY <2>1, <3>4, <3>5, <3>6, <3>7 DEF Plans
    <3> QED
      BY <3>8 DEF RoomStep
  <2> QED
    BY <2>2, <2>3
<1>5. ASSUME NEW t \in Tasks, Evict(t) PROVE RoomStep
  <2>1. PICK i \in Doomed(t) :
          LET rest == task[t].victims \ {i}
          IN IF i \in Indexed
               THEN /\ index' = [index EXCEPT ![i] = Absent]
                    /\ excused' = excused \cup {i}
                    /\ task' = [task EXCEPT ![t] = [@ EXCEPT !.pc = "unlink_victim",
                                                  !.victims = rest,
                                                  !.letters = <<i>> \o task[t].letters]]
                    /\ UNCHANGED permits
               ELSE NextVictim(t, rest, task[t].letters) /\ UNCHANGED <<index, excused>>
    BY <1>5 DEF Evict
  <2> DEFINE v == task[t].victims \ {i}
             s == <<i>> \o task[t].letters
             r == [task[t] EXCEPT !.pc = "unlink_victim", !.victims = v, !.letters = s]
  <2>2. v \in SUBSET Letters /\ task[t].letters \in Seq(Letters) /\ task[t].pc = "evict"
    BY <1>5, RecordsAre DEF Evict
  <2>3. CASE Pruning(t)
    <3>1. Indexed' \subseteq Indexed
      BY <2>1, IndexSet, SameIndex
    <3>2. (\E x : Resumes(t, x)) \/ \E pc, x : Sets(t, pc, x)
      BY <1>5, EvictSets DEF Evicts
    <3> QED
      BY <2>3, <3>1, <3>2, QuietSets, QuietResumes DEF RoomStep
  <2>4. CASE ~Pruning(t) /\ i \in Indexed
    <3>1. t \in Evicting /\ i \in Letters
      BY <2>2, <2>4 DEF Evicting, Indexed
    <3>2. s \in Seq(Letters)
      BY <2>2, <3>1, InFront
    <3>3. task' = [task EXCEPT ![t] = r] /\ index' = [index EXCEPT ![i] = Absent]
      BY <2>1, <2>4 DEF Types
    <3>4. Indexed' \subseteq Indexed \ {i}
      BY <3>3, IndexSet
    <3>5. Indexed' \cap task[t].victims \subseteq v
      BY <3>4
    <3> HIDE DEF v, s
    <3>6. r \in Records /\ r.pc = "unlink_victim" /\ r.victims = v
      BY <2>2, <3>2, RecordsAre DEF Records, Steps
    <3> HIDE DEF r
    <3> QED
      BY <3>1, <3>3, <3>4, <3>5, <3>6, QuietEvicts DEF RoomStep
  <2>5. CASE ~Pruning(t) /\ i \notin Indexed
    <3>1. t \in Evicting /\ Indexed' = Indexed /\ NextVictim(t, v, task[t].letters)
      BY <2>1, <2>2, <2>5, SameIndex DEF Evicting
    <3>2. Indexed \cap task[t].victims \subseteq v
      BY <2>5
    <3> HIDE DEF v
    <3> QED
      BY <2>2, <3>1, <3>2, NextVictimRoom DEF RoomStep
  <2> QED
    BY <2>3, <2>4, <2>5
<1>6. ASSUME NEW t \in Tasks, UnlinkVictim(t) PROVE RoomStep
  <2>1. /\ Indexed' = Indexed /\ task[t].pc = "unlink_victim"
        /\ NextVictim(t, task[t].victims, Tail(task[t].letters))
        /\ task[t].victims \in SUBSET Letters /\ Tail(task[t].letters) \in Seq(Letters)
    BY <1>6, SameIndex, RecordsAre, UnlinkVictimSets DEF UnlinkVictim
  <2>2. CASE Pruning(t)
    BY <1>6, <2>1, <2>2, UnlinkVictimSets, QuietSets, QuietResumes DEF RoomStep
  <2>3. CASE ~Pruning(t)
    <3>1. t \in Evicting
      BY <2>1, <2>3 DEF Evicting
    <3> QED
      BY <2>1, <3>1, NextVictimRoom DEF RoomStep
  <2> QED
    BY <2>2, <2>3
<1>7. ASSUME NEW t \in Tasks, RemoveEntry(t) PROVE RoomStep
  <2>1. Indexed' \subseteq Indexed
    BY <1>7, RemoveEntrySets, IndexSet, SameIndex
  <2>2. task[t].pc \notin {"enforce", "evict", "unlink_victim"}
    BY <1>7 DEF RemoveEntry
  <2>3. Resumes(t, task[t].letters) \/ Sets(t, "unlink", task[t].letters)
    BY <1>7, RemoveEntrySets
  <2> QED
    BY <2>1, <2>2, <2>3, QuietSets, QuietResumes DEF RoomStep
<1>8. ASSUME NEW t \in Tasks, Mark(t) PROVE RoomStep
  <2>1. Indexed' \subseteq Indexed
    BY <1>8, MarkSets, IndexSet, SameIndex
  <2>2. task[t].pc \notin {"enforce", "evict", "unlink_victim"}
    BY <1>8 DEF Mark
  <2>3. Resumes(t, task[t].letters) \/ Sets(t, "truncate", task[t].letters)
    BY <1>8, MarkSets
  <2> QED
    BY <2>1, <2>2, <2>3, QuietSets, QuietResumes DEF RoomStep
<1>9. ASSUME NEW t \in Tasks, Truncate(t) PROVE RoomStep
  <2>1. Indexed' \subseteq Indexed
    BY <1>9, TruncateSets, IndexSet, SameIndex DEF Truncate
  <2>2. task[t].pc \notin {"enforce", "evict", "unlink_victim"}
    BY <1>9 DEF Truncate
  <2>3. Resumes(t, task[t].letters) \/ Sets(t, "rewrite", task[t].letters)
    BY <1>9, TruncateSets
  <2> QED
    BY <2>1, <2>2, <2>3, QuietSets, QuietResumes DEF RoomStep
<1>10. ASSUME NEW i \in Letters, Push(i) PROVE RoomStep
  <2>1. task' = task /\ Indexed' = Indexed
    BY <1>10, SameIndex DEF Push, dlqVars
  <2> QED
    BY <2>1 DEF RoomStep, Quiet, Pushing, Evicting
<1>11. ASSUME NEW i \in Letters, Enqueue(i) PROVE RoomStep
  <2>1. i \in Tasks /\ Indexed' = Indexed
    BY <1>11, TasksAre, SameIndex DEF Enqueue, dlqVars
  <2>2. task[i].pc \notin {"enforce", "evict", "unlink_victim"}
    BY <1>11, <2>1, KindsDiffer DEF Enqueue, Eventful, EventBy, Events, None
  <2>3. \/ \E s : Resumes(i, s)
        \/ \E pc \in {"queued", "create"} : \E s : Sets(i, pc, s)
    BY <1>11, <2>1, EnqueueSets
  <2> QED
    BY <2>1, <2>2, <2>3, QuietResumes, QuietSets DEF RoomStep
<1>12. ASSUME NEW i \in Letters, Deliver(i) PROVE RoomStep
  <2>1. i \in Tasks /\ Indexed' = Indexed
    BY <1>12, TasksAre, SameIndex DEF Deliver, dlqVars
  <2>2. task[i].pc \notin {"enforce", "evict", "unlink_victim"}
    BY <1>12, <2>1 DEF Deliver
  <2>3. \/ \E s : Resumes(i, s)
        \/ \E pc \in {"deliver", "create"} : \E s : Sets(i, pc, s)
    BY <1>12, <2>1, DeliverSets
  <2> QED
    BY <2>1, <2>2, <2>3, QuietResumes, QuietSets DEF RoomStep
<1>13. ASSUME NEW i \in Letters, AdminRetry(i) PROVE RoomStep
  <2>1. Admin \in Tasks /\ Indexed' = Indexed
    BY <1>13, TasksAre, SameIndex DEF AdminRetry, dlqVars
  <2>2. Pruning(Admin)
    BY <1>13, <2>1 DEF Pruning
  <2>3. \/ \E s : Resumes(Admin, s)
        \/ \E pc \in {"retry"} : \E s : Sets(Admin, pc, s)
    BY <1>13, <2>1, AdminRetrySets
  <2> QED
    BY <2>1, <2>2, <2>3, QuietResumes, QuietSets DEF RoomStep
<1>14. ASSUME NEW i \in Letters, AdminDelete(i) PROVE RoomStep
  <2>1. Admin \in Tasks /\ Indexed' = Indexed
    BY <1>14, TasksAre, SameIndex DEF AdminDelete, dlqVars
  <2>2. Pruning(Admin)
    BY <1>14, <2>1 DEF Pruning
  <2>3. \/ \E s : Resumes(Admin, s)
        \/ \E pc \in {"remove"} : \E s : Sets(Admin, pc, s)
    BY <1>14, <2>1, AdminDeleteSets
  <2> QED
    BY <2>1, <2>2, <2>3, QuietResumes, QuietSets DEF RoomStep
<1>15. CASE Drain
  <2>1. Flusher \in Tasks /\ Indexed' = Indexed
    BY <1>15, TasksAre, SameIndex DEF Drain, dlqVars
  <2>2. task[Flusher].pc \notin {"enforce", "evict", "unlink_victim"}
    BY <1>15, <2>1 DEF Drain
  <2>3. \/ \E s : Resumes(Flusher, s)
        \/ \E pc \in {"drain", "check", "write_batch"} : \E s : Sets(Flusher, pc, s)
    BY <1>15, <2>1, DrainSets
  <2> QED
    BY <2>1, <2>2, <2>3, QuietResumes, QuietSets DEF RoomStep
<1>16. CASE WriteBatch
  <2>1. Flusher \in Tasks /\ Indexed' = Indexed
    BY <1>16, TasksAre, SameIndex DEF WriteBatch, dlqVars
  <2>2. task[Flusher].pc \notin {"enforce", "evict", "unlink_victim"}
    BY <1>16, <2>1 DEF WriteBatch
  <2>3. \/ \E s : Resumes(Flusher, s)
        \/ \E pc \in {"check", "create"} : \E s : Sets(Flusher, pc, s)
    BY <1>16, <2>1, WriteBatchSets
  <2> QED
    BY <2>1, <2>2, <2>3, QuietResumes, QuietSets DEF RoomStep
<1>17. CASE CheckShutdown
  <2>1. Flusher \in Tasks /\ Indexed' = Indexed
    BY <1>17, TasksAre, SameIndex DEF CheckShutdown, dlqVars
  <2>2. task[Flusher].pc \notin {"enforce", "evict", "unlink_victim"}
    BY <1>17, <2>1 DEF CheckShutdown
  <2>3. \/ \E s : Resumes(Flusher, s)
        \/ \E pc \in {"drain", "exited"} : \E s : Sets(Flusher, pc, s)
    BY <1>17, <2>1, CheckShutdownSets
  <2> QED
    BY <2>1, <2>2, <2>3, QuietResumes, QuietSets DEF RoomStep
<1>18. CASE Receive \/ DbFails \/ DbReturns \/ Shutdown \/ UNCHANGED vars
  <2>1. task' = task /\ Indexed' = Indexed
    BY <1>18, SameIndex DEF Receive, DbFails, DbReturns, Shutdown, vars, dlqVars
  <2> QED
    BY <2>1 DEF RoomStep, Quiet, Pushing, Evicting
<1>19. CASE Acquire
  <2>1. Indexed' = Indexed /\ drainer # None
    BY <1>19, SameIndex DEF Acquire, dlqVars
  <2>2. PICK h \in Letters : h = drainer /\ Sets(h, "deliver", <<h>>)
    BY <1>19, AcquireSets
  <2>3. h \in Tasks /\ task[h].pc = "queued"
    BY <2>1, <2>2, TasksAre DEF InLine, Queued
  <2> QED
    BY <2>1, <2>2, <2>3, QuietSets DEF RoomStep
<1>20. ASSUME NEW ready \in SUBSET Letters, List(ready) PROVE RoomStep
  <2>1. Worker \in Tasks /\ Indexed' = Indexed
    BY <1>20, TasksAre, SameIndex DEF List, dlqVars
  <2>2. Pruning(Worker)
    BY <1>20, <2>1 DEF Pruning
  <2>3. \/ \E s : Resumes(Worker, s)
        \/ \E pc \in {"prune", "entry"} : \E s : Sets(Worker, pc, s)
    BY <1>20, <2>1, ListSets
  <2> QED
    BY <2>1, <2>2, <2>3, QuietResumes, QuietSets DEF RoomStep
<1>21. CASE ProcessEntry
  <2>1. Worker \in Tasks /\ Indexed' = Indexed
    BY <1>21, TasksAre, SameIndex DEF ProcessEntry, dlqVars
  <2>2. Pruning(Worker)
    BY <1>21, <2>1 DEF Pruning
  <2>3. \/ \E s : Resumes(Worker, s)
        \/ \E pc \in {"remove", "mark"} : \E s : Sets(Worker, pc, s)
    BY <1>21, <2>1, ProcessSets DEF ProcessEntry
  <2> QED
    BY <2>1, <2>2, <2>3, QuietResumes, QuietSets DEF RoomStep
<1>22. CASE PruneOld
  <2>1. Worker \in Tasks /\ Indexed' = Indexed
    BY <1>22, TasksAre, SameIndex DEF PruneOld, dlqVars
  <2>2. Pruning(Worker)
    BY <1>22, <2>1 DEF Pruning
  <2>3. \/ \E s : Resumes(Worker, s)
        \/ \E pc \in {"list", "evict"} : \E s : Sets(Worker, pc, s)
    BY <1>22, <2>1, PruneOldSets
  <2> QED
    BY <2>1, <2>2, <2>3, QuietResumes, QuietSets DEF RoomStep
<1>23. CASE AdminProcess
  <2>1. Admin \in Tasks /\ Indexed' = Indexed
    BY <1>23, TasksAre, SameIndex DEF AdminProcess, dlqVars
  <2>2. Pruning(Admin)
    BY <1>23, <2>1 DEF Pruning
  <2>3. \/ \E s : Resumes(Admin, s)
        \/ \E pc \in {"remove", "mark"} : \E s : Sets(Admin, pc, s)
    BY <1>23, <2>1, ProcessSets DEF AdminProcess
  <2> QED
    BY <2>1, <2>2, <2>3, QuietResumes, QuietSets DEF RoomStep
<1>24. CASE AdminPrune
  <2>1. Admin \in Tasks /\ Indexed' = Indexed
    BY <1>24, TasksAre, SameIndex DEF AdminPrune, dlqVars
  <2>2. Pruning(Admin)
    BY <1>24, <2>1 DEF Pruning
  <2>3. \/ \E s : Resumes(Admin, s)
        \/ \E pc \in {"evict"} : \E s : Sets(Admin, pc, s)
    BY <1>24, <2>1, AdminPruneSets
  <2> QED
    BY <2>1, <2>2, <2>3, QuietResumes, QuietSets DEF RoomStep
<1>25. CASE AdminPurge
  <2>1. task' = task /\ Indexed' = {}
    BY <1>25 DEF AdminPurge, Indexed
  <2> QED
    BY <2>1 DEF RoomStep, Quiet, Pushing, Evicting
<1>26. CASE Restart
  BY <1>26 DEF RoomStep
<1> QED
  BY NextCases, <1>1, <1>2, <1>3, <1>4, <1>5, <1>6, <1>7, <1>8, <1>9, <1>10, <1>11, <1>12,
     <1>13, <1>14, <1>15, <1>16, <1>17, <1>18, <1>19, <1>20, <1>21, <1>22, <1>23, <1>24,
     <1>25, <1>26

LEMMA RoomMadeStep ==
  ASSUME Orderly, Apart, RoomMade, [Next]_vars
  PROVE  RoomMade'
<1>1. RoomStep
  BY RoomCases DEF Orderly
<1>2. ASSUME Restart PROVE RoomMade'
  <2>1. task' = Starts
    BY <1>2 DEF Restart
  <2>2. Evicting' = {}
    BY <2>1, StartsTyped DEF Evicting
  <2> QED
    BY <2>2 DEF RoomMade
<1> QED
  BY <1>1, <1>2, QuietRoom, JoinsRoom, PlansRoom, EndsRoom DEF RoomStep

(* The troubles are counted. *)
Counted == troubles \in Nat

LEMMA CountedStep ==
  ASSUME Counted, [Next]_vars
  PROVE  Counted'
<1>1. ASSUME NEW t \in Tasks, Create(t) \/ Insert(t) \/ Enforce(t) \/ Evict(t) \/
            UnlinkVictim(t) \/ RemoveEntry(t) \/ Unlink(t) \/ Mark(t) \/ Truncate(t) \/
            Rewrite(t)
      PROVE  Counted'
  BY <1>1 DEF Counted, envVars, Create, Insert, Enforce, Evict, UnlinkVictim, RemoveEntry,
     Unlink, Mark, Truncate, Rewrite
<1>2. ASSUME NEW t \in Tasks, CreateFails(t) \/ TruncateFails(t) \/ RewriteFails(t)
      PROVE  Counted'
  BY <1>2 DEF Counted, Trouble, CreateFails, TruncateFails, RewriteFails
<1>3. ASSUME NEW i \in Letters, Push(i) \/ Enqueue(i) \/ Deliver(i) PROVE Counted'
  BY <1>3 DEF Counted, envVars, Push, Enqueue, Deliver
<1>4. ASSUME NEW i \in Letters, AdminRetry(i) \/ AdminDelete(i) PROVE Counted'
  BY <1>4 DEF Counted, Trouble, AdminRetry, AdminDelete, AdminStart
<1>5. CASE Drain \/ WriteBatch \/ CheckShutdown \/ Receive \/ Acquire \/ ProcessEntry \/
          PruneOld \/ AdminProcess \/ DbReturns
  BY <1>5 DEF Counted, envVars, Drain, WriteBatch, CheckShutdown, Receive, Acquire,
     ProcessEntry, PruneOld, AdminProcess, DbReturns
<1>6. ASSUME NEW ready \in SUBSET Letters, List(ready) PROVE Counted'
  BY <1>6 DEF Counted, envVars, List
<1>7. CASE AdminPrune \/ AdminPurge
  BY <1>7 DEF Counted, Trouble, AdminPrune, AdminPurge, AdminStart
<1>8. CASE DbFails \/ Shutdown \/ Restart
  BY <1>8 DEF Counted, Trouble, DbFails, Shutdown, Restart
<1>9. CASE UNCHANGED vars
  BY <1>9 DEF Counted, vars
<1> QED
  BY NextCases, <1>1, <1>2, <1>3, <1>4, <1>5, <1>6, <1>7, <1>8, <1>9

(* One step of PushEvicts. *)
EvictsEnough ==
  \A t \in Tasks :
    /\ t \in Pushing /\ UNCHANGED <<troubles, shutdown>>
    /\ task'[t].pc \in {"check", "create", "done"}
    => Cardinality(Indexed') <= MaxFiles + Cardinality(Pushing')

LEMMA EvictsEnoughStep ==
  ASSUME Orderly, Apart, RoomMade, Counted, [Next]_vars
  PROVE  EvictsEnough
<1> SUFFICES ASSUME NEW t \in Tasks, t \in Pushing, UNCHANGED <<troubles, shutdown>>,
                    task'[t].pc \in {"check", "create", "done"}
             PROVE  Cardinality(Indexed') <= MaxFiles + Cardinality(Pushing')
  BY DEF EvictsEnough
<1>1. RoomStep
  BY RoomCases DEF Orderly
<1>2. t \notin Pushing'
  BY DEF Pushing
<1>3. ~Restart
  <2>1. ~Trouble
    BY DEF Counted, Trouble
  <2> QED
    BY <2>1 DEF Restart
<1>4. PICK u : Ends(u)
  BY <1>1, <1>2, <1>3 DEF RoomStep, Quiet, Joins, Plans
<1> QED
  BY <1>4, EndsRoom

LEMMA InitRoom == Init => RoomMade /\ Counted
<1> SUFFICES ASSUME Init PROVE RoomMade /\ Counted
  OBVIOUS
<1>1. task = Starts /\ troubles = 0
  BY DEF Init
<1>2. Evicting = {}
  BY <1>1, StartsTyped DEF Evicting
<1> QED
  BY <1>1, <1>2 DEF RoomMade, Counted

(* Concurrent pushes evict enough: whenever one of them ends, the queue holds
   at most max_files entries, and one more for every push that is still at
   work, although each picks its victims from a reading of the index that the
   others make stale. *)
THEOREM PushesEvictEnough == Spec => PushEvicts
<1> DEFINE Inv == Orderly /\ Apart /\ RoomMade /\ Counted
<1>1. Init => Inv
  BY InitOrderly, InitApart, InitRoom
<1>2. Inv /\ [Next]_vars => Inv'
  BY OrderlyStep, ApartStep, RoomMadeStep, CountedStep DEF Orderly
<1>3. Inv /\ [Next]_vars => [EvictsEnough]_vars
  BY EvictsEnoughStep
<1> HIDE DEF Inv
<1> QED
  BY <1>1, <1>2, <1>3, PTL DEF Spec, PushEvicts, EvictsEnough

=============================================================================
