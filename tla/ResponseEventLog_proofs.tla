----------------------- MODULE ResponseEventLog_proofs -----------------------
(***************************************************************************)
(* Proofs about the replay log.  For any number of attempts, faults and    *)
(* disturbances: the state is well typed and the log is stable.  For one   *)
(* attempt: what the flush before a synchronous insert is worth to the     *)
(* replaying reader and to the row.                                        *)
(*                                                                         *)
(* LogInv follows an event from the task that numbers it, through channel  *)
(* and batch, to the log.  OneInv adds, for a single attempt, what waits   *)
(* where while the task waits for the drainer.                             *)
(***************************************************************************)
EXTENDS ResponseEventLog, Integers, FiniteSetTheorems, SequenceTheorems,
        WellFoundedInduction, TLAPS

Room == MaxEvents + 1

\* What a channel or a batch holds.
Held(q) == {q[i] : i \in DOMAIN q}

\* The task stores or forwards an event of the provider, or the made-up one.
Busy(k) == \/ pc[k] \in {"wait", "again", "forward"}
           \/ pc[k] \in {"insert", "ratchet"} /\ ~cur[k].synth
Closing(k) == pc[k] \in {"insert", "ratchet"} /\ cur[k].synth

\* Event e was numbered by the attempt it names.
Known(e) ==
  IF e.seq = 0 THEN e = NoEvent
  ELSE /\ e.att \in Attempts /\ pc[e.att] # "off"
       /\ e.seq > start[e.att] /\ e.seq <= seqno[e.att]

LogKnown == \A s \in Seqs : log[s] # NoEvent => log[s].seq = s /\ Known(log[s])
HeldKnown == \A e \in Held(channel) \cup Held(batch) : Known(e) /\ e.kind = "delta"
CurKnown == \A k \in Attempts : Known(cur[k])

\* How many events an attempt has numbered, by where its task is.
NumbersOf(k) ==
  /\ start[k] <= (k - 1) * Room /\ start[k] <= seqno[k]
  /\ seqno[k] <= start[k] + Room
  /\ pc[k] = "off" =>
       /\ start[k] = 0 /\ seqno[k] = 0 /\ cur[k] = NoEvent
       /\ chunk[k] = <<>> /\ captured[k] = "none" /\ sent[k] = "none"
  /\ pc[k] = "each" =>
       chunk[k] # <<>> /\ seqno[k] + Len(chunk[k]) <= start[k] + MaxEvents
  /\ Busy(k) =>
       /\ chunk[k] # <<>> /\ seqno[k] + Len(chunk[k]) <= start[k] + Room
       /\ cur[k].seq = seqno[k] /\ cur[k].att = k /\ ~cur[k].synth
       /\ cur[k].kind \in Kinds /\ seqno[k] > start[k]
  /\ pc[k] = "again" => cur[k].kind = "delta"
  /\ Closing(k) =>
       /\ cur[k].seq = seqno[k] /\ cur[k].att = k /\ cur[k].kind # "delta"
       /\ seqno[k] > start[k]
  /\ pc[k] \in {"recv", "close", "errored"} =>
       chunk[k] = <<>> /\ seqno[k] <= start[k] + MaxEvents
Numbers == \A k \in Attempts : NumbersOf(k)

Writing == {"insert", "ratchet", "lastInsert", "lastRatchet"}

\* Who waits for the drainer, and what the drainer holds.
FlushWaits ==
  /\ \A i \in DOMAIN flushq : pc[flushq[i]] = "wait" /\ flushq[i] \notin acking
  /\ \A i, j \in DOMAIN flushq : i # j => flushq[i] # flushq[j]
  /\ \A k \in acking : pc[k] = "wait"
FlushState ==
  /\ acking # {} => drainer \in {"insert", "ratchet"}
  /\ drainer \in Writing => batch # <<>>
  /\ drainer = "exited" => batch = <<>> /\ channel = <<>> /\ flushq = <<>>

\* last_sequence_number and the ratchets under way are behind the log.
InLog(s) == s > 0 => log[s] # NoEvent
Durable ==
  /\ InLog(lastSeq)
  /\ drainer \in {"ratchet", "lastRatchet"} => \A e \in Held(batch) : InLog(e.seq)
  /\ \A k \in Attempts : pc[k] = "ratchet" => InLog(cur[k].seq)

LogInv ==
  /\ TypeOK
  /\ LogKnown /\ HeldKnown /\ CurKnown
  /\ Numbers
  /\ FlushWaits /\ FlushState
  /\ Durable

-----------------------------------------------------------------------------
(* Numbers, sequences and the operators of the model.                       *)

\* A nonempty set of naturals has a least element.
LEMMA LeastNat ==
  ASSUME NEW S \in SUBSET Nat, S # {}
  PROVE  \E m \in S : \A n \in S : m <= n
<1>1. \E m \in S : \A n \in S : ~(<<n, m>> \in OpToRel(<, Nat))
  BY NatLessThanWellFounded, WFMin
<1>2. PICK m \in S : \A n \in S : ~(<<n, m>> \in OpToRel(<, Nat))
  BY <1>1
<1>3. ASSUME NEW n \in S PROVE m <= n
  <2>1. ~(<<n, m>> \in OpToRel(<, Nat))
    BY <1>2
  <2>2. ~(n < m)
    BY <2>1 DEF OpToRel
  <2> QED
    BY <2>2
<1> QED
  BY <1>3

\* A nonempty set of naturals below a bound has a greatest element.
LEMMA GreatestNat ==
  ASSUME NEW N \in Nat, NEW S \in SUBSET (0 .. N), S # {}
  PROVE  \E m \in S : \A n \in S : n <= m
<1> DEFINE T == {N - n : n \in S}
<1>0. \A n \in S : n \in Nat /\ n <= N /\ N - n \in Nat
  OBVIOUS
<1>1. T \in SUBSET Nat /\ T # {}
  BY <1>0
<1> HIDE DEF T
<1>2. PICK m \in T : \A n \in T : m <= n
  BY <1>1, LeastNat
<1>3. PICK s \in S : m = N - s
  BY <1>2 DEF T
<1>4. \A n \in S : N - n \in T
  BY DEF T
<1> QED
  BY <1>0, <1>2, <1>3, <1>4

LEMMA Bounds ==
  /\ MaxAttempts \in Nat \ {0} /\ MaxChunk \in Nat \ {0} /\ Capacity \in Nat \ {0}
  /\ MaxBatch \in Nat \ {0} /\ PageSize \in Nat \ {0}
  /\ MaxEvents \in Nat /\ MaxNoise \in Nat /\ MaxFaults \in Nat
  /\ Room \in Nat \ {0} /\ MaxSeq \in Nat
  /\ MaxSeq = MaxAttempts * Room
  BY EventLogAssumption DEF Room, MaxSeq

\* The numbers of the first j attempts fit below those of k >= j attempts.
LEMMA RoomGrows ==
  ASSUME NEW j \in Nat, NEW k \in Nat, j <= k
  PROVE  j * Room <= k * Room
<1> DEFINE r == Room
<1>1. r \in Nat
  BY Bounds
<1> HIDE DEF r
<1>2. j * r <= k * r
  BY <1>1
<1> QED
  BY <1>2 DEF r

LEMMA RoomSteps ==
  ASSUME NEW k \in Attempts
  PROVE  /\ (k - 1) * Room \in Nat /\ (k - 1) * Room + Room = k * Room
         /\ k * Room <= MaxSeq
<1> DEFINE r == Room
<1>1. r \in Nat /\ k \in Nat \ {0} /\ k <= MaxAttempts /\ MaxAttempts \in Nat
  BY Bounds DEF Attempts
<1> HIDE DEF r
<1>2. (k - 1) * r \in Nat /\ (k - 1) * r + r = k * r
  BY <1>1
<1>3. k * Room <= MaxAttempts * Room
  BY <1>1, RoomGrows
<1> QED
  BY <1>2, <1>3, Bounds DEF r

LEMMA SomeEvents ==
  /\ NoEvent \in Events /\ NoEvent.seq = 0 /\ NoEvent.kind = "delta"
  /\ Ends \subseteq Terminal /\ Kinds \subseteq {"delta"} \cup Terminal
  /\ "none" \notin Kinds /\ "delta" \notin Terminal /\ Kinds \ {"delta"} = Ends
  BY EventLogAssumption, Bounds DEF NoEvent, Events, Terminal, Kinds

\* What a sequence holds after each of the operations on it.
LEMMA HeldEmpty == Held(<<>>) = {}
  BY DEF Held

LEMMA HeldAppend ==
  ASSUME NEW S, NEW q \in Seq(S), NEW e \in S
  PROVE  Held(Append(q, e)) = Held(q) \cup {e}
<1>1. Append(q, e) \in Seq(S) /\ Len(Append(q, e)) = Len(q) + 1
      /\ Append(q, e)[Len(q) + 1] = e
      /\ \A i \in 1 .. Len(q) : Append(q, e)[i] = q[i]
  BY AppendProperties
<1>2. DOMAIN Append(q, e) = 1 .. Len(q) + 1 /\ DOMAIN q = 1 .. Len(q) /\ Len(q) \in Nat
  BY <1>1, LenProperties
<1> QED
  BY <1>1, <1>2 DEF Held

LEMMA HeldTail ==
  ASSUME NEW S, NEW q \in Seq(S), q # <<>>
  PROVE  Head(q) \in S /\ Held(q) = {Head(q)} \cup Held(Tail(q))
<1>1. Head(q) = q[1] /\ Head(q) \in S /\ Tail(q) \in Seq(S) /\ Len(Tail(q)) = Len(q) - 1
      /\ \A i \in 1 .. Len(q) - 1 : Tail(q)[i] = q[i + 1]
  BY HeadTailProperties
<1>2. DOMAIN q = 1 .. Len(q) /\ DOMAIN Tail(q) = 1 .. Len(q) - 1 /\ Len(q) \in Nat \ {0}
  BY <1>1, LenProperties, EmptySeq
<1>3. \A i \in DOMAIN q : i = 1 \/ (i - 1 \in DOMAIN Tail(q) /\ q[i] = Tail(q)[i - 1])
  BY <1>1, <1>2
<1>4. \A i \in DOMAIN Tail(q) : i + 1 \in DOMAIN q /\ Tail(q)[i] = q[i + 1]
  BY <1>1, <1>2
<1>5. 1 \in DOMAIN q
  BY <1>2
<1> QED
  BY <1>1, <1>3, <1>4, <1>5 DEF Held

LEMMA HeldConcat ==
  ASSUME NEW S, NEW q \in Seq(S), NEW r \in Seq(S)
  PROVE  Held(q \o r) = Held(q) \cup Held(r)
<1>1. q \o r \in Seq(S) /\ Len(q \o r) = Len(q) + Len(r)
      /\ \A i \in 1 .. Len(q) + Len(r) :
           (q \o r)[i] = IF i <= Len(q) THEN q[i] ELSE r[i - Len(q)]
  BY ConcatProperties
<1>2. DOMAIN (q \o r) = 1 .. Len(q) + Len(r) /\ DOMAIN q = 1 .. Len(q)
      /\ DOMAIN r = 1 .. Len(r) /\ Len(q) \in Nat /\ Len(r) \in Nat
  BY <1>1, LenProperties
<1>3. \A i \in DOMAIN (q \o r) : (q \o r)[i] \in Held(q) \cup Held(r)
  BY <1>1, <1>2 DEF Held
<1>4. \A i \in DOMAIN q : i \in DOMAIN (q \o r) /\ (q \o r)[i] = q[i]
  BY <1>1, <1>2
<1>5. \A i \in DOMAIN r : Len(q) + i \in DOMAIN (q \o r) /\ (q \o r)[Len(q) + i] = r[i]
  BY <1>1, <1>2
<1>6. Held(q \o r) \subseteq Held(q) \cup Held(r)
  BY <1>3 DEF Held
<1>7. Held(q) \subseteq Held(q \o r) /\ Held(r) \subseteq Held(q \o r)
  BY <1>4, <1>5 DEF Held
<1> QED
  BY <1>6, <1>7

LEMMA HeldTyped ==
  ASSUME NEW S, NEW q \in Seq(S)
  PROVE  Held(q) \subseteq S /\ (q # <<>> => Held(q) # {})
<1>1. DOMAIN q = 1 .. Len(q) /\ Len(q) \in Nat /\ \A i \in 1 .. Len(q) : q[i] \in S
  BY LenProperties, ElementOfSeq
<1>2. q # <<>> => 1 \in DOMAIN q
  BY <1>1, EmptySeq
<1> QED
  BY <1>1, <1>2 DEF Held

LEMMA HeldOne == \A e : Held(<<e>>) = {e}
  BY DEF Held

\* The first member of a set of indices.
LEMMA FirstIn ==
  ASSUME NEW N \in Nat, NEW S \in SUBSET (1 .. N), S # {}
  PROVE  \E i \in S : \A j \in 1 .. i - 1 : j \notin S
<1>1. PICK m \in S : \A n \in S : m <= n
  BY LeastNat
<1>2. \A j \in 1 .. m - 1 : j \notin S
  BY <1>1
<1> QED
  BY <1>2

\* INSERT OR IGNORE keeps what is there and adds every new number.
LEMMA Inserted ==
  ASSUME log \in [Seqs -> Events], NEW q \in Seq(Events)
  PROVE  /\ InsertBatch(q) \in [Seqs -> Events]
         /\ \A s \in Seqs : log[s] # NoEvent => InsertBatch(q)[s] = log[s]
         /\ \A s \in Seqs : InsertBatch(q)[s] # log[s] =>
              /\ log[s] = NoEvent
              /\ InsertBatch(q)[s] \in Held(q) /\ InsertBatch(q)[s].seq = s
         /\ \A e \in Held(q) : e.seq > 0 => InsertBatch(q)[e.seq] # NoEvent
<1>1. DOMAIN q = 1 .. Len(q) /\ Len(q) \in Nat /\ \A i \in 1 .. Len(q) : q[i] \in Events
  BY LenProperties, ElementOfSeq
<1>2. ASSUME NEW s \in Seqs, \E i \in DOMAIN q : q[i].seq = s
      PROVE  LET i == CHOOSE i \in DOMAIN q :
                        q[i].seq = s /\ \A j \in 1 .. i - 1 : q[j].seq # s
             IN i \in DOMAIN q /\ q[i].seq = s
  <2> DEFINE S == {i \in 1 .. Len(q) : q[i].seq = s}
  <2>1. S \in SUBSET (1 .. Len(q)) /\ S # {}
    BY <1>1, <1>2
  <2>2. PICK i \in S : \A j \in 1 .. i - 1 : j \notin S
    BY <1>1, <2>1, FirstIn
  <2>3. \A j \in 1 .. i - 1 : j \in 1 .. Len(q)
    BY <1>1
  <2>4. i \in DOMAIN q /\ q[i].seq = s /\ \A j \in 1 .. i - 1 : q[j].seq # s
    BY <1>1, <2>2, <2>3
  <2> QED
    BY <2>4
<1>3. \A s \in Seqs : log[s] # NoEvent => InsertBatch(q)[s] = log[s]
  BY DEF InsertBatch
<1>4. ASSUME NEW s \in Seqs, InsertBatch(q)[s] # log[s]
      PROVE  /\ log[s] = NoEvent /\ InsertBatch(q)[s] \in Events
             /\ InsertBatch(q)[s] \in Held(q) /\ InsertBatch(q)[s].seq = s
  <2>1. log[s] = NoEvent /\ \E i \in DOMAIN q : q[i].seq = s
    BY <1>4 DEF InsertBatch
  <2> DEFINE i == CHOOSE i \in DOMAIN q :
                    q[i].seq = s /\ \A j \in 1 .. i - 1 : q[j].seq # s
  <2>2. i \in DOMAIN q /\ q[i].seq = s
    BY <1>2, <2>1
  <2>3. InsertBatch(q)[s] = q[i]
    BY <2>1 DEF InsertBatch
  <2> HIDE DEF i
  <2> QED
    BY <1>1, <2>1, <2>2, <2>3 DEF Held
<1>5. \A s \in Seqs : InsertBatch(q)[s] \in Events
  BY <1>4
<1>6. InsertBatch(q) \in [Seqs -> Events]
  BY <1>5 DEF InsertBatch
<1>7. ASSUME NEW e \in Held(q), e.seq > 0
      PROVE  InsertBatch(q)[e.seq] # NoEvent
  <2>1. PICK j \in DOMAIN q : e = q[j]
    BY DEF Held
  <2>2. e \in Events /\ e.seq \in Seqs
    BY <1>1, <1>7, <2>1, Bounds DEF Events, Seqs
  <2>3. CASE log[e.seq] # NoEvent
    BY <1>3, <2>2, <2>3
  <2>4. CASE log[e.seq] = NoEvent
    <3> DEFINE i == CHOOSE i \in DOMAIN q :
                      q[i].seq = e.seq /\ \A k \in 1 .. i - 1 : q[k].seq # e.seq
    <3>1. i \in DOMAIN q /\ q[i].seq = e.seq
      BY <1>2, <2>1, <2>2
    <3>2. InsertBatch(q)[e.seq] = q[i]
      BY <2>1, <2>2, <2>4 DEF InsertBatch
    <3> HIDE DEF i
    <3> QED
      BY <1>7, <3>1, <3>2, SomeEvents, <2>2, Bounds DEF Seqs
  <2> QED
    BY <2>3, <2>4
<1> QED
  BY <1>3, <1>4, <1>6, <1>7

\* The first terminal kind of a chunk: none, its head, or that of its tail.
LEMMA FirstTerminalAt ==
  ASSUME NEW c \in Seq(Kinds), NEW i \in 1 .. Len(c), c[i] # "delta",
         \A j \in 1 .. i - 1 : c[j] = "delta"
  PROVE  FirstTerminal(c) = c[i]
<1>1. DOMAIN c = 1 .. Len(c) /\ Len(c) \in Nat
  BY LenProperties
<1> DEFINE P(m) == m \in DOMAIN c /\ c[m] # "delta" /\ \A j \in 1 .. m - 1 : c[j] = "delta"
           m == CHOOSE m \in DOMAIN c : c[m] # "delta" /\ \A j \in 1 .. m - 1 : c[j] = "delta"
<1>2. m \in DOMAIN c /\ c[m] # "delta" /\ \A j \in 1 .. m - 1 : c[j] = "delta"
  BY <1>1
<1>3. FirstTerminal(c) = c[m]
  BY <1>1 DEF FirstTerminal
<1> HIDE DEF m
<1>4. ~(m < i) /\ ~(i < m)
  BY <1>1, <1>2
<1>5. m = i
  BY <1>1, <1>2, <1>4
<1> QED
  BY <1>3, <1>5

LEMMA FirstTerminalNone ==
  ASSUME NEW c \in Seq(Kinds), \A i \in 1 .. Len(c) : c[i] = "delta"
  PROVE  FirstTerminal(c) = "none"
  BY LenProperties DEF FirstTerminal

LEMMA FirstTerminalCases ==
  ASSUME NEW c \in Seq(Kinds)
  PROVE  \/ \A i \in 1 .. Len(c) : c[i] = "delta"
         \/ \E i \in 1 .. Len(c) : c[i] # "delta" /\ \A j \in 1 .. i - 1 : c[j] = "delta"
<1> SUFFICES ASSUME \E i \in 1 .. Len(c) : c[i] # "delta"
             PROVE  \E i \in 1 .. Len(c) :
                      c[i] # "delta" /\ \A j \in 1 .. i - 1 : c[j] = "delta"
  OBVIOUS
<1>1. Len(c) \in Nat
  BY LenProperties
<1> DEFINE S == {i \in 1 .. Len(c) : c[i] # "delta"}
<1>2. PICK i \in S : \A j \in 1 .. i - 1 : j \notin S
  <2>1. S \in SUBSET (1 .. Len(c)) /\ S # {}
    OBVIOUS
  <2> QED
    BY <1>1, <2>1, FirstIn
<1>3. \A j \in 1 .. i - 1 : j \in 1 .. Len(c)
  BY <1>1
<1> QED
  BY <1>2, <1>3

LEMMA FirstTerminalTyped ==
  ASSUME NEW c \in Seq(Kinds)
  PROVE  FirstTerminal(c) \in Ends \cup {"none"}
<1>1. CASE \A i \in 1 .. Len(c) : c[i] = "delta"
  BY <1>1, FirstTerminalNone
<1>2. CASE \E i \in 1 .. Len(c) : c[i] # "delta" /\ \A j \in 1 .. i - 1 : c[j] = "delta"
  <2>1. PICK i \in 1 .. Len(c) : c[i] # "delta" /\ \A j \in 1 .. i - 1 : c[j] = "delta"
    BY <1>2
  <2>2. FirstTerminal(c) = c[i] /\ c[i] \in Kinds
    BY <2>1, FirstTerminalAt, ElementOfSeq
  <2> QED
    BY <2>1, <2>2, SomeEvents
<1> QED
  BY <1>1, <1>2, FirstTerminalCases

LEMMA FirstTerminalSteps ==
  /\ FirstTerminal(<<>>) = "none"
  /\ \A c \in Seq(Kinds) : c # <<>> =>
       FirstTerminal(c) = IF Head(c) # "delta" THEN Head(c) ELSE FirstTerminal(Tail(c))
<1>1. FirstTerminal(<<>>) = "none"
  BY DEF FirstTerminal
<1>2. ASSUME NEW c \in Seq(Kinds), c # <<>>
      PROVE  FirstTerminal(c) = IF Head(c) # "delta" THEN Head(c) ELSE FirstTerminal(Tail(c))
  <2> DEFINE t == Tail(c)
  <2>1. Head(c) = c[1] /\ t \in Seq(Kinds) /\ Len(t) = Len(c) - 1
        /\ \A i \in 1 .. Len(c) - 1 : t[i] = c[i + 1]
    BY <1>2, HeadTailProperties
  <2>2. Len(c) \in Nat \ {0}
    BY <1>2, LenProperties, EmptySeq
  <2> HIDE DEF t
  <2>3. CASE Head(c) # "delta"
    <3>1. 1 \in 1 .. Len(c) /\ \A j \in 1 .. 1 - 1 : c[j] = "delta"
      BY <2>2
    <3> QED
      BY <2>1, <2>3, <3>1, FirstTerminalAt
  <2>4. CASE Head(c) = "delta" /\ \A i \in 1 .. Len(t) : t[i] = "delta"
    <3>1. \A i \in 1 .. Len(c) : i = 1 \/ (i - 1 \in 1 .. Len(t) /\ c[i] = t[i - 1])
      BY <2>1, <2>2
    <3>2. \A i \in 1 .. Len(c) : c[i] = "delta"
      BY <2>1, <2>4, <3>1
    <3>3. FirstTerminal(t) = "none" /\ FirstTerminal(c) = "none"
      BY <2>1, <2>4, <3>2, FirstTerminalNone
    <3> QED
      BY <2>4, <3>3 DEF t
  <2>5. CASE Head(c) = "delta"
             /\ \E i \in 1 .. Len(t) : t[i] # "delta" /\ \A j \in 1 .. i - 1 : t[j] = "delta"
    <3>1. PICK i \in 1 .. Len(t) : t[i] # "delta" /\ \A j \in 1 .. i - 1 : t[j] = "delta"
      BY <2>5
    <3>2. i + 1 \in 1 .. Len(c) /\ c[i + 1] = t[i]
      BY <2>1, <2>2
    <3>3. \A j \in 1 .. (i + 1) - 1 : j = 1 \/ (j - 1 \in 1 .. i - 1 /\ c[j] = t[j - 1])
      BY <2>1, <2>2
    <3>4. \A j \in 1 .. (i + 1) - 1 : c[j] = "delta"
      BY <2>1, <2>5, <3>1, <3>3
    <3>5. FirstTerminal(c) = c[i + 1]
      BY <3>1, <3>2, <3>4, FirstTerminalAt
    <3>6. FirstTerminal(t) = t[i]
      BY <2>1, <3>1, FirstTerminalAt
    <3> QED
      BY <2>5, <3>2, <3>5, <3>6 DEF t
  <2> QED
    BY <2>1, <2>3, <2>4, <2>5, FirstTerminalCases
<1> QED
  BY <1>1, <1>2

-----------------------------------------------------------------------------
(* Types.                                                                   *)

LEMMA NothingHeld ==
  <<>> \in Seq(Events) /\ <<>> \in Seq(Attempts) /\ <<>> \in Seq(Kinds) /\ Len(<<>>) = 0
  BY EmptySeq

LEMMA AppendTyped ==
  ASSUME NEW S, NEW q \in Seq(S), NEW e \in S
  PROVE  Append(q, e) \in Seq(S) /\ Len(Append(q, e)) = Len(q) + 1 /\ Len(q) \in Nat
  BY AppendProperties, LenProperties

LEMMA InitTypes == Init => TypeOK
<1> SUFFICES ASSUME Init PROVE TypeOK
  OBVIOUS
<1>1. /\ channel \in Seq(Events) /\ Len(channel) = 0 /\ flushq \in Seq(Attempts)
      /\ batch \in Seq(Events)
  BY EmptySeq DEF Init
<1>2. chunk \in [Attempts -> Seq(Kinds)]
  BY EmptySeq DEF Init
<1>3. log \in [Seqs -> Events] /\ cur \in [Attempts -> Events]
  BY SomeEvents DEF Init
<1>4. pc \in [Attempts -> TaskStates]
  BY DEF Init, TaskStates
<1>5. /\ seqno \in [Attempts -> 0 .. MaxSeq] /\ start \in [Attempts -> 0 .. MaxSeq]
      /\ lastSeq \in 0 .. MaxSeq /\ cursor \in 0 .. MaxSeq
      /\ noise \in 0 .. MaxNoise /\ faults \in 0 .. MaxFaults /\ Len(channel) <= Capacity
  BY <1>1, Bounds DEF Init
<1>6. /\ captured \in [Attempts -> Ends \cup {"none"}] /\ sent \in [Attempts -> Ends \cup {"none"}]
      /\ persisted \in [Attempts -> BOOLEAN] /\ cancelled \in [Attempts -> BOOLEAN]
      /\ gone \in [Attempts -> BOOLEAN]
  BY DEF Init
<1>7. /\ status \in Terminal \cup {"in_progress"} /\ acking \subseteq Attempts
      /\ shutdown \in BOOLEAN /\ retry \in BOOLEAN /\ asked \in BOOLEAN
      /\ rpc \in {"list", "check", "done"} /\ got \subseteq Events
      /\ drainer \in {"select", "insert", "ratchet", "lastInsert", "lastRatchet", "exited"}
  BY DEF Init
<1> QED
  BY <1>1, <1>2, <1>3, <1>4, <1>5, <1>6, <1>7 DEF TypeOK

\* An attempt that may number one more event has a number left for it.
LEMMA NumberFits ==
  ASSUME TypeOK, Numbers, NEW k \in Attempts
  PROVE  /\ seqno[k] <= k * Room /\ k * Room \in Nat /\ k * Room <= MaxSeq
         /\ pc[k] \in {"each", "close"} => seqno[k] + 1 <= start[k] + Room
         /\ pc[k] \in {"each", "close"} => seqno[k] + 1 \in 1 .. MaxSeq
<1>1. seqno[k] \in Nat /\ start[k] \in Nat /\ chunk[k] \in Seq(Kinds)
  BY Bounds DEF TypeOK
<1>2. NumbersOf(k)
  BY DEF Numbers
<1>3. pc[k] = "each" => Len(chunk[k]) \in Nat \ {0}
  BY <1>1, <1>2, LenProperties, EmptySeq DEF NumbersOf
<1> DEFINE r == (k - 1) * Room  kr == k * Room
<1>4. r \in Nat /\ r + Room = kr /\ kr <= MaxSeq /\ start[k] <= r /\ kr \in Nat
  BY <1>2, RoomSteps, Bounds DEF NumbersOf
<1> HIDE DEF r, kr
<1>5. seqno[k] <= kr
  BY <1>1, <1>2, <1>4, Bounds DEF NumbersOf
<1>6. pc[k] \in {"each", "close"} => seqno[k] + 1 <= start[k] + Room
  BY <1>1, <1>2, <1>3, Bounds DEF NumbersOf, Room
<1> QED
  BY <1>1, <1>4, <1>5, <1>6, Bounds DEF kr

LEMMA ChunkTyped ==
  \A c \in Chunks : c \in Seq(Kinds) /\ c # <<>> /\ Len(c) \in Nat \ {0}
  BY Bounds DEF Chunks

\* The number that the drainer's ratchet writes.
LEMMA BatchTop ==
  ASSUME TypeOK, FlushState, drainer \in Writing
  PROVE  LET seqs == {batch[i].seq : i \in DOMAIN batch}
             top == CHOOSE s \in seqs : \A t \in seqs : t <= s
         IN top \in 0 .. MaxSeq /\ \E e \in Held(batch) : top = e.seq
<1> DEFINE seqs == {batch[i].seq : i \in DOMAIN batch}
           top == CHOOSE s \in seqs : \A t \in seqs : t <= s
<1>1. batch \in Seq(Events) /\ batch # <<>>
  BY DEF TypeOK, FlushState
<1>2. Held(batch) \subseteq Events /\ Held(batch) # {}
  BY <1>1, HeldTyped
<1>3. seqs = {e.seq : e \in Held(batch)}
  BY DEF Held
<1>4. seqs \in SUBSET (0 .. MaxSeq) /\ seqs # {}
  BY <1>2, <1>3 DEF Events
<1>5. \E m \in seqs : \A n \in seqs : n <= m
  BY <1>4, GreatestNat, Bounds
<1>6. top \in seqs
  BY <1>5
<1> HIDE DEF top, seqs
<1>7. top \in 0 .. MaxSeq /\ \E e \in Held(batch) : top = e.seq
  BY <1>3, <1>4, <1>6
<1> QED
  BY <1>7 DEF top, seqs

\* The cursor after a page.
LEMMA PageEnd ==
  ASSUME Page # {}
  PROVE  LET m == CHOOSE s \in Page : \A t \in Page : t <= s
         IN m \in Page /\ m \in Seqs /\ \A t \in Page : t <= m
<1>1. Page \in SUBSET Seqs /\ Page \in SUBSET (0 .. MaxSeq)
  BY Bounds DEF Page, Seqs
<1>2. \E m \in Page : \A n \in Page : n <= m
  BY <1>1, GreatestNat, Bounds
<1> QED
  BY <1>1, <1>2

\* What becomes of the event at hand when the task stores it: it goes to the
\* channel, the task waits for a flush, or the drainer is gone and the task
\* goes on; the second try may also end in a synchronous insert.
Pushes(k) ==
  /\ drainer # "exited" /\ Len(channel) < Capacity
  /\ channel' = Append(channel, cur'[k])
  /\ pc' = [pc EXCEPT ![k] = "forward"]
  /\ flushq' = flushq
Waits(k) ==
  /\ drainer # "exited"
  /\ channel' = channel
  /\ pc' = [pc EXCEPT ![k] = "wait"]
  /\ flushq' = Append(flushq, k)
GoesOn(k) ==
  /\ channel' = channel /\ flushq' = flushq
  /\ \/ drainer = "exited" /\ pc' = [pc EXCEPT ![k] = "forward"]
     \/ drainer = "exited" /\ pc' = [pc EXCEPT ![k] = "insert"]
     \/ pc[k] = "again" /\ pc' = [pc EXCEPT ![k] = "insert"]

LEMMA EventStored ==
  ASSUME TypeOK, NEW k \in Attempts, TaskEvent(k)
  PROVE  /\ Pushes(k) \/ Waits(k) \/ GoesOn(k)
         /\ Pushes(k) => cur'[k].kind = "delta"
         /\ pc[k] = "each"
         /\ cur'[k] = [seq |-> seqno[k] + 1, att |-> k, kind |-> Head(chunk[k]),
                       synth |-> FALSE]
<1> DEFINE event == [seq |-> seqno[k] + 1, att |-> k, kind |-> Head(chunk[k]),
                     synth |-> FALSE]
<1>1. cur'[k] = event /\ pc[k] = "each" /\ StoreEvent(k, event)
  BY DEF TaskEvent, TypeOK
<1> HIDE DEF event
<1>2. CASE event.kind = "delta"
  <2>1. TryPush(k, event, "flush")
    BY <1>1, <1>2 DEF StoreEvent
  <2> QED
    BY <1>1, <1>2, <2>1 DEF TryPush, RequestFlush, Pushes, Waits, GoesOn, event
<1>3. CASE event.kind # "delta"
  <2>1. RequestFlush(k, "insert") /\ UNCHANGED channel
    BY <1>1, <1>3 DEF StoreEvent
  <2>2. channel' # Append(channel, event)
    <3>1. channel \in Seq(Events)
      BY DEF TypeOK
    <3>2. Len(Append(channel, event)) = Len(channel) + 1 /\ Len(channel) \in Nat
      BY <3>1, LenProperties
    <3> QED
      BY <2>1, <3>2
  <2> QED
    BY <1>1, <2>1, <2>2 DEF RequestFlush, Pushes, Waits, GoesOn, event
<1> QED
  BY <1>2, <1>3

LEMMA AgainStored ==
  ASSUME NEW k \in Attempts, TaskPushAgain(k)
  PROVE  /\ Pushes(k) \/ GoesOn(k)
         /\ pc[k] = "again" /\ cur' = cur
  BY DEF TaskPushAgain, TryPush, Pushes, GoesOn

\* What the end of a batch write leaves.
LEMMA WriteLeaves ==
  ASSUME TypeOK, WriteEnded
  PROVE  /\ batch' = <<>> /\ acking' = {} /\ drainer' \in {"exited", "select"}
         /\ channel' \in {<<>>, channel} /\ flushq' \in {<<>>, flushq}
         /\ pc' \in [Attempts -> TaskStates]
  BY DEF WriteEnded, Acknowledge, AfterFlush, TypeOK, TaskStates

LEMMA NextPc ==
  ASSUME TypeOK, Numbers, FlushState, [Next]_vars
  PROVE  pc' \in [Attempts -> TaskStates]
<1>1. ASSUME DrainFlush
      PROVE  pc' \in [Attempts -> TaskStates]
  BY <1>1
    DEF TypeOK, TaskStates, DrainFlush, Acknowledge, AfterFlush, rowVars,
        bufferVars, taskVars, readerVars, otherVars
<1>2. ASSUME DrainFinal
      PROVE  pc' \in [Attempts -> TaskStates]
  BY <1>2
    DEF TypeOK, TaskStates, DrainFinal, Acknowledge, AfterFlush, rowVars,
        bufferVars, taskVars, readerVars, otherVars
<1>3. ASSUME DrainInsert
      PROVE  pc' \in [Attempts -> TaskStates]
  BY <1>3, WriteLeaves, NothingHeld DEF TypeOK, DrainInsert
<1>4. ASSUME DrainRatchet
      PROVE  pc' \in [Attempts -> TaskStates]
  BY <1>4, WriteLeaves, NothingHeld DEF TypeOK, DrainRatchet
<1>5. ASSUME NEW k \in Attempts, TaskChunk(k)
      PROVE  pc' \in [Attempts -> TaskStates]
  BY <1>5
    DEF TypeOK, TaskStates, TaskChunk, Chunks, rowVars, bufferVars, taskVars,
        readerVars, otherVars
<1>6. ASSUME NEW k \in Attempts, TaskEvent(k)
      PROVE  pc' \in [Attempts -> TaskStates]
  <2>1. Pushes(k) \/ Waits(k) \/ GoesOn(k)
    BY <1>6, EventStored
  <2> QED
    BY <2>1 DEF TypeOK, Pushes, Waits, GoesOn, TaskStates
<1>7. ASSUME NEW k \in Attempts, TaskPushAgain(k)
      PROVE  pc' \in [Attempts -> TaskStates]
  <2>1. Pushes(k) \/ GoesOn(k)
    BY <1>7, AgainStored
  <2> QED
    BY <2>1 DEF TypeOK, Pushes, Waits, GoesOn, TaskStates
<1>8. ASSUME NEW k \in Attempts, TaskInsert(k)
      PROVE  pc' \in [Attempts -> TaskStates]
  BY <1>8
    DEF TypeOK, TaskStates, TaskInsert, DbFault, AfterInsert, rowVars,
        bufferVars, taskVars, readerVars, otherVars
<1>9. ASSUME NEW k \in Attempts, TaskRatchet(k)
      PROVE  pc' \in [Attempts -> TaskStates]
  BY <1>9
    DEF TypeOK, TaskStates, TaskRatchet, SetLastSequence, DbFault,
        AfterInsert, rowVars, bufferVars, taskVars, readerVars, otherVars
<1>10. ASSUME NEW k \in Attempts, TaskForward(k)
       PROVE  pc' \in [Attempts -> TaskStates]
  BY <1>10
    DEF TypeOK, TaskStates, TaskForward, rowVars, bufferVars, taskVars,
        readerVars, otherVars
<1>11. ASSUME NEW k \in Attempts, TaskBodyEnd(k)
       PROVE  pc' \in [Attempts -> TaskStates]
  BY <1>11
    DEF TypeOK, TaskStates, TaskBodyEnd, rowVars, bufferVars, taskVars,
        readerVars, otherVars
<1>12. ASSUME NEW k \in Attempts, TaskBodyError(k)
       PROVE  pc' \in [Attempts -> TaskStates]
  BY <1>12
    DEF TypeOK, TaskStates, TaskBodyError, rowVars, bufferVars, taskVars,
        readerVars, otherVars
<1>13. ASSUME NEW k \in Attempts, TaskCancelled(k)
       PROVE  pc' \in [Attempts -> TaskStates]
  BY <1>13
    DEF TypeOK, TaskStates, TaskCancelled, rowVars, bufferVars, taskVars,
        readerVars, otherVars
<1>14. ASSUME NEW k \in Attempts, TaskClose(k)
       PROVE  pc' \in [Attempts -> TaskStates]
  <2>1. \E x \in {"complete", "insert"} : pc' = [pc EXCEPT ![k] = x]
    BY <1>14 DEF TaskClose
  <2> QED
    BY <2>1 DEF TypeOK, TaskStates
<1>15. ASSUME NEW k \in Attempts, TaskComplete(k)
       PROVE  pc' \in [Attempts -> TaskStates]
  BY <1>15
    DEF TypeOK, TaskStates, TaskComplete, DbFault, Outcome, rowVars,
        bufferVars, taskVars, readerVars, otherVars
<1>16. ASSUME NEW k \in Attempts, RetryStart(k)
       PROVE  pc' \in [Attempts -> TaskStates]
  BY <1>16
    DEF TypeOK, TaskStates, RetryStart, Latest, rowVars, bufferVars, taskVars,
        readerVars, otherVars
<1>17. CASE UNCHANGED <<pc>>
  BY <1>17 DEF TypeOK, TaskStates
<1> QED
  BY <1>1, <1>2, <1>3, <1>4, <1>5, <1>6, <1>7, <1>8, <1>9, <1>10, <1>11,
      <1>12, <1>13, <1>14, <1>15, <1>16, <1>17
    DEF Next, TaskStep, DrainerStep, Finished, vars, DrainRecv, DrainTimeout,
        OtherPush, Shutdown, Disconnect, AskCancel, CancelRow, RetryBump,
        MarkFailure, ReaderList, ReaderCheck, rowVars, bufferVars, taskVars,
        readerVars, otherVars

LEMMA NextStatus ==
  ASSUME TypeOK, Numbers, FlushState, [Next]_vars
  PROVE  status' \in Terminal \cup {"in_progress"}
<1>1. ASSUME NEW k \in Attempts, TaskComplete(k)
      PROVE  status' \in Terminal \cup {"in_progress"}
  BY <1>1, SomeEvents
    DEF TypeOK, Terminal, TaskComplete, DbFault, Outcome, rowVars, bufferVars,
        taskVars, readerVars, otherVars
<1>2. ASSUME CancelRow
      PROVE  status' \in Terminal \cup {"in_progress"}
  BY <1>2, SomeEvents
    DEF TypeOK, Terminal, CancelRow, rowVars, bufferVars, taskVars,
        readerVars, otherVars
<1>3. ASSUME NEW k \in Attempts, RetryBump(k)
      PROVE  status' \in Terminal \cup {"in_progress"}
  BY <1>3, SomeEvents
    DEF TypeOK, Terminal, RetryBump, Latest, rowVars, bufferVars, taskVars,
        readerVars, otherVars
<1>4. ASSUME MarkFailure
      PROVE  status' \in Terminal \cup {"in_progress"}
  BY <1>4, SomeEvents
    DEF TypeOK, Terminal, MarkFailure, rowVars, bufferVars, taskVars,
        readerVars, otherVars
<1>5. CASE UNCHANGED <<status>>
  BY <1>5, SomeEvents DEF TypeOK, Terminal
<1> QED
  BY <1>1, <1>2, <1>3, <1>4, <1>5
    DEF Next, TaskStep, DrainerStep, Finished, vars, DrainRecv, DrainTimeout,
        DrainFlush, DrainFinal, DrainInsert, DrainRatchet, OtherPush,
        Shutdown, TaskChunk, TaskEvent, TaskPushAgain, TaskInsert,
        TaskRatchet, TaskForward, TaskBodyEnd, TaskBodyError, TaskCancelled,
        TaskClose, Disconnect, AskCancel, RetryStart, ReaderList, ReaderCheck,
        rowVars, bufferVars, taskVars, readerVars, otherVars

LEMMA NextLog ==
  ASSUME TypeOK, Numbers, FlushState, [Next]_vars
  PROVE  log' \in [Seqs -> Events]
<1>1. ASSUME DrainInsert
      PROVE  log' \in [Seqs -> Events]
  BY <1>1, Inserted
    DEF TypeOK, DrainInsert, DbFault, WriteEnded, Acknowledge, AfterFlush,
        rowVars, bufferVars, taskVars, readerVars, otherVars
<1>2. ASSUME NEW k \in Attempts, TaskInsert(k)
      PROVE  log' \in [Seqs -> Events]
  <2>1. cur[k] \in Events
    BY DEF TypeOK
  <2>2. <<cur[k]>> \in Seq(Events)
    BY <2>1
  <2> QED
    BY <1>2, <2>2, Inserted DEF TypeOK, TaskInsert
<1>3. CASE UNCHANGED <<log>>
  BY <1>3, Inserted DEF TypeOK
<1> QED
  BY <1>1, <1>2, <1>3
    DEF Next, TaskStep, DrainerStep, Finished, vars, DrainRecv, DrainTimeout,
        DrainFlush, DrainFinal, DrainRatchet, OtherPush, Shutdown, TaskChunk,
        TaskEvent, TaskPushAgain, TaskRatchet, TaskForward, TaskBodyEnd,
        TaskBodyError, TaskCancelled, TaskClose, TaskComplete, Disconnect,
        AskCancel, CancelRow, RetryBump, RetryStart, MarkFailure, ReaderList,
        ReaderCheck, rowVars, bufferVars, taskVars, readerVars, otherVars

LEMMA NextLastSeq ==
  ASSUME TypeOK, Numbers, FlushState, [Next]_vars
  PROVE  lastSeq' \in 0 .. MaxSeq
<1>1. ASSUME DrainRatchet
      PROVE  lastSeq' \in 0 .. MaxSeq
  <2> DEFINE seqs == {batch[i].seq : i \in DOMAIN batch}
             top == CHOOSE s \in seqs : \A t \in seqs : t <= s
  <2>1. top \in 0 .. MaxSeq
    BY <1>1, BatchTop DEF DrainRatchet, Writing
  <2> HIDE DEF top
  <2>2. lastSeq' \in {lastSeq, top}
    BY <1>1 DEF DrainRatchet, SetLastSequence, top
  <2> QED
    BY <2>1, <2>2 DEF TypeOK
<1>2. ASSUME NEW k \in Attempts, TaskRatchet(k)
      PROVE  lastSeq' \in 0 .. MaxSeq
  BY <1>2, Bounds
    DEF TypeOK, Events, TaskRatchet, SetLastSequence, DbFault, AfterInsert,
        rowVars, bufferVars, taskVars, readerVars, otherVars
<1>3. CASE UNCHANGED <<lastSeq>>
  BY <1>3, Bounds DEF TypeOK, Events
<1> QED
  BY <1>1, <1>2, <1>3
    DEF Next, TaskStep, DrainerStep, Finished, vars, DrainRecv, DrainTimeout,
        DrainFlush, DrainFinal, DrainInsert, OtherPush, Shutdown, TaskChunk,
        TaskEvent, TaskPushAgain, TaskInsert, TaskForward, TaskBodyEnd,
        TaskBodyError, TaskCancelled, TaskClose, TaskComplete, Disconnect,
        AskCancel, CancelRow, RetryBump, RetryStart, MarkFailure, ReaderList,
        ReaderCheck, rowVars, bufferVars, taskVars, readerVars, otherVars

LEMMA NextNumbered ==
  ASSUME TypeOK, Numbers, FlushState, [Next]_vars
  PROVE  /\ seqno' \in [Attempts -> 0 .. MaxSeq] /\ start' \in [Attempts -> 0 .. MaxSeq]
         /\ cur' \in [Attempts -> Events]
<1>1. ASSUME NEW k \in Attempts, TaskEvent(k)
      PROVE  /\ seqno' \in [Attempts -> 0 .. MaxSeq] /\ start' \in [Attempts -> 0 .. MaxSeq]
         /\ cur' \in [Attempts -> Events]
  <2> DEFINE event == [seq |-> seqno[k] + 1, att |-> k, kind |-> Head(chunk[k]),
                       synth |-> FALSE]
  <2>1. pc[k] = "each"
    BY <1>1 DEF TaskEvent
  <2>2. event.seq \in 0 .. MaxSeq
    BY <2>1, NumberFits, Bounds
  <2>3. Head(chunk[k]) \in Kinds
    BY <2>1, HeadTailProperties DEF Numbers, NumbersOf, TypeOK
  <2>4. event \in Events
    BY <2>2, <2>3, SomeEvents, Bounds DEF Events, Attempts
  <2>5. /\ seqno' = [seqno EXCEPT ![k] = event.seq] /\ start' = start
        /\ cur' = [cur EXCEPT ![k] = event]
    BY <1>1 DEF TaskEvent
  <2>6. /\ seqno \in [Attempts -> 0 .. MaxSeq] /\ start \in [Attempts -> 0 .. MaxSeq]
        /\ cur \in [Attempts -> Events]
    BY DEF TypeOK
  <2> HIDE DEF event
  <2> QED
    BY <2>2, <2>4, <2>5, <2>6
<1>2. ASSUME NEW k \in Attempts, TaskClose(k)
      PROVE  /\ seqno' \in [Attempts -> 0 .. MaxSeq] /\ start' \in [Attempts -> 0 .. MaxSeq]
         /\ cur' \in [Attempts -> Events]
  <2> DEFINE event == [seq |-> seqno[k] + 1, att |-> k, kind |-> Outcome(k), synth |-> TRUE]
  <2>1. pc[k] = "close"
    BY <1>2 DEF TaskClose
  <2>2. seqno[k] + 1 \in 0 .. MaxSeq
    BY <2>1, NumberFits, Bounds
  <2>3. Outcome(k) \in Terminal
    BY SomeEvents DEF Outcome, TypeOK, Terminal
  <2>4. event \in Events
    BY <2>2, <2>3, Bounds DEF Events, Attempts
  <2>5. \/ seqno' = seqno /\ cur' = cur
        \/ seqno' = [seqno EXCEPT ![k] = seqno[k] + 1] /\ cur' = [cur EXCEPT ![k] = event]
    BY <1>2 DEF TaskClose
  <2>6. start' = start
    BY <1>2 DEF TaskClose
  <2>7. /\ seqno \in [Attempts -> 0 .. MaxSeq] /\ start \in [Attempts -> 0 .. MaxSeq]
        /\ cur \in [Attempts -> Events]
    BY DEF TypeOK
  <2> HIDE DEF event
  <2> QED
    BY <2>2, <2>4, <2>5, <2>6, <2>7
<1>3. ASSUME NEW k \in Attempts, RetryStart(k)
      PROVE  /\ seqno' \in [Attempts -> 0 .. MaxSeq] /\ start' \in [Attempts -> 0 .. MaxSeq]
         /\ cur' \in [Attempts -> Events]
  BY <1>3, Bounds
    DEF TypeOK, RetryStart, Latest, rowVars, bufferVars, taskVars, readerVars,
        otherVars
<1>4. CASE UNCHANGED <<seqno, start, cur>>
  BY <1>4, Bounds DEF TypeOK
<1> QED
  BY <1>1, <1>2, <1>3, <1>4
    DEF Next, TaskStep, DrainerStep, Finished, vars, DrainRecv, DrainTimeout,
        DrainFlush, DrainFinal, DrainInsert, DrainRatchet, OtherPush,
        Shutdown, TaskChunk, TaskPushAgain, TaskInsert, TaskRatchet,
        TaskForward, TaskBodyEnd, TaskBodyError, TaskCancelled, TaskComplete,
        Disconnect, AskCancel, CancelRow, RetryBump, MarkFailure, ReaderList,
        ReaderCheck, rowVars, bufferVars, taskVars, readerVars, otherVars

LEMMA NextChannel ==
  ASSUME TypeOK, Numbers, FlushState, [Next]_vars
  PROVE  channel' \in Seq(Events) /\ Len(channel') <= Capacity
<1>1. ASSUME DrainRecv
      PROVE  channel' \in Seq(Events) /\ Len(channel') <= Capacity
  BY <1>1, Bounds, SomeEvents
    DEF TypeOK, DrainRecv, rowVars, bufferVars, taskVars, readerVars,
        otherVars
<1>2. ASSUME DrainFlush
      PROVE  channel' \in Seq(Events) /\ Len(channel') <= Capacity
  BY <1>2, Bounds, SomeEvents
    DEF TypeOK, DrainFlush, Acknowledge, AfterFlush, rowVars, bufferVars,
        taskVars, readerVars, otherVars
<1>3. ASSUME DrainFinal
      PROVE  channel' \in Seq(Events) /\ Len(channel') <= Capacity
  BY <1>3, Bounds, SomeEvents
    DEF TypeOK, DrainFinal, Acknowledge, AfterFlush, rowVars, bufferVars,
        taskVars, readerVars, otherVars
<1>4. ASSUME DrainInsert
      PROVE  channel' \in Seq(Events) /\ Len(channel') <= Capacity
  <2>1. channel' \in {<<>>, channel}
    BY <1>4, WriteLeaves DEF DrainInsert
  <2>2. channel \in Seq(Events) /\ Len(channel) <= Capacity
    BY DEF TypeOK
  <2>3. CASE channel' = <<>>
    BY <2>3, NothingHeld, Bounds
  <2> QED
    BY <2>1, <2>2, <2>3
<1>5. ASSUME DrainRatchet
      PROVE  channel' \in Seq(Events) /\ Len(channel') <= Capacity
  <2>1. channel' \in {<<>>, channel}
    BY <1>5, WriteLeaves DEF DrainRatchet
  <2>2. channel \in Seq(Events) /\ Len(channel) <= Capacity
    BY DEF TypeOK
  <2>3. CASE channel' = <<>>
    BY <2>3, NothingHeld, Bounds
  <2> QED
    BY <2>1, <2>2, <2>3
<1>6. ASSUME OtherPush
      PROVE  channel' \in Seq(Events) /\ Len(channel') <= Capacity
  BY <1>6, Bounds, SomeEvents
    DEF TypeOK, OtherPush, rowVars, bufferVars, taskVars, readerVars,
        otherVars
<1>7. ASSUME NEW k \in Attempts, TaskEvent(k)
      PROVE  channel' \in Seq(Events) /\ Len(channel') <= Capacity
  <2>1. Pushes(k) \/ Waits(k) \/ GoesOn(k)
    BY <1>7, EventStored
  <2>2. cur' \in [Attempts -> Events]
    BY <1>7, NextNumbered
  <2>3. \/ channel' = channel
        \/ Len(channel) < Capacity /\ channel' = Append(channel, cur'[k])
    BY <2>1 DEF Pushes, Waits, GoesOn
  <2>4. cur'[k] \in Events /\ channel \in Seq(Events) /\ Len(channel) <= Capacity
    BY <2>2 DEF TypeOK
  <2> QED
    BY <2>3, <2>4, Bounds, AppendTyped
<1>8. ASSUME NEW k \in Attempts, TaskPushAgain(k)
      PROVE  channel' \in Seq(Events) /\ Len(channel') <= Capacity
  <2>1. (Pushes(k) \/ GoesOn(k)) /\ cur' = cur
    BY <1>8, AgainStored
  <2>3. \/ channel' = channel
        \/ Len(channel) < Capacity /\ channel' = Append(channel, cur[k])
    BY <2>1 DEF Pushes, GoesOn
  <2>4. cur[k] \in Events /\ channel \in Seq(Events) /\ Len(channel) <= Capacity
    BY DEF TypeOK
  <2> QED
    BY <2>3, <2>4, Bounds, AppendTyped
<1>9. CASE UNCHANGED <<channel>>
  BY <1>9, Bounds, SomeEvents DEF TypeOK
<1> QED
  BY <1>1, <1>2, <1>3, <1>4, <1>5, <1>6, <1>7, <1>8, <1>9
    DEF Next, TaskStep, DrainerStep, Finished, vars, DrainTimeout, Shutdown,
        TaskChunk, TaskInsert, TaskRatchet, TaskForward, TaskBodyEnd,
        TaskBodyError, TaskCancelled, TaskClose, TaskComplete, Disconnect,
        AskCancel, CancelRow, RetryBump, RetryStart, MarkFailure, ReaderList,
        ReaderCheck, rowVars, bufferVars, taskVars, readerVars, otherVars

LEMMA NextFlushq ==
  ASSUME TypeOK, Numbers, FlushState, [Next]_vars
  PROVE  flushq' \in Seq(Attempts)
<1>1. ASSUME DrainFlush
      PROVE  flushq' \in Seq(Attempts)
  BY <1>1, EmptySeq
    DEF TypeOK, DrainFlush, Acknowledge, AfterFlush, rowVars, bufferVars,
        taskVars, readerVars, otherVars
<1>2. ASSUME DrainFinal
      PROVE  flushq' \in Seq(Attempts)
  BY <1>2, EmptySeq
    DEF TypeOK, DrainFinal, Acknowledge, AfterFlush, rowVars, bufferVars,
        taskVars, readerVars, otherVars
<1>3. ASSUME DrainInsert
      PROVE  flushq' \in Seq(Attempts)
  BY <1>3, WriteLeaves, NothingHeld DEF TypeOK, DrainInsert
<1>4. ASSUME DrainRatchet
      PROVE  flushq' \in Seq(Attempts)
  BY <1>4, WriteLeaves, NothingHeld DEF TypeOK, DrainRatchet
<1>5. ASSUME NEW k \in Attempts, TaskEvent(k)
      PROVE  flushq' \in Seq(Attempts)
  <2>1. flushq' = flushq \/ flushq' = Append(flushq, k)
    BY <1>5, EventStored DEF Pushes, Waits, GoesOn
  <2>2. flushq \in Seq(Attempts)
    BY DEF TypeOK
  <2> QED
    BY <2>1, <2>2, AppendTyped
<1>6. ASSUME NEW k \in Attempts, TaskPushAgain(k)
      PROVE  flushq' \in Seq(Attempts)
  BY <1>6, AgainStored DEF TypeOK, Pushes, GoesOn
<1>7. CASE UNCHANGED <<flushq>>
  BY <1>7, EmptySeq DEF TypeOK
<1> QED
  BY <1>1, <1>2, <1>3, <1>4, <1>5, <1>6, <1>7
    DEF Next, TaskStep, DrainerStep, Finished, vars, DrainRecv, DrainTimeout,
        OtherPush, Shutdown, TaskChunk, TaskInsert, TaskRatchet, TaskForward,
        TaskBodyEnd, TaskBodyError, TaskCancelled, TaskClose, TaskComplete,
        Disconnect, AskCancel, CancelRow, RetryBump, RetryStart, MarkFailure,
        ReaderList, ReaderCheck, rowVars, bufferVars, taskVars, readerVars,
        otherVars

LEMMA NextBatch ==
  ASSUME TypeOK, Numbers, FlushState, [Next]_vars
  PROVE  batch' \in Seq(Events)
<1>1. ASSUME DrainRecv
      PROVE  batch' \in Seq(Events)
  BY <1>1, EmptySeq
    DEF TypeOK, DrainRecv, rowVars, bufferVars, taskVars, readerVars,
        otherVars
<1>2. ASSUME DrainFlush
      PROVE  batch' \in Seq(Events)
  BY <1>2, EmptySeq
    DEF TypeOK, DrainFlush, Acknowledge, AfterFlush, rowVars, bufferVars,
        taskVars, readerVars, otherVars
<1>3. ASSUME DrainFinal
      PROVE  batch' \in Seq(Events)
  BY <1>3, EmptySeq
    DEF TypeOK, DrainFinal, Acknowledge, AfterFlush, rowVars, bufferVars,
        taskVars, readerVars, otherVars
<1>4. ASSUME DrainInsert
      PROVE  batch' \in Seq(Events)
  BY <1>4, WriteLeaves, NothingHeld DEF TypeOK, DrainInsert
<1>5. ASSUME DrainRatchet
      PROVE  batch' \in Seq(Events)
  BY <1>5, WriteLeaves, NothingHeld DEF TypeOK, DrainRatchet
<1>6. CASE UNCHANGED <<batch>>
  BY <1>6, EmptySeq DEF TypeOK
<1> QED
  BY <1>1, <1>2, <1>3, <1>4, <1>5, <1>6
    DEF Next, TaskStep, DrainerStep, Finished, vars, DrainTimeout, OtherPush,
        Shutdown, TaskChunk, TaskEvent, TaskPushAgain, TaskInsert,
        TaskRatchet, TaskForward, TaskBodyEnd, TaskBodyError, TaskCancelled,
        TaskClose, TaskComplete, Disconnect, AskCancel, CancelRow, RetryBump,
        RetryStart, MarkFailure, ReaderList, ReaderCheck, rowVars, bufferVars,
        taskVars, readerVars, otherVars

LEMMA NextDrainer ==
  ASSUME TypeOK, Numbers, FlushState, [Next]_vars
  PROVE  drainer' \in {"select", "insert", "ratchet", "lastInsert", "lastRatchet",
                      "exited"}
<1>1. ASSUME DrainRecv
      PROVE  drainer' \in {"select", "insert", "ratchet", "lastInsert", "lastRatchet",
                      "exited"}
  BY <1>1
    DEF TypeOK, DrainRecv, rowVars, bufferVars, taskVars, readerVars,
        otherVars
<1>2. ASSUME DrainTimeout
      PROVE  drainer' \in {"select", "insert", "ratchet", "lastInsert", "lastRatchet",
                      "exited"}
  BY <1>2
    DEF TypeOK, DrainTimeout, rowVars, bufferVars, taskVars, readerVars,
        otherVars
<1>3. ASSUME DrainFlush
      PROVE  drainer' \in {"select", "insert", "ratchet", "lastInsert", "lastRatchet",
                      "exited"}
  BY <1>3
    DEF TypeOK, DrainFlush, Acknowledge, AfterFlush, rowVars, bufferVars,
        taskVars, readerVars, otherVars
<1>4. ASSUME DrainFinal
      PROVE  drainer' \in {"select", "insert", "ratchet", "lastInsert", "lastRatchet",
                      "exited"}
  BY <1>4
    DEF TypeOK, DrainFinal, Acknowledge, AfterFlush, rowVars, bufferVars,
        taskVars, readerVars, otherVars
<1>5. ASSUME DrainInsert
      PROVE  drainer' \in {"select", "insert", "ratchet", "lastInsert", "lastRatchet",
                      "exited"}
  BY <1>5
    DEF TypeOK, DrainInsert, DbFault, WriteEnded, Acknowledge, AfterFlush,
        rowVars, bufferVars, taskVars, readerVars, otherVars
<1>6. ASSUME DrainRatchet
      PROVE  drainer' \in {"select", "insert", "ratchet", "lastInsert", "lastRatchet",
                      "exited"}
  BY <1>6
    DEF TypeOK, DrainRatchet, SetLastSequence, DbFault, WriteEnded,
        Acknowledge, AfterFlush, rowVars, bufferVars, taskVars, readerVars,
        otherVars
<1>7. CASE UNCHANGED <<drainer>>
  BY <1>7 DEF TypeOK
<1> QED
  BY <1>1, <1>2, <1>3, <1>4, <1>5, <1>6, <1>7
    DEF Next, TaskStep, DrainerStep, Finished, vars, OtherPush, Shutdown,
        TaskChunk, TaskEvent, TaskPushAgain, TaskInsert, TaskRatchet,
        TaskForward, TaskBodyEnd, TaskBodyError, TaskCancelled, TaskClose,
        TaskComplete, Disconnect, AskCancel, CancelRow, RetryBump, RetryStart,
        MarkFailure, ReaderList, ReaderCheck, rowVars, bufferVars, taskVars,
        readerVars, otherVars

LEMMA NextAcking ==
  ASSUME TypeOK, Numbers, FlushState, [Next]_vars
  PROVE  acking' \subseteq Attempts
<1>1. ASSUME DrainFlush
      PROVE  acking' \subseteq Attempts
  <2>1. flushq \in Seq(Attempts) /\ flushq # <<>> /\ acking' \in {acking, {Head(flushq)}}
    BY <1>1 DEF DrainFlush, TypeOK
  <2>2. Head(flushq) \in Attempts
    BY <2>1, HeadTailProperties
  <2> QED
    BY <2>1, <2>2 DEF TypeOK
<1>2. ASSUME DrainInsert
      PROVE  acking' \subseteq Attempts
  BY <1>2, WriteLeaves, NothingHeld DEF TypeOK, DrainInsert
<1>3. ASSUME DrainRatchet
      PROVE  acking' \subseteq Attempts
  BY <1>3, WriteLeaves, NothingHeld DEF TypeOK, DrainRatchet
<1>4. CASE UNCHANGED <<acking>>
  BY <1>4 DEF TypeOK
<1> QED
  BY <1>1, <1>2, <1>3, <1>4
    DEF Next, TaskStep, DrainerStep, Finished, vars, DrainRecv, DrainTimeout,
        DrainFinal, OtherPush, Shutdown, TaskChunk, TaskEvent, TaskPushAgain,
        TaskInsert, TaskRatchet, TaskForward, TaskBodyEnd, TaskBodyError,
        TaskCancelled, TaskClose, TaskComplete, Disconnect, AskCancel,
        CancelRow, RetryBump, RetryStart, MarkFailure, ReaderList,
        ReaderCheck, rowVars, bufferVars, taskVars, readerVars, otherVars

LEMMA NextChunk ==
  ASSUME TypeOK, Numbers, FlushState, [Next]_vars
  PROVE  /\ chunk' \in [Attempts -> Seq(Kinds)]
         /\ captured' \in [Attempts -> Ends \cup {"none"}]
         /\ sent' \in [Attempts -> Ends \cup {"none"}]
<1>1. ASSUME NEW k \in Attempts, TaskChunk(k)
      PROVE  /\ chunk' \in [Attempts -> Seq(Kinds)]
         /\ captured' \in [Attempts -> Ends \cup {"none"}]
         /\ sent' \in [Attempts -> Ends \cup {"none"}]
  <2>1. PICK c \in Chunks :
          /\ chunk' = [chunk EXCEPT ![k] = c]
          /\ sent' = [sent EXCEPT ![k] = IF @ = "none" THEN FirstTerminal(c) ELSE @]
    BY <1>1 DEF TaskChunk
  <2>2. c \in Seq(Kinds) /\ FirstTerminal(c) \in Ends \cup {"none"}
    BY ChunkTyped, FirstTerminalTyped
  <2>3. captured' = captured
    BY <1>1 DEF TaskChunk
  <2> QED
    BY <2>1, <2>2, <2>3 DEF TypeOK
<1>2. ASSUME NEW k \in Attempts, TaskEvent(k)
      PROVE  /\ chunk' \in [Attempts -> Seq(Kinds)]
         /\ captured' \in [Attempts -> Ends \cup {"none"}]
         /\ sent' \in [Attempts -> Ends \cup {"none"}]
  <2>1. pc[k] = "each" /\ chunk' = chunk /\ sent' = sent
        /\ captured' = [captured EXCEPT ![k] = Capture(captured[k], Head(chunk[k]))]
    BY <1>2 DEF TaskEvent
  <2>2. Head(chunk[k]) \in Kinds
    BY <2>1, HeadTailProperties DEF Numbers, NumbersOf, TypeOK
  <2>3. Capture(captured[k], Head(chunk[k])) \in Ends \cup {"none"}
    BY <2>2, SomeEvents DEF Capture, TypeOK
  <2> QED
    BY <2>1, <2>3 DEF TypeOK
<1>3. ASSUME NEW k \in Attempts, TaskForward(k)
      PROVE  /\ chunk' \in [Attempts -> Seq(Kinds)]
         /\ captured' \in [Attempts -> Ends \cup {"none"}]
         /\ sent' \in [Attempts -> Ends \cup {"none"}]
  <2>1. chunk[k] \in Seq(Kinds) /\ chunk[k] # <<>>
    BY <1>3 DEF TaskForward, Numbers, NumbersOf, Busy, TypeOK
  <2>2. Tail(chunk[k]) \in Seq(Kinds) /\ <<>> \in Seq(Kinds)
    BY <2>1, HeadTailProperties, EmptySeq
  <2>3. chunk' = [chunk EXCEPT ![k] = IF gone[k] THEN <<>> ELSE Tail(chunk[k])]
        /\ captured' = captured /\ sent' = sent
    BY <1>3 DEF TaskForward
  <2> QED
    BY <2>2, <2>3 DEF TypeOK
<1>4. CASE UNCHANGED <<chunk, captured, sent>>
  BY <1>4, SomeEvents DEF TypeOK
<1> QED
  BY <1>1, <1>2, <1>3, <1>4
    DEF Next, TaskStep, DrainerStep, Finished, vars, DrainRecv, DrainTimeout,
        DrainFlush, DrainFinal, DrainInsert, DrainRatchet, OtherPush,
        Shutdown, TaskPushAgain, TaskInsert, TaskRatchet, TaskBodyEnd,
        TaskBodyError, TaskCancelled, TaskClose, TaskComplete, Disconnect,
        AskCancel, CancelRow, RetryBump, RetryStart, MarkFailure, ReaderList,
        ReaderCheck, rowVars, bufferVars, taskVars, readerVars, otherVars

LEMMA NextFlags ==
  ASSUME TypeOK, Numbers, FlushState, [Next]_vars
  PROVE  /\ persisted' \in [Attempts -> BOOLEAN] /\ cancelled' \in [Attempts -> BOOLEAN]
         /\ gone' \in [Attempts -> BOOLEAN]
<1>1. ASSUME NEW k \in Attempts, TaskRatchet(k)
      PROVE  /\ persisted' \in [Attempts -> BOOLEAN] /\ cancelled' \in [Attempts -> BOOLEAN]
         /\ gone' \in [Attempts -> BOOLEAN]
  BY <1>1
    DEF TypeOK, TaskRatchet, SetLastSequence, DbFault, AfterInsert, rowVars,
        bufferVars, taskVars, readerVars, otherVars
<1>2. ASSUME NEW k \in Attempts, TaskCancelled(k)
      PROVE  /\ persisted' \in [Attempts -> BOOLEAN] /\ cancelled' \in [Attempts -> BOOLEAN]
         /\ gone' \in [Attempts -> BOOLEAN]
  BY <1>2
    DEF TypeOK, TaskCancelled, rowVars, bufferVars, taskVars, readerVars,
        otherVars
<1>3. ASSUME NEW k \in Attempts, Disconnect(k)
      PROVE  /\ persisted' \in [Attempts -> BOOLEAN] /\ cancelled' \in [Attempts -> BOOLEAN]
         /\ gone' \in [Attempts -> BOOLEAN]
  BY <1>3
    DEF TypeOK, Disconnect, rowVars, bufferVars, taskVars, readerVars,
        otherVars
<1>4. ASSUME NEW k \in Attempts, RetryBump(k)
      PROVE  /\ persisted' \in [Attempts -> BOOLEAN] /\ cancelled' \in [Attempts -> BOOLEAN]
         /\ gone' \in [Attempts -> BOOLEAN]
  BY <1>4
    DEF TypeOK, RetryBump, Latest, rowVars, bufferVars, taskVars, readerVars,
        otherVars
<1>5. CASE UNCHANGED <<persisted, cancelled, gone>>
  BY <1>5 DEF TypeOK
<1> QED
  BY <1>1, <1>2, <1>3, <1>4, <1>5
    DEF Next, TaskStep, DrainerStep, Finished, vars, DrainRecv, DrainTimeout,
        DrainFlush, DrainFinal, DrainInsert, DrainRatchet, OtherPush,
        Shutdown, TaskChunk, TaskEvent, TaskPushAgain, TaskInsert,
        TaskForward, TaskBodyEnd, TaskBodyError, TaskClose, TaskComplete,
        AskCancel, CancelRow, RetryStart, MarkFailure, ReaderList,
        ReaderCheck, rowVars, bufferVars, taskVars, readerVars, otherVars

LEMMA NextCounters ==
  ASSUME TypeOK, Numbers, FlushState, [Next]_vars
  PROVE  noise' \in 0 .. MaxNoise /\ faults' \in 0 .. MaxFaults
<1>1. ASSUME DrainInsert
      PROVE  noise' \in 0 .. MaxNoise /\ faults' \in 0 .. MaxFaults
  BY <1>1, Bounds
    DEF TypeOK, DrainInsert, DbFault, WriteEnded, Acknowledge, AfterFlush,
        rowVars, bufferVars, taskVars, readerVars, otherVars
<1>2. ASSUME DrainRatchet
      PROVE  noise' \in 0 .. MaxNoise /\ faults' \in 0 .. MaxFaults
  BY <1>2, Bounds
    DEF TypeOK, DrainRatchet, SetLastSequence, DbFault, WriteEnded,
        Acknowledge, AfterFlush, rowVars, bufferVars, taskVars, readerVars,
        otherVars
<1>3. ASSUME OtherPush
      PROVE  noise' \in 0 .. MaxNoise /\ faults' \in 0 .. MaxFaults
  BY <1>3, Bounds
    DEF TypeOK, OtherPush, rowVars, bufferVars, taskVars, readerVars,
        otherVars
<1>4. ASSUME NEW k \in Attempts, TaskInsert(k)
      PROVE  noise' \in 0 .. MaxNoise /\ faults' \in 0 .. MaxFaults
  BY <1>4, Bounds
    DEF TypeOK, TaskInsert, DbFault, AfterInsert, rowVars, bufferVars,
        taskVars, readerVars, otherVars
<1>5. ASSUME NEW k \in Attempts, TaskRatchet(k)
      PROVE  noise' \in 0 .. MaxNoise /\ faults' \in 0 .. MaxFaults
  BY <1>5, Bounds
    DEF TypeOK, TaskRatchet, SetLastSequence, DbFault, AfterInsert, rowVars,
        bufferVars, taskVars, readerVars, otherVars
<1>6. ASSUME NEW k \in Attempts, TaskComplete(k)
      PROVE  noise' \in 0 .. MaxNoise /\ faults' \in 0 .. MaxFaults
  BY <1>6, Bounds
    DEF TypeOK, TaskComplete, DbFault, Outcome, rowVars, bufferVars, taskVars,
        readerVars, otherVars
<1>7. CASE UNCHANGED <<noise, faults>>
  BY <1>7, Bounds DEF TypeOK
<1> QED
  BY <1>1, <1>2, <1>3, <1>4, <1>5, <1>6, <1>7
    DEF Next, TaskStep, DrainerStep, Finished, vars, DrainRecv, DrainTimeout,
        DrainFlush, DrainFinal, Shutdown, TaskChunk, TaskEvent, TaskPushAgain,
        TaskForward, TaskBodyEnd, TaskBodyError, TaskCancelled, TaskClose,
        Disconnect, AskCancel, CancelRow, RetryBump, RetryStart, MarkFailure,
        ReaderList, ReaderCheck, rowVars, bufferVars, taskVars, readerVars,
        otherVars

LEMMA NextSwitches ==
  ASSUME TypeOK, Numbers, FlushState, [Next]_vars
  PROVE  retry' \in BOOLEAN /\ asked' \in BOOLEAN /\ shutdown' \in BOOLEAN
<1>1. ASSUME Shutdown
      PROVE  retry' \in BOOLEAN /\ asked' \in BOOLEAN /\ shutdown' \in BOOLEAN
  BY <1>1
    DEF TypeOK, Shutdown, rowVars, bufferVars, taskVars, readerVars, otherVars
<1>2. ASSUME AskCancel
      PROVE  retry' \in BOOLEAN /\ asked' \in BOOLEAN /\ shutdown' \in BOOLEAN
  BY <1>2
    DEF TypeOK, AskCancel, rowVars, bufferVars, taskVars, readerVars,
        otherVars
<1>3. ASSUME NEW k \in Attempts, RetryBump(k)
      PROVE  retry' \in BOOLEAN /\ asked' \in BOOLEAN /\ shutdown' \in BOOLEAN
  BY <1>3
    DEF TypeOK, RetryBump, Latest, rowVars, bufferVars, taskVars, readerVars,
        otherVars
<1>4. ASSUME NEW k \in Attempts, RetryStart(k)
      PROVE  retry' \in BOOLEAN /\ asked' \in BOOLEAN /\ shutdown' \in BOOLEAN
  BY <1>4
    DEF TypeOK, RetryStart, Latest, rowVars, bufferVars, taskVars, readerVars,
        otherVars
<1>5. CASE UNCHANGED <<retry, asked, shutdown>>
  BY <1>5 DEF TypeOK
<1> QED
  BY <1>1, <1>2, <1>3, <1>4, <1>5
    DEF Next, TaskStep, DrainerStep, Finished, vars, DrainRecv, DrainTimeout,
        DrainFlush, DrainFinal, DrainInsert, DrainRatchet, OtherPush,
        TaskChunk, TaskEvent, TaskPushAgain, TaskInsert, TaskRatchet,
        TaskForward, TaskBodyEnd, TaskBodyError, TaskCancelled, TaskClose,
        TaskComplete, Disconnect, CancelRow, MarkFailure, ReaderList,
        ReaderCheck, rowVars, bufferVars, taskVars, readerVars, otherVars

LEMMA NextReader ==
  ASSUME TypeOK, Numbers, FlushState, [Next]_vars
  PROVE  /\ rpc' \in {"list", "check", "done"} /\ cursor' \in 0 .. MaxSeq
         /\ got' \subseteq Events
<1>1. ASSUME ReaderList
      PROVE  /\ rpc' \in {"list", "check", "done"} /\ cursor' \in 0 .. MaxSeq
         /\ got' \subseteq Events
  <2>1. cursor' \in 0 .. MaxSeq
    BY <1>1, PageEnd, Bounds DEF ReaderList, Seqs, TypeOK
  <2>2. {log[s] : s \in Page} \subseteq Events
    BY DEF Page, TypeOK
  <2>3. got' \subseteq Events /\ rpc' \in {"done", "check"}
    BY <1>1, <2>2 DEF ReaderList, TypeOK
  <2> QED
    BY <2>1, <2>3
<1>2. ASSUME ReaderCheck
      PROVE  /\ rpc' \in {"list", "check", "done"} /\ cursor' \in 0 .. MaxSeq
         /\ got' \subseteq Events
  BY <1>2, Bounds
    DEF TypeOK, ReaderCheck, rowVars, bufferVars, taskVars, readerVars,
        otherVars
<1>3. CASE UNCHANGED <<rpc, cursor, got>>
  BY <1>3, Bounds DEF TypeOK
<1> QED
  BY <1>1, <1>2, <1>3
    DEF Next, TaskStep, DrainerStep, Finished, vars, DrainRecv, DrainTimeout,
        DrainFlush, DrainFinal, DrainInsert, DrainRatchet, OtherPush,
        Shutdown, TaskChunk, TaskEvent, TaskPushAgain, TaskInsert,
        TaskRatchet, TaskForward, TaskBodyEnd, TaskBodyError, TaskCancelled,
        TaskClose, TaskComplete, Disconnect, AskCancel, CancelRow, RetryBump,
        RetryStart, MarkFailure, rowVars, bufferVars, taskVars, readerVars,
        otherVars

LEMMA NextTypes ==
  ASSUME TypeOK, Numbers, FlushState, [Next]_vars
  PROVE  TypeOK'
  BY NextPc, NextStatus, NextLog, NextLastSeq, NextChannel, NextFlushq, NextBatch,
     NextDrainer, NextAcking, NextNumbered, NextChunk, NextFlags, NextCounters,
     NextSwitches, NextReader DEF TypeOK

-----------------------------------------------------------------------------
(* Where events come from.                                                  *)

LEMMA AckMoves ==
  ASSUME NEW ks, Acknowledge(ks), NEW k \in Attempts
  PROVE  /\ k \in ks => pc'[k] = AfterFlush(k) /\ pc'[k] \in {"again", "insert"}
         /\ k \notin ks => pc'[k] = pc[k]
  BY DEF Acknowledge, AfterFlush

\* A started attempt stays started, and its numbers only grow.
LEMMA Grows ==
  ASSUME TypeOK, [Next]_vars
  PROVE  \A j \in Attempts : pc[j] # "off" =>
           pc'[j] # "off" /\ start'[j] = start[j] /\ seqno'[j] >= seqno[j]
           /\ seqno'[j] \in Nat
<1>1. ASSUME DrainFlush
      PROVE  \A j \in Attempts : pc[j] # "off" =>
           pc'[j] # "off" /\ start'[j] = start[j] /\ seqno'[j] >= seqno[j]
           /\ seqno'[j] \in Nat
  <2>1. \A k \in Attempts : pc'[k] \in {pc[k], "again", "insert"}
    BY <1>1, AckMoves DEF DrainFlush
  <2>2. start' = start /\ seqno' = seqno
    BY <1>1 DEF DrainFlush
  <2>3. \A k \in Attempts : seqno[k] \in Nat
    BY Bounds DEF TypeOK
  <2>4. \A k \in Attempts : pc[k] # "off" => pc'[k] # "off"
    BY <2>1
  <2> QED
    BY <2>2, <2>3, <2>4
<1>2. ASSUME DrainFinal
      PROVE  \A j \in Attempts : pc[j] # "off" =>
           pc'[j] # "off" /\ start'[j] = start[j] /\ seqno'[j] >= seqno[j]
           /\ seqno'[j] \in Nat
  <2>1. \A k \in Attempts : pc'[k] \in {pc[k], "again", "insert"}
    BY <1>2, AckMoves DEF DrainFinal
  <2>2. start' = start /\ seqno' = seqno
    BY <1>2 DEF DrainFinal
  <2>3. \A k \in Attempts : seqno[k] \in Nat
    BY Bounds DEF TypeOK
  <2>4. \A k \in Attempts : pc[k] # "off" => pc'[k] # "off"
    BY <2>1
  <2> QED
    BY <2>2, <2>3, <2>4
<1>3. ASSUME DrainInsert
      PROVE  \A j \in Attempts : pc[j] # "off" =>
           pc'[j] # "off" /\ start'[j] = start[j] /\ seqno'[j] >= seqno[j]
           /\ seqno'[j] \in Nat
  <2>1. \A k \in Attempts : pc'[k] \in {pc[k], "again", "insert"}
    BY <1>3, AckMoves DEF DrainInsert, WriteEnded
  <2>2. start' = start /\ seqno' = seqno
    BY <1>3 DEF DrainInsert
  <2>3. \A k \in Attempts : seqno[k] \in Nat
    BY Bounds DEF TypeOK
  <2>4. \A k \in Attempts : pc[k] # "off" => pc'[k] # "off"
    BY <2>1
  <2> QED
    BY <2>2, <2>3, <2>4
<1>4. ASSUME DrainRatchet
      PROVE  \A j \in Attempts : pc[j] # "off" =>
           pc'[j] # "off" /\ start'[j] = start[j] /\ seqno'[j] >= seqno[j]
           /\ seqno'[j] \in Nat
  <2>1. \A k \in Attempts : pc'[k] \in {pc[k], "again", "insert"}
    BY <1>4, AckMoves DEF DrainRatchet, WriteEnded
  <2>2. start' = start /\ seqno' = seqno
    BY <1>4 DEF DrainRatchet
  <2>3. \A k \in Attempts : seqno[k] \in Nat
    BY Bounds DEF TypeOK
  <2>4. \A k \in Attempts : pc[k] # "off" => pc'[k] # "off"
    BY <2>1
  <2> QED
    BY <2>2, <2>3, <2>4
<1>5. ASSUME NEW k \in Attempts, TaskChunk(k)
      PROVE  \A j \in Attempts : pc[j] # "off" =>
           pc'[j] # "off" /\ start'[j] = start[j] /\ seqno'[j] >= seqno[j]
           /\ seqno'[j] \in Nat
  BY <1>5, Bounds
    DEF TypeOK, TaskChunk, Chunks, rowVars, bufferVars, taskVars, readerVars,
        otherVars
<1>6. ASSUME NEW k \in Attempts, TaskEvent(k)
      PROVE  \A j \in Attempts : pc[j] # "off" =>
           pc'[j] # "off" /\ start'[j] = start[j] /\ seqno'[j] >= seqno[j]
           /\ seqno'[j] \in Nat
  <2>1. Pushes(k) \/ Waits(k) \/ GoesOn(k)
    BY <1>6, EventStored
  <2>2. \E x \in {"forward", "wait", "insert"} : pc' = [pc EXCEPT ![k] = x]
    BY <2>1 DEF Pushes, Waits, GoesOn
  <2>3. start' = start /\ seqno' \in {seqno, [seqno EXCEPT ![k] = seqno[k] + 1]}
    BY <1>6 DEF TaskEvent
  <2> QED
    BY <2>2, <2>3, Bounds DEF TypeOK
<1>7. ASSUME NEW k \in Attempts, TaskPushAgain(k)
      PROVE  \A j \in Attempts : pc[j] # "off" =>
           pc'[j] # "off" /\ start'[j] = start[j] /\ seqno'[j] >= seqno[j]
           /\ seqno'[j] \in Nat
  <2>1. Pushes(k) \/ GoesOn(k)
    BY <1>7, AgainStored
  <2>2. \E x \in {"forward", "wait", "insert"} : pc' = [pc EXCEPT ![k] = x]
    BY <2>1 DEF Pushes, Waits, GoesOn
  <2>3. start' = start /\ seqno' \in {seqno, [seqno EXCEPT ![k] = seqno[k] + 1]}
    BY <1>7 DEF TaskPushAgain
  <2> QED
    BY <2>2, <2>3, Bounds DEF TypeOK
<1>8. ASSUME NEW k \in Attempts, TaskInsert(k)
      PROVE  \A j \in Attempts : pc[j] # "off" =>
           pc'[j] # "off" /\ start'[j] = start[j] /\ seqno'[j] >= seqno[j]
           /\ seqno'[j] \in Nat
  BY <1>8, Bounds
    DEF TypeOK, TaskInsert, DbFault, AfterInsert, rowVars, bufferVars,
        taskVars, readerVars, otherVars
<1>9. ASSUME NEW k \in Attempts, TaskRatchet(k)
      PROVE  \A j \in Attempts : pc[j] # "off" =>
           pc'[j] # "off" /\ start'[j] = start[j] /\ seqno'[j] >= seqno[j]
           /\ seqno'[j] \in Nat
  BY <1>9, Bounds
    DEF TypeOK, TaskRatchet, SetLastSequence, DbFault, AfterInsert, rowVars,
        bufferVars, taskVars, readerVars, otherVars
<1>10. ASSUME NEW k \in Attempts, TaskForward(k)
       PROVE  \A j \in Attempts : pc[j] # "off" =>
           pc'[j] # "off" /\ start'[j] = start[j] /\ seqno'[j] >= seqno[j]
           /\ seqno'[j] \in Nat
  BY <1>10, Bounds
    DEF TypeOK, TaskForward, rowVars, bufferVars, taskVars, readerVars,
        otherVars
<1>11. ASSUME NEW k \in Attempts, TaskBodyEnd(k)
       PROVE  \A j \in Attempts : pc[j] # "off" =>
           pc'[j] # "off" /\ start'[j] = start[j] /\ seqno'[j] >= seqno[j]
           /\ seqno'[j] \in Nat
  BY <1>11, Bounds
    DEF TypeOK, TaskBodyEnd, rowVars, bufferVars, taskVars, readerVars,
        otherVars
<1>12. ASSUME NEW k \in Attempts, TaskBodyError(k)
       PROVE  \A j \in Attempts : pc[j] # "off" =>
           pc'[j] # "off" /\ start'[j] = start[j] /\ seqno'[j] >= seqno[j]
           /\ seqno'[j] \in Nat
  BY <1>12, Bounds
    DEF TypeOK, TaskBodyError, rowVars, bufferVars, taskVars, readerVars,
        otherVars
<1>13. ASSUME NEW k \in Attempts, TaskCancelled(k)
       PROVE  \A j \in Attempts : pc[j] # "off" =>
           pc'[j] # "off" /\ start'[j] = start[j] /\ seqno'[j] >= seqno[j]
           /\ seqno'[j] \in Nat
  BY <1>13, Bounds
    DEF TypeOK, TaskCancelled, rowVars, bufferVars, taskVars, readerVars,
        otherVars
<1>14. ASSUME NEW k \in Attempts, TaskClose(k)
       PROVE  \A j \in Attempts : pc[j] # "off" =>
           pc'[j] # "off" /\ start'[j] = start[j] /\ seqno'[j] >= seqno[j]
           /\ seqno'[j] \in Nat
  <2>1. \E x \in {"complete", "insert"} : pc' = [pc EXCEPT ![k] = x]
    BY <1>14 DEF TaskClose
  <2>2. start' = start /\ seqno' \in {seqno, [seqno EXCEPT ![k] = seqno[k] + 1]}
    BY <1>14 DEF TaskClose
  <2> QED
    BY <2>1, <2>2, Bounds DEF TypeOK
<1>15. ASSUME NEW k \in Attempts, TaskComplete(k)
       PROVE  \A j \in Attempts : pc[j] # "off" =>
           pc'[j] # "off" /\ start'[j] = start[j] /\ seqno'[j] >= seqno[j]
           /\ seqno'[j] \in Nat
  BY <1>15, Bounds
    DEF TypeOK, TaskComplete, DbFault, Outcome, rowVars, bufferVars, taskVars,
        readerVars, otherVars
<1>16. ASSUME NEW k \in Attempts, RetryStart(k)
       PROVE  \A j \in Attempts : pc[j] # "off" =>
           pc'[j] # "off" /\ start'[j] = start[j] /\ seqno'[j] >= seqno[j]
           /\ seqno'[j] \in Nat
  <2>1. \A j \in Attempts : j = k + 1 => pc[j] = "off"
    <3>1. \A j \in Attempts : j = k + 1 => j > k
      BY Bounds DEF Attempts
    <3> QED
      BY <1>16, <3>1 DEF RetryStart, Latest
  <2>2. \A j \in Attempts : j # k + 1 =>
          pc'[j] = pc[j] /\ start'[j] = start[j] /\ seqno'[j] = seqno[j]
    BY <1>16 DEF RetryStart, TypeOK
  <2> QED
    BY <2>1, <2>2, Bounds DEF TypeOK
<1>17. CASE UNCHANGED <<pc, start, seqno>>
  BY <1>17, Bounds DEF TypeOK
<1> QED
  BY <1>1, <1>2, <1>3, <1>4, <1>5, <1>6, <1>7, <1>8, <1>9, <1>10, <1>11,
      <1>12, <1>13, <1>14, <1>15, <1>16, <1>17
    DEF Next, TaskStep, DrainerStep, Finished, vars, DrainRecv, DrainTimeout,
        OtherPush, Shutdown, Disconnect, AskCancel, CancelRow, RetryBump,
        MarkFailure, ReaderList, ReaderCheck, rowVars, bufferVars, taskVars,
        readerVars, otherVars

LEMMA KnownKept ==
  ASSUME TypeOK, [Next]_vars, NEW e, Known(e), e \in Events
  PROVE  Known(e)'
<1>1. CASE e.seq = 0
  BY <1>1 DEF Known
<1>2. CASE e.seq # 0
  <2>1. e.att \in Attempts /\ pc[e.att] # "off" /\ e.seq > start[e.att] /\ e.seq <= seqno[e.att]
    BY <1>2 DEF Known
  <2>2. pc'[e.att] # "off" /\ start'[e.att] = start[e.att] /\ seqno'[e.att] >= seqno[e.att]
        /\ seqno'[e.att] \in Nat
    BY <2>1, Grows
  <2>3. e.seq \in Nat /\ start[e.att] \in Nat /\ seqno[e.att] \in Nat
    BY <2>1, Bounds DEF TypeOK, Events
  <2> QED
    BY <1>2, <2>1, <2>2, <2>3 DEF Known
<1> QED
  BY <1>1, <1>2

\* What a step adds to the log comes from the batch or from a task.
LEMMA LogSteps ==
  ASSUME TypeOK, [Next]_vars
  PROVE  \A s \in Seqs : log'[s] # log[s] =>
           /\ log[s] = NoEvent /\ log'[s].seq = s
           /\ \/ DrainInsert /\ log'[s] \in Held(batch)
              \/ \E j \in Attempts :
                   TaskInsert(j) /\ pc'[j] = "ratchet" /\ log'[s] = cur[j]
<1>1. ASSUME DrainInsert
      PROVE  \A s \in Seqs : log'[s] # log[s] =>
           /\ log[s] = NoEvent /\ log'[s].seq = s
           /\ \/ DrainInsert /\ log'[s] \in Held(batch)
              \/ \E j \in Attempts :
                   TaskInsert(j) /\ pc'[j] = "ratchet" /\ log'[s] = cur[j]
  <2>1. log' = log \/ log' = InsertBatch(batch)
    BY <1>1 DEF DrainInsert
  <2>2. log \in [Seqs -> Events] /\ batch \in Seq(Events)
    BY DEF TypeOK
  <2> QED
    BY <1>1, <2>1, <2>2, Inserted
<1>2. ASSUME NEW k \in Attempts, TaskInsert(k)
      PROVE  \A s \in Seqs : log'[s] # log[s] =>
           /\ log[s] = NoEvent /\ log'[s].seq = s
           /\ \/ DrainInsert /\ log'[s] \in Held(batch)
              \/ \E j \in Attempts :
                   TaskInsert(j) /\ pc'[j] = "ratchet" /\ log'[s] = cur[j]
  <2>1. log' = log \/ (log' = InsertBatch(<<cur[k]>>) /\ pc'[k] = "ratchet")
    BY <1>2 DEF TaskInsert, TypeOK
  <2>2. log \in [Seqs -> Events] /\ cur[k] \in Events
    BY DEF TypeOK
  <2> DEFINE q == <<cur[k]>>
  <2>3. q \in Seq(Events) /\ Held(q) = {cur[k]}
    BY <2>2, HeldOne
  <2>4. log' = log \/ (log' = InsertBatch(q) /\ pc'[k] = "ratchet")
    BY <2>1
  <2> HIDE DEF q
  <2> QED
    BY <1>2, <2>2, <2>3, <2>4, Inserted
<1>3. CASE UNCHANGED <<log>>
  BY <1>3
<1> QED
  BY <1>1, <1>2, <1>3
    DEF Next, TaskStep, DrainerStep, Finished, vars, DrainRecv, DrainTimeout,
        DrainFlush, DrainFinal, DrainRatchet, OtherPush, Shutdown, TaskChunk,
        TaskEvent, TaskPushAgain, TaskRatchet, TaskForward, TaskBodyEnd,
        TaskBodyError, TaskCancelled, TaskClose, TaskComplete, Disconnect,
        AskCancel, CancelRow, RetryBump, RetryStart, MarkFailure, ReaderList,
        ReaderCheck, rowVars, bufferVars, taskVars, readerVars, otherVars

\* What the steps of the buffer do to what channel and batch hold.
LEMMA RecvHeld ==
  ASSUME TypeOK, DrainRecv
  PROVE  /\ Held(batch') = Held(batch) \cup {Head(channel)}
         /\ Held(channel) = Held(channel') \cup {Head(channel)}
         /\ Head(channel) \in Events
<1>1. channel \in Seq(Events) /\ batch \in Seq(Events) /\ channel # <<>>
      /\ batch' = Append(batch, Head(channel)) /\ channel' = Tail(channel)
  BY DEF TypeOK, DrainRecv
<1> QED
  BY <1>1, HeldTail, HeldAppend

LEMMA DrainedHeld ==
  ASSUME TypeOK, DrainFlush \/ DrainFinal
  PROVE  Held(batch') = Held(batch) \cup Held(channel) /\ Held(channel') = {}
<1>1. channel \in Seq(Events) /\ batch \in Seq(Events)
      /\ batch' = batch \o channel /\ channel' = <<>>
  BY DEF TypeOK, DrainFlush, DrainFinal
<1> QED
  BY <1>1, HeldConcat, HeldEmpty

LEMMA WrittenHeld ==
  ASSUME TypeOK, WriteEnded
  PROVE  Held(batch') = {} /\ Held(channel') \in {{}, Held(channel)}
  BY WriteLeaves, HeldEmpty

LEMMA PushedHeld ==
  ASSUME TypeOK, NEW k \in Attempts, Pushes(k), cur'[k] \in Events
  PROVE  Held(channel') = Held(channel) \cup {cur'[k]}
<1>1. channel \in Seq(Events) /\ channel' = Append(channel, cur'[k])
  BY DEF TypeOK, Pushes
<1> QED
  BY <1>1, HeldAppend

LEMMA NoiseHeld ==
  ASSUME TypeOK, OtherPush
  PROVE  Held(channel') = Held(channel) \cup {NoEvent}
<1>1. channel \in Seq(Events) /\ channel' = Append(channel, NoEvent)
  BY DEF TypeOK, OtherPush
<1> QED
  BY <1>1, HeldAppend, SomeEvents

\* What a step adds to the channel is noise or the event at hand.
LEMMA ChannelSteps ==
  ASSUME TypeOK, Numbers, FlushState, [Next]_vars
  PROVE  \A e \in Held(channel') :
           \/ e \in Held(channel) \cup {NoEvent}
           \/ e.kind = "delta" /\ \E j \in Attempts :
                Pushes(j) /\ pc[j] \in {"each", "again"} /\ e = cur'[j]
<1>1. ASSUME DrainRecv
      PROVE  \A e \in Held(channel') :
           \/ e \in Held(channel) \cup {NoEvent}
           \/ e.kind = "delta" /\ \E j \in Attempts :
                Pushes(j) /\ pc[j] \in {"each", "again"} /\ e = cur'[j]
  BY <1>1, RecvHeld
<1>2. ASSUME DrainFlush
      PROVE  \A e \in Held(channel') :
           \/ e \in Held(channel) \cup {NoEvent}
           \/ e.kind = "delta" /\ \E j \in Attempts :
                Pushes(j) /\ pc[j] \in {"each", "again"} /\ e = cur'[j]
  BY <1>2, DrainedHeld
<1>3. ASSUME DrainFinal
      PROVE  \A e \in Held(channel') :
           \/ e \in Held(channel) \cup {NoEvent}
           \/ e.kind = "delta" /\ \E j \in Attempts :
                Pushes(j) /\ pc[j] \in {"each", "again"} /\ e = cur'[j]
  BY <1>3, DrainedHeld
<1>4. ASSUME DrainInsert
      PROVE  \A e \in Held(channel') :
           \/ e \in Held(channel) \cup {NoEvent}
           \/ e.kind = "delta" /\ \E j \in Attempts :
                Pushes(j) /\ pc[j] \in {"each", "again"} /\ e = cur'[j]
  <2>1. channel' = channel \/ WriteEnded
    BY <1>4 DEF DrainInsert
  <2> QED
    BY <2>1, WrittenHeld
<1>5. ASSUME DrainRatchet
      PROVE  \A e \in Held(channel') :
           \/ e \in Held(channel) \cup {NoEvent}
           \/ e.kind = "delta" /\ \E j \in Attempts :
                Pushes(j) /\ pc[j] \in {"each", "again"} /\ e = cur'[j]
  <2>1. WriteEnded
    BY <1>5 DEF DrainRatchet
  <2> QED
    BY <2>1, WrittenHeld
<1>6. ASSUME OtherPush
      PROVE  \A e \in Held(channel') :
           \/ e \in Held(channel) \cup {NoEvent}
           \/ e.kind = "delta" /\ \E j \in Attempts :
                Pushes(j) /\ pc[j] \in {"each", "again"} /\ e = cur'[j]
  BY <1>6, NoiseHeld
<1>7. ASSUME NEW k \in Attempts, TaskEvent(k)
      PROVE  \A e \in Held(channel') :
           \/ e \in Held(channel) \cup {NoEvent}
           \/ e.kind = "delta" /\ \E j \in Attempts :
                Pushes(j) /\ pc[j] \in {"each", "again"} /\ e = cur'[j]
  <2>1. cur' \in [Attempts -> Events] /\ pc[k] = "each"
    BY <1>7, NextNumbered DEF TaskEvent
  <2>2. (Pushes(k) /\ cur'[k].kind = "delta") \/ channel' = channel
    BY <1>7, EventStored DEF Waits, GoesOn
  <2> QED
    BY <2>1, <2>2, PushedHeld
<1>8. ASSUME NEW k \in Attempts, TaskPushAgain(k)
      PROVE  \A e \in Held(channel') :
           \/ e \in Held(channel) \cup {NoEvent}
           \/ e.kind = "delta" /\ \E j \in Attempts :
                Pushes(j) /\ pc[j] \in {"each", "again"} /\ e = cur'[j]
  <2>1. cur' \in [Attempts -> Events] /\ cur'[k].kind = "delta" /\ pc[k] = "again"
    BY <1>8, NextNumbered DEF TaskPushAgain, Numbers, NumbersOf
  <2>2. Pushes(k) \/ channel' = channel
    BY <1>8, AgainStored DEF GoesOn
  <2> QED
    BY <2>1, <2>2, PushedHeld
<1>9. CASE UNCHANGED <<channel>>
  BY <1>9 DEF Held
<1> QED
  BY <1>1, <1>2, <1>3, <1>4, <1>5, <1>6, <1>7, <1>8, <1>9
    DEF Next, TaskStep, DrainerStep, Finished, vars, DrainTimeout, Shutdown,
        TaskChunk, TaskInsert, TaskRatchet, TaskForward, TaskBodyEnd,
        TaskBodyError, TaskCancelled, TaskClose, TaskComplete, Disconnect,
        AskCancel, CancelRow, RetryBump, RetryStart, MarkFailure, ReaderList,
        ReaderCheck, rowVars, bufferVars, taskVars, readerVars, otherVars

\* What a step adds to the batch was in the channel.
LEMMA BatchSteps ==
  ASSUME TypeOK, [Next]_vars
  PROVE  Held(batch') \subseteq Held(batch) \cup Held(channel)
<1>1. ASSUME DrainRecv
      PROVE  Held(batch') \subseteq Held(batch) \cup Held(channel)
  BY <1>1, RecvHeld
<1>2. ASSUME DrainFlush
      PROVE  Held(batch') \subseteq Held(batch) \cup Held(channel)
  BY <1>2, DrainedHeld
<1>3. ASSUME DrainFinal
      PROVE  Held(batch') \subseteq Held(batch) \cup Held(channel)
  BY <1>3, DrainedHeld
<1>4. ASSUME DrainInsert
      PROVE  Held(batch') \subseteq Held(batch) \cup Held(channel)
  <2>1. batch' = batch \/ WriteEnded
    BY <1>4 DEF DrainInsert
  <2> QED
    BY <2>1, WrittenHeld
<1>5. ASSUME DrainRatchet
      PROVE  Held(batch') \subseteq Held(batch) \cup Held(channel)
  <2>1. WriteEnded
    BY <1>5 DEF DrainRatchet
  <2> QED
    BY <2>1, WrittenHeld
<1>6. CASE UNCHANGED <<batch>>
  BY <1>6 DEF Held
<1> QED
  BY <1>1, <1>2, <1>3, <1>4, <1>5, <1>6
    DEF Next, TaskStep, DrainerStep, Finished, vars, DrainTimeout, OtherPush,
        Shutdown, TaskChunk, TaskEvent, TaskPushAgain, TaskInsert,
        TaskRatchet, TaskForward, TaskBodyEnd, TaskBodyError, TaskCancelled,
        TaskClose, TaskComplete, Disconnect, AskCancel, CancelRow, RetryBump,
        RetryStart, MarkFailure, ReaderList, ReaderCheck, rowVars, bufferVars,
        taskVars, readerVars, otherVars

\* A task that takes up another event has just numbered it.
LEMMA CurSteps ==
  ASSUME TypeOK, Numbers, FlushState, [Next]_vars
  PROVE  \A j \in Attempts : cur'[j] # cur[j] =>
           /\ pc[j] \in {"each", "close"} /\ pc'[j] # "off" /\ start'[j] = start[j]
           /\ cur'[j].att = j /\ cur'[j].seq = seqno[j] + 1 /\ seqno'[j] = seqno[j] + 1
<1>1. ASSUME NEW k \in Attempts, TaskEvent(k)
      PROVE  \A j \in Attempts : cur'[j] # cur[j] =>
           /\ pc[j] \in {"each", "close"} /\ pc'[j] # "off" /\ start'[j] = start[j]
           /\ cur'[j].att = j /\ cur'[j].seq = seqno[j] + 1 /\ seqno'[j] = seqno[j] + 1
  <2>1. /\ cur' = [cur EXCEPT ![k] = cur'[k]] /\ cur'[k].att = k
        /\ cur'[k].seq = seqno[k] + 1
    BY <1>1, EventStored DEF TaskEvent, TypeOK
  <2>2. pc[k] # "off" => pc'[k] # "off" /\ start'[k] = start[k]
    BY Grows
  <2> QED
    BY <1>1, <2>1, <2>2 DEF TaskEvent, TypeOK
<1>2. ASSUME NEW k \in Attempts, TaskClose(k)
      PROVE  \A j \in Attempts : cur'[j] # cur[j] =>
           /\ pc[j] \in {"each", "close"} /\ pc'[j] # "off" /\ start'[j] = start[j]
           /\ cur'[j].att = j /\ cur'[j].seq = seqno[j] + 1 /\ seqno'[j] = seqno[j] + 1
  <2>1. pc[k] = "close" => pc'[k] # "off" /\ start'[k] = start[k]
    BY Grows
  <2>2. \A j \in Attempts : cur'[j] # cur[j] => j = k
    BY <1>2 DEF TaskClose, TypeOK
  <2>3. cur'[k] # cur[k] =>
          cur'[k].att = k /\ cur'[k].seq = seqno[k] + 1 /\ seqno'[k] = seqno[k] + 1
    BY <1>2 DEF TaskClose, TypeOK
  <2> QED
    BY <1>2, <2>1, <2>2, <2>3 DEF TaskClose
<1>3. CASE UNCHANGED <<cur>>
  BY <1>3
<1> QED
  BY <1>1, <1>2, <1>3
    DEF Next, TaskStep, DrainerStep, Finished, vars, DrainRecv, DrainTimeout,
        DrainFlush, DrainFinal, DrainInsert, DrainRatchet, OtherPush,
        Shutdown, TaskChunk, TaskPushAgain, TaskInsert, TaskRatchet,
        TaskForward, TaskBodyEnd, TaskBodyError, TaskCancelled, TaskComplete,
        Disconnect, AskCancel, CancelRow, RetryBump, RetryStart, MarkFailure,
        ReaderList, ReaderCheck, rowVars, bufferVars, taskVars, readerVars,
        otherVars

LEMMA NextCurKnown ==
  ASSUME LogInv, [Next]_vars
  PROVE  CurKnown'
<1>1. TypeOK /\ Numbers /\ FlushState /\ CurKnown
  BY DEF LogInv
<1> SUFFICES ASSUME NEW k \in Attempts PROVE Known(cur[k])'
  BY DEF CurKnown
<1>2. CASE cur'[k] = cur[k]
  <2>1. Known(cur[k]) /\ cur[k] \in Events
    BY <1>1 DEF CurKnown, TypeOK
  <2> QED
    BY <1>1, <1>2, <2>1, KnownKept DEF Known
<1>3. CASE cur'[k] # cur[k]
  <2>1. /\ pc'[k] # "off" /\ start'[k] = start[k]
        /\ cur'[k].att = k /\ cur'[k].seq = seqno[k] + 1 /\ seqno'[k] = seqno[k] + 1
    BY <1>1, <1>3, CurSteps
  <2>2. seqno[k] \in Nat /\ start[k] \in Nat /\ start[k] <= seqno[k]
    BY <1>1, Bounds DEF TypeOK, Numbers, NumbersOf
  <2> QED
    BY <2>1, <2>2 DEF Known
<1> QED
  BY <1>2, <1>3

LEMMA NextHeldKnown ==
  ASSUME LogInv, [Next]_vars
  PROVE  HeldKnown'
<1>1. TypeOK /\ Numbers /\ FlushState /\ HeldKnown
  BY DEF LogInv
<1>2. Held(channel) \cup Held(batch) \subseteq Events
  BY <1>1, HeldTyped DEF TypeOK
<1> SUFFICES ASSUME NEW e \in Held(channel') \cup Held(batch')
             PROVE  Known(e)' /\ e.kind = "delta"
  BY DEF HeldKnown
<1>3. CASE e \in Held(channel) \cup Held(batch)
  BY <1>1, <1>2, <1>3, KnownKept DEF HeldKnown
<1>4. CASE e = NoEvent
  BY <1>4, SomeEvents DEF Known
<1>5. CASE e.kind = "delta" /\ \E k \in Attempts : e = cur'[k]
  BY <1>5, NextCurKnown DEF CurKnown, Known
<1> QED
  BY <1>1, <1>3, <1>4, <1>5, ChannelSteps, BatchSteps

LEMMA NextLogKnown ==
  ASSUME LogInv, [Next]_vars
  PROVE  LogKnown'
<1>1. TypeOK /\ LogKnown /\ HeldKnown /\ CurKnown
  BY DEF LogInv
<1> SUFFICES ASSUME NEW s \in Seqs, log'[s] # NoEvent
             PROVE  log'[s].seq = s /\ Known(log[s])'
  BY DEF LogKnown
<1>2. CASE log'[s] = log[s]
  <2>1. log[s].seq = s /\ Known(log[s]) /\ log[s] \in Events
    BY <1>1, <1>2 DEF LogKnown, TypeOK
  <2> QED
    BY <1>1, <1>2, <2>1, KnownKept DEF Known
<1>3. CASE log'[s] # log[s]
  <2>1. log'[s].seq = s
    BY <1>1, <1>3, LogSteps
  <2>2. log'[s] \in Held(batch) \/ \E k \in Attempts : log'[s] = cur[k]
    BY <1>1, <1>3, LogSteps
  <2>3. PICK e \in Events : e = log'[s] /\ Known(e)
    <3>1. Held(batch) \subseteq Events
      BY <1>1, HeldTyped DEF TypeOK
    <3> QED
      BY <1>1, <2>2, <3>1 DEF HeldKnown, CurKnown, TypeOK
  <2>4. Known(e)'
    BY <1>1, <2>3, KnownKept
  <2> QED
    BY <2>1, <2>3, <2>4 DEF Known
<1> QED
  BY <1>2, <1>3

-----------------------------------------------------------------------------
(* How far an attempt has numbered.                                         *)

\* Everything about attempt k but where its task is.
SameBut(k) ==
  /\ seqno'[k] = seqno[k] /\ start'[k] = start[k] /\ cur'[k] = cur[k]
  /\ chunk'[k] = chunk[k] /\ captured'[k] = captured[k] /\ sent'[k] = sent[k]

LEMMA NumbersSame ==
  ASSUME NEW k \in Attempts, NumbersOf(k), SameBut(k), pc'[k] = pc[k]
  PROVE  NumbersOf(k)'
  BY DEF NumbersOf, SameBut, Busy, Closing

LEMMA NumbersAcked ==
  ASSUME NEW k \in Attempts, NumbersOf(k), SameBut(k), pc[k] = "wait",
         pc'[k] = AfterFlush(k)
  PROVE  NumbersOf(k)'
  BY DEF NumbersOf, SameBut, Busy, Closing, AfterFlush

\* Whom the drainer's steps acknowledge: only tasks that wait.
LEMMA Acked ==
  ASSUME TypeOK, FlushWaits, WriteEnded, NEW k \in Attempts
  PROVE  pc'[k] = pc[k] \/ (pc[k] = "wait" /\ pc'[k] = AfterFlush(k))
<1> DEFINE ks == acking \cup (IF drainer \in {"lastInsert", "lastRatchet"}
                             THEN {flushq[i] : i \in DOMAIN flushq} ELSE {})
<1>1. Acknowledge(ks)
  BY DEF WriteEnded
<1>2. k \in ks => pc[k] = "wait"
  BY DEF FlushWaits
<1> HIDE DEF ks
<1> QED
  BY <1>1, <1>2, AckMoves

LEMMA AckedAtOnce ==
  ASSUME TypeOK, FlushWaits, DrainFlush \/ DrainFinal, NEW k \in Attempts
  PROVE  pc'[k] = pc[k] \/ (pc[k] = "wait" /\ pc'[k] = AfterFlush(k))
<1>1. CASE DrainFlush
  <2>1. flushq \in Seq(Attempts) /\ flushq # <<>>
    BY <1>1 DEF DrainFlush, TypeOK
  <2>2. 1 \in DOMAIN flushq /\ Head(flushq) = flushq[1]
    BY <2>1, HeadTailProperties, LenProperties, EmptySeq
  <2>3. pc[Head(flushq)] = "wait"
    BY <2>2 DEF FlushWaits
  <2>4. pc' = pc \/ Acknowledge({Head(flushq)})
    BY <1>1 DEF DrainFlush
  <2> QED
    BY <2>3, <2>4, AckMoves
<1>2. CASE DrainFinal
  <2>1. pc' = pc \/ Acknowledge({flushq[i] : i \in DOMAIN flushq})
    BY <1>2 DEF DrainFinal
  <2>2. k \in {flushq[i] : i \in DOMAIN flushq} => pc[k] = "wait"
    BY DEF FlushWaits
  <2> QED
    BY <2>1, <2>2, AckMoves
<1> QED
  BY <1>1, <1>2

\* last_sequence_number was numbered by an attempt that has started.
LEMMA LastSeqFits ==
  ASSUME TypeOK, Numbers, LogKnown, Durable, NEW k \in Attempts, Latest(k)
  PROVE  lastSeq \in Nat /\ lastSeq <= k * Room
<1>1. lastSeq \in 0 .. MaxSeq /\ k * Room \in Nat
  BY NumberFits DEF TypeOK
<1>2. CASE lastSeq = 0
  BY <1>1, <1>2, Bounds
<1>3. CASE lastSeq # 0
  <2>1. lastSeq \in Seqs /\ log[lastSeq] # NoEvent
    BY <1>1, <1>3, Bounds DEF Durable, InLog, Seqs
  <2>2. log[lastSeq].seq = lastSeq /\ Known(log[lastSeq])
    BY <2>1 DEF LogKnown
  <2> DEFINE j == log[lastSeq].att
  <2>3. j \in Attempts /\ pc[j] # "off" /\ lastSeq <= seqno[j]
    BY <1>3, <2>2 DEF Known
  <2>4. j \in Nat /\ k \in Nat /\ j <= k
    BY <2>3, Bounds DEF Latest, Attempts
  <2> HIDE DEF j
  <2>5. seqno[j] <= j * Room /\ j * Room \in Nat /\ seqno[j] \in Nat
    BY <2>3, NumberFits, Bounds DEF TypeOK
  <2>6. j * Room <= k * Room
    BY <2>4, RoomGrows
  <2> QED
    BY <1>1, <2>3, <2>5, <2>6, Bounds
<1> QED
  BY <1>2, <1>3

LEMMA NextNumbers ==
  ASSUME LogInv, [Next]_vars
  PROVE  Numbers'
<1>0. TypeOK /\ Numbers /\ FlushState /\ FlushWaits /\ LogKnown /\ Durable
  BY DEF LogInv
<1> USE <1>0
<1>1. ASSUME DrainFlush
      PROVE  Numbers'
  <2>1. \A k \in Attempts : SameBut(k)
    BY <1>1 DEF DrainFlush, SameBut, taskVars
  <2>2. \A k \in Attempts : pc'[k] = pc[k] \/ (pc[k] = "wait" /\ pc'[k] = AfterFlush(k))
    BY <1>1, AckedAtOnce
  <2> QED
    BY <2>1, <2>2, NumbersSame, NumbersAcked DEF Numbers
<1>2. ASSUME DrainFinal
      PROVE  Numbers'
  <2>1. \A k \in Attempts : SameBut(k)
    BY <1>2 DEF DrainFinal, SameBut, taskVars
  <2>2. \A k \in Attempts : pc'[k] = pc[k] \/ (pc[k] = "wait" /\ pc'[k] = AfterFlush(k))
    BY <1>2, AckedAtOnce
  <2> QED
    BY <2>1, <2>2, NumbersSame, NumbersAcked DEF Numbers
<1>3. ASSUME DrainInsert
      PROVE  Numbers'
  <2>1. \A k \in Attempts : SameBut(k)
    BY <1>3 DEF DrainInsert, SameBut, taskVars
  <2>2. \A k \in Attempts : pc'[k] = pc[k] \/ (pc[k] = "wait" /\ pc'[k] = AfterFlush(k))
    BY <1>3, Acked DEF DrainInsert
  <2> QED
    BY <2>1, <2>2, NumbersSame, NumbersAcked DEF Numbers
<1>4. ASSUME DrainRatchet
      PROVE  Numbers'
  <2>1. \A k \in Attempts : SameBut(k)
    BY <1>4 DEF DrainRatchet, SameBut, taskVars
  <2>2. \A k \in Attempts : pc'[k] = pc[k] \/ (pc[k] = "wait" /\ pc'[k] = AfterFlush(k))
    BY <1>4, Acked DEF DrainRatchet
  <2> QED
    BY <2>1, <2>2, NumbersSame, NumbersAcked DEF Numbers
<1>5. ASSUME NEW k \in Attempts, TaskChunk(k)
      PROVE  Numbers'
  <2>0. PICK c \in Chunks :
          /\ seqno[k] - start[k] + Len(c) <= MaxEvents
          /\ chunk' = [chunk EXCEPT ![k] = c]
          /\ sent' = [sent EXCEPT ![k] = IF @ = "none" THEN FirstTerminal(c) ELSE @]
    BY <1>5 DEF TaskChunk
  <2>1. \A j \in Attempts : j # k => SameBut(j) /\ pc'[j] = pc[j]
    BY <1>5, <2>0 DEF TaskChunk, SameBut, TypeOK
  <2>2. \A j \in Attempts : j # k => NumbersOf(j)'
    BY <2>1, NumbersSame DEF Numbers
  <2>3. NumbersOf(k)'
    <3>1. /\ pc'[k] = "each" /\ chunk'[k] = c
          /\ seqno'[k] = seqno[k] /\ start'[k] = start[k]
      BY <1>5, <2>0 DEF TaskChunk, TypeOK
    <3>2. NumbersOf(k) /\ seqno[k] \in Nat /\ start[k] \in Nat
      BY Bounds DEF Numbers, TypeOK
    <3>3. c # <<>> /\ Len(c) \in Nat
      BY ChunkTyped
    <3>4. seqno[k] + Len(c) <= start[k] + MaxEvents
      BY <2>0, <3>2, <3>3, Bounds
    <3> QED
      BY <3>1, <3>2, <3>3, <3>4 DEF NumbersOf, Busy, Closing
  <2> QED
    BY <2>2, <2>3 DEF Numbers
<1>6. ASSUME NEW k \in Attempts, TaskEvent(k)
      PROVE  Numbers'
  <2>0. Pushes(k) \/ Waits(k) \/ GoesOn(k)
    BY <1>6, EventStored
  <2>9. \E x \in {"forward", "wait", "insert"} : pc' = [pc EXCEPT ![k] = x]
    BY <2>0 DEF Pushes, Waits, GoesOn
  <2>1. \A j \in Attempts : j # k => SameBut(j) /\ pc'[j] = pc[j]
    BY <1>6, <2>9 DEF TaskEvent, SameBut, TypeOK
  <2>2. \A j \in Attempts : j # k => NumbersOf(j)'
    BY <2>1, NumbersSame DEF Numbers
  <2>3. NumbersOf(k)'
    <3>1. /\ pc[k] = "each" /\ pc'[k] \in {"forward", "wait", "insert"}
          /\ seqno'[k] = seqno[k] + 1 /\ start'[k] = start[k] /\ chunk'[k] = chunk[k]
          /\ cur'[k].seq = seqno[k] + 1 /\ cur'[k].att = k /\ cur'[k].synth = FALSE
          /\ cur'[k].kind = Head(chunk[k])
      BY <1>6, <2>9, EventStored DEF TaskEvent, TypeOK
    <3>2. NumbersOf(k) /\ seqno[k] \in Nat /\ start[k] \in Nat /\ chunk[k] \in Seq(Kinds)
      BY Bounds DEF Numbers, TypeOK
    <3>3. chunk[k] # <<>> /\ Len(chunk[k]) \in Nat /\ Head(chunk[k]) \in Kinds
      BY <3>1, <3>2, LenProperties, HeadTailProperties DEF NumbersOf
    <3>4. seqno[k] + 1 <= start[k] + Room
      BY <3>1, NumberFits
    <3>5. seqno[k] + 1 + Len(chunk[k]) <= start[k] + Room
      BY <3>1, <3>2, <3>3, Bounds DEF NumbersOf, Room
    <3>6. start[k] <= seqno[k] + 1 /\ start[k] < seqno[k] + 1 /\ start[k] <= (k - 1) * Room
      BY <3>2 DEF NumbersOf
    <3>7. Busy(k)' /\ ~Closing(k)' /\ pc'[k] \notin {"off", "each", "again", "recv", "close", "errored"}
      BY <3>1 DEF Busy, Closing
    <3> QED
      BY <3>1, <3>3, <3>4, <3>5, <3>6, <3>7 DEF NumbersOf
  <2> QED
    BY <2>2, <2>3 DEF Numbers
<1>7. ASSUME NEW k \in Attempts, TaskPushAgain(k)
      PROVE  Numbers'
  <2>0. Pushes(k) \/ GoesOn(k)
    BY <1>7, AgainStored
  <2>9. \E x \in {"forward", "wait", "insert"} : pc' = [pc EXCEPT ![k] = x]
    BY <2>0 DEF Pushes, Waits, GoesOn
  <2>1. \A j \in Attempts : j # k => SameBut(j) /\ pc'[j] = pc[j]
    BY <1>7, <2>9 DEF TaskPushAgain, SameBut, TypeOK
  <2>2. \A j \in Attempts : j # k => NumbersOf(j)'
    BY <2>1, NumbersSame DEF Numbers
  <2>3. NumbersOf(k)'
    <3>1. pc[k] = "again" /\ pc'[k] \in {"forward", "wait", "insert"} /\ SameBut(k)
      BY <1>7, <2>9 DEF TaskPushAgain, SameBut, TypeOK
    <3> QED
      BY <3>1 DEF Numbers, NumbersOf, SameBut, Busy, Closing
  <2> QED
    BY <2>2, <2>3 DEF Numbers
<1>8. ASSUME NEW k \in Attempts, TaskInsert(k)
      PROVE  Numbers'
  <2>1. \A j \in Attempts : j # k => SameBut(j) /\ pc'[j] = pc[j]
    BY <1>8 DEF TaskInsert, SameBut, TypeOK
  <2>2. \A j \in Attempts : j # k => NumbersOf(j)'
    BY <2>1, NumbersSame DEF Numbers
  <2>3. NumbersOf(k)'
    <3>1. pc[k] = "insert" /\ pc'[k] \in {"ratchet", AfterInsert(k)} /\ SameBut(k)
      BY <1>8 DEF TaskInsert, SameBut, TypeOK
    <3> QED
      BY <3>1 DEF Numbers, NumbersOf, SameBut, Busy, Closing, AfterInsert
  <2> QED
    BY <2>2, <2>3 DEF Numbers
<1>9. ASSUME NEW k \in Attempts, TaskRatchet(k)
      PROVE  Numbers'
  <2>1. \A j \in Attempts : j # k => SameBut(j) /\ pc'[j] = pc[j]
    BY <1>9 DEF TaskRatchet, SameBut, TypeOK
  <2>2. \A j \in Attempts : j # k => NumbersOf(j)'
    BY <2>1, NumbersSame DEF Numbers
  <2>3. NumbersOf(k)'
    <3>1. pc[k] = "ratchet" /\ pc'[k] \in {"ratchet", AfterInsert(k)} /\ SameBut(k)
      BY <1>9 DEF TaskRatchet, SameBut, TypeOK
    <3> QED
      BY <3>1 DEF Numbers, NumbersOf, SameBut, Busy, Closing, AfterInsert
  <2> QED
    BY <2>2, <2>3 DEF Numbers
<1>10. ASSUME NEW k \in Attempts, TaskForward(k)
       PROVE  Numbers'
  <2>1. \A j \in Attempts : j # k => SameBut(j) /\ pc'[j] = pc[j]
    BY <1>10 DEF TaskForward, SameBut, TypeOK
  <2>2. \A j \in Attempts : j # k => NumbersOf(j)'
    BY <2>1, NumbersSame DEF Numbers
  <2>3. NumbersOf(k)'
    <3>1. /\ pc[k] = "forward" /\ seqno'[k] = seqno[k] /\ start'[k] = start[k]
          /\ chunk'[k] \in {<<>>, Tail(chunk[k])}
          /\ pc'[k] = IF chunk'[k] = <<>> THEN "recv" ELSE "each"
      BY <1>10 DEF TaskForward, TypeOK
    <3>2. NumbersOf(k) /\ seqno[k] \in Nat /\ start[k] \in Nat /\ chunk[k] \in Seq(Kinds)
      BY Bounds DEF Numbers, TypeOK
    <3>3. chunk[k] # <<>> /\ seqno[k] + Len(chunk[k]) <= start[k] + Room
      BY <3>1, <3>2 DEF NumbersOf, Busy
    <3>4. Len(chunk[k]) \in Nat \ {0} /\ Len(Tail(chunk[k])) = Len(chunk[k]) - 1
      BY <3>2, <3>3, LenProperties, EmptySeq, HeadTailProperties
    <3>5. seqno[k] <= start[k] + MaxEvents
          /\ seqno[k] + Len(Tail(chunk[k])) <= start[k] + MaxEvents
      BY <3>2, <3>3, <3>4, Bounds DEF Room
    <3> QED
      BY <3>1, <3>2, <3>5 DEF NumbersOf, Busy, Closing
  <2> QED
    BY <2>2, <2>3 DEF Numbers
<1>11. ASSUME NEW k \in Attempts, TaskBodyEnd(k)
       PROVE  Numbers'
  <2>1. \A j \in Attempts : j # k => SameBut(j) /\ pc'[j] = pc[j]
    BY <1>11 DEF TaskBodyEnd, SameBut, TypeOK
  <2>2. \A j \in Attempts : j # k => NumbersOf(j)'
    BY <2>1, NumbersSame DEF Numbers
  <2>3. NumbersOf(k)'
    <3>1. SameBut(k) /\ pc'[k] = "close"
      BY <1>11 DEF TaskBodyEnd, SameBut, TypeOK
    <3>2. NumbersOf(k) /\ pc[k] = "recv"
      BY <1>11 DEF TaskBodyEnd, Numbers
    <3> QED
      BY <3>1, <3>2 DEF NumbersOf, SameBut, Busy, Closing
  <2> QED
    BY <2>2, <2>3 DEF Numbers
<1>12. ASSUME NEW k \in Attempts, TaskBodyError(k)
       PROVE  Numbers'
  <2>1. \A j \in Attempts : j # k => SameBut(j) /\ pc'[j] = pc[j]
    BY <1>12 DEF TaskBodyError, SameBut, TypeOK
  <2>2. \A j \in Attempts : j # k => NumbersOf(j)'
    BY <2>1, NumbersSame DEF Numbers
  <2>3. NumbersOf(k)'
    <3>1. SameBut(k) /\ pc'[k] = "errored"
      BY <1>12 DEF TaskBodyError, SameBut, TypeOK
    <3>2. NumbersOf(k) /\ pc[k] = "recv"
      BY <1>12 DEF TaskBodyError, Numbers
    <3> QED
      BY <3>1, <3>2 DEF NumbersOf, SameBut, Busy, Closing
  <2> QED
    BY <2>2, <2>3 DEF Numbers
<1>13. ASSUME NEW k \in Attempts, TaskCancelled(k)
       PROVE  Numbers'
  <2>1. \A j \in Attempts : j # k => SameBut(j) /\ pc'[j] = pc[j]
    BY <1>13 DEF TaskCancelled, SameBut, TypeOK
  <2>2. \A j \in Attempts : j # k => NumbersOf(j)'
    BY <2>1, NumbersSame DEF Numbers
  <2>3. NumbersOf(k)'
    <3>1. SameBut(k) /\ pc'[k] = "close"
      BY <1>13 DEF TaskCancelled, SameBut, TypeOK
    <3>2. NumbersOf(k) /\ pc[k] = "recv"
      BY <1>13 DEF TaskCancelled, Numbers
    <3> QED
      BY <3>1, <3>2 DEF NumbersOf, SameBut, Busy, Closing
  <2> QED
    BY <2>2, <2>3 DEF Numbers
<1>14. ASSUME NEW k \in Attempts, TaskClose(k)
       PROVE  Numbers'
  <2>1. \A j \in Attempts : j # k => SameBut(j) /\ pc'[j] = pc[j]
    BY <1>14 DEF TaskClose, SameBut, TypeOK
  <2>2. \A j \in Attempts : j # k => NumbersOf(j)'
    BY <2>1, NumbersSame DEF Numbers
  <2>3. NumbersOf(k)'
    <3>1. pc[k] = "close" /\ NumbersOf(k) /\ start'[k] = start[k] /\ chunk'[k] = chunk[k]
      BY <1>14 DEF TaskClose, Numbers
    <3>2. CASE persisted[k]
      <4>1. SameBut(k) /\ pc'[k] = "complete"
        BY <1>14, <3>2 DEF TaskClose, SameBut, TypeOK
      <4> QED
        BY <3>1, <4>1 DEF NumbersOf, SameBut, Busy, Closing
    <3>3. CASE ~persisted[k]
      <4>1. /\ pc'[k] = "insert" /\ seqno'[k] = seqno[k] + 1
            /\ cur'[k] = [seq |-> seqno[k] + 1, att |-> k, kind |-> Outcome(k), synth |-> TRUE]
        BY <1>14, <3>3 DEF TaskClose, TypeOK
      <4>2. Outcome(k) # "delta"
        BY SomeEvents DEF Outcome, TypeOK, Terminal
      <4>3. seqno[k] \in Nat /\ start[k] \in Nat /\ seqno[k] + 1 <= start[k] + Room
        BY <3>1, NumberFits, Bounds DEF TypeOK
      <4>4. /\ cur'[k].seq = seqno'[k] /\ cur'[k].att = k /\ cur'[k].synth = TRUE
            /\ cur'[k].kind # "delta"
        BY <4>1, <4>2
      <4> QED
        BY <3>1, <4>1, <4>3, <4>4, Bounds DEF NumbersOf, Busy, Closing
    <3> QED
      BY <3>2, <3>3
  <2> QED
    BY <2>2, <2>3 DEF Numbers
<1>15. ASSUME NEW k \in Attempts, TaskComplete(k)
       PROVE  Numbers'
  <2>1. \A j \in Attempts : j # k => SameBut(j) /\ pc'[j] = pc[j]
    BY <1>15 DEF TaskComplete, SameBut, TypeOK
  <2>2. \A j \in Attempts : j # k => NumbersOf(j)'
    BY <2>1, NumbersSame DEF Numbers
  <2>3. NumbersOf(k)'
    <3>1. SameBut(k) /\ pc'[k] = "done"
      BY <1>15 DEF TaskComplete, SameBut, TypeOK
    <3> QED
      BY <3>1 DEF Numbers, NumbersOf, SameBut, Busy, Closing
  <2> QED
    BY <2>2, <2>3 DEF Numbers
<1>16. ASSUME NEW k \in Attempts, RetryStart(k)
       PROVE  Numbers'
  <2>1. \A j \in Attempts : j # k + 1 => SameBut(j) /\ pc'[j] = pc[j]
    BY <1>16 DEF RetryStart, SameBut, TypeOK
  <2>2. \A j \in Attempts : j # k + 1 => NumbersOf(j)'
    BY <2>1, NumbersSame DEF Numbers
  <2>3. ASSUME k + 1 \in Attempts PROVE NumbersOf(k + 1)'
    <3>1. /\ pc'[k + 1] = "recv" /\ start'[k + 1] = lastSeq /\ seqno'[k + 1] = lastSeq
          /\ cur'[k + 1] = cur[k + 1] /\ chunk'[k + 1] = chunk[k + 1]
      BY <1>16, <2>3 DEF RetryStart, TypeOK
    <3>2. pc[k + 1] = "off"
      BY <1>16, <2>3, Bounds DEF RetryStart, Latest, Attempts
    <3>3. NumbersOf(k + 1) /\ chunk[k + 1] = <<>>
      BY <2>3, <3>2 DEF Numbers, NumbersOf
    <3>4. lastSeq \in Nat /\ lastSeq <= k * Room
      BY <1>16, LastSeqFits DEF RetryStart
    <3>5. (k + 1) - 1 = k
      BY Bounds DEF Attempts
    <3> QED
      BY <3>1, <3>3, <3>4, <3>5, Bounds DEF NumbersOf, Busy, Closing
  <2> QED
    BY <2>2, <2>3 DEF Numbers
<1>17. CASE UNCHANGED <<pc, seqno, start, cur, chunk, captured, sent>>
  <2>1. \A k \in Attempts : SameBut(k) /\ pc'[k] = pc[k]
    BY <1>17 DEF SameBut
  <2> QED
    BY <2>1, NumbersSame DEF Numbers
<1> QED
  BY <1>1, <1>2, <1>3, <1>4, <1>5, <1>6, <1>7, <1>8, <1>9, <1>10, <1>11,
      <1>12, <1>13, <1>14, <1>15, <1>16, <1>17
    DEF Next, TaskStep, DrainerStep, Finished, vars, DrainRecv, DrainTimeout,
        OtherPush, Shutdown, Disconnect, AskCancel, CancelRow, RetryBump,
        MarkFailure, ReaderList, ReaderCheck, rowVars, bufferVars, taskVars,
        readerVars, otherVars

-----------------------------------------------------------------------------
(* Flush requests.                                                          *)

LEMMA WaitsKept ==
  ASSUME TypeOK, FlushWaits, flushq' = flushq, acking' = acking,
         \A k \in Attempts : pc[k] = "wait" => pc'[k] = "wait"
  PROVE  FlushWaits'
<1>1. \A i \in DOMAIN flushq : flushq[i] \in Attempts
  BY LenProperties, ElementOfSeq DEF TypeOK
<1>2. acking \subseteq Attempts
  BY DEF TypeOK
<1> QED
  BY <1>1, <1>2 DEF FlushWaits

LEMMA WriteEndsWaits ==
  ASSUME TypeOK, FlushWaits, WriteEnded
  PROVE  FlushWaits'
<1>1. CASE drainer \in {"lastInsert", "lastRatchet"}
  <2>1. flushq' = <<>> /\ acking' = {}
    BY <1>1 DEF WriteEnded
  <2> QED
    BY <2>1 DEF FlushWaits
<1>2. CASE drainer \notin {"lastInsert", "lastRatchet"}
  <2>1. flushq' = flushq /\ acking' = {} /\ Acknowledge(acking \cup {})
    BY <1>2 DEF WriteEnded
  <2>2. \A i \in DOMAIN flushq : flushq[i] \in Attempts /\ flushq[i] \notin acking
    BY LenProperties, ElementOfSeq DEF TypeOK, FlushWaits
  <2>3. \A i \in DOMAIN flushq : pc'[flushq[i]] = "wait"
    BY <2>1, <2>2, AckMoves DEF FlushWaits
  <2> QED
    BY <2>1, <2>3 DEF FlushWaits
<1> QED
  BY <1>1, <1>2

LEMMA NextFlushWaits ==
  ASSUME LogInv, [Next]_vars
  PROVE  FlushWaits'
<1>0. TypeOK /\ Numbers /\ FlushState /\ FlushWaits /\ LogKnown /\ Durable
  BY DEF LogInv
<1> USE <1>0
<1>1. ASSUME DrainFlush
      PROVE  FlushWaits'
  <2>1. flushq \in Seq(Attempts) /\ flushq # <<>> /\ flushq' = Tail(flushq) /\ acking = {}
    BY <1>1 DEF DrainFlush, TypeOK, FlushState
  <2> DEFINE n == Len(flushq)
  <2>2. /\ n \in Nat \ {0} /\ DOMAIN flushq = 1 .. n /\ DOMAIN flushq' = 1 .. n - 1
        /\ Head(flushq) = flushq[1]
        /\ \A i \in 1 .. n - 1 : flushq'[i] = flushq[i + 1] /\ i + 1 \in 1 .. n
    BY <2>1, HeadTailProperties, LenProperties, EmptySeq
  <2>3. \A i \in 1 .. n : flushq[i] \in Attempts
    BY <2>1, ElementOfSeq
  <2> HIDE DEF n
  <2>4. \A i \in 1 .. n - 1 : i + 1 # 1 /\ flushq[i + 1] # flushq[1]
    BY <2>2 DEF FlushWaits
  <2>5. \A i, j \in 1 .. n - 1 : i # j => i + 1 # j + 1
    BY <2>2
  <2>6. \A i, j \in DOMAIN flushq' : i # j => flushq'[i] # flushq'[j]
    BY <2>2, <2>5 DEF FlushWaits
  <2>7. CASE acking' = acking /\ Acknowledge({Head(flushq)})
    <3>1. \A i \in 1 .. n - 1 : pc'[flushq[i + 1]] = "wait"
      BY <2>2, <2>3, <2>4, <2>7, AckMoves DEF FlushWaits
    <3> QED
      BY <2>1, <2>2, <2>6, <2>7, <3>1 DEF FlushWaits
  <2>8. CASE acking' = {Head(flushq)} /\ pc' = pc
    BY <2>2, <2>4, <2>6, <2>8 DEF FlushWaits
  <2> QED
    BY <1>1, <2>7, <2>8 DEF DrainFlush
<1>2. ASSUME DrainFinal
      PROVE  FlushWaits'
  <2>1. acking = {} /\ acking' = acking
    BY <1>2 DEF DrainFinal, FlushState
  <2>2. CASE flushq' = <<>>
    BY <2>1, <2>2 DEF FlushWaits
  <2>3. CASE flushq' = flushq /\ pc' = pc
    BY <2>1, <2>3, WaitsKept
  <2> QED
    BY <1>2, <2>2, <2>3 DEF DrainFinal
<1>3. ASSUME DrainInsert
      PROVE  FlushWaits'
  <2>1. CASE WriteEnded
    BY <2>1, WriteEndsWaits
  <2>2. CASE UNCHANGED <<flushq, acking, pc>>
    BY <2>2, WaitsKept
  <2> QED
    BY <1>3, <2>1, <2>2 DEF DrainInsert
<1>4. ASSUME DrainRatchet
      PROVE  FlushWaits'
  BY <1>4, WriteEndsWaits DEF DrainRatchet
<1>5. ASSUME NEW k \in Attempts, TaskChunk(k)
      PROVE  FlushWaits'
  <2>1. \A j \in Attempts : pc[j] = "wait" => pc'[j] = "wait"
    BY <1>5 DEF TaskChunk, TypeOK
  <2>2. flushq' = flushq /\ acking' = acking
    BY <1>5 DEF TaskChunk, bufferVars
  <2> QED
    BY <2>1, <2>2, WaitsKept
<1>6. ASSUME NEW k \in Attempts, TaskEvent(k)
      PROVE  FlushWaits'
  <2>1. pc[k] = "each" /\ (Pushes(k) \/ Waits(k) \/ GoesOn(k)) /\ acking' = acking
    BY <1>6, EventStored DEF TaskEvent
  <2>2. CASE Pushes(k) \/ GoesOn(k)
    <3>1. flushq' = flushq /\ \A j \in Attempts : pc[j] = "wait" => pc'[j] = "wait"
      BY <2>1, <2>2 DEF Pushes, GoesOn, TypeOK
    <3> QED
      BY <2>1, <3>1, WaitsKept
  <2>3. CASE Waits(k)
    <3>1. flushq \in Seq(Attempts) /\ flushq' = Append(flushq, k)
      BY <2>3 DEF Waits, TypeOK
    <3> DEFINE n == Len(flushq)
    <3>2. /\ n \in Nat /\ DOMAIN flushq = 1 .. n /\ DOMAIN flushq' = 1 .. n + 1
          /\ flushq'[n + 1] = k /\ \A i \in 1 .. n : flushq'[i] = flushq[i]
      BY <3>1, AppendProperties, LenProperties
    <3>3. \A i \in 1 .. n : flushq[i] \in Attempts
      BY <3>1, ElementOfSeq
    <3>4. pc'[k] = "wait" /\ \A j \in Attempts : pc[j] = "wait" => pc'[j] = "wait" /\ j # k
      BY <2>1, <2>3 DEF Waits, TypeOK
    <3> HIDE DEF n
    <3>5. \A i \in 1 .. n + 1 : i = n + 1 \/ i \in 1 .. n
      BY <3>2
    <3>6. acking \subseteq Attempts
      BY DEF TypeOK
    <3> QED
      BY <2>1, <3>2, <3>3, <3>4, <3>5, <3>6 DEF FlushWaits
  <2> QED
    BY <2>1, <2>2, <2>3
<1>7. ASSUME NEW k \in Attempts, TaskPushAgain(k)
      PROVE  FlushWaits'
  <2>1. pc[k] = "again" /\ (Pushes(k) \/ GoesOn(k)) /\ acking' = acking
    BY <1>7, AgainStored DEF TaskPushAgain
  <2>2. flushq' = flushq /\ \A j \in Attempts : pc[j] = "wait" => pc'[j] = "wait"
    BY <2>1 DEF Pushes, GoesOn, TypeOK
  <2> QED
    BY <2>1, <2>2, WaitsKept
<1>8. ASSUME NEW k \in Attempts, TaskInsert(k)
      PROVE  FlushWaits'
  <2>1. \A j \in Attempts : pc[j] = "wait" => pc'[j] = "wait"
    BY <1>8 DEF TaskInsert, TypeOK
  <2>2. flushq' = flushq /\ acking' = acking
    BY <1>8 DEF TaskInsert, bufferVars
  <2> QED
    BY <2>1, <2>2, WaitsKept
<1>9. ASSUME NEW k \in Attempts, TaskRatchet(k)
      PROVE  FlushWaits'
  <2>1. \A j \in Attempts : pc[j] = "wait" => pc'[j] = "wait"
    BY <1>9 DEF TaskRatchet, TypeOK
  <2>2. flushq' = flushq /\ acking' = acking
    BY <1>9 DEF TaskRatchet, bufferVars
  <2> QED
    BY <2>1, <2>2, WaitsKept
<1>10. ASSUME NEW k \in Attempts, TaskForward(k)
       PROVE  FlushWaits'
  <2>1. \A j \in Attempts : pc[j] = "wait" => pc'[j] = "wait"
    BY <1>10 DEF TaskForward, TypeOK
  <2>2. flushq' = flushq /\ acking' = acking
    BY <1>10 DEF TaskForward, bufferVars
  <2> QED
    BY <2>1, <2>2, WaitsKept
<1>11. ASSUME NEW k \in Attempts, TaskBodyEnd(k)
       PROVE  FlushWaits'
  <2>1. \A j \in Attempts : pc[j] = "wait" => pc'[j] = "wait"
    BY <1>11 DEF TaskBodyEnd, TypeOK
  <2>2. flushq' = flushq /\ acking' = acking
    BY <1>11 DEF TaskBodyEnd, bufferVars
  <2> QED
    BY <2>1, <2>2, WaitsKept
<1>12. ASSUME NEW k \in Attempts, TaskBodyError(k)
       PROVE  FlushWaits'
  <2>1. \A j \in Attempts : pc[j] = "wait" => pc'[j] = "wait"
    BY <1>12 DEF TaskBodyError, TypeOK
  <2>2. flushq' = flushq /\ acking' = acking
    BY <1>12 DEF TaskBodyError, bufferVars
  <2> QED
    BY <2>1, <2>2, WaitsKept
<1>13. ASSUME NEW k \in Attempts, TaskCancelled(k)
       PROVE  FlushWaits'
  <2>1. \A j \in Attempts : pc[j] = "wait" => pc'[j] = "wait"
    BY <1>13 DEF TaskCancelled, TypeOK
  <2>2. flushq' = flushq /\ acking' = acking
    BY <1>13 DEF TaskCancelled, bufferVars
  <2> QED
    BY <2>1, <2>2, WaitsKept
<1>14. ASSUME NEW k \in Attempts, TaskClose(k)
       PROVE  FlushWaits'
  <2>1. \E x \in {"complete", "insert"} : pc[k] = "close" /\ pc' = [pc EXCEPT ![k] = x]
    BY <1>14 DEF TaskClose
  <2>2. flushq' = flushq /\ acking' = acking
    BY <1>14 DEF TaskClose, bufferVars
  <2>3. \A j \in Attempts : pc[j] = "wait" => pc'[j] = "wait"
    BY <2>1 DEF TypeOK
  <2> QED
    BY <2>2, <2>3, WaitsKept
<1>15. ASSUME NEW k \in Attempts, TaskComplete(k)
       PROVE  FlushWaits'
  <2>1. \A j \in Attempts : pc[j] = "wait" => pc'[j] = "wait"
    BY <1>15 DEF TaskComplete, TypeOK
  <2>2. flushq' = flushq /\ acking' = acking
    BY <1>15 DEF TaskComplete, bufferVars
  <2> QED
    BY <2>1, <2>2, WaitsKept
<1>16. ASSUME NEW k \in Attempts, RetryStart(k)
       PROVE  FlushWaits'
  <2>1. \A j \in Attempts : pc[j] = "wait" => pc'[j] = "wait"
    <3>1. \A j \in Attempts : j = k + 1 => j > k
      BY Bounds DEF Attempts
    <3>2. \A j \in Attempts : j = k + 1 => pc[j] = "off"
      BY <1>16, <3>1 DEF RetryStart, Latest
    <3>3. \A j \in Attempts : j # k + 1 => pc'[j] = pc[j]
      BY <1>16 DEF RetryStart, TypeOK
    <3> QED
      BY <3>2, <3>3
  <2>2. flushq' = flushq /\ acking' = acking
    BY <1>16 DEF RetryStart, bufferVars
  <2> QED
    BY <2>1, <2>2, WaitsKept
<1>17. CASE UNCHANGED <<flushq, pc, acking>>
  BY <1>17, WaitsKept
<1> QED
  BY <1>1, <1>2, <1>3, <1>4, <1>5, <1>6, <1>7, <1>8, <1>9, <1>10, <1>11,
      <1>12, <1>13, <1>14, <1>15, <1>16, <1>17
    DEF Next, TaskStep, DrainerStep, Finished, vars, DrainRecv, DrainTimeout,
        OtherPush, Shutdown, Disconnect, AskCancel, CancelRow, RetryBump,
        MarkFailure, ReaderList, ReaderCheck, rowVars, bufferVars, taskVars,
        readerVars, otherVars

LEMMA NextFlushState ==
  ASSUME LogInv, [Next]_vars
  PROVE  FlushState'
<1>0. TypeOK /\ Numbers /\ FlushState /\ FlushWaits /\ LogKnown /\ Durable
  BY DEF LogInv
<1> USE <1>0
<1>1. ASSUME DrainRecv
      PROVE  FlushState'
  <2>1. batch' # <<>>
    <3>1. batch \in Seq(Events) /\ batch' = Append(batch, Head(channel))
      BY <1>1 DEF DrainRecv, TypeOK
    <3> QED
      BY <3>1, AppendProperties, EmptySeq, LenProperties
  <2> QED
    BY <1>1, <2>1 DEF DrainRecv, FlushState, Writing
<1>2. ASSUME DrainTimeout
      PROVE  FlushState'
  BY <1>2
    DEF FlushState, Writing, DrainTimeout, rowVars, bufferVars, taskVars,
        readerVars, otherVars
<1>3. ASSUME DrainFlush
      PROVE  FlushState'
  BY <1>3 DEF DrainFlush, FlushState, Writing
<1>4. ASSUME DrainFinal
      PROVE  FlushState'
  BY <1>4 DEF DrainFinal, FlushState, Writing
<1>5. ASSUME DrainInsert
      PROVE  FlushState'
  <2>1. CASE WriteEnded
    BY <2>1 DEF WriteEnded, FlushState, Writing
  <2>2. CASE /\ UNCHANGED <<channel, flushq, batch, acking>>
             /\ drainer' = IF drainer = "insert" THEN "ratchet" ELSE "lastRatchet"
    BY <1>5, <2>2 DEF DrainInsert, FlushState, Writing
  <2> QED
    BY <1>5, <2>1, <2>2 DEF DrainInsert
<1>6. ASSUME DrainRatchet
      PROVE  FlushState'
  <2>1. WriteEnded
    BY <1>6 DEF DrainRatchet
  <2> QED
    BY <2>1 DEF WriteEnded, FlushState, Writing
<1>7. ASSUME OtherPush
      PROVE  FlushState'
  BY <1>7
    DEF FlushState, Writing, OtherPush, rowVars, bufferVars, taskVars,
        readerVars, otherVars
<1>8. ASSUME NEW k \in Attempts, TaskEvent(k)
      PROVE  FlushState'
  <2>1. Pushes(k) \/ Waits(k) \/ GoesOn(k)
    BY <1>8, EventStored
  <2>2. UNCHANGED <<acking, drainer, batch>>
    BY <1>8 DEF TaskEvent
  <2> QED
    BY <2>1, <2>2 DEF Pushes, Waits, GoesOn, FlushState
<1>9. ASSUME NEW k \in Attempts, TaskPushAgain(k)
      PROVE  FlushState'
  <2>1. Pushes(k) \/ GoesOn(k)
    BY <1>9, AgainStored
  <2>2. UNCHANGED <<acking, drainer, batch>>
    BY <1>9 DEF TaskPushAgain
  <2> QED
    BY <2>1, <2>2 DEF Pushes, Waits, GoesOn, FlushState
<1>10. CASE UNCHANGED <<acking, drainer, batch, channel, flushq>>
  BY <1>10 DEF FlushState, Writing
<1> QED
  BY <1>1, <1>2, <1>3, <1>4, <1>5, <1>6, <1>7, <1>8, <1>9, <1>10
    DEF Next, TaskStep, DrainerStep, Finished, vars, Shutdown, TaskChunk,
        TaskInsert, TaskRatchet, TaskForward, TaskBodyEnd, TaskBodyError,
        TaskCancelled, TaskClose, TaskComplete, Disconnect, AskCancel,
        CancelRow, RetryBump, RetryStart, MarkFailure, ReaderList,
        ReaderCheck, rowVars, bufferVars, taskVars, readerVars, otherVars

-----------------------------------------------------------------------------
(* The log is ahead of last_sequence_number.                                *)

\* What is in the log stays there.
LEMMA LogKept ==
  ASSUME TypeOK, [Next]_vars
  PROVE  /\ \A s \in Seqs : log[s] # NoEvent => log'[s] = log[s]
         /\ \A s \in 0 .. MaxSeq : InLog(s) => InLog(s)'
<1>1. \A s \in Seqs : log[s] # NoEvent => log'[s] = log[s]
  BY LogSteps
<1>2. \A s \in 0 .. MaxSeq : s > 0 => s \in Seqs
  BY Bounds DEF Seqs
<1> QED
  BY <1>1, <1>2 DEF InLog

LEMMA BatchInserted ==
  ASSUME TypeOK, log' = InsertBatch(batch)
  PROVE  \A e \in Held(batch) : InLog(e.seq)'
  BY Inserted DEF TypeOK, InLog

LEMMA NextLastInLog ==
  ASSUME LogInv, [Next]_vars
  PROVE  InLog(lastSeq)'
<1>0. TypeOK /\ Numbers /\ FlushState /\ FlushWaits /\ LogKnown /\ Durable
  BY DEF LogInv
<1> USE <1>0
<1>1. ASSUME DrainInsert
      PROVE  InLog(lastSeq)'
  <2>1. lastSeq' = lastSeq
    BY <1>1 DEF DrainInsert
  <2> QED
    BY <2>1, LogKept DEF TypeOK, Durable, InLog
<1>2. ASSUME DrainRatchet
      PROVE  InLog(lastSeq)'
  <2> DEFINE seqs == {batch[i].seq : i \in DOMAIN batch}
             top == CHOOSE s \in seqs : \A t \in seqs : t <= s
  <2>1. drainer \in {"ratchet", "lastRatchet"} /\ log' = log
    BY <1>2 DEF DrainRatchet
  <2>2. PICK e \in Held(batch) : top = e.seq
    BY <2>1, BatchTop DEF Writing
  <2>3. InLog(e.seq)
    BY <2>1 DEF Durable
  <2>4. lastSeq' \in {lastSeq, top}
    BY <1>2 DEF DrainRatchet, SetLastSequence
  <2> HIDE DEF top
  <2> QED
    BY <2>1, <2>2, <2>3, <2>4 DEF Durable, InLog
<1>3. ASSUME NEW k \in Attempts, TaskInsert(k)
      PROVE  InLog(lastSeq)'
  <2>1. lastSeq' = lastSeq
    BY <1>3 DEF TaskInsert
  <2> QED
    BY <2>1, LogKept DEF TypeOK, Durable, InLog
<1>4. ASSUME NEW k \in Attempts, TaskRatchet(k)
      PROVE  InLog(lastSeq)'
  <2>1. log' = log /\ lastSeq' \in {lastSeq, cur[k].seq} /\ pc[k] = "ratchet"
    BY <1>4 DEF TaskRatchet, SetLastSequence
  <2> QED
    BY <2>1 DEF Durable, InLog
<1>5. CASE UNCHANGED <<lastSeq, log>>
  BY <1>5 DEF Durable, InLog
<1> QED
  BY <1>1, <1>2, <1>3, <1>4, <1>5
    DEF Next, TaskStep, DrainerStep, Finished, vars, DrainRecv, DrainTimeout,
        DrainFlush, DrainFinal, OtherPush, Shutdown, TaskChunk, TaskEvent,
        TaskPushAgain, TaskForward, TaskBodyEnd, TaskBodyError, TaskCancelled,
        TaskClose, TaskComplete, Disconnect, AskCancel, CancelRow, RetryBump,
        RetryStart, MarkFailure, ReaderList, ReaderCheck, rowVars, bufferVars,
        taskVars, readerVars, otherVars

LEMMA NextBatchInLog ==
  ASSUME LogInv, [Next]_vars
  PROVE  (drainer \in {"ratchet", "lastRatchet"} => \A e \in Held(batch) : InLog(e.seq))'
<1>0. TypeOK /\ Numbers /\ FlushState /\ FlushWaits /\ LogKnown /\ Durable
  BY DEF LogInv
<1> USE <1>0
<1>1. ASSUME DrainRecv
      PROVE  (drainer \in {"ratchet", "lastRatchet"} => \A e \in Held(batch) : InLog(e.seq))'
  BY <1>1 DEF DrainRecv
<1>2. ASSUME DrainTimeout
      PROVE  (drainer \in {"ratchet", "lastRatchet"} => \A e \in Held(batch) : InLog(e.seq))'
  BY <1>2 DEF DrainTimeout
<1>3. ASSUME DrainFlush
      PROVE  (drainer \in {"ratchet", "lastRatchet"} => \A e \in Held(batch) : InLog(e.seq))'
  BY <1>3 DEF DrainFlush
<1>4. ASSUME DrainFinal
      PROVE  (drainer \in {"ratchet", "lastRatchet"} => \A e \in Held(batch) : InLog(e.seq))'
  BY <1>4 DEF DrainFinal
<1>5. ASSUME DrainInsert
      PROVE  (drainer \in {"ratchet", "lastRatchet"} => \A e \in Held(batch) : InLog(e.seq))'
  <2>1. CASE WriteEnded
    BY <2>1, WriteLeaves
  <2>2. CASE log' = InsertBatch(batch) /\ batch' = batch
    BY <2>2, BatchInserted DEF InLog
  <2> QED
    BY <1>5, <2>1, <2>2 DEF DrainInsert
<1>6. ASSUME DrainRatchet
      PROVE  (drainer \in {"ratchet", "lastRatchet"} => \A e \in Held(batch) : InLog(e.seq))'
  BY <1>6, WriteLeaves DEF DrainRatchet
<1>7. ASSUME NEW k \in Attempts, TaskInsert(k)
      PROVE  (drainer \in {"ratchet", "lastRatchet"} => \A e \in Held(batch) : InLog(e.seq))'
  <2>1. batch' = batch /\ drainer' = drainer
    BY <1>7 DEF TaskInsert, bufferVars
  <2>2. batch \in Seq(Events)
    BY DEF TypeOK
  <2>3. Held(batch) \subseteq Events
    BY <2>2, HeldTyped
  <2>4. \A e \in Held(batch) : e.seq \in 0 .. MaxSeq
    BY <2>3 DEF Events
  <2> QED
    BY <2>1, <2>4, LogKept DEF Durable, InLog
<1>8. CASE UNCHANGED <<log, drainer, batch>>
  BY <1>8 DEF Durable, InLog
<1> QED
  BY <1>1, <1>2, <1>3, <1>4, <1>5, <1>6, <1>7, <1>8
    DEF Next, TaskStep, DrainerStep, Finished, vars, OtherPush, Shutdown,
        TaskChunk, TaskEvent, TaskPushAgain, TaskRatchet, TaskForward,
        TaskBodyEnd, TaskBodyError, TaskCancelled, TaskClose, TaskComplete,
        Disconnect, AskCancel, CancelRow, RetryBump, RetryStart, MarkFailure,
        ReaderList, ReaderCheck, rowVars, bufferVars, taskVars, readerVars,
        otherVars

LEMMA RatchetSteps ==
  ASSUME LogInv, [Next]_vars
  PROVE  \A j \in Attempts : pc'[j] = "ratchet" =>
           /\ cur'[j] = cur[j]
           /\ pc[j] = "ratchet" \/ log' = InsertBatch(<<cur[j]>>)
<1>0. TypeOK /\ Numbers /\ FlushState /\ FlushWaits /\ LogKnown /\ Durable
  BY DEF LogInv
<1> USE <1>0
<1>1. ASSUME DrainFlush
      PROVE  \A j \in Attempts : pc'[j] = "ratchet" =>
           /\ cur'[j] = cur[j]
           /\ pc[j] = "ratchet" \/ log' = InsertBatch(<<cur[j]>>)
  <2>1. \A k \in Attempts : pc'[k] = pc[k] \/ (pc[k] = "wait" /\ pc'[k] = AfterFlush(k))
    BY <1>1, AckedAtOnce DEF DrainFlush
  <2>2. cur' = cur
    BY <1>1 DEF DrainFlush
  <2> QED
    BY <2>1, <2>2 DEF AfterFlush
<1>2. ASSUME DrainFinal
      PROVE  \A j \in Attempts : pc'[j] = "ratchet" =>
           /\ cur'[j] = cur[j]
           /\ pc[j] = "ratchet" \/ log' = InsertBatch(<<cur[j]>>)
  <2>1. \A k \in Attempts : pc'[k] = pc[k] \/ (pc[k] = "wait" /\ pc'[k] = AfterFlush(k))
    BY <1>2, AckedAtOnce DEF DrainFinal
  <2>2. cur' = cur
    BY <1>2 DEF DrainFinal
  <2> QED
    BY <2>1, <2>2 DEF AfterFlush
<1>3. ASSUME DrainInsert
      PROVE  \A j \in Attempts : pc'[j] = "ratchet" =>
           /\ cur'[j] = cur[j]
           /\ pc[j] = "ratchet" \/ log' = InsertBatch(<<cur[j]>>)
  <2>1. \A k \in Attempts : pc'[k] = pc[k] \/ (pc[k] = "wait" /\ pc'[k] = AfterFlush(k))
    BY <1>3, Acked DEF DrainInsert
  <2>2. cur' = cur
    BY <1>3 DEF DrainInsert
  <2> QED
    BY <2>1, <2>2 DEF AfterFlush
<1>4. ASSUME DrainRatchet
      PROVE  \A j \in Attempts : pc'[j] = "ratchet" =>
           /\ cur'[j] = cur[j]
           /\ pc[j] = "ratchet" \/ log' = InsertBatch(<<cur[j]>>)
  <2>1. \A k \in Attempts : pc'[k] = pc[k] \/ (pc[k] = "wait" /\ pc'[k] = AfterFlush(k))
    BY <1>4, Acked DEF DrainRatchet
  <2>2. cur' = cur
    BY <1>4 DEF DrainRatchet
  <2> QED
    BY <2>1, <2>2 DEF AfterFlush
<1>5. ASSUME NEW k \in Attempts, TaskChunk(k)
      PROVE  \A j \in Attempts : pc'[j] = "ratchet" =>
           /\ cur'[j] = cur[j]
           /\ pc[j] = "ratchet" \/ log' = InsertBatch(<<cur[j]>>)
  BY <1>5
    DEF TypeOK, TaskChunk, Chunks, rowVars, bufferVars, taskVars, readerVars,
        otherVars
<1>6. ASSUME NEW k \in Attempts, TaskEvent(k)
      PROVE  \A j \in Attempts : pc'[j] = "ratchet" =>
           /\ cur'[j] = cur[j]
           /\ pc[j] = "ratchet" \/ log' = InsertBatch(<<cur[j]>>)
  <2>1. Pushes(k) \/ Waits(k) \/ GoesOn(k)
    BY <1>6, EventStored
  <2>2. \E x \in {"forward", "wait", "insert"} : pc' = [pc EXCEPT ![k] = x]
    BY <2>1 DEF Pushes, Waits, GoesOn
  <2>3. \A j \in Attempts : j # k => cur'[j] = cur[j]
    BY <1>6 DEF TaskEvent, TypeOK
  <2> QED
    BY <2>2, <2>3 DEF TypeOK
<1>7. ASSUME NEW k \in Attempts, TaskPushAgain(k)
      PROVE  \A j \in Attempts : pc'[j] = "ratchet" =>
           /\ cur'[j] = cur[j]
           /\ pc[j] = "ratchet" \/ log' = InsertBatch(<<cur[j]>>)
  <2>1. Pushes(k) \/ GoesOn(k)
    BY <1>7, AgainStored
  <2>2. \E x \in {"forward", "wait", "insert"} : pc' = [pc EXCEPT ![k] = x]
    BY <2>1 DEF Pushes, Waits, GoesOn
  <2>3. \A j \in Attempts : j # k => cur'[j] = cur[j]
    BY <1>7 DEF TaskPushAgain, TypeOK
  <2> QED
    BY <2>2, <2>3 DEF TypeOK
<1>8. ASSUME NEW k \in Attempts, TaskInsert(k)
      PROVE  \A j \in Attempts : pc'[j] = "ratchet" =>
           /\ cur'[j] = cur[j]
           /\ pc[j] = "ratchet" \/ log' = InsertBatch(<<cur[j]>>)
  BY <1>8
    DEF TypeOK, TaskInsert, DbFault, AfterInsert, rowVars, bufferVars,
        taskVars, readerVars, otherVars
<1>9. ASSUME NEW k \in Attempts, TaskRatchet(k)
      PROVE  \A j \in Attempts : pc'[j] = "ratchet" =>
           /\ cur'[j] = cur[j]
           /\ pc[j] = "ratchet" \/ log' = InsertBatch(<<cur[j]>>)
  BY <1>9
    DEF TypeOK, TaskRatchet, SetLastSequence, DbFault, AfterInsert, rowVars,
        bufferVars, taskVars, readerVars, otherVars
<1>10. ASSUME NEW k \in Attempts, TaskForward(k)
       PROVE  \A j \in Attempts : pc'[j] = "ratchet" =>
           /\ cur'[j] = cur[j]
           /\ pc[j] = "ratchet" \/ log' = InsertBatch(<<cur[j]>>)
  BY <1>10
    DEF TypeOK, TaskForward, rowVars, bufferVars, taskVars, readerVars,
        otherVars
<1>11. ASSUME NEW k \in Attempts, TaskBodyEnd(k)
       PROVE  \A j \in Attempts : pc'[j] = "ratchet" =>
           /\ cur'[j] = cur[j]
           /\ pc[j] = "ratchet" \/ log' = InsertBatch(<<cur[j]>>)
  BY <1>11
    DEF TypeOK, TaskBodyEnd, rowVars, bufferVars, taskVars, readerVars,
        otherVars
<1>12. ASSUME NEW k \in Attempts, TaskBodyError(k)
       PROVE  \A j \in Attempts : pc'[j] = "ratchet" =>
           /\ cur'[j] = cur[j]
           /\ pc[j] = "ratchet" \/ log' = InsertBatch(<<cur[j]>>)
  BY <1>12
    DEF TypeOK, TaskBodyError, rowVars, bufferVars, taskVars, readerVars,
        otherVars
<1>13. ASSUME NEW k \in Attempts, TaskCancelled(k)
       PROVE  \A j \in Attempts : pc'[j] = "ratchet" =>
           /\ cur'[j] = cur[j]
           /\ pc[j] = "ratchet" \/ log' = InsertBatch(<<cur[j]>>)
  BY <1>13
    DEF TypeOK, TaskCancelled, rowVars, bufferVars, taskVars, readerVars,
        otherVars
<1>14. ASSUME NEW k \in Attempts, TaskClose(k)
       PROVE  \A j \in Attempts : pc'[j] = "ratchet" =>
           /\ cur'[j] = cur[j]
           /\ pc[j] = "ratchet" \/ log' = InsertBatch(<<cur[j]>>)
  <2>1. \E x \in {"complete", "insert"} : pc' = [pc EXCEPT ![k] = x]
    BY <1>14 DEF TaskClose
  <2>2. \A j \in Attempts : j # k => cur'[j] = cur[j]
    BY <1>14 DEF TaskClose, TypeOK
  <2> QED
    BY <2>1, <2>2 DEF TypeOK
<1>15. ASSUME NEW k \in Attempts, TaskComplete(k)
       PROVE  \A j \in Attempts : pc'[j] = "ratchet" =>
           /\ cur'[j] = cur[j]
           /\ pc[j] = "ratchet" \/ log' = InsertBatch(<<cur[j]>>)
  BY <1>15
    DEF TypeOK, TaskComplete, DbFault, Outcome, rowVars, bufferVars, taskVars,
        readerVars, otherVars
<1>16. ASSUME NEW k \in Attempts, RetryStart(k)
       PROVE  \A j \in Attempts : pc'[j] = "ratchet" =>
           /\ cur'[j] = cur[j]
           /\ pc[j] = "ratchet" \/ log' = InsertBatch(<<cur[j]>>)
  BY <1>16
    DEF TypeOK, RetryStart, Latest, rowVars, bufferVars, taskVars, readerVars,
        otherVars
<1>17. CASE UNCHANGED <<pc, cur>>
  BY <1>17 DEF TypeOK
<1> QED
  BY <1>1, <1>2, <1>3, <1>4, <1>5, <1>6, <1>7, <1>8, <1>9, <1>10, <1>11,
      <1>12, <1>13, <1>14, <1>15, <1>16, <1>17
    DEF Next, TaskStep, DrainerStep, Finished, vars, DrainRecv, DrainTimeout,
        OtherPush, Shutdown, Disconnect, AskCancel, CancelRow, RetryBump,
        MarkFailure, ReaderList, ReaderCheck, rowVars, bufferVars, taskVars,
        readerVars, otherVars

LEMMA NextDurable ==
  ASSUME LogInv, [Next]_vars
  PROVE  Durable'
<1>0. TypeOK /\ Durable
  BY DEF LogInv
<1>1. \A k \in Attempts : pc'[k] = "ratchet" => InLog(cur[k].seq)'
  <2> SUFFICES ASSUME NEW k \in Attempts, pc'[k] = "ratchet"
               PROVE  cur'[k].seq > 0 => log'[cur'[k].seq] # NoEvent
    BY DEF InLog
  <2>1. cur'[k] = cur[k] /\ (pc[k] = "ratchet" \/ log' = InsertBatch(<<cur[k]>>))
    BY RatchetSteps
  <2>2. cur[k] \in Events /\ log \in [Seqs -> Events]
    BY <1>0 DEF TypeOK
  <2>3. CASE pc[k] = "ratchet"
    <3>1. InLog(cur[k].seq)
      BY <1>0, <2>3 DEF Durable
    <3>2. cur[k].seq \in 0 .. MaxSeq
      BY <2>2 DEF Events
    <3> QED
      BY <1>0, <2>1, <3>1, <3>2, LogKept DEF InLog
  <2>4. CASE log' = InsertBatch(<<cur[k]>>)
    <3> DEFINE q == <<cur[k]>>
    <3>1. q \in Seq(Events) /\ cur[k] \in Held(q) /\ log' = InsertBatch(q)
      BY <2>2, <2>4, HeldOne
    <3> HIDE DEF q
    <3> QED
      BY <2>1, <2>2, <3>1, Inserted
  <2> QED
    BY <2>1, <2>3, <2>4
<1> QED
  BY <1>1, NextLastInLog, NextBatchInLog DEF Durable

LEMMA InitLogInv == Init => LogInv
<1> SUFFICES ASSUME Init PROVE LogInv
  OBVIOUS
<1>1. TypeOK
  BY InitTypes
<1>2. LogKnown
  BY DEF Init, LogKnown
<1>3. Held(channel) = {} /\ Held(batch) = {}
  BY HeldEmpty DEF Init
<1>4. HeldKnown
  BY <1>3 DEF HeldKnown
<1>5. CurKnown
  BY SomeEvents DEF Init, CurKnown, Known
<1>6. Numbers
  <2> SUFFICES ASSUME NEW k \in Attempts PROVE NumbersOf(k)
    BY DEF Numbers
  <2>1. (k - 1) * Room \in Nat
    BY RoomSteps
  <2> QED
    BY <2>1, Bounds DEF Init, NumbersOf, Busy, Closing
<1>7. FlushWaits /\ FlushState
  BY DEF Init, FlushWaits, FlushState, Writing
<1>8. Durable
  BY <1>3 DEF Init, Durable, InLog
<1> QED
  BY <1>1, <1>2, <1>4, <1>5, <1>6, <1>7, <1>8 DEF LogInv

LEMMA NextLogInv == LogInv /\ [Next]_vars => LogInv'
<1> SUFFICES ASSUME LogInv, [Next]_vars PROVE LogInv'
  OBVIOUS
<1>1. TypeOK'
  BY NextTypes DEF LogInv
<1> QED
  BY <1>1, NextLogKnown, NextHeldKnown, NextCurKnown, NextNumbers, NextFlushWaits,
     NextFlushState, NextDurable DEF LogInv

LEMMA LogInvHolds == Spec => []LogInv
  BY InitLogInv, NextLogInv, PTL DEF Spec

\* Every reachable state is well typed: numbers of all attempts fit in the
\* log, although a retry goes on from the row's last_sequence_number.
THEOREM EventLogTyped == Spec => []TypeOK
<1>1. LogInv => TypeOK
  BY DEF LogInv
<1> QED
  BY <1>1, LogInvHolds, PTL

LEMMA LastSeqGrows ==
  ASSUME LogInv, [Next]_vars
  PROVE  lastSeq' >= lastSeq
<1>0. TypeOK /\ FlushState
  BY DEF LogInv
<1>1. lastSeq \in Nat
  BY <1>0, Bounds DEF TypeOK
<1>2. ASSUME DrainRatchet PROVE lastSeq' >= lastSeq
  <2> DEFINE seqs == {batch[i].seq : i \in DOMAIN batch}
             top == CHOOSE s \in seqs : \A t \in seqs : t <= s
  <2>1. top \in 0 .. MaxSeq
    BY <1>0, <1>2, BatchTop DEF DrainRatchet, Writing
  <2>2. lastSeq' = lastSeq \/ lastSeq' = IF top > lastSeq THEN top ELSE lastSeq
    BY <1>2 DEF DrainRatchet, SetLastSequence
  <2> HIDE DEF top
  <2> QED
    BY <1>1, <2>1, <2>2, Bounds
<1>3. ASSUME NEW k \in Attempts, TaskRatchet(k) PROVE lastSeq' >= lastSeq
  <2>1. cur[k].seq \in 0 .. MaxSeq
    BY <1>0 DEF TypeOK, Events
  <2> QED
    BY <1>1, <1>3, <2>1, Bounds DEF TaskRatchet, SetLastSequence
<1>4. CASE lastSeq' = lastSeq
  BY <1>1, <1>4
<1> QED
  BY <1>2, <1>3, <1>4
    DEF Next, TaskStep, DrainerStep, Finished, vars, DrainRecv, DrainTimeout,
        DrainFlush, DrainFinal, DrainInsert, OtherPush, Shutdown, TaskChunk,
        TaskEvent, TaskPushAgain, TaskInsert, TaskForward, TaskBodyEnd,
        TaskBodyError, TaskCancelled, TaskClose, TaskComplete, Disconnect,
        AskCancel, CancelRow, RetryBump, RetryStart, MarkFailure, ReaderList,
        ReaderCheck, rowVars, bufferVars, taskVars, readerVars, otherVars

\* What a reader has been given stays in the log, and last_sequence_number is
\* never ahead of it, whatever attempts collide and statements fail.
THEOREM LogStable == Spec => LogIsStable
<1>1. ASSUME LogInv, LogInv', [Next]_vars
      PROVE  [/\ \A s \in Seqs : log[s] # NoEvent => log'[s] = log[s]
              /\ lastSeq' >= lastSeq
              /\ lastSeq' > 0 => log'[lastSeq'] # NoEvent]_vars
  <2>1. \A s \in Seqs : log[s] # NoEvent => log'[s] = log[s]
    BY <1>1, LogKept DEF LogInv
  <2>2. lastSeq' > 0 => log'[lastSeq'] # NoEvent
    BY <1>1 DEF LogInv, Durable, InLog
  <2> QED
    BY <1>1, <2>1, <2>2, LastSeqGrows
<1> QED
  BY <1>1, LogInvHolds, PTL DEF Spec, LogIsStable

-----------------------------------------------------------------------------
(* A single attempt: the numbers that are still on their way.               *)

\* Events that wait to be written.
Pending ==
  Held(channel) \cup
    (IF drainer \in {"select", "insert", "lastInsert"} THEN Held(batch) ELSE {})

Noise(S) == \A e \in S : e.seq = 0

\* The task has numbered an event that is not stored yet.
Storing == pc[1] \in {"wait", "again", "insert"}
FreshNumber ==
  Storing =>
    /\ \A s \in Seqs : log[s] # NoEvent => s < seqno[1]
    /\ \A e \in Held(channel) \cup Held(batch) : e.seq < seqno[1]

\* A flush leaves nothing of the response behind: what is pushed after the
\* request is taken belongs to other responses, because the task waits.
JustFlushed == pc[1] = "again" \/ (pc[1] = "insert" /\ ~cur[1].synth)
Flushed ==
  /\ 1 \in acking => Noise(Held(channel))
  /\ JustFlushed => Noise(Pending)

OneInv == LogInv /\ FreshNumber /\ Flushed

LEMMA OnlyOne == MaxAttempts = 1 => Attempts = {1} /\ 2 \notin Attempts
  BY DEF Attempts

\* The number at hand is new when the task starts to store an event.
StoreStep ==
  /\ Storing => seqno'[1] = seqno[1]
  /\ Storing' /\ ~Storing =>
       /\ pc[1] \in {"each", "close"} /\ seqno'[1] = seqno[1] + 1
       /\ log' = log /\ channel' = channel /\ batch' = batch

LEMMA StoreBegins ==
  ASSUME MaxAttempts = 1, LogInv, [Next]_vars
  PROVE  StoreStep
<1>0. TypeOK /\ Numbers /\ FlushState /\ FlushWaits /\ LogKnown /\ HeldKnown /\ CurKnown
      /\ Attempts = {1} /\ 2 \notin Attempts
  BY OnlyOne DEF LogInv
<1> USE <1>0
<1>1. ASSUME DrainFlush
      PROVE  StoreStep
  <2>1. \A k \in Attempts : pc'[k] = pc[k] \/ (pc[k] = "wait" /\ pc'[k] = AfterFlush(k))
    BY <1>1, AckedAtOnce DEF DrainFlush
  <2>2. seqno' = seqno
    BY <1>1 DEF DrainFlush
  <2> QED
    BY <2>1, <2>2 DEF Storing, StoreStep
<1>2. ASSUME DrainFinal
      PROVE  StoreStep
  <2>1. \A k \in Attempts : pc'[k] = pc[k] \/ (pc[k] = "wait" /\ pc'[k] = AfterFlush(k))
    BY <1>2, AckedAtOnce DEF DrainFinal
  <2>2. seqno' = seqno
    BY <1>2 DEF DrainFinal
  <2> QED
    BY <2>1, <2>2 DEF Storing, StoreStep
<1>3. ASSUME DrainInsert
      PROVE  StoreStep
  <2>1. \A k \in Attempts : pc'[k] = pc[k] \/ (pc[k] = "wait" /\ pc'[k] = AfterFlush(k))
    BY <1>3, Acked DEF DrainInsert
  <2>2. seqno' = seqno
    BY <1>3 DEF DrainInsert
  <2> QED
    BY <2>1, <2>2 DEF Storing, StoreStep
<1>4. ASSUME DrainRatchet
      PROVE  StoreStep
  <2>1. \A k \in Attempts : pc'[k] = pc[k] \/ (pc[k] = "wait" /\ pc'[k] = AfterFlush(k))
    BY <1>4, Acked DEF DrainRatchet
  <2>2. seqno' = seqno
    BY <1>4 DEF DrainRatchet
  <2> QED
    BY <2>1, <2>2 DEF Storing, StoreStep
<1>5. ASSUME NEW k \in Attempts, TaskChunk(k)
      PROVE  StoreStep
  BY <1>5
    DEF StoreStep, Storing, TypeOK, TaskChunk, Chunks, rowVars, bufferVars,
        taskVars, readerVars, otherVars
<1>6. ASSUME NEW k \in Attempts, TaskEvent(k)
      PROVE  StoreStep
  <2>1. /\ pc[1] = "each" /\ seqno'[1] = seqno[1] + 1
        /\ UNCHANGED <<log, batch>>
    BY <1>6 DEF TaskEvent, TypeOK, rowVars
  <2>2. pc'[1] = "forward" \/ channel' = channel
    BY <1>6, EventStored DEF Pushes, Waits, GoesOn, TypeOK
  <2> QED
    BY <2>1, <2>2 DEF Storing, StoreStep
<1>7. ASSUME NEW k \in Attempts, TaskPushAgain(k)
      PROVE  StoreStep
  <2>1. pc[1] = "again" /\ seqno' = seqno
    BY <1>7 DEF TaskPushAgain
  <2> QED
    BY <2>1 DEF Storing, StoreStep
<1>8. ASSUME NEW k \in Attempts, TaskInsert(k)
      PROVE  StoreStep
  BY <1>8
    DEF StoreStep, Storing, TypeOK, TaskInsert, DbFault, AfterInsert, rowVars,
        bufferVars, taskVars, readerVars, otherVars
<1>9. ASSUME NEW k \in Attempts, TaskRatchet(k)
      PROVE  StoreStep
  BY <1>9
    DEF StoreStep, Storing, TypeOK, TaskRatchet, SetLastSequence, DbFault,
        AfterInsert, rowVars, bufferVars, taskVars, readerVars, otherVars
<1>10. ASSUME NEW k \in Attempts, TaskForward(k)
       PROVE  StoreStep
  BY <1>10
    DEF StoreStep, Storing, TypeOK, TaskForward, rowVars, bufferVars,
        taskVars, readerVars, otherVars
<1>11. ASSUME NEW k \in Attempts, TaskBodyEnd(k)
       PROVE  StoreStep
  BY <1>11
    DEF StoreStep, Storing, TypeOK, TaskBodyEnd, rowVars, bufferVars,
        taskVars, readerVars, otherVars
<1>12. ASSUME NEW k \in Attempts, TaskBodyError(k)
       PROVE  StoreStep
  BY <1>12
    DEF StoreStep, Storing, TypeOK, TaskBodyError, rowVars, bufferVars,
        taskVars, readerVars, otherVars
<1>13. ASSUME NEW k \in Attempts, TaskCancelled(k)
       PROVE  StoreStep
  BY <1>13
    DEF StoreStep, Storing, TypeOK, TaskCancelled, rowVars, bufferVars,
        taskVars, readerVars, otherVars
<1>14. ASSUME NEW k \in Attempts, TaskClose(k)
       PROVE  StoreStep
  <2>1. /\ pc[1] = "close" /\ UNCHANGED <<log, channel, batch>>
    BY <1>14 DEF TaskClose, rowVars, bufferVars
  <2>2. \/ pc'[1] = "complete"
        \/ seqno'[1] = seqno[1] + 1
    BY <1>14 DEF TaskClose, TypeOK
  <2> QED
    BY <2>1, <2>2 DEF Storing, StoreStep
<1>15. ASSUME NEW k \in Attempts, TaskComplete(k)
       PROVE  StoreStep
  BY <1>15
    DEF StoreStep, Storing, TypeOK, TaskComplete, DbFault, Outcome, rowVars,
        bufferVars, taskVars, readerVars, otherVars
<1>16. ASSUME NEW k \in Attempts, RetryStart(k)
       PROVE  StoreStep
  <2>1. k + 1 # 1
    OBVIOUS
  <2>2. pc'[1] = pc[1] /\ seqno'[1] = seqno[1]
    BY <1>16, <2>1 DEF RetryStart, TypeOK
  <2> QED
    BY <2>2 DEF Storing, StoreStep
<1>17. CASE UNCHANGED <<pc, seqno>>
  BY <1>17 DEF StoreStep, Storing, TypeOK
<1> QED
  BY <1>1, <1>2, <1>3, <1>4, <1>5, <1>6, <1>7, <1>8, <1>9, <1>10, <1>11,
      <1>12, <1>13, <1>14, <1>15, <1>16, <1>17
    DEF Next, TaskStep, DrainerStep, Finished, vars, DrainRecv, DrainTimeout,
        OtherPush, Shutdown, Disconnect, AskCancel, CancelRow, RetryBump,
        MarkFailure, ReaderList, ReaderCheck, rowVars, bufferVars, taskVars,
        readerVars, otherVars

LEMMA NextFreshNumber ==
  ASSUME MaxAttempts = 1, OneInv, [Next]_vars
  PROVE  FreshNumber'
<1>0. /\ LogInv /\ TypeOK /\ Numbers /\ FlushState /\ LogKnown /\ HeldKnown /\ CurKnown
      /\ FreshNumber /\ Attempts = {1}
  BY OnlyOne DEF OneInv, LogInv
<1> SUFFICES ASSUME Storing'
             PROVE  /\ \A s \in Seqs : log'[s] # NoEvent => s < seqno'[1]
                    /\ \A e \in Held(channel') \cup Held(batch') : e.seq < seqno'[1]
  BY DEF FreshNumber
<1>1. seqno[1] \in Nat
  BY <1>0, Bounds DEF TypeOK
<1>2. CASE Storing
  <2>1. seqno'[1] = seqno[1]
    BY <1>0, <1>2, StoreBegins DEF StoreStep
  <2>2. seqno[1] > 0
    <3>1. NumbersOf(1) /\ start[1] \in Nat
      BY <1>0, Bounds DEF Numbers, TypeOK
    <3> QED
      BY <1>1, <1>2, <3>1 DEF NumbersOf, Storing, Busy, Closing
  <2>3. ASSUME NEW s \in Seqs, log'[s] # NoEvent PROVE s < seqno[1]
    <3>1. CASE log'[s] = log[s]
      BY <1>0, <1>2, <2>3, <3>1 DEF FreshNumber
    <3>2. CASE log'[s] # log[s]
      <4>1. log'[s].seq = s
        BY <1>0, <3>2, LogSteps
      <4>2. ~\E k \in Attempts : pc'[k] = "ratchet"
        BY <1>0 DEF Storing
      <4>3. log'[s] \in Held(batch)
        BY <1>0, <3>2, <4>2, LogSteps
      <4> QED
        BY <1>0, <1>2, <4>1, <4>3 DEF FreshNumber
    <3> QED
      BY <3>1, <3>2
  <2>4. ~\E k \in Attempts : Pushes(k)
    BY <1>0 DEF Storing, Pushes, TypeOK
  <2>5. Held(channel') \cup Held(batch') \subseteq Held(channel) \cup Held(batch) \cup {NoEvent}
    BY <1>0, <2>4, ChannelSteps, BatchSteps
  <2> QED
    BY <1>0, <1>2, <2>1, <2>2, <2>3, <2>5, SomeEvents DEF FreshNumber
<1>3. CASE ~Storing
  <2>1. seqno'[1] = seqno[1] + 1 /\ UNCHANGED <<log, channel, batch>>
    BY <1>0, <1>3, StoreBegins DEF StoreStep
  <2>2. \A e \in Events : Known(e) => e.seq \in Nat /\ e.seq <= seqno[1]
    BY <1>0, <1>1, SomeEvents, Bounds DEF Known, Events
  <2>3. Held(channel) \cup Held(batch) \subseteq Events
    BY <1>0, HeldTyped DEF TypeOK
  <2>4. \A e \in Held(channel) \cup Held(batch) : e.seq < seqno[1] + 1
    BY <1>0, <1>1, <2>2, <2>3 DEF HeldKnown
  <2>5. \A s \in Seqs : log[s] # NoEvent => s < seqno[1] + 1
    BY <1>0, <1>1, <2>2 DEF LogKnown, TypeOK
  <2> QED
    BY <2>1, <2>4, <2>5
<1> QED
  BY <1>2, <1>3

\* What waits: nothing new but other responses' events, or one pushed event.
PendingStep ==
  \/ Pending' \subseteq Pending \cup {NoEvent}
  \/ \E k \in Attempts : Pushes(k) /\ UNCHANGED <<batch, drainer>>

LEMMA PendingSteps ==
  ASSUME TypeOK, Numbers, FlushState, [Next]_vars
  PROVE  PendingStep
<1>1. ASSUME DrainRecv
      PROVE  PendingStep
  <2>1. drainer = "select" /\ drainer' \in {"select", "insert"}
    BY <1>1 DEF DrainRecv
  <2> QED
    BY <1>1, <2>1, RecvHeld DEF Pending, PendingStep
<1>2. ASSUME DrainTimeout
      PROVE  PendingStep
  BY <1>2 DEF DrainTimeout, Pending, PendingStep
<1>3. ASSUME DrainFlush
      PROVE  PendingStep
  <2>1. drainer = "select"
    BY <1>3 DEF DrainFlush
  <2> QED
    BY <1>3, <2>1, DrainedHeld DEF Pending, PendingStep
<1>4. ASSUME DrainFinal
      PROVE  PendingStep
  <2>1. drainer = "select"
    BY <1>4 DEF DrainFinal
  <2> QED
    BY <1>4, <2>1, DrainedHeld DEF Pending, PendingStep
<1>5. ASSUME DrainInsert
      PROVE  PendingStep
  <2>1. CASE WriteEnded
    BY <2>1, WrittenHeld DEF Pending, PendingStep
  <2>2. CASE channel' = channel /\ batch' = batch /\ drainer' \in {"ratchet", "lastRatchet"}
    BY <2>2 DEF Pending, PendingStep
  <2> QED
    BY <1>5, <2>1, <2>2 DEF DrainInsert
<1>6. ASSUME DrainRatchet
      PROVE  PendingStep
  <2>1. WriteEnded
    BY <1>6 DEF DrainRatchet
  <2> QED
    BY <2>1, WrittenHeld DEF Pending, PendingStep
<1>7. ASSUME OtherPush
      PROVE  PendingStep
  <2>1. batch' = batch /\ drainer' = drainer
    BY <1>7 DEF OtherPush
  <2> QED
    BY <1>7, <2>1, NoiseHeld DEF Pending, PendingStep
<1>8. ASSUME NEW k \in Attempts, TaskEvent(k)
      PROVE  PendingStep
  <2>1. Pushes(k) \/ channel' = channel
    BY <1>8, EventStored DEF Waits, GoesOn
  <2>2. batch' = batch /\ drainer' = drainer
    BY <1>8 DEF TaskEvent
  <2> QED
    BY <2>1, <2>2 DEF Pending, PendingStep
<1>9. ASSUME NEW k \in Attempts, TaskPushAgain(k)
      PROVE  PendingStep
  <2>1. Pushes(k) \/ channel' = channel
    BY <1>9, AgainStored DEF GoesOn
  <2>2. batch' = batch /\ drainer' = drainer
    BY <1>9 DEF TaskPushAgain
  <2> QED
    BY <2>1, <2>2 DEF Pending, PendingStep
<1>10. CASE UNCHANGED <<channel, batch, drainer>>
  BY <1>10 DEF Pending, PendingStep
<1> QED
  BY <1>1, <1>2, <1>3, <1>4, <1>5, <1>6, <1>7, <1>8, <1>9, <1>10
    DEF Next, TaskStep, DrainerStep, Finished, vars, Shutdown, TaskChunk,
        TaskInsert, TaskRatchet, TaskForward, TaskBodyEnd, TaskBodyError,
        TaskCancelled, TaskClose, TaskComplete, Disconnect, AskCancel,
        CancelRow, RetryBump, RetryStart, MarkFailure, ReaderList,
        ReaderCheck, rowVars, bufferVars, taskVars, readerVars, otherVars

LEMMA WrittenFlushes ==
  ASSUME MaxAttempts = 1, OneInv, WriteEnded, pc'[1] # pc[1]
  PROVE  Noise(Pending)'
<1>0. TypeOK /\ FlushWaits /\ Flushed /\ 1 \in Attempts
  BY OnlyOne DEF OneInv, LogInv
<1>1. Held(batch') = {}
  BY <1>0, WrittenHeld
<1>2. CASE drainer \in {"lastInsert", "lastRatchet"}
  <2>1. Held(channel') = {}
    BY <1>2, HeldEmpty DEF WriteEnded
  <2> QED
    BY <1>1, <2>1 DEF Noise, Pending
<1>3. CASE drainer \notin {"lastInsert", "lastRatchet"}
  <2>1. channel' = channel /\ Acknowledge(acking \cup {})
    BY <1>3 DEF WriteEnded
  <2>2. 1 \in acking
    BY <1>0, <2>1, AckMoves
  <2> QED
    BY <1>0, <1>1, <2>1, <2>2 DEF Flushed, Noise, Pending
<1> QED
  BY <1>2, <1>3

LEMMA FlushEnds ==
  ASSUME MaxAttempts = 1, OneInv, [Next]_vars
  PROVE  pc[1] \notin {"again", "insert"} /\ JustFlushed' => Noise(Pending)'
<1>0. TypeOK /\ Numbers /\ FlushState /\ FlushWaits /\ LogKnown /\ HeldKnown /\ CurKnown
      /\ Attempts = {1} /\ 2 \notin Attempts
  BY OnlyOne DEF OneInv, LogInv
<1> USE <1>0
<1>1. ASSUME DrainFlush
      PROVE  pc[1] \notin {"again", "insert"} /\ JustFlushed' => Noise(Pending)'
  <2>1. pc'[1] = pc[1] \/ (Held(batch') = {} /\ Held(channel') = {})
    BY <1>1, HeldEmpty DEF DrainFlush
  <2> QED
    BY <2>1 DEF JustFlushed, Noise, Pending
<1>2. ASSUME DrainFinal
      PROVE  pc[1] \notin {"again", "insert"} /\ JustFlushed' => Noise(Pending)'
  <2>1. pc'[1] = pc[1] \/ (Held(batch') = {} /\ Held(channel') = {})
    BY <1>2, HeldEmpty DEF DrainFinal
  <2> QED
    BY <2>1 DEF JustFlushed, Noise, Pending
<1>3. ASSUME DrainInsert
      PROVE  pc[1] \notin {"again", "insert"} /\ JustFlushed' => Noise(Pending)'
  <2>1. CASE pc'[1] = pc[1]
    BY <2>1 DEF JustFlushed
  <2>2. CASE WriteEnded /\ pc'[1] # pc[1]
    BY <2>2, WrittenFlushes
  <2> QED
    BY <1>3, <2>1, <2>2 DEF DrainInsert
<1>4. ASSUME DrainRatchet
      PROVE  pc[1] \notin {"again", "insert"} /\ JustFlushed' => Noise(Pending)'
  <2>1. CASE pc'[1] = pc[1]
    BY <2>1 DEF JustFlushed
  <2>2. CASE WriteEnded /\ pc'[1] # pc[1]
    BY <2>2, WrittenFlushes
  <2> QED
    BY <1>4, <2>1, <2>2 DEF DrainRatchet
<1>5. ASSUME NEW k \in Attempts, TaskChunk(k)
      PROVE  pc[1] \notin {"again", "insert"} /\ JustFlushed' => Noise(Pending)'
  BY <1>5
    DEF JustFlushed, TypeOK, TaskChunk, Chunks, rowVars, bufferVars, taskVars,
        readerVars, otherVars
<1>6. ASSUME NEW k \in Attempts, TaskEvent(k)
      PROVE  pc[1] \notin {"again", "insert"} /\ JustFlushed' => Noise(Pending)'
  <2>1. CASE pc'[1] \in {"forward", "wait"}
    BY <2>1 DEF JustFlushed
  <2>2. CASE drainer = "exited" /\ channel' = channel
    <3>1. batch' = batch /\ batch = <<>> /\ channel = <<>>
      BY <1>6, <2>2 DEF FlushState, TaskEvent
    <3> QED
      BY <2>2, <3>1, HeldEmpty DEF Noise, Pending
  <2>3. pc[1] = "each" /\ (Pushes(1) \/ Waits(1) \/ GoesOn(1))
    BY <1>6, EventStored
  <2> QED
    BY <2>1, <2>2, <2>3 DEF Pushes, Waits, GoesOn, TypeOK
<1>7. ASSUME NEW k \in Attempts, TaskPushAgain(k)
      PROVE  pc[1] \notin {"again", "insert"} /\ JustFlushed' => Noise(Pending)'
  BY <1>7 DEF TaskPushAgain
<1>8. ASSUME NEW k \in Attempts, TaskInsert(k)
      PROVE  pc[1] \notin {"again", "insert"} /\ JustFlushed' => Noise(Pending)'
  BY <1>8
    DEF JustFlushed, TypeOK, TaskInsert, DbFault, AfterInsert, rowVars,
        bufferVars, taskVars, readerVars, otherVars
<1>9. ASSUME NEW k \in Attempts, TaskRatchet(k)
      PROVE  pc[1] \notin {"again", "insert"} /\ JustFlushed' => Noise(Pending)'
  BY <1>9
    DEF JustFlushed, TypeOK, TaskRatchet, SetLastSequence, DbFault,
        AfterInsert, rowVars, bufferVars, taskVars, readerVars, otherVars
<1>10. ASSUME NEW k \in Attempts, TaskForward(k)
       PROVE  pc[1] \notin {"again", "insert"} /\ JustFlushed' => Noise(Pending)'
  BY <1>10
    DEF JustFlushed, TypeOK, TaskForward, rowVars, bufferVars, taskVars,
        readerVars, otherVars
<1>11. ASSUME NEW k \in Attempts, TaskBodyEnd(k)
       PROVE  pc[1] \notin {"again", "insert"} /\ JustFlushed' => Noise(Pending)'
  BY <1>11
    DEF JustFlushed, TypeOK, TaskBodyEnd, rowVars, bufferVars, taskVars,
        readerVars, otherVars
<1>12. ASSUME NEW k \in Attempts, TaskBodyError(k)
       PROVE  pc[1] \notin {"again", "insert"} /\ JustFlushed' => Noise(Pending)'
  BY <1>12
    DEF JustFlushed, TypeOK, TaskBodyError, rowVars, bufferVars, taskVars,
        readerVars, otherVars
<1>13. ASSUME NEW k \in Attempts, TaskCancelled(k)
       PROVE  pc[1] \notin {"again", "insert"} /\ JustFlushed' => Noise(Pending)'
  BY <1>13
    DEF JustFlushed, TypeOK, TaskCancelled, rowVars, bufferVars, taskVars,
        readerVars, otherVars
<1>14. ASSUME NEW k \in Attempts, TaskClose(k)
       PROVE  pc[1] \notin {"again", "insert"} /\ JustFlushed' => Noise(Pending)'
  <2>1. pc[1] = "close" /\ (pc'[1] = "complete" \/ (pc'[1] = "insert" /\ cur'[1].synth = TRUE))
    BY <1>14 DEF TaskClose, TypeOK
  <2> QED
    BY <2>1 DEF JustFlushed
<1>15. ASSUME NEW k \in Attempts, TaskComplete(k)
       PROVE  pc[1] \notin {"again", "insert"} /\ JustFlushed' => Noise(Pending)'
  BY <1>15
    DEF JustFlushed, TypeOK, TaskComplete, DbFault, Outcome, rowVars,
        bufferVars, taskVars, readerVars, otherVars
<1>16. ASSUME NEW k \in Attempts, RetryStart(k)
       PROVE  pc[1] \notin {"again", "insert"} /\ JustFlushed' => Noise(Pending)'
  <2>1. k + 1 # 1
    OBVIOUS
  <2>2. pc'[1] = pc[1]
    BY <1>16, <2>1 DEF RetryStart, TypeOK
  <2> QED
    BY <2>2 DEF JustFlushed
<1>17. CASE UNCHANGED <<pc, cur>>
  BY <1>17 DEF JustFlushed, TypeOK
<1> QED
  BY <1>1, <1>2, <1>3, <1>4, <1>5, <1>6, <1>7, <1>8, <1>9, <1>10, <1>11,
      <1>12, <1>13, <1>14, <1>15, <1>16, <1>17
    DEF Next, TaskStep, DrainerStep, Finished, vars, DrainRecv, DrainTimeout,
        OtherPush, Shutdown, Disconnect, AskCancel, CancelRow, RetryBump,
        MarkFailure, ReaderList, ReaderCheck, rowVars, bufferVars, taskVars,
        readerVars, otherVars

LEMMA AgainSteps ==
  ASSUME MaxAttempts = 1, LogInv, [Next]_vars
  PROVE  pc'[1] = "again" => pc[1] \in {"again", "wait"}
<1>0. TypeOK /\ Numbers /\ FlushState /\ FlushWaits /\ LogKnown /\ HeldKnown /\ CurKnown
      /\ Attempts = {1} /\ 2 \notin Attempts
  BY OnlyOne DEF LogInv
<1> USE <1>0
<1>1. ASSUME DrainFlush
      PROVE  pc'[1] = "again" => pc[1] \in {"again", "wait"}
  <2>1. \A k \in Attempts : pc'[k] = pc[k] \/ (pc[k] = "wait" /\ pc'[k] = AfterFlush(k))
    BY <1>1, AckedAtOnce DEF DrainFlush
  <2> QED
    BY <2>1
<1>2. ASSUME DrainFinal
      PROVE  pc'[1] = "again" => pc[1] \in {"again", "wait"}
  <2>1. \A k \in Attempts : pc'[k] = pc[k] \/ (pc[k] = "wait" /\ pc'[k] = AfterFlush(k))
    BY <1>2, AckedAtOnce DEF DrainFinal
  <2> QED
    BY <2>1
<1>3. ASSUME DrainInsert
      PROVE  pc'[1] = "again" => pc[1] \in {"again", "wait"}
  <2>1. \A k \in Attempts : pc'[k] = pc[k] \/ (pc[k] = "wait" /\ pc'[k] = AfterFlush(k))
    BY <1>3, Acked DEF DrainInsert
  <2> QED
    BY <2>1
<1>4. ASSUME DrainRatchet
      PROVE  pc'[1] = "again" => pc[1] \in {"again", "wait"}
  <2>1. \A k \in Attempts : pc'[k] = pc[k] \/ (pc[k] = "wait" /\ pc'[k] = AfterFlush(k))
    BY <1>4, Acked DEF DrainRatchet
  <2> QED
    BY <2>1
<1>5. ASSUME NEW k \in Attempts, TaskChunk(k)
      PROVE  pc'[1] = "again" => pc[1] \in {"again", "wait"}
  BY <1>5
    DEF TypeOK, TaskChunk, Chunks, rowVars, bufferVars, taskVars, readerVars,
        otherVars
<1>6. ASSUME NEW k \in Attempts, TaskEvent(k)
      PROVE  pc'[1] = "again" => pc[1] \in {"again", "wait"}
  BY <1>6, EventStored DEF Pushes, Waits, GoesOn, TypeOK
<1>7. ASSUME NEW k \in Attempts, TaskPushAgain(k)
      PROVE  pc'[1] = "again" => pc[1] \in {"again", "wait"}
  BY <1>7, AgainStored
<1>8. ASSUME NEW k \in Attempts, TaskInsert(k)
      PROVE  pc'[1] = "again" => pc[1] \in {"again", "wait"}
  BY <1>8
    DEF TypeOK, TaskInsert, DbFault, AfterInsert, rowVars, bufferVars,
        taskVars, readerVars, otherVars
<1>9. ASSUME NEW k \in Attempts, TaskRatchet(k)
      PROVE  pc'[1] = "again" => pc[1] \in {"again", "wait"}
  BY <1>9
    DEF TypeOK, TaskRatchet, SetLastSequence, DbFault, AfterInsert, rowVars,
        bufferVars, taskVars, readerVars, otherVars
<1>10. ASSUME NEW k \in Attempts, TaskForward(k)
       PROVE  pc'[1] = "again" => pc[1] \in {"again", "wait"}
  BY <1>10
    DEF TypeOK, TaskForward, rowVars, bufferVars, taskVars, readerVars,
        otherVars
<1>11. ASSUME NEW k \in Attempts, TaskBodyEnd(k)
       PROVE  pc'[1] = "again" => pc[1] \in {"again", "wait"}
  BY <1>11
    DEF TypeOK, TaskBodyEnd, rowVars, bufferVars, taskVars, readerVars,
        otherVars
<1>12. ASSUME NEW k \in Attempts, TaskBodyError(k)
       PROVE  pc'[1] = "again" => pc[1] \in {"again", "wait"}
  BY <1>12
    DEF TypeOK, TaskBodyError, rowVars, bufferVars, taskVars, readerVars,
        otherVars
<1>13. ASSUME NEW k \in Attempts, TaskCancelled(k)
       PROVE  pc'[1] = "again" => pc[1] \in {"again", "wait"}
  BY <1>13
    DEF TypeOK, TaskCancelled, rowVars, bufferVars, taskVars, readerVars,
        otherVars
<1>14. ASSUME NEW k \in Attempts, TaskClose(k)
       PROVE  pc'[1] = "again" => pc[1] \in {"again", "wait"}
  BY <1>14 DEF TaskClose, TypeOK
<1>15. ASSUME NEW k \in Attempts, TaskComplete(k)
       PROVE  pc'[1] = "again" => pc[1] \in {"again", "wait"}
  BY <1>15
    DEF TypeOK, TaskComplete, DbFault, Outcome, rowVars, bufferVars, taskVars,
        readerVars, otherVars
<1>16. ASSUME NEW k \in Attempts, RetryStart(k)
       PROVE  pc'[1] = "again" => pc[1] \in {"again", "wait"}
  <2>1. k + 1 # 1
    OBVIOUS
  <2>2. pc'[1] = pc[1]
    BY <1>16, <2>1 DEF RetryStart, TypeOK
  <2> QED
    BY <2>2
<1>17. CASE UNCHANGED <<pc>>
  BY <1>17 DEF TypeOK
<1> QED
  BY <1>1, <1>2, <1>3, <1>4, <1>5, <1>6, <1>7, <1>8, <1>9, <1>10, <1>11,
      <1>12, <1>13, <1>14, <1>15, <1>16, <1>17
    DEF Next, TaskStep, DrainerStep, Finished, vars, DrainRecv, DrainTimeout,
        OtherPush, Shutdown, Disconnect, AskCancel, CancelRow, RetryBump,
        MarkFailure, ReaderList, ReaderCheck, rowVars, bufferVars, taskVars,
        readerVars, otherVars

LEMMA FlushKept ==
  ASSUME MaxAttempts = 1, OneInv, [Next]_vars, JustFlushed', pc[1] \in {"again", "insert"}
  PROVE  JustFlushed /\ ~Pushes(1)
<1>0. LogInv /\ TypeOK /\ Numbers /\ FlushState /\ 1 \in Attempts
  BY OnlyOne DEF OneInv, LogInv
<1>1. ~Pushes(1)
  BY <1>0 DEF Pushes, JustFlushed, TypeOK
<1>2. cur'[1] = cur[1]
  BY <1>0, CurSteps
<1>3. CASE pc[1] = "insert" /\ cur[1].synth
  <2>1. pc'[1] = "again"
    BY <1>2, <1>3 DEF JustFlushed
  <2> QED
    BY <1>0, <1>3, <2>1, AgainSteps
<1> QED
  BY <1>1, <1>3 DEF JustFlushed

LEMMA AckingSteps ==
  ASSUME TypeOK, [Next]_vars
  PROVE  1 \in acking' => 1 \in acking \/ Held(channel') = {}
<1>1. ASSUME DrainFlush
      PROVE  1 \in acking' => 1 \in acking \/ Held(channel') = {}
  BY <1>1, DrainedHeld
<1>2. ASSUME DrainInsert
      PROVE  1 \in acking' => 1 \in acking \/ Held(channel') = {}
  BY <1>2, WriteLeaves DEF DrainInsert
<1>3. ASSUME DrainRatchet
      PROVE  1 \in acking' => 1 \in acking \/ Held(channel') = {}
  BY <1>3, WriteLeaves DEF DrainRatchet
<1>4. CASE UNCHANGED <<acking>>
  BY <1>4
<1> QED
  BY <1>1, <1>2, <1>3, <1>4
    DEF Next, TaskStep, DrainerStep, Finished, vars, DrainRecv, DrainTimeout,
        DrainFinal, OtherPush, Shutdown, TaskChunk, TaskEvent, TaskPushAgain,
        TaskInsert, TaskRatchet, TaskForward, TaskBodyEnd, TaskBodyError,
        TaskCancelled, TaskClose, TaskComplete, Disconnect, AskCancel,
        CancelRow, RetryBump, RetryStart, MarkFailure, ReaderList,
        ReaderCheck, rowVars, bufferVars, taskVars, readerVars, otherVars

LEMMA NextFlushed ==
  ASSUME MaxAttempts = 1, OneInv, [Next]_vars
  PROVE  Flushed'
<1>0. /\ LogInv /\ TypeOK /\ Numbers /\ FlushState /\ FlushWaits /\ Flushed
      /\ Attempts = {1}
  BY OnlyOne DEF OneInv, LogInv
<1>1. ASSUME 1 \in acking' PROVE Noise(Held(channel'))
  <2>1. CASE Held(channel') = {}
    BY <2>1 DEF Noise
  <2>2. CASE 1 \in acking
    <3>1. pc[1] = "wait" /\ Noise(Held(channel))
      BY <1>0, <2>2 DEF FlushWaits, Flushed
    <3>2. Held(channel') \subseteq Held(channel) \cup {NoEvent}
      BY <1>0, <3>1, ChannelSteps
    <3> QED
      BY <3>1, <3>2, SomeEvents DEF Noise
  <2> QED
    BY <1>0, <1>1, <2>1, <2>2, AckingSteps
<1>2. ASSUME JustFlushed' PROVE Noise(Pending)'
  <2>1. CASE pc[1] \notin {"again", "insert"}
    BY <1>2, <2>1, FlushEnds
  <2>2. CASE pc[1] \in {"again", "insert"}
    <3>1. Noise(Pending) /\ ~\E k \in Attempts : Pushes(k)
      BY <1>0, <1>2, <2>2, FlushKept DEF Flushed
    <3>2. Pending' \subseteq Pending \cup {NoEvent}
      BY <1>0, <3>1, PendingSteps DEF PendingStep
    <3>3. \A e \in Pending' : e.seq = 0
      BY <3>1, <3>2, SomeEvents DEF Noise
    <3> QED
      BY <3>3 DEF Noise
  <2> QED
    BY <2>1, <2>2
<1> QED
  BY <1>1, <1>2 DEF Flushed, Noise

LEMMA OneInvHolds ==
  ASSUME MaxAttempts = 1
  PROVE  Spec => []OneInv
<1>1. Init => OneInv
  <2> SUFFICES ASSUME Init PROVE OneInv
    OBVIOUS
  <2>1. LogInv /\ Attempts = {1}
    BY InitLogInv, OnlyOne
  <2>2. FreshNumber /\ Flushed
    BY <2>1 DEF Init, FreshNumber, Storing, Flushed, JustFlushed
  <2> QED
    BY <2>1, <2>2 DEF OneInv
<1>2. OneInv /\ [Next]_vars => OneInv'
  BY NextLogInv, NextFreshNumber, NextFlushed DEF OneInv
<1> QED
  BY <1>1, <1>2, PTL DEF Spec

-----------------------------------------------------------------------------
(* The row's status and the log.                                            *)

LEMMA NoFault == MaxFaults = 0 /\ TypeOK => ~DbFault
  BY DEF TypeOK, DbFault

\* A synchronous insert of a fresh number stores the event at hand.
LEMMA CurLogged ==
  ASSUME MaxAttempts = 1, OneInv, pc[1] = "insert", log' = InsertBatch(<<cur[1]>>)
  PROVE  /\ seqno[1] \in Seqs /\ cur[1].seq = seqno[1]
         /\ log[seqno[1]] = NoEvent /\ log'[seqno[1]] = cur[1]
         /\ \A s \in Seqs : s # seqno[1] => log'[s] = log[s]
<1>0. TypeOK /\ FreshNumber /\ NumbersOf(1) /\ 1 \in Attempts
  BY OnlyOne DEF OneInv, LogInv, Numbers
<1>1. cur[1] \in Events /\ log \in [Seqs -> Events] /\ seqno[1] \in 0 .. MaxSeq /\ start[1] \in Nat
  BY <1>0, Bounds DEF TypeOK
<1>2. cur[1].seq = seqno[1] /\ seqno[1] > start[1]
  BY <1>0 DEF NumbersOf, Busy, Closing
<1>3. seqno[1] \in Seqs
  BY <1>1, <1>2, Bounds DEF Seqs
<1>4. log[seqno[1]] = NoEvent
  BY <1>0, <1>3, Bounds DEF FreshNumber, Storing, Seqs
<1> DEFINE q == <<cur[1]>>
<1>5. q \in Seq(Events) /\ Held(q) = {cur[1]} /\ log' = InsertBatch(q)
  BY <1>1, HeldOne
<1> HIDE DEF q
<1>6. log'[seqno[1]] = cur[1]
  <2>1. log'[cur[1].seq] # NoEvent
    BY <1>1, <1>2, <1>5, Inserted, Bounds
  <2> QED
    BY <1>1, <1>2, <1>3, <1>4, <1>5, <2>1, Inserted
<1>7. \A s \in Seqs : s # seqno[1] => log'[s] = log[s]
  BY <1>1, <1>2, <1>5, Inserted
<1> QED
  BY <1>2, <1>3, <1>4, <1>6, <1>7

\* The kinds of the events in the log.
Told == {log[s].kind : s \in Seqs}

LEMMA ToldKept ==
  ASSUME TypeOK, [Next]_vars
  PROVE  \A x \in Told : x # "delta" => x \in Told'
<1> SUFFICES ASSUME NEW x \in Told, x # "delta" PROVE x \in Told'
  OBVIOUS
<1>1. PICK s \in Seqs : x = log[s].kind
  BY DEF Told
<1>2. log'[s] = log[s]
  BY <1>1, LogKept, SomeEvents
<1> QED
  BY <1>1, <1>2 DEF Told

\* The first terminal event on its way from the task to the log, and the
\* made-up one.
StatusInv ==
  /\ captured[1] # "none" =>
       \/ persisted[1] /\ captured[1] \in Told
       \/ pc[1] \in {"wait", "insert"} /\ ~cur[1].synth /\ cur[1].kind = captured[1]
       \/ /\ pc[1] = "ratchet" /\ ~cur[1].synth /\ cur[1].kind # "delta"
          /\ captured[1] \in Told
  /\ persisted[1] => captured[1] # "none"
  /\ Busy(1) /\ cur[1].kind # "delta" => captured[1] # "none"
  /\ Closing(1) => cur[1].kind = Outcome(1)
  /\ pc[1] = "ratchet" /\ cur[1].synth => Outcome(1) \in Told
  /\ pc[1] = "complete" /\ ~cancelled[1] => Outcome(1) \in Told
  /\ pc[1] # "errored"
  /\ status \in Terminal \ {"cancelled"} => status \in Told

\* A terminal event is never just pushed.
LEMMA ForwardIsDelta ==
  ASSUME TypeOK, NEW k \in Attempts, TaskEvent(k), pc'[k] = "forward"
  PROVE  cur'[k].kind = "delta"
<1>1. Head(chunk[k]) # "delta" => pc'[k] # "forward"
  BY DEF TaskEvent, StoreEvent, RequestFlush, TypeOK
<1>2. cur'[k].kind = Head(chunk[k])
  BY DEF TaskEvent, TypeOK
<1> QED
  BY <1>1, <1>2

LEMMA NextStatusInv ==
  ASSUME MaxAttempts = 1, MaxFaults = 0, "error" \notin Disturbances,
         OneInv, StatusInv, [Next]_vars
  PROVE  StatusInv'
<1>0. /\ LogInv /\ TypeOK /\ Numbers /\ FlushState /\ FlushWaits /\ Attempts = {1}
      /\ captured[1] \in Ends \cup {"none"}
  BY OnlyOne DEF OneInv, LogInv, TypeOK
<1>a. /\ ~DbFault /\ NumbersOf(1)
      /\ \A x \in Told : x # "delta" => x \in Told'
  BY <1>0, NoFault, ToldKept DEF Numbers
<1>b. Outcome(1) \in Terminal /\ "delta" \notin Terminal
  BY <1>0, SomeEvents DEF Outcome, Terminal
<1> USE <1>0, <1>a, <1>b, SomeEvents
<1>1. ASSUME DrainFlush
      PROVE  StatusInv'
  <2>1. pc'[1] = pc[1] \/ (pc[1] = "wait" /\ pc'[1] = AfterFlush(1))
    BY <1>1, AckedAtOnce DEF DrainFlush
  <2>2. UNCHANGED <<cur, captured, persisted, cancelled, status>>
    BY <1>1 DEF DrainFlush, rowVars
  <2> QED
    BY <2>1, <2>2 DEF StatusInv, Busy, Closing, Outcome, NumbersOf, AfterFlush
<1>2. ASSUME DrainFinal
      PROVE  StatusInv'
  <2>1. pc'[1] = pc[1] \/ (pc[1] = "wait" /\ pc'[1] = AfterFlush(1))
    BY <1>2, AckedAtOnce DEF DrainFinal
  <2>2. UNCHANGED <<cur, captured, persisted, cancelled, status>>
    BY <1>2 DEF DrainFinal, rowVars
  <2> QED
    BY <2>1, <2>2 DEF StatusInv, Busy, Closing, Outcome, NumbersOf, AfterFlush
<1>3. ASSUME DrainInsert
      PROVE  StatusInv'
  <2>1. pc'[1] = pc[1] \/ (pc[1] = "wait" /\ pc'[1] = AfterFlush(1))
    BY <1>3, Acked DEF DrainInsert
  <2>2. UNCHANGED <<cur, captured, persisted, cancelled, status>>
    BY <1>3 DEF DrainInsert, rowVars
  <2> QED
    BY <2>1, <2>2 DEF StatusInv, Busy, Closing, Outcome, NumbersOf, AfterFlush
<1>4. ASSUME DrainRatchet
      PROVE  StatusInv'
  <2>1. pc'[1] = pc[1] \/ (pc[1] = "wait" /\ pc'[1] = AfterFlush(1))
    BY <1>4, Acked DEF DrainRatchet
  <2>2. UNCHANGED <<cur, captured, persisted, cancelled, status>>
    BY <1>4 DEF DrainRatchet, rowVars
  <2> QED
    BY <2>1, <2>2 DEF StatusInv, Busy, Closing, Outcome, NumbersOf, AfterFlush
<1>5. ASSUME NEW k \in Attempts, TaskChunk(k)
      PROVE  StatusInv'
  <2>1. pc[1] = "recv" /\ pc'[1] = "each"
    BY <1>5 DEF TaskChunk, TypeOK
  <2>2. UNCHANGED <<cur, captured, persisted, cancelled, status>>
    BY <1>5 DEF TaskChunk, rowVars, taskVars
  <2> QED
    BY <2>1, <2>2 DEF StatusInv, Busy, Closing, Outcome
<1>6. ASSUME NEW k \in Attempts, TaskEvent(k)
      PROVE  StatusInv'
  <2>1. /\ pc[1] = "each" /\ cur'[1].kind = Head(chunk[1]) /\ cur'[1].synth = FALSE
        /\ Pushes(1) \/ Waits(1) \/ GoesOn(1)
        /\ Pushes(1) => cur'[1].kind = "delta"
    BY <1>6, EventStored
  <2>2. pc'[1] \in {"forward", "wait", "insert"}
    BY <2>1 DEF Pushes, Waits, GoesOn, TypeOK
  <2>3. pc'[1] = "forward" => cur'[1].kind = "delta"
    BY <1>6, ForwardIsDelta
  <2>4. captured'[1] = IF captured[1] = "none" /\ cur'[1].kind # "delta" THEN cur'[1].kind
                       ELSE captured[1]
    BY <1>6, <2>1 DEF TaskEvent, Capture, TypeOK
  <2>5. UNCHANGED <<persisted, cancelled, status>>
    BY <1>6 DEF TaskEvent, rowVars
  <2>6. captured[1] # "none" => persisted[1] /\ captured[1] \in Told
    BY <2>1 DEF StatusInv
  <2>7. cur'[1].kind \in Kinds
    BY <2>1, HeadTailProperties DEF NumbersOf, TypeOK
  <2> QED
    BY <2>1, <2>2, <2>3, <2>4, <2>5, <2>6, <2>7 DEF StatusInv, Busy, Closing, Outcome
<1>7. ASSUME NEW k \in Attempts, TaskPushAgain(k)
      PROVE  StatusInv'
  <2>1. pc[1] = "again" /\ (Pushes(1) \/ GoesOn(1)) /\ cur[1].kind = "delta" /\ ~cur[1].synth
    BY <1>7, AgainStored DEF NumbersOf, Busy
  <2>2. pc'[1] \in {"forward", "insert"}
    BY <2>1 DEF Pushes, GoesOn, TypeOK
  <2>3. UNCHANGED <<cur, captured, persisted, cancelled, status>>
    BY <1>7 DEF TaskPushAgain, rowVars
  <2> QED
    BY <2>1, <2>2, <2>3 DEF StatusInv, Busy, Closing, Outcome
<1>8. ASSUME NEW k \in Attempts, TaskInsert(k)
      PROVE  StatusInv'
  <2>1. pc[1] = "insert" /\ pc'[1] = "ratchet" /\ log' = InsertBatch(<<cur[1]>>)
    BY <1>8 DEF TaskInsert, TypeOK
  <2>2. UNCHANGED <<cur, captured, persisted, cancelled, status>>
    BY <1>8 DEF TaskInsert
  <2>3. cur[1].kind \in Told'
    BY <2>1, CurLogged DEF Told
  <2> QED
    BY <2>1, <2>2, <2>3 DEF StatusInv, Busy, Closing, Outcome
<1>9. ASSUME NEW k \in Attempts, TaskRatchet(k)
      PROVE  StatusInv'
  <2>1. pc[1] = "ratchet" /\ pc'[1] = AfterInsert(1)
    BY <1>9 DEF TaskRatchet, TypeOK
  <2>2. UNCHANGED <<cur, captured, cancelled, status>>
    BY <1>9 DEF TaskRatchet
  <2>3. persisted'[1] = (persisted[1] \/ (cur[1].kind # "delta" /\ ~cur[1].synth))
    BY <1>9 DEF TaskRatchet, TypeOK
  <2> QED
    BY <2>1, <2>2, <2>3 DEF StatusInv, Busy, Closing, Outcome, AfterInsert
<1>10. ASSUME NEW k \in Attempts, TaskForward(k)
       PROVE  StatusInv'
  <2>1. pc[1] = "forward" /\ pc'[1] \in {"recv", "each"}
    BY <1>10 DEF TaskForward, TypeOK
  <2>2. UNCHANGED <<cur, captured, persisted, cancelled, status>>
    BY <1>10 DEF TaskForward, rowVars
  <2> QED
    BY <2>1, <2>2 DEF StatusInv, Busy, Closing, Outcome
<1>11. ASSUME NEW k \in Attempts, TaskBodyEnd(k)
       PROVE  StatusInv'
  <2>1. pc[1] = "recv" /\ pc'[1] = "close"
    BY <1>11 DEF TaskBodyEnd, TypeOK
  <2>2. UNCHANGED <<cur, captured, persisted, cancelled, status>>
    BY <1>11 DEF TaskBodyEnd, rowVars, taskVars
  <2> QED
    BY <2>1, <2>2 DEF StatusInv, Busy, Closing, Outcome
<1>12. ASSUME NEW k \in Attempts, TaskBodyError(k)
       PROVE  StatusInv'
  BY <1>12 DEF TaskBodyError
<1>13. ASSUME NEW k \in Attempts, TaskCancelled(k)
       PROVE  StatusInv'
  <2>1. pc[1] = "recv" /\ pc'[1] = "close"
    BY <1>13 DEF TaskCancelled, TypeOK
  <2>2. UNCHANGED <<cur, captured, persisted, status>>
    BY <1>13 DEF TaskCancelled, rowVars
  <2> QED
    BY <2>1, <2>2 DEF StatusInv, Busy, Closing
<1>14. ASSUME NEW k \in Attempts, TaskClose(k)
       PROVE  StatusInv'
  <2>1. pc[1] = "close" /\ UNCHANGED <<captured, persisted, cancelled, status>>
    BY <1>14 DEF TaskClose, rowVars
  <2>2. CASE persisted[1]
    <3>1. pc'[1] = "complete" /\ cur' = cur
      BY <1>14, <2>2 DEF TaskClose, TypeOK
    <3> QED
      BY <2>1, <2>2, <3>1 DEF StatusInv, Busy, Closing, Outcome
  <2>3. CASE ~persisted[1]
    <3>1. pc'[1] = "insert" /\ cur'[1].kind = Outcome(1) /\ cur'[1].synth = TRUE
      BY <1>14, <2>3 DEF TaskClose, TypeOK
    <3> QED
      BY <2>1, <2>3, <3>1 DEF StatusInv, Busy, Closing, Outcome
  <2> QED
    BY <2>2, <2>3
<1>15. ASSUME NEW k \in Attempts, TaskComplete(k)
       PROVE  StatusInv'
  <2>1. pc[1] = "complete" /\ pc'[1] = "done" /\ status' \in {status, Outcome(1)}
    BY <1>15 DEF TaskComplete, TypeOK
  <2>2. UNCHANGED <<cur, captured, persisted, cancelled>>
    BY <1>15 DEF TaskComplete
  <2>3. Outcome(1) \in Terminal \ {"cancelled"} => ~cancelled[1]
    BY DEF Outcome
  <2> QED
    BY <2>1, <2>2, <2>3 DEF StatusInv, Busy, Closing, Outcome
<1>16. ASSUME CancelRow
       PROVE  StatusInv'
  <2>1. status' = "cancelled" /\ UNCHANGED <<pc, cur, captured, persisted, cancelled>>
    BY <1>16 DEF CancelRow, taskVars
  <2> QED
    BY <2>1 DEF StatusInv, Busy, Closing, Outcome
<1>17. ASSUME NEW k \in Attempts, RetryBump(k)
       PROVE  StatusInv'
  BY <1>17 DEF RetryBump
<1>18. ASSUME NEW k \in Attempts, RetryStart(k)
       PROVE  StatusInv'
  <2>1. k + 1 # 1
    OBVIOUS
  <2>2. pc'[1] = pc[1] /\ UNCHANGED <<cur, captured, persisted, cancelled, status>>
    BY <1>18, <2>1 DEF RetryStart, TypeOK, rowVars
  <2> QED
    BY <2>2 DEF StatusInv, Busy, Closing, Outcome
<1>19. ASSUME MarkFailure
       PROVE  StatusInv'
  <2>1. pc[1] = "errored"
    BY <1>19 DEF MarkFailure
  <2> QED
    BY <2>1 DEF StatusInv
<1>20. CASE UNCHANGED <<captured, persisted, pc, cur, log, cancelled, status>>
  BY <1>20 DEF StatusInv, Busy, Closing, Outcome, Told
<1> QED
  BY <1>1, <1>2, <1>3, <1>4, <1>5, <1>6, <1>7, <1>8, <1>9, <1>10, <1>11,
      <1>12, <1>13, <1>14, <1>15, <1>16, <1>17, <1>18, <1>19, <1>20
    DEF Next, TaskStep, DrainerStep, Finished, vars, DrainRecv, DrainTimeout,
        OtherPush, Shutdown, Disconnect, AskCancel, ReaderList, ReaderCheck,
        rowVars, bufferVars, taskVars, readerVars, otherVars

\* With one attempt, no failed statement and no failed body, a row that the
\* persister settled has a terminal event of its status in the log.
THEOREM StatusLogged ==
  ASSUME MaxAttempts = 1, MaxFaults = 0, "error" \notin Disturbances
  PROVE  Spec => []StatusIsInLog
<1>1. Init => StatusInv
  BY OnlyOne DEF Init, StatusInv, Busy, Closing, Terminal
<1>2. OneInv /\ StatusInv /\ [Next]_vars => StatusInv'
  BY NextStatusInv
<1>3. StatusInv => StatusIsInLog
  BY DEF StatusInv, StatusIsInLog, Told
<1> QED
  BY <1>1, <1>2, <1>3, OneInvHolds, PTL DEF Spec

-----------------------------------------------------------------------------
(* The provider's status and the row.                                       *)

\* The events of the chunk that the task has not handled, and the first
\* terminal status that they or the captured one report.
Rest == IF Busy(1) THEN Tail(chunk[1]) ELSE chunk[1]
ProviderInv ==
  /\ ~asked /\ ~gone[1] /\ ~cancelled[1]
  /\ sent[1] = IF captured[1] # "none" THEN captured[1] ELSE FirstTerminal(Rest)
  /\ pc[1] \notin {"done", "errored"} => status = "in_progress"
  /\ pc[1] \in {"complete", "done"} \/ Closing(1) => chunk[1] = <<>>
  /\ pc[1] = "done" => status \in {"in_progress", Outcome(1)}

LEMMA NextProviderInv ==
  ASSUME MaxAttempts = 1, Disturbances \cap {"cancel", "disconnect"} = {},
         OneInv, ProviderInv, [Next]_vars
  PROVE  ProviderInv'
<1>0. /\ LogInv /\ TypeOK /\ Numbers /\ FlushState /\ FlushWaits /\ Attempts = {1}
      /\ captured[1] \in Ends \cup {"none"} /\ chunk[1] \in Seq(Kinds)
  BY OnlyOne DEF OneInv, LogInv, TypeOK
<1>a. NumbersOf(1)
  BY <1>0 DEF Numbers
<1> USE <1>0, <1>a
<1>1. ASSUME DrainFlush
      PROVE  ProviderInv'
  <2>1. pc'[1] = pc[1] \/ (pc[1] = "wait" /\ pc'[1] = AfterFlush(1))
    BY <1>1, AckedAtOnce DEF DrainFlush
  <2>2. UNCHANGED <<asked, gone, cancelled, sent, captured, chunk, cur, status>>
    BY <1>1 DEF DrainFlush, rowVars, otherVars
  <2> QED
    BY <2>1, <2>2 DEF ProviderInv, Rest, Busy, Closing, Outcome, NumbersOf, AfterFlush
<1>2. ASSUME DrainFinal
      PROVE  ProviderInv'
  <2>1. pc'[1] = pc[1] \/ (pc[1] = "wait" /\ pc'[1] = AfterFlush(1))
    BY <1>2, AckedAtOnce DEF DrainFinal
  <2>2. UNCHANGED <<asked, gone, cancelled, sent, captured, chunk, cur, status>>
    BY <1>2 DEF DrainFinal, rowVars, otherVars
  <2> QED
    BY <2>1, <2>2 DEF ProviderInv, Rest, Busy, Closing, Outcome, NumbersOf, AfterFlush
<1>3. ASSUME DrainInsert
      PROVE  ProviderInv'
  <2>1. pc'[1] = pc[1] \/ (pc[1] = "wait" /\ pc'[1] = AfterFlush(1))
    BY <1>3, Acked DEF DrainInsert
  <2>2. UNCHANGED <<asked, gone, cancelled, sent, captured, chunk, cur, status>>
    BY <1>3 DEF DrainInsert, rowVars, otherVars
  <2> QED
    BY <2>1, <2>2 DEF ProviderInv, Rest, Busy, Closing, Outcome, NumbersOf, AfterFlush
<1>4. ASSUME DrainRatchet
      PROVE  ProviderInv'
  <2>1. pc'[1] = pc[1] \/ (pc[1] = "wait" /\ pc'[1] = AfterFlush(1))
    BY <1>4, Acked DEF DrainRatchet
  <2>2. UNCHANGED <<asked, gone, cancelled, sent, captured, chunk, cur, status>>
    BY <1>4 DEF DrainRatchet, rowVars, otherVars
  <2> QED
    BY <2>1, <2>2 DEF ProviderInv, Rest, Busy, Closing, Outcome, NumbersOf, AfterFlush
<1>5. ASSUME NEW k \in Attempts, TaskChunk(k)
      PROVE  ProviderInv'
  <2>1. PICK c \in Chunks :
          /\ chunk' = [chunk EXCEPT ![k] = c]
          /\ sent' = [sent EXCEPT ![k] = IF @ = "none" THEN FirstTerminal(c) ELSE @]
    BY <1>5 DEF TaskChunk
  <2>2. pc[1] = "recv" /\ pc'[1] = "each" /\ chunk[1] = <<>> /\ chunk'[1] = c
        /\ sent'[1] = IF sent[1] = "none" THEN FirstTerminal(c) ELSE sent[1]
    BY <1>5, <2>1 DEF TaskChunk, TypeOK, NumbersOf
  <2>3. UNCHANGED <<asked, gone, cancelled, captured, cur, status>>
    BY <1>5 DEF TaskChunk, rowVars, otherVars
  <2>4. sent[1] = IF captured[1] # "none" THEN captured[1] ELSE "none"
    BY <2>2, FirstTerminalSteps DEF ProviderInv, Rest, Busy
  <2>5. Rest' = c
    BY <2>2 DEF Rest, Busy
  <2> QED
    BY <2>2, <2>3, <2>4, <2>5 DEF ProviderInv, Closing, Outcome
<1>6. ASSUME NEW k \in Attempts, TaskEvent(k)
      PROVE  ProviderInv'
  <2>1. /\ pc[1] = "each" /\ cur'[1].kind = Head(chunk[1]) /\ cur'[1].synth = FALSE
        /\ Pushes(1) \/ Waits(1) \/ GoesOn(1)
    BY <1>6, EventStored
  <2>2. pc'[1] \in {"forward", "wait", "insert"}
    BY <2>1 DEF Pushes, Waits, GoesOn, TypeOK
  <2>3. captured'[1] = IF captured[1] = "none" /\ Head(chunk[1]) # "delta" THEN Head(chunk[1])
                       ELSE captured[1]
    BY <1>6, <2>1 DEF TaskEvent, Capture, TypeOK
  <2>4. UNCHANGED <<asked, gone, cancelled, sent, chunk, status>>
    BY <1>6 DEF TaskEvent, rowVars, otherVars
  <2>5. Rest = chunk[1] /\ Rest' = Tail(chunk[1]) /\ chunk[1] # <<>>
    BY <2>1, <2>2, <2>4 DEF Rest, Busy, NumbersOf
  <2>6. FirstTerminal(chunk[1]) = IF Head(chunk[1]) # "delta" THEN Head(chunk[1])
                                  ELSE FirstTerminal(Tail(chunk[1]))
    BY <2>5, FirstTerminalSteps
  <2>7. Head(chunk[1]) # "none"
    BY <2>5, HeadTailProperties, SomeEvents
  <2>8. sent'[1] = IF captured'[1] # "none" THEN captured'[1] ELSE FirstTerminal(Tail(chunk[1]))
    BY <2>3, <2>4, <2>5, <2>6, <2>7 DEF ProviderInv
  <2> QED
    BY <2>1, <2>2, <2>4, <2>5, <2>8 DEF ProviderInv, Closing
<1>7. ASSUME NEW k \in Attempts, TaskPushAgain(k)
      PROVE  ProviderInv'
  <2>1. pc[1] = "again" /\ (Pushes(1) \/ GoesOn(1)) /\ ~cur[1].synth
    BY <1>7, AgainStored DEF NumbersOf, Busy
  <2>2. pc'[1] \in {"forward", "insert"}
    BY <2>1 DEF Pushes, GoesOn, TypeOK
  <2>3. UNCHANGED <<asked, gone, cancelled, sent, captured, chunk, cur, status>>
    BY <1>7 DEF TaskPushAgain, rowVars, otherVars
  <2> QED
    BY <2>1, <2>2, <2>3 DEF ProviderInv, Rest, Busy, Closing, Outcome
<1>8. ASSUME NEW k \in Attempts, TaskInsert(k)
      PROVE  ProviderInv'
  <2>1. pc[1] = "insert" /\ pc'[1] \in {"ratchet", AfterInsert(1)}
    BY <1>8 DEF TaskInsert, TypeOK
  <2>2. UNCHANGED <<asked, gone, cancelled, sent, captured, chunk, cur, status>>
    BY <1>8 DEF TaskInsert
  <2> QED
    BY <2>1, <2>2 DEF ProviderInv, Rest, Busy, Closing, Outcome, AfterInsert
<1>9. ASSUME NEW k \in Attempts, TaskRatchet(k)
      PROVE  ProviderInv'
  <2>1. pc[1] = "ratchet" /\ pc'[1] \in {"ratchet", AfterInsert(1)}
    BY <1>9 DEF TaskRatchet, TypeOK
  <2>2. UNCHANGED <<asked, gone, cancelled, sent, captured, chunk, cur, status>>
    BY <1>9 DEF TaskRatchet
  <2> QED
    BY <2>1, <2>2 DEF ProviderInv, Rest, Busy, Closing, Outcome, AfterInsert
<1>10. ASSUME NEW k \in Attempts, TaskForward(k)
       PROVE  ProviderInv'
  <2>1. pc[1] = "forward" /\ pc'[1] \in {"recv", "each"} /\ chunk'[1] = Tail(chunk[1])
    BY <1>10 DEF TaskForward, TypeOK, ProviderInv
  <2>2. UNCHANGED <<asked, gone, cancelled, sent, captured, cur, status>>
    BY <1>10 DEF TaskForward, rowVars, otherVars
  <2>3. Rest = Tail(chunk[1]) /\ Rest' = Tail(chunk[1])
    BY <2>1 DEF Rest, Busy
  <2> QED
    BY <2>1, <2>2, <2>3 DEF ProviderInv, Closing, Outcome
<1>11. ASSUME NEW k \in Attempts, TaskBodyEnd(k)
       PROVE  ProviderInv'
  <2>1. pc[1] = "recv" /\ pc'[1] = "close"
    BY <1>11 DEF TaskBodyEnd, TypeOK
  <2>2. UNCHANGED <<asked, gone, cancelled, sent, captured, chunk, cur, status>>
    BY <1>11 DEF TaskBodyEnd, rowVars, otherVars
  <2> QED
    BY <2>1, <2>2 DEF ProviderInv, Rest, Busy, Closing, Outcome, NumbersOf
<1>12. ASSUME NEW k \in Attempts, TaskBodyError(k)
       PROVE  ProviderInv'
  <2>1. pc[1] = "recv" /\ pc'[1] = "errored"
    BY <1>12 DEF TaskBodyError, TypeOK
  <2>2. UNCHANGED <<asked, gone, cancelled, sent, captured, chunk, cur, status>>
    BY <1>12 DEF TaskBodyError, rowVars, otherVars
  <2> QED
    BY <2>1, <2>2 DEF ProviderInv, Rest, Busy, Closing, Outcome, NumbersOf
<1>13. ASSUME NEW k \in Attempts, TaskCancelled(k)
       PROVE  ProviderInv'
  BY <1>13 DEF TaskCancelled, ProviderInv
<1>14. ASSUME NEW k \in Attempts, TaskClose(k)
       PROVE  ProviderInv'
  <2>1. pc[1] = "close" /\ chunk[1] = <<>> /\ pc'[1] \in {"complete", "insert"}
    BY <1>14 DEF TaskClose, TypeOK, NumbersOf
  <2>2. UNCHANGED <<asked, gone, cancelled, sent, captured, chunk, status>>
    BY <1>14 DEF TaskClose, rowVars, otherVars
  <2>3. pc'[1] = "insert" => cur'[1].synth = TRUE
    BY <1>14 DEF TaskClose, TypeOK
  <2>4. Rest = <<>> /\ Rest' = <<>>
    BY <2>1, <2>2, <2>3 DEF Rest, Busy
  <2> QED
    BY <2>1, <2>2, <2>4 DEF ProviderInv, Outcome
<1>15. ASSUME NEW k \in Attempts, TaskComplete(k)
       PROVE  ProviderInv'
  <2>1. pc[1] = "complete" /\ pc'[1] = "done" /\ status' \in {status, Outcome(1)}
    BY <1>15 DEF TaskComplete, TypeOK
  <2>2. UNCHANGED <<asked, gone, cancelled, sent, captured, chunk, cur>>
    BY <1>15 DEF TaskComplete, otherVars
  <2> QED
    BY <2>1, <2>2 DEF ProviderInv, Rest, Busy, Closing, Outcome
<1>16. ASSUME NEW k \in Attempts, Disconnect(k)
       PROVE  ProviderInv'
  BY <1>16 DEF Disconnect
<1>17. ASSUME AskCancel
       PROVE  ProviderInv'
  BY <1>17 DEF AskCancel
<1>18. ASSUME CancelRow
       PROVE  ProviderInv'
  BY <1>18 DEF CancelRow, ProviderInv
<1>19. ASSUME NEW k \in Attempts, RetryBump(k)
       PROVE  ProviderInv'
  BY <1>19, Bounds DEF RetryBump
<1>20. ASSUME NEW k \in Attempts, RetryStart(k)
       PROVE  ProviderInv'
  <2>1. k + 1 # 1
    OBVIOUS
  <2>2. /\ pc'[1] = pc[1]
        /\ UNCHANGED <<asked, gone, cancelled, sent, captured, chunk, cur, status>>
    BY <1>20, <2>1 DEF RetryStart, TypeOK, rowVars
  <2> QED
    BY <2>2 DEF ProviderInv, Rest, Busy, Closing, Outcome
<1>21. ASSUME MarkFailure
       PROVE  ProviderInv'
  <2>1. pc[1] = "errored" /\ UNCHANGED <<asked, gone, cancelled, sent, captured, chunk, cur, pc>>
    BY <1>21 DEF MarkFailure, taskVars, otherVars
  <2> QED
    BY <2>1 DEF ProviderInv, Rest, Busy, Closing, Outcome
<1>22. CASE UNCHANGED <<asked, gone, cancelled, sent, captured, chunk, pc, cur, status>>
  BY <1>22 DEF ProviderInv, Rest, Busy, Closing, Outcome
<1> QED
  BY <1>1, <1>2, <1>3, <1>4, <1>5, <1>6, <1>7, <1>8, <1>9, <1>10, <1>11,
      <1>12, <1>13, <1>14, <1>15, <1>16, <1>17, <1>18, <1>19, <1>20, <1>21,
      <1>22
    DEF Next, TaskStep, DrainerStep, Finished, vars, DrainRecv, DrainTimeout,
        OtherPush, Shutdown, ReaderList, ReaderCheck, rowVars, bufferVars,
        taskVars, readerVars, otherVars

LEMMA ProviderHolds ==
  ASSUME MaxAttempts = 1, Disturbances \cap {"cancel", "disconnect"} = {}
  PROVE  Spec => []ProviderInv
<1>1. Init => ProviderInv
  BY OnlyOne, FirstTerminalSteps DEF Init, ProviderInv, Rest, Busy, Closing
<1>2. OneInv /\ ProviderInv /\ [Next]_vars => ProviderInv'
  BY NextProviderInv
<1> QED
  BY <1>1, <1>2, OneInvHolds, PTL DEF Spec

\* With one attempt that no client cancels or leaves, the row records the
\* first terminal status that the provider sent, also when statements fail,
\* the body breaks off or the buffer shuts down.
THEOREM ProviderRecorded ==
  ASSUME MaxAttempts = 1, Disturbances \cap {"cancel", "disconnect"} = {}
  PROVE  Spec => []ProviderStatusRecorded
<1>1. ProviderInv => ProviderStatusRecorded
  <2> SUFFICES ASSUME ProviderInv, pc[1] = "done", sent[1] # "none", status \in Terminal
               PROVE  status = sent[1]
    BY OnlyOne DEF ProviderStatusRecorded
  <2>1. Rest = <<>>
    BY DEF ProviderInv, Rest, Busy
  <2>2. captured[1] # "none" /\ sent[1] = captured[1]
    BY <2>1, FirstTerminalSteps DEF ProviderInv
  <2> QED
    BY <2>2 DEF ProviderInv, Outcome, Terminal
<1> QED
  BY <1>1, ProviderHolds, PTL

-----------------------------------------------------------------------------
(* A terminal event closes a complete replay.                               *)

\* Every number that was given out is in the log, on its way, or at hand.
Waiting == {e.seq : e \in Pending}
Logged == {s \in Seqs : log[s].att = 1}
Covered ==
  \A s \in 1 .. seqno[1] : s \in Logged \cup Waiting \/ (Storing /\ s = seqno[1])
Running == ~shutdown /\ drainer \in {"select", "insert", "ratchet"} /\ start[1] = 0
CoverInv == Running /\ Covered /\ TerminalClosesReplay

LEMMA LoggedIs ==
  ASSUME MaxAttempts = 1, LogInv
  PROVE  \A s \in Seqs : (s \in Logged) <=> (log[s] # NoEvent)
<1>1. LogKnown /\ Attempts = {1}
  BY OnlyOne DEF LogInv
<1>2. \A s \in Seqs : s # 0
  BY Bounds DEF Seqs
<1> QED
  BY <1>1, <1>2 DEF LogKnown, Known, Logged, NoEvent

LEMMA LoggedKept ==
  ASSUME MaxAttempts = 1, LogInv, [Next]_vars
  PROVE  Logged \subseteq Logged'
<1>1. TypeOK
  BY DEF LogInv
<1>2. \A s \in Logged : s \in Seqs /\ log'[s] = log[s]
  BY <1>1, LogKept, LoggedIs DEF Logged
<1> QED
  BY <1>2 DEF Logged

LEMMA NextRunning ==
  ASSUME MaxAttempts = 1, MaxFaults = 0, "shutdown" \notin Disturbances,
         OneInv, CoverInv, [Next]_vars
  PROVE  Running'
<1>0. /\ LogInv /\ TypeOK /\ Numbers /\ FlushState /\ FlushWaits /\ Attempts = {1}
      /\ ~DbFault /\ Running /\ seqno[1] \in Nat
  BY OnlyOne, NoFault, Bounds DEF OneInv, LogInv, CoverInv, TypeOK
<1> USE <1>0
<1>1. ASSUME DrainRecv
      PROVE  Running'
  BY <1>1 DEF DrainRecv, Running, taskVars
<1>2. ASSUME DrainTimeout
      PROVE  Running'
  BY <1>2 DEF DrainTimeout, Running, taskVars
<1>3. ASSUME DrainFlush
      PROVE  Running'
  BY <1>3 DEF DrainFlush, Running
<1>4. ASSUME DrainFinal
      PROVE  Running'
  BY <1>4 DEF DrainFinal, Running
<1>5. ASSUME DrainInsert
      PROVE  Running'
  <2>1. drainer = "insert" /\ drainer' = "ratchet" /\ shutdown' = shutdown /\ start' = start
    BY <1>5 DEF DrainInsert, Running
  <2> QED
    BY <2>1 DEF Running
<1>6. ASSUME DrainRatchet
      PROVE  Running'
  <2>1. drainer = "ratchet" /\ drainer' = "select" /\ shutdown' = shutdown /\ start' = start
    BY <1>6 DEF DrainRatchet, WriteEnded, Running
  <2> QED
    BY <2>1 DEF Running
<1>7. ASSUME Shutdown
      PROVE  Running'
  BY <1>7 DEF Shutdown
<1>8. ASSUME NEW k \in Attempts, RetryStart(k)
      PROVE  Running'
  <2>1. k + 1 # 1
    OBVIOUS
  <2>2. start'[1] = start[1] /\ shutdown' = shutdown /\ drainer' = drainer
    BY <1>8, <2>1 DEF RetryStart, TypeOK, bufferVars
  <2> QED
    BY <2>2 DEF Running
<1>9. CASE UNCHANGED <<shutdown, drainer, start>>
  BY <1>9 DEF Running
<1> QED
  BY <1>1, <1>2, <1>3, <1>4, <1>5, <1>6, <1>7, <1>8, <1>9
    DEF Next, TaskStep, DrainerStep, Finished, vars, OtherPush, TaskChunk,
        TaskEvent, TaskPushAgain, TaskInsert, TaskRatchet, TaskForward,
        TaskBodyEnd, TaskBodyError, TaskCancelled, TaskClose, TaskComplete,
        Disconnect, AskCancel, CancelRow, RetryBump, MarkFailure, ReaderList,
        ReaderCheck, rowVars, bufferVars, taskVars, readerVars, otherVars

\* What waits goes on waiting or reaches the log.
LEMMA PendingMoves ==
  ASSUME MaxAttempts = 1, MaxFaults = 0, "shutdown" \notin Disturbances,
         OneInv, CoverInv, [Next]_vars
  PROVE  \A e \in Pending : e \in Pending' \/ e.seq = 0 \/ log'[e.seq] # NoEvent
<1>0. /\ LogInv /\ TypeOK /\ Numbers /\ FlushState /\ FlushWaits /\ Attempts = {1}
      /\ ~DbFault /\ Running /\ seqno[1] \in Nat
  BY OnlyOne, NoFault, Bounds DEF OneInv, LogInv, CoverInv, TypeOK
<1> USE <1>0
<1>1. ASSUME DrainRecv
      PROVE  \A e \in Pending : e \in Pending' \/ e.seq = 0 \/ log'[e.seq] # NoEvent
  <2>1. drainer = "select" /\ drainer' \in {"select", "insert"}
    BY <1>1 DEF DrainRecv
  <2> QED
    BY <1>1, <2>1, RecvHeld DEF Pending
<1>2. ASSUME DrainTimeout
      PROVE  \A e \in Pending : e \in Pending' \/ e.seq = 0 \/ log'[e.seq] # NoEvent
  BY <1>2 DEF DrainTimeout, Pending
<1>3. ASSUME DrainFlush
      PROVE  \A e \in Pending : e \in Pending' \/ e.seq = 0 \/ log'[e.seq] # NoEvent
  <2>1. drainer = "select" /\ drainer' \in {"select", "insert"}
    BY <1>3 DEF DrainFlush
  <2> QED
    BY <1>3, <2>1, DrainedHeld DEF Pending
<1>4. ASSUME DrainFinal
      PROVE  \A e \in Pending : e \in Pending' \/ e.seq = 0 \/ log'[e.seq] # NoEvent
  BY <1>4 DEF DrainFinal, Running
<1>5. ASSUME DrainInsert
      PROVE  \A e \in Pending : e \in Pending' \/ e.seq = 0 \/ log'[e.seq] # NoEvent
  <2>1. channel' = channel /\ log' = InsertBatch(batch)
    BY <1>5 DEF DrainInsert
  <2>2. \A e \in Held(batch) : e.seq \in Nat /\ (e.seq > 0 => log'[e.seq] # NoEvent)
    <3>1. batch \in Seq(Events) /\ log \in [Seqs -> Events]
      BY DEF TypeOK
    <3>2. Held(batch) \subseteq Events
      BY <3>1, HeldTyped
    <3>3. \A e \in Held(batch) : e.seq \in 0 .. MaxSeq
      BY <3>2 DEF Events
    <3>4. \A e \in Held(batch) : e.seq \in Nat /\ (e.seq > 0 => e.seq \in Seqs)
      BY <3>3, Bounds DEF Seqs
    <3> QED
      BY <2>1, <3>1, <3>4, Inserted
  <2> QED
    BY <2>1, <2>2 DEF Pending
<1>6. ASSUME DrainRatchet
      PROVE  \A e \in Pending : e \in Pending' \/ e.seq = 0 \/ log'[e.seq] # NoEvent
  <2>1. drainer = "ratchet" /\ channel' = channel
    BY <1>6 DEF DrainRatchet, WriteEnded, Running
  <2> QED
    BY <2>1 DEF Pending
<1>7. ASSUME OtherPush
      PROVE  \A e \in Pending : e \in Pending' \/ e.seq = 0 \/ log'[e.seq] # NoEvent
  <2>1. batch' = batch /\ drainer' = drainer
    BY <1>7 DEF OtherPush
  <2> QED
    BY <1>7, <2>1, NoiseHeld DEF Pending
<1>8. ASSUME NEW k \in Attempts, TaskEvent(k)
      PROVE  \A e \in Pending : e \in Pending' \/ e.seq = 0 \/ log'[e.seq] # NoEvent
  <2>1. batch' = batch /\ drainer' = drainer
    BY <1>8 DEF TaskEvent
  <2>2. Held(channel) \subseteq Held(channel')
    <3>1. Pushes(k) \/ channel' = channel
      BY <1>8, EventStored DEF GoesOn, Waits
    <3>2. cur'[k] \in Events
      BY NextNumbered
    <3> QED
      BY <3>1, <3>2, PushedHeld
  <2> QED
    BY <2>1, <2>2 DEF Pending
<1>9. ASSUME NEW k \in Attempts, TaskPushAgain(k)
      PROVE  \A e \in Pending : e \in Pending' \/ e.seq = 0 \/ log'[e.seq] # NoEvent
  <2>1. batch' = batch /\ drainer' = drainer
    BY <1>9 DEF TaskPushAgain
  <2>2. Held(channel) \subseteq Held(channel')
    <3>1. Pushes(k) \/ channel' = channel
      BY <1>9, AgainStored DEF GoesOn
    <3>2. cur'[k] \in Events
      BY NextNumbered
    <3> QED
      BY <3>1, <3>2, PushedHeld
  <2> QED
    BY <2>1, <2>2 DEF Pending
<1>10. CASE UNCHANGED <<channel, batch, drainer>>
  BY <1>10 DEF Pending
<1> QED
  BY <1>1, <1>2, <1>3, <1>4, <1>5, <1>6, <1>7, <1>8, <1>9, <1>10
    DEF Next, TaskStep, DrainerStep, Finished, vars, Shutdown, TaskChunk,
        TaskInsert, TaskRatchet, TaskForward, TaskBodyEnd, TaskBodyError,
        TaskCancelled, TaskClose, TaskComplete, Disconnect, AskCancel,
        CancelRow, RetryBump, RetryStart, MarkFailure, ReaderList,
        ReaderCheck, rowVars, bufferVars, taskVars, readerVars, otherVars

\* The number at hand, when the task goes on and when it takes another one.
HandStep ==
  /\ Storing /\ ~Storing' => seqno[1] \in Logged' \cup Waiting'
  /\ seqno'[1] # seqno[1] =>
       seqno'[1] = seqno[1] + 1 /\ (Storing' \/ seqno'[1] \in Waiting')

LEMMA PushWaits ==
  ASSUME MaxAttempts = 1, LogInv, [Next]_vars, Pushes(1)
  PROVE  cur'[1].seq \in Waiting'
<1>1. TypeOK /\ Numbers /\ FlushState /\ 1 \in Attempts
  BY OnlyOne DEF LogInv
<1>2. cur'[1] \in Events
  BY <1>1, NextNumbered
<1>3. cur'[1] \in Held(channel')
  BY <1>1, <1>2, PushedHeld
<1> QED
  BY <1>3 DEF Waiting, Pending

LEMMA NextHand ==
  ASSUME MaxAttempts = 1, MaxFaults = 0, "shutdown" \notin Disturbances,
         OneInv, CoverInv, [Next]_vars
  PROVE  HandStep
<1>0. /\ LogInv /\ TypeOK /\ Numbers /\ FlushState /\ FlushWaits /\ Attempts = {1}
      /\ ~DbFault /\ Running /\ seqno[1] \in Nat
  BY OnlyOne, NoFault, Bounds DEF OneInv, LogInv, CoverInv, TypeOK
<1> USE <1>0
<1>1. ASSUME DrainFlush
      PROVE  HandStep
  <2>1. pc'[1] = pc[1] \/ (pc[1] = "wait" /\ pc'[1] = AfterFlush(1))
    BY <1>1, AckedAtOnce DEF DrainFlush
  <2>2. seqno' = seqno
    BY <1>1 DEF DrainFlush
  <2> QED
    BY <2>1, <2>2 DEF HandStep, Storing, AfterFlush
<1>2. ASSUME DrainFinal
      PROVE  HandStep
  <2>1. pc'[1] = pc[1] \/ (pc[1] = "wait" /\ pc'[1] = AfterFlush(1))
    BY <1>2, AckedAtOnce DEF DrainFinal
  <2>2. seqno' = seqno
    BY <1>2 DEF DrainFinal
  <2> QED
    BY <2>1, <2>2 DEF HandStep, Storing, AfterFlush
<1>3. ASSUME DrainInsert
      PROVE  HandStep
  <2>1. pc'[1] = pc[1] \/ (pc[1] = "wait" /\ pc'[1] = AfterFlush(1))
    BY <1>3, Acked DEF DrainInsert
  <2>2. seqno' = seqno
    BY <1>3 DEF DrainInsert
  <2> QED
    BY <2>1, <2>2 DEF HandStep, Storing, AfterFlush
<1>4. ASSUME DrainRatchet
      PROVE  HandStep
  <2>1. pc'[1] = pc[1] \/ (pc[1] = "wait" /\ pc'[1] = AfterFlush(1))
    BY <1>4, Acked DEF DrainRatchet
  <2>2. seqno' = seqno
    BY <1>4 DEF DrainRatchet
  <2> QED
    BY <2>1, <2>2 DEF HandStep, Storing, AfterFlush
<1>5. ASSUME NEW k \in Attempts, TaskChunk(k)
      PROVE  HandStep
  <2>1. pc[1] = "recv" /\ seqno' = seqno
    BY <1>5 DEF TaskChunk
  <2> QED
    BY <2>1 DEF HandStep, Storing
<1>6. ASSUME NEW k \in Attempts, TaskEvent(k)
      PROVE  HandStep
  <2>1. /\ pc[1] = "each" /\ seqno'[1] = seqno[1] + 1 /\ cur'[1].seq = seqno'[1]
    BY <1>6 DEF TaskEvent, TypeOK
  <2>2. CASE Pushes(1)
    BY <2>1, <2>2, PushWaits DEF HandStep, Storing
  <2>3. CASE Waits(1)
    BY <2>1, <2>3 DEF HandStep, Storing, Waits, TypeOK
  <2>4. ~GoesOn(1)
    BY <2>1 DEF GoesOn, Running
  <2> QED
    BY <1>6, <2>2, <2>3, <2>4, EventStored
<1>7. ASSUME NEW k \in Attempts, TaskPushAgain(k)
      PROVE  HandStep
  <2>1. pc[1] = "again" /\ seqno' = seqno /\ cur'[1].seq = seqno[1]
    BY <1>7 DEF TaskPushAgain, Numbers, NumbersOf, Busy
  <2>2. CASE Pushes(1)
    BY <2>1, <2>2, PushWaits DEF HandStep, Storing
  <2>3. CASE GoesOn(1)
    <3>1. pc'[1] = "insert"
      BY <2>1, <2>3 DEF GoesOn, Running, TypeOK
    <3> QED
      BY <2>1, <3>1 DEF HandStep, Storing
  <2> QED
    BY <1>7, <2>2, <2>3, AgainStored
<1>8. ASSUME NEW k \in Attempts, TaskInsert(k)
      PROVE  HandStep
  <2>1. pc[1] = "insert" /\ log' = InsertBatch(<<cur[1]>>) /\ seqno' = seqno
    BY <1>8 DEF TaskInsert
  <2>2. seqno[1] \in Seqs /\ log'[seqno[1]] = cur[1]
    BY <2>1, CurLogged
  <2>3. cur[1].att = 1
    BY <2>1 DEF Numbers, NumbersOf, Busy, Closing
  <2> QED
    BY <2>1, <2>2, <2>3 DEF HandStep, Storing, Logged
<1>9. ASSUME NEW k \in Attempts, TaskRatchet(k)
      PROVE  HandStep
  <2>1. pc[1] = "ratchet" /\ seqno' = seqno
    BY <1>9 DEF TaskRatchet
  <2> QED
    BY <2>1 DEF HandStep, Storing
<1>10. ASSUME NEW k \in Attempts, TaskForward(k)
       PROVE  HandStep
  <2>1. pc[1] = "forward" /\ seqno' = seqno
    BY <1>10 DEF TaskForward
  <2> QED
    BY <2>1 DEF HandStep, Storing
<1>11. ASSUME NEW k \in Attempts, TaskBodyEnd(k)
       PROVE  HandStep
  <2>1. pc[1] = "recv" /\ seqno' = seqno
    BY <1>11 DEF TaskBodyEnd
  <2> QED
    BY <2>1 DEF HandStep, Storing
<1>12. ASSUME NEW k \in Attempts, TaskBodyError(k)
       PROVE  HandStep
  <2>1. pc[1] = "recv" /\ seqno' = seqno
    BY <1>12 DEF TaskBodyError
  <2> QED
    BY <2>1 DEF HandStep, Storing
<1>13. ASSUME NEW k \in Attempts, TaskCancelled(k)
       PROVE  HandStep
  <2>1. pc[1] = "recv" /\ seqno' = seqno
    BY <1>13 DEF TaskCancelled
  <2> QED
    BY <2>1 DEF HandStep, Storing
<1>14. ASSUME NEW k \in Attempts, TaskClose(k)
       PROVE  HandStep
  <2>1. /\ pc[1] = "close"
        /\ seqno' = seqno \/ (seqno'[1] = seqno[1] + 1 /\ pc'[1] = "insert")
    BY <1>14 DEF TaskClose, TypeOK
  <2> QED
    BY <2>1 DEF HandStep, Storing
<1>15. ASSUME NEW k \in Attempts, TaskComplete(k)
       PROVE  HandStep
  <2>1. pc[1] = "complete" /\ seqno' = seqno
    BY <1>15 DEF TaskComplete
  <2> QED
    BY <2>1 DEF HandStep, Storing
<1>16. ASSUME NEW k \in Attempts, RetryStart(k)
       PROVE  HandStep
  <2>1. k + 1 # 1
    OBVIOUS
  <2>2. pc'[1] = pc[1] /\ seqno'[1] = seqno[1]
    BY <1>16, <2>1 DEF RetryStart, TypeOK
  <2> QED
    BY <2>2 DEF HandStep, Storing
<1>17. CASE UNCHANGED <<pc, seqno>>
  BY <1>17 DEF HandStep, Storing
<1> QED
  BY <1>1, <1>2, <1>3, <1>4, <1>5, <1>6, <1>7, <1>8, <1>9, <1>10, <1>11,
      <1>12, <1>13, <1>14, <1>15, <1>16, <1>17
    DEF Next, TaskStep, DrainerStep, Finished, vars, DrainRecv, DrainTimeout,
        OtherPush, Shutdown, Disconnect, AskCancel, CancelRow, RetryBump,
        MarkFailure, ReaderList, ReaderCheck, rowVars, bufferVars, taskVars,
        readerVars, otherVars

LEMMA NextCovered ==
  ASSUME MaxAttempts = 1, MaxFaults = 0, "shutdown" \notin Disturbances,
         OneInv, CoverInv, [Next]_vars
  PROVE  Covered'
<1>0. LogInv /\ TypeOK /\ Covered /\ seqno[1] \in Nat
  BY OnlyOne, Bounds DEF OneInv, LogInv, CoverInv, TypeOK
<1>1. HandStep
  BY NextHand
<1> SUFFICES ASSUME NEW s \in 1 .. seqno'[1]
             PROVE  s \in Logged' \cup Waiting' \/ (Storing' /\ s = seqno'[1])
  BY DEF Covered
<1>2. CASE s = seqno'[1] /\ seqno'[1] # seqno[1]
  BY <1>1, <1>2 DEF HandStep
<1>3. CASE s \in 1 .. seqno[1]
  <2>1. CASE s \in Logged
    BY <1>0, <2>1, LoggedKept
  <2>2. CASE s \in Waiting
    <3>1. PICK e \in Pending : s = e.seq
      BY <2>2 DEF Waiting
    <3>2. CASE e \in Pending'
      BY <3>1, <3>2 DEF Waiting
    <3>3. CASE log'[s] # NoEvent
      <4>1. LogInv'
        BY <1>0, NextLogInv
      <4>2. seqno[1] <= MaxSeq
        BY <1>0, OnlyOne DEF TypeOK
      <4>3. s \in Seqs
        BY <1>0, <1>3, <4>2, Bounds DEF Seqs
      <4>4. s \in Logged'
        <5>1. LogKnown' /\ Attempts = {1}
          BY <4>1, OnlyOne DEF LogInv
        <5>2. s # 0
          BY <1>3
        <5> QED
          BY <3>3, <4>3, <5>1, <5>2 DEF LogKnown, Known, Logged
      <4> QED
        BY <4>4
    <3>4. s # 0
      BY <1>3
    <3> QED
      BY <3>1, <3>2, <3>3, <3>4, PendingMoves
  <2>3. CASE Storing /\ s = seqno[1]
    BY <1>0, <1>1, <2>3, StoreBegins DEF HandStep, StoreStep
  <2> QED
    BY <1>0, <1>3, <2>1, <2>2, <2>3 DEF Covered
<1>4. seqno'[1] = seqno[1] \/ seqno'[1] = seqno[1] + 1
  BY <1>1 DEF HandStep
<1>5. s \in 1 .. seqno[1] \/ (s = seqno'[1] /\ seqno'[1] # seqno[1])
  BY <1>0, <1>4
<1> QED
  BY <1>2, <1>3, <1>5

\* In terms of Logged: below a provider's terminal event everything is there.
LEMMA ReplayClosed ==
  ASSUME MaxAttempts = 1, LogInv, start[1] = 0
  PROVE  TerminalClosesReplay <=>
           \A t \in Seqs : log[t].kind # "delta" /\ ~log[t].synth => 1 .. t \subseteq Logged
<1>1. \A t \in Seqs : log[t].kind # "delta" => log[t].att = 1
  <2>1. \A t \in Seqs : log[t].kind # "delta" => log[t] # NoEvent
    BY SomeEvents
  <2> QED
    BY <2>1, LoggedIs DEF Logged
<1>2. \A t \in Seqs : 0 + 1 .. t = 1 .. t /\ 1 .. t \subseteq Seqs
  BY Bounds DEF Seqs
<1> QED
  BY <1>1, <1>2 DEF TerminalClosesReplay, Logged

LEMMA NextCloses ==
  ASSUME MaxAttempts = 1, MaxFaults = 0, "shutdown" \notin Disturbances,
         OneInv, CoverInv, [Next]_vars
  PROVE  TerminalClosesReplay'
<1>0. /\ LogInv /\ TypeOK /\ Covered /\ Running /\ HeldKnown /\ Flushed
      /\ TerminalClosesReplay /\ Attempts = {1} /\ seqno[1] \in Nat
  BY OnlyOne, Bounds DEF OneInv, LogInv, CoverInv, TypeOK
<1>1. ASSUME NEW t \in Seqs, log'[t].kind # "delta", ~log'[t].synth
      PROVE  1 .. t \subseteq Logged'
  <2>1. CASE log'[t] = log[t]
    BY <1>0, <1>1, <2>1, LoggedKept, ReplayClosed DEF Running
  <2>2. CASE log'[t] # log[t]
    <3>1. log'[t].seq = t /\ ~(log'[t] \in Held(batch))
      BY <1>0, <1>1, <2>2, LogSteps DEF HeldKnown
    <3>2. TaskInsert(1) /\ log'[t] = cur[1]
      BY <1>0, <2>2, <3>1, LogSteps
    <3>3. pc[1] = "insert" /\ log' = InsertBatch(<<cur[1]>>)
      BY <2>2, <3>2 DEF TaskInsert
    <3>4. /\ seqno[1] \in Seqs /\ cur[1].seq = seqno[1] /\ log'[seqno[1]] = cur[1]
      BY <3>3, CurLogged
    <3>5. t = seqno[1]
      BY <3>1, <3>2, <3>4
    <3>6. Noise(Pending)
      BY <1>0, <1>1, <3>2, <3>3 DEF Flushed, JustFlushed
    <3>7. \A s \in 1 .. t : s \notin Waiting
      BY <3>6 DEF Waiting, Noise
    <3>8. \A s \in 1 .. t : s \in Logged \/ s = t
      BY <1>0, <3>5, <3>7 DEF Covered
    <3>9. t \in Logged'
      <4>1. NumbersOf(1)
        BY <1>0 DEF LogInv, Numbers
      <4>2. cur[1].att = 1
        BY <3>3, <4>1 DEF NumbersOf, Busy, Closing
      <4> QED
        BY <3>2, <4>2 DEF Logged
    <3> QED
      BY <1>0, <3>8, <3>9, LoggedKept
  <2> QED
    BY <2>1, <2>2
<1>2. start'[1] = 0 /\ LogInv'
  BY <1>0, NextRunning, NextLogInv DEF Running
<1>3. \A t \in Seqs : log'[t].kind # "delta" => log'[t].att = 1
  <2>1. LogKnown'
    BY <1>2 DEF LogInv
  <2>2. \A t \in Seqs : t # 0
    BY Bounds DEF Seqs
  <2> QED
    BY <1>0, <2>1, <2>2, SomeEvents DEF LogKnown, Known
<1>4. \A t \in Seqs : 0 + 1 .. t = 1 .. t
  BY Bounds DEF Seqs
<1> QED
  BY <1>1, <1>2, <1>3, <1>4 DEF TerminalClosesReplay, Logged

\* With one attempt, no failed statement and a running buffer, a provider's
\* terminal event in the log has every earlier event of the response below
\* it: a flush before the synchronous insert is enough.
THEOREM ReplayComplete ==
  ASSUME MaxAttempts = 1, MaxFaults = 0, "shutdown" \notin Disturbances
  PROVE  Spec => []TerminalClosesReplay
<1>1. Init => CoverInv
  <2> SUFFICES ASSUME Init PROVE CoverInv
    OBVIOUS
  <2>1. Running /\ Covered
    BY OnlyOne DEF Init, Running, Covered
  <2>2. TerminalClosesReplay
    BY SomeEvents DEF Init, TerminalClosesReplay
  <2> QED
    BY <2>1, <2>2 DEF CoverInv
<1>2. OneInv /\ CoverInv /\ [Next]_vars => CoverInv'
  BY NextRunning, NextCovered, NextCloses DEF CoverInv
<1>3. CoverInv => TerminalClosesReplay
  BY DEF CoverInv
<1> QED
  BY <1>1, <1>2, <1>3, OneInvHolds, PTL DEF Spec

-----------------------------------------------------------------------------
(* The replaying reader.                                                    *)

\* Nothing is made up: the terminal event of a body that ends was stored.
Genuine ==
  /\ ~cur[1].synth
  /\ pc[1] = "close" => persisted[1]
  /\ captured[1] # "none" =>
       persisted[1] \/ (pc[1] \in {"wait", "insert", "ratchet"} /\ cur[1].kind # "delta")

\* Events reach the log in the order of their numbers.
Later(d, e) == d.seq > 0 /\ e.seq > 0 => d.seq < e.seq
BatchFirst == \A d \in Held(batch), e \in Held(channel) : Later(d, e)
InOrder(q) == \A i, j \in DOMAIN q : i < j => Later(q[i], q[j])
LogFirst == \A s \in Seqs, e \in Pending : log[s] # NoEvent /\ e.seq > 0 => s < e.seq
QueueOrder == BatchFirst /\ InOrder(channel)
CursorLogged == InLog(cursor)

ReaderInv ==
  /\ Genuine
  /\ QueueOrder /\ LogFirst
  /\ CursorLogged /\ ReaderMissesNothing

LEMMA NextGenuine ==
  ASSUME MaxAttempts = 1, MaxFaults = 0, Disturbances \subseteq {"shutdown", "error"},
         OneInv, ProviderInv, ReaderInv, [Next]_vars
  PROVE  Genuine'
<1>0. /\ LogInv /\ TypeOK /\ Numbers /\ FlushState /\ FlushWaits /\ Attempts = {1}
      /\ ~DbFault /\ Genuine /\ NumbersOf(1)
  BY OnlyOne, NoFault DEF OneInv, LogInv, ReaderInv, Numbers
<1> USE <1>0
<1>1. ASSUME DrainFlush
      PROVE  Genuine'
  <2>1. pc'[1] = pc[1] \/ (pc[1] = "wait" /\ pc'[1] = AfterFlush(1))
    BY <1>1, AckedAtOnce DEF DrainFlush
  <2>2. UNCHANGED <<captured, cur, persisted>>
    BY <1>1 DEF DrainFlush
  <2> QED
    BY <2>1, <2>2 DEF Genuine, AfterFlush
<1>2. ASSUME DrainFinal
      PROVE  Genuine'
  <2>1. pc'[1] = pc[1] \/ (pc[1] = "wait" /\ pc'[1] = AfterFlush(1))
    BY <1>2, AckedAtOnce DEF DrainFinal
  <2>2. UNCHANGED <<captured, cur, persisted>>
    BY <1>2 DEF DrainFinal
  <2> QED
    BY <2>1, <2>2 DEF Genuine, AfterFlush
<1>3. ASSUME DrainInsert
      PROVE  Genuine'
  <2>1. pc'[1] = pc[1] \/ (pc[1] = "wait" /\ pc'[1] = AfterFlush(1))
    BY <1>3, Acked DEF DrainInsert
  <2>2. UNCHANGED <<captured, cur, persisted>>
    BY <1>3 DEF DrainInsert
  <2> QED
    BY <2>1, <2>2 DEF Genuine, AfterFlush
<1>4. ASSUME DrainRatchet
      PROVE  Genuine'
  <2>1. pc'[1] = pc[1] \/ (pc[1] = "wait" /\ pc'[1] = AfterFlush(1))
    BY <1>4, Acked DEF DrainRatchet
  <2>2. UNCHANGED <<captured, cur, persisted>>
    BY <1>4 DEF DrainRatchet
  <2> QED
    BY <2>1, <2>2 DEF Genuine, AfterFlush
<1>5. ASSUME NEW k \in Attempts, TaskChunk(k)
      PROVE  Genuine'
  <2>1. pc[1] = "recv" /\ pc'[1] \in {"each"}
    BY <1>5 DEF TaskChunk, TypeOK
  <2>2. UNCHANGED <<captured, cur, persisted>>
    BY <1>5 DEF TaskChunk
  <2> QED
    BY <2>1, <2>2 DEF Genuine
<1>6. ASSUME NEW k \in Attempts, TaskEvent(k)
      PROVE  Genuine'
  <2>1. /\ pc[1] = "each" /\ cur'[1].kind = Head(chunk[1]) /\ cur'[1].synth = FALSE
        /\ Pushes(1) \/ Waits(1) \/ GoesOn(1)
        /\ Pushes(1) => cur'[1].kind = "delta"
    BY <1>6, EventStored
  <2>2. pc'[1] \in {"forward", "wait", "insert"}
    BY <2>1 DEF Pushes, Waits, GoesOn, TypeOK
  <2>3. captured'[1] = IF captured[1] = "none" /\ Head(chunk[1]) # "delta" THEN Head(chunk[1])
                       ELSE captured[1]
    BY <1>6, <2>1 DEF TaskEvent, Capture, TypeOK
  <2>4. persisted' = persisted
    BY <1>6 DEF TaskEvent
  <2>5. pc'[1] = "forward" => cur'[1].kind = "delta"
    BY <1>6, ForwardIsDelta
  <2> QED
    BY <2>1, <2>2, <2>3, <2>4, <2>5 DEF Genuine
<1>7. ASSUME NEW k \in Attempts, TaskPushAgain(k)
      PROVE  Genuine'
  <2>1. pc[1] = "again" /\ (Pushes(1) \/ GoesOn(1)) /\ UNCHANGED <<captured, cur, persisted>>
    BY <1>7, AgainStored DEF TaskPushAgain
  <2>2. pc'[1] \in {"forward", "insert"}
    BY <2>1 DEF Pushes, GoesOn, TypeOK
  <2> QED
    BY <2>1, <2>2 DEF Genuine
<1>8. ASSUME NEW k \in Attempts, TaskInsert(k)
      PROVE  Genuine'
  <2>1. pc[1] = "insert" /\ pc'[1] \in {"ratchet"}
    BY <1>8 DEF TaskInsert, TypeOK
  <2>2. UNCHANGED <<captured, cur, persisted>>
    BY <1>8 DEF TaskInsert
  <2> QED
    BY <2>1, <2>2 DEF Genuine
<1>9. ASSUME NEW k \in Attempts, TaskRatchet(k)
      PROVE  Genuine'
  <2>1. pc[1] = "ratchet" /\ pc'[1] = AfterInsert(1) /\ UNCHANGED <<captured, cur>>
    BY <1>9 DEF TaskRatchet, TypeOK
  <2>2. persisted'[1] = (persisted[1] \/ (cur[1].kind # "delta" /\ ~cur[1].synth))
    BY <1>9 DEF TaskRatchet, TypeOK
  <2> QED
    BY <2>1, <2>2 DEF Genuine, AfterInsert
<1>10. ASSUME NEW k \in Attempts, TaskForward(k)
       PROVE  Genuine'
  <2>1. pc[1] = "forward" /\ pc'[1] \in {"recv", "each"}
    BY <1>10 DEF TaskForward, TypeOK
  <2>2. UNCHANGED <<captured, cur, persisted>>
    BY <1>10 DEF TaskForward
  <2> QED
    BY <2>1, <2>2 DEF Genuine
<1>11. ASSUME NEW k \in Attempts, TaskBodyEnd(k)
       PROVE  Genuine'
  <2>1. pc[1] = "recv" /\ pc'[1] = "close" /\ sent[1] # "none"
    BY <1>11 DEF TaskBodyEnd, TypeOK
  <2>2. UNCHANGED <<captured, cur, persisted>>
    BY <1>11 DEF TaskBodyEnd
  <2>3. Rest = <<>>
    BY <2>1 DEF Rest, Busy, NumbersOf
  <2>4. captured[1] # "none"
    BY <2>1, <2>3, FirstTerminalSteps DEF ProviderInv
  <2> QED
    BY <2>1, <2>2, <2>4 DEF Genuine
<1>12. ASSUME NEW k \in Attempts, TaskBodyError(k)
       PROVE  Genuine'
  <2>1. pc[1] = "recv" /\ pc'[1] \in {"errored"}
    BY <1>12 DEF TaskBodyError, TypeOK
  <2>2. UNCHANGED <<captured, cur, persisted>>
    BY <1>12 DEF TaskBodyError
  <2> QED
    BY <2>1, <2>2 DEF Genuine
<1>13. ASSUME NEW k \in Attempts, TaskCancelled(k)
       PROVE  Genuine'
  BY <1>13 DEF TaskCancelled, ProviderInv
<1>14. ASSUME NEW k \in Attempts, TaskClose(k)
       PROVE  Genuine'
  <2>1. pc[1] = "close" /\ persisted[1]
    BY <1>14 DEF TaskClose, Genuine
  <2>2. pc'[1] = "complete" /\ UNCHANGED <<captured, cur, persisted>>
    BY <1>14, <2>1 DEF TaskClose, TypeOK
  <2> QED
    BY <2>1, <2>2 DEF Genuine
<1>15. ASSUME NEW k \in Attempts, TaskComplete(k)
       PROVE  Genuine'
  <2>1. pc[1] = "complete" /\ pc'[1] \in {"done"}
    BY <1>15 DEF TaskComplete, TypeOK
  <2>2. UNCHANGED <<captured, cur, persisted>>
    BY <1>15 DEF TaskComplete
  <2> QED
    BY <2>1, <2>2 DEF Genuine
<1>16. ASSUME NEW k \in Attempts, RetryStart(k)
       PROVE  Genuine'
  <2>1. k + 1 # 1
    OBVIOUS
  <2>2. pc'[1] = pc[1] /\ UNCHANGED <<captured, cur, persisted>>
    BY <1>16, <2>1 DEF RetryStart, TypeOK
  <2> QED
    BY <2>2 DEF Genuine
<1>17. CASE UNCHANGED <<captured, persisted, pc, cur>>
  BY <1>17 DEF Genuine
<1> QED
  BY <1>1, <1>2, <1>3, <1>4, <1>5, <1>6, <1>7, <1>8, <1>9, <1>10, <1>11,
      <1>12, <1>13, <1>14, <1>15, <1>16, <1>17
    DEF Next, TaskStep, DrainerStep, Finished, vars, DrainRecv, DrainTimeout,
        OtherPush, Shutdown, Disconnect, AskCancel, CancelRow, RetryBump,
        MarkFailure, ReaderList, ReaderCheck, rowVars, bufferVars, taskVars,
        readerVars, otherVars

\* A page has every event up to its end.
LEMMA PageIsClosed ==
  ASSUME cursor \in 0 .. MaxSeq, NEW m \in Page, NEW s \in 1 .. m, s > cursor, log[s] # NoEvent
  PROVE  s \in Page
<1>1. m \in Seqs /\ s \in Seqs /\ s \in Nat /\ m \in Nat /\ cursor \in Nat /\ s <= m
  BY Bounds DEF Page, Seqs
<1> DEFINE upto(n) == {t \in cursor + 1 .. n : log[t] # NoEvent}
<1>2. IsFiniteSet(upto(m))
  <2>1. IsFiniteSet(cursor + 1 .. m)
    BY <1>1, FS_Interval
  <2>2. upto(m) \subseteq cursor + 1 .. m
    OBVIOUS
  <2> QED
    BY <2>1, <2>2, FS_Subset
<1>3. upto(s) \subseteq upto(m)
  BY <1>1
<1>4. Cardinality(upto(m)) <= PageSize
  BY DEF Page
<1> HIDE DEF upto
<1>5. Cardinality(upto(s)) <= Cardinality(upto(m)) /\ IsFiniteSet(upto(s))
  BY <1>2, <1>3, FS_Subset
<1>6. Cardinality(upto(s)) \in Nat /\ Cardinality(upto(m)) \in Nat
  BY <1>2, <1>5, FS_CardinalityType
<1>7. Cardinality(upto(s)) <= PageSize
  BY <1>4, <1>5, <1>6, Bounds
<1> QED
  BY <1>1, <1>7 DEF Page, upto

\* What is new among the waiting events was pushed by the task.
LEMMA NewPending ==
  ASSUME MaxAttempts = 1, LogInv, [Next]_vars, NEW e \in Pending', e \notin Pending, e # NoEvent
  PROVE  Pushes(1) /\ pc[1] \in {"each", "again"} /\ e = cur'[1]
<1>0. TypeOK /\ Numbers /\ FlushState /\ Attempts = {1}
  BY OnlyOne DEF LogInv
<1>1. Pushes(1) /\ UNCHANGED <<batch, drainer>>
  BY <1>0, PendingSteps DEF PendingStep
<1>2. CASE e \in Held(channel')
  <2>1. e \notin Held(channel)
    BY DEF Pending
  <2> QED
    BY <1>0, <1>2, <2>1, ChannelSteps
<1>3. CASE e \notin Held(channel')
  BY <1>1, <1>3 DEF Pending
<1> QED
  BY <1>2, <1>3

LEMMA EmptyInOrder == InOrder(<<>>)
  BY EmptySeq DEF InOrder

LEMMA AppendInOrder ==
  ASSUME NEW q \in Seq(Events), InOrder(q), NEW x \in Events, \A d \in Held(q) : Later(d, x)
  PROVE  InOrder(Append(q, x))
<1>1. /\ Append(q, x) \in Seq(Events) /\ Len(Append(q, x)) = Len(q) + 1 /\ Len(q) \in Nat
      /\ Append(q, x)[Len(q) + 1] = x
      /\ \A i \in 1 .. Len(q) : Append(q, x)[i] = q[i]
  BY AppendProperties
<1>2. DOMAIN Append(q, x) = 1 .. Len(q) + 1 /\ DOMAIN q = 1 .. Len(q)
  BY <1>1
<1> SUFFICES ASSUME NEW i \in 1 .. Len(q) + 1, NEW j \in 1 .. Len(q) + 1, i < j
             PROVE  Later(Append(q, x)[i], Append(q, x)[j])
  BY <1>2 DEF InOrder
<1>3. i \in 1 .. Len(q) /\ (j \in 1 .. Len(q) \/ j = Len(q) + 1)
  BY <1>1
<1>4. CASE j \in 1 .. Len(q)
  BY <1>1, <1>2, <1>3, <1>4 DEF InOrder
<1>5. CASE j = Len(q) + 1
  <2>1. q[i] \in Held(q)
    BY <1>2, <1>3 DEF Held
  <2> QED
    BY <1>1, <1>3, <1>5, <2>1
<1> QED
  BY <1>3, <1>4, <1>5

LEMMA TailInOrder ==
  ASSUME NEW q \in Seq(Events), InOrder(q), q # <<>>
  PROVE  InOrder(Tail(q)) /\ \A e \in Held(Tail(q)) : Later(Head(q), e)
<1>1. /\ Tail(q) \in Seq(Events) /\ Len(Tail(q)) = Len(q) - 1 /\ Len(q) \in Nat \ {0}
      /\ Head(q) = q[1] /\ \A i \in 1 .. Len(q) - 1 : Tail(q)[i] = q[i + 1]
  BY HeadTailProperties, EmptySeq
<1>2. DOMAIN Tail(q) = 1 .. Len(q) - 1 /\ DOMAIN q = 1 .. Len(q)
  BY <1>1
<1>3. \A i \in 1 .. Len(q) - 1 : i + 1 \in 1 .. Len(q) /\ 1 < i + 1 /\ 1 \in 1 .. Len(q)
  BY <1>1
<1>4. InOrder(Tail(q))
  <2> SUFFICES ASSUME NEW i \in 1 .. Len(q) - 1, NEW j \in 1 .. Len(q) - 1, i < j
               PROVE  Later(Tail(q)[i], Tail(q)[j])
    BY <1>2 DEF InOrder
  <2>1. i + 1 < j + 1
    OBVIOUS
  <2> QED
    BY <1>1, <1>2, <1>3, <2>1 DEF InOrder
<1>5. \A e \in Held(Tail(q)) : Later(Head(q), e)
  BY <1>1, <1>2, <1>3 DEF InOrder, Held
<1> QED
  BY <1>4, <1>5

LEMMA EachIsEvent ==
  ASSUME MaxAttempts = 1, LogInv, [Next]_vars
  PROVE  pc[1] = "each" /\ pc'[1] = "forward" => TaskEvent(1)
<1>0. TypeOK /\ FlushState /\ FlushWaits /\ Attempts = {1}
  BY OnlyOne DEF LogInv
<1> USE <1>0
<1>1. ASSUME DrainFlush
      PROVE  pc[1] = "each" /\ pc'[1] = "forward" => TaskEvent(1)
  <2>1. pc'[1] = pc[1] \/ (pc[1] = "wait" /\ pc'[1] = AfterFlush(1))
    BY <1>1, AckedAtOnce DEF DrainFlush
  <2> QED
    BY <2>1
<1>2. ASSUME DrainFinal
      PROVE  pc[1] = "each" /\ pc'[1] = "forward" => TaskEvent(1)
  <2>1. pc'[1] = pc[1] \/ (pc[1] = "wait" /\ pc'[1] = AfterFlush(1))
    BY <1>2, AckedAtOnce DEF DrainFinal
  <2> QED
    BY <2>1
<1>3. ASSUME DrainInsert
      PROVE  pc[1] = "each" /\ pc'[1] = "forward" => TaskEvent(1)
  <2>1. pc'[1] = pc[1] \/ (pc[1] = "wait" /\ pc'[1] = AfterFlush(1))
    BY <1>3, Acked DEF DrainInsert
  <2> QED
    BY <2>1
<1>4. ASSUME DrainRatchet
      PROVE  pc[1] = "each" /\ pc'[1] = "forward" => TaskEvent(1)
  <2>1. pc'[1] = pc[1] \/ (pc[1] = "wait" /\ pc'[1] = AfterFlush(1))
    BY <1>4, Acked DEF DrainRatchet
  <2> QED
    BY <2>1
<1>5. ASSUME NEW k \in Attempts, TaskChunk(k)
      PROVE  pc[1] = "each" /\ pc'[1] = "forward" => TaskEvent(1)
  BY <1>5 DEF TaskChunk
<1>6. ASSUME NEW k \in Attempts, TaskEvent(k)
      PROVE  pc[1] = "each" /\ pc'[1] = "forward" => TaskEvent(1)
  BY <1>6
<1>7. ASSUME NEW k \in Attempts, TaskPushAgain(k)
      PROVE  pc[1] = "each" /\ pc'[1] = "forward" => TaskEvent(1)
  BY <1>7 DEF TaskPushAgain
<1>8. ASSUME NEW k \in Attempts, TaskInsert(k)
      PROVE  pc[1] = "each" /\ pc'[1] = "forward" => TaskEvent(1)
  BY <1>8 DEF TaskInsert
<1>9. ASSUME NEW k \in Attempts, TaskRatchet(k)
      PROVE  pc[1] = "each" /\ pc'[1] = "forward" => TaskEvent(1)
  BY <1>9 DEF TaskRatchet
<1>10. ASSUME NEW k \in Attempts, TaskForward(k)
       PROVE  pc[1] = "each" /\ pc'[1] = "forward" => TaskEvent(1)
  BY <1>10 DEF TaskForward
<1>11. ASSUME NEW k \in Attempts, TaskBodyEnd(k)
       PROVE  pc[1] = "each" /\ pc'[1] = "forward" => TaskEvent(1)
  BY <1>11 DEF TaskBodyEnd
<1>12. ASSUME NEW k \in Attempts, TaskBodyError(k)
       PROVE  pc[1] = "each" /\ pc'[1] = "forward" => TaskEvent(1)
  BY <1>12 DEF TaskBodyError
<1>13. ASSUME NEW k \in Attempts, TaskCancelled(k)
       PROVE  pc[1] = "each" /\ pc'[1] = "forward" => TaskEvent(1)
  BY <1>13 DEF TaskCancelled
<1>14. ASSUME NEW k \in Attempts, TaskClose(k)
       PROVE  pc[1] = "each" /\ pc'[1] = "forward" => TaskEvent(1)
  BY <1>14 DEF TaskClose
<1>15. ASSUME NEW k \in Attempts, TaskComplete(k)
       PROVE  pc[1] = "each" /\ pc'[1] = "forward" => TaskEvent(1)
  BY <1>15 DEF TaskComplete
<1>16. ASSUME NEW k \in Attempts, RetryStart(k)
       PROVE  pc[1] = "each" /\ pc'[1] = "forward" => TaskEvent(1)
  <2>1. k + 1 # 1
    OBVIOUS
  <2> QED
    BY <1>16, <2>1 DEF RetryStart, TypeOK
<1>17. CASE UNCHANGED <<pc>>
  BY <1>17
<1> QED
  BY <1>1, <1>2, <1>3, <1>4, <1>5, <1>6, <1>7, <1>8, <1>9, <1>10, <1>11,
      <1>12, <1>13, <1>14, <1>15, <1>16, <1>17
    DEF Next, TaskStep, DrainerStep, Finished, vars, DrainRecv, DrainTimeout,
        OtherPush, Shutdown, Disconnect, AskCancel, CancelRow, RetryBump,
        MarkFailure, ReaderList, ReaderCheck, rowVars, bufferVars, taskVars,
        readerVars, otherVars

\* The event that the task pushes is later than everything before it.
LEMMA PushIsLater ==
  ASSUME MaxAttempts = 1, OneInv, [Next]_vars, Pushes(1), pc[1] \in {"each", "again"}
  PROVE  /\ \A s \in Seqs : log[s] # NoEvent => s < cur'[1].seq
         /\ \A e \in Held(channel) \cup Held(batch) : Later(e, cur'[1])
<1>0. /\ LogInv /\ TypeOK /\ Numbers /\ FlushState /\ Attempts = {1} /\ NumbersOf(1)
      /\ LogKnown /\ HeldKnown /\ FreshNumber /\ seqno[1] \in Nat
  BY OnlyOne, Bounds DEF OneInv, LogInv, Numbers, TypeOK
<1>1. Held(channel) \cup Held(batch) \subseteq Events
  BY <1>0, HeldTyped DEF TypeOK
<1>2. \A e \in Held(channel) \cup Held(batch) : e.seq \in Nat
  BY <1>1, Bounds DEF Events
<1>3. CASE pc[1] = "again"
  <2>1. cur'[1] = cur[1] /\ cur[1].seq = seqno[1]
    BY <1>0, <1>3, CurSteps DEF NumbersOf, Busy
  <2> QED
    BY <1>0, <1>3, <2>1 DEF FreshNumber, Storing, Later
<1>4. CASE pc[1] = "each"
  <2>1. cur'[1].seq = seqno[1] + 1
    <3>1. pc'[1] = "forward"
      BY <1>0 DEF Pushes, TypeOK
    <3>2. TaskEvent(1)
      BY <1>0, <1>4, <3>1, EachIsEvent
    <3> QED
      BY <1>0, <3>2 DEF TaskEvent, TypeOK
  <2>2. \A s \in Seqs : log[s] # NoEvent => s <= seqno[1] /\ s \in Nat
    BY <1>0, Bounds DEF LogKnown, Known, Seqs
  <2>3. \A e \in Held(channel) \cup Held(batch) : e.seq <= seqno[1]
    BY <1>0, <1>2 DEF HeldKnown, Known
  <2> QED
    BY <1>0, <1>2, <2>1, <2>2, <2>3 DEF Later
<1> QED
  BY <1>3, <1>4

LEMMA NextQueueOrder ==
  ASSUME MaxAttempts = 1, MaxFaults = 0, Disturbances \subseteq {"shutdown", "error"},
         OneInv, ProviderInv, ReaderInv, [Next]_vars
  PROVE  QueueOrder'
<1>0. /\ LogInv /\ TypeOK /\ Numbers /\ FlushState /\ FlushWaits /\ Attempts = {1}
      /\ ~DbFault /\ BatchFirst /\ InOrder(channel)
  BY OnlyOne, NoFault DEF OneInv, LogInv, ReaderInv, QueueOrder
<1> USE <1>0
<1>1. ASSUME DrainRecv
      PROVE  QueueOrder'
  <2>1. channel \in Seq(Events) /\ channel # <<>> /\ channel' = Tail(channel)
    BY <1>1 DEF DrainRecv, TypeOK
  <2>2. InOrder(channel') /\ \A e \in Held(channel') : Later(Head(channel), e)
    BY <2>1, TailInOrder
  <2>3. \A d \in Held(batch), e \in Held(channel') : Later(d, e)
    BY <1>1, RecvHeld DEF BatchFirst
  <2> QED
    BY <1>1, <2>2, <2>3, RecvHeld DEF BatchFirst, QueueOrder
<1>2. ASSUME DrainFlush
      PROVE  QueueOrder'
  <2>1. channel' = <<>>
    BY <1>2 DEF DrainFlush
  <2> QED
    BY <1>2, <2>1, DrainedHeld, EmptyInOrder DEF BatchFirst, QueueOrder
<1>3. ASSUME DrainFinal
      PROVE  QueueOrder'
  <2>1. channel' = <<>>
    BY <1>3 DEF DrainFinal
  <2> QED
    BY <1>3, <2>1, DrainedHeld, EmptyInOrder DEF BatchFirst, QueueOrder
<1>4. ASSUME DrainInsert
      PROVE  QueueOrder'
  <2>1. channel' = channel /\ batch' = batch
    BY <1>4 DEF DrainInsert
  <2> QED
    BY <2>1 DEF BatchFirst, QueueOrder, InOrder
<1>5. ASSUME DrainRatchet
      PROVE  QueueOrder'
  <2>1. WriteEnded /\ channel' \in {<<>>, channel} /\ Held(batch') = {}
    BY <1>5, WriteLeaves, WrittenHeld DEF DrainRatchet
  <2>2. InOrder(channel')
    BY <2>1, EmptyInOrder
  <2> QED
    BY <2>1, <2>2 DEF BatchFirst, QueueOrder
<1>6. ASSUME OtherPush
      PROVE  QueueOrder'
  <2>1. channel \in Seq(Events) /\ channel' = Append(channel, NoEvent) /\ batch' = batch
    BY <1>6 DEF OtherPush, TypeOK
  <2>2. \A d : Later(d, NoEvent)
    BY SomeEvents DEF Later
  <2>3. InOrder(channel')
    BY <2>1, <2>2, AppendInOrder, SomeEvents
  <2> QED
    BY <1>6, <2>1, <2>2, <2>3, NoiseHeld DEF BatchFirst, QueueOrder
<1>7. ASSUME NEW k \in Attempts, TaskEvent(k)
      PROVE  QueueOrder'
  <2>1. batch' = batch /\ pc[1] \in {"each", "again"} /\ (Pushes(1) \/ channel' = channel)
    BY <1>7, EventStored DEF TaskEvent, GoesOn, Waits
  <2>2. CASE channel' = channel
    BY <2>1, <2>2 DEF BatchFirst, QueueOrder, InOrder
  <2>3. CASE Pushes(1)
    <3>1. channel \in Seq(Events) /\ channel' = Append(channel, cur'[1]) /\ cur'[1] \in Events
      BY <2>3, NextNumbered DEF Pushes, TypeOK
    <3>2. \A e \in Held(channel) \cup Held(batch) : Later(e, cur'[1])
      BY <2>1, <2>3, PushIsLater
    <3>3. InOrder(channel')
      BY <3>1, <3>2, AppendInOrder
    <3> QED
      BY <2>1, <2>3, <3>1, <3>2, <3>3, PushedHeld DEF BatchFirst, QueueOrder
  <2> QED
    BY <2>1, <2>2, <2>3
<1>8. ASSUME NEW k \in Attempts, TaskPushAgain(k)
      PROVE  QueueOrder'
  <2>1. batch' = batch /\ pc[1] \in {"each", "again"} /\ (Pushes(1) \/ channel' = channel)
    BY <1>8, AgainStored DEF TaskPushAgain, GoesOn
  <2>2. CASE channel' = channel
    BY <2>1, <2>2 DEF BatchFirst, QueueOrder, InOrder
  <2>3. CASE Pushes(1)
    <3>1. channel \in Seq(Events) /\ channel' = Append(channel, cur'[1]) /\ cur'[1] \in Events
      BY <2>3, NextNumbered DEF Pushes, TypeOK
    <3>2. \A e \in Held(channel) \cup Held(batch) : Later(e, cur'[1])
      BY <2>1, <2>3, PushIsLater
    <3>3. InOrder(channel')
      BY <3>1, <3>2, AppendInOrder
    <3> QED
      BY <2>1, <2>3, <3>1, <3>2, <3>3, PushedHeld DEF BatchFirst, QueueOrder
  <2> QED
    BY <2>1, <2>2, <2>3
<1>9. CASE UNCHANGED <<channel, batch>>
  BY <1>9 DEF BatchFirst, QueueOrder, InOrder
<1> QED
  BY <1>1, <1>2, <1>3, <1>4, <1>5, <1>6, <1>7, <1>8, <1>9
    DEF Next, TaskStep, DrainerStep, Finished, vars, DrainTimeout, Shutdown,
        TaskChunk, TaskInsert, TaskRatchet, TaskForward, TaskBodyEnd,
        TaskBodyError, TaskCancelled, TaskClose, TaskComplete, Disconnect,
        AskCancel, CancelRow, RetryBump, RetryStart, MarkFailure, ReaderList,
        ReaderCheck, rowVars, bufferVars, taskVars, readerVars, otherVars

LEMMA NextLogFirst ==
  ASSUME MaxAttempts = 1, MaxFaults = 0, Disturbances \subseteq {"shutdown", "error"},
         OneInv, ProviderInv, ReaderInv, [Next]_vars
  PROVE  LogFirst'
<1>0. /\ LogInv /\ TypeOK /\ Numbers /\ FlushState /\ Attempts = {1} /\ ~DbFault
      /\ Genuine /\ BatchFirst /\ LogFirst /\ Flushed /\ FreshNumber
  BY OnlyOne, NoFault DEF OneInv, LogInv, ReaderInv, QueueOrder
<1> SUFFICES ASSUME NEW s \in Seqs, NEW e \in Pending', log'[s] # NoEvent, e.seq > 0
             PROVE  s < e.seq
  BY DEF LogFirst
<1>1. CASE log'[s] # log[s] /\ DrainInsert /\ log'[s] \in Held(batch)
  <2>1. log'[s].seq = s /\ s > 0
    BY <1>0, <1>1, LogSteps, Bounds DEF Seqs
  <2>2. e \in Held(channel)
    <3>1. drainer' \in {"ratchet", "lastRatchet"} /\ channel' = channel
      BY <1>0, <1>1 DEF DrainInsert
    <3> QED
      BY <3>1 DEF Pending
  <2> QED
    BY <1>0, <1>1, <2>1, <2>2 DEF BatchFirst, Later
<1>2. CASE log'[s] # log[s] /\ TaskInsert(1)
  <2>1. JustFlushed /\ UNCHANGED <<channel, batch, drainer>>
    BY <1>0, <1>2 DEF TaskInsert, JustFlushed, Genuine, bufferVars
  <2>2. e \in Pending
    BY <2>1 DEF Pending
  <2> QED
    BY <1>0, <2>1, <2>2 DEF Flushed, Noise
<1>3. CASE log'[s] = log[s]
  <2>1. CASE e \in Pending
    BY <1>0, <1>3, <2>1 DEF LogFirst
  <2>2. CASE e \notin Pending
    <3>1. e # NoEvent
      BY SomeEvents
    <3>2. Pushes(1) /\ pc[1] \in {"each", "again"} /\ e = cur'[1]
      BY <1>0, <2>2, <3>1, NewPending
    <3> QED
      BY <1>3, <3>2, PushIsLater
  <2> QED
    BY <2>1, <2>2
<1> QED
  BY <1>0, <1>1, <1>2, <1>3, LogSteps

LEMMA NextCursor ==
  ASSUME MaxAttempts = 1, MaxFaults = 0, Disturbances \subseteq {"shutdown", "error"},
         OneInv, ProviderInv, ReaderInv, [Next]_vars
  PROVE  CursorLogged' /\ ReaderMissesNothing'
<1>0. /\ LogInv /\ TypeOK /\ Attempts = {1} /\ LogFirst /\ FreshNumber /\ NumbersOf(1)
      /\ CursorLogged /\ ReaderMissesNothing /\ cursor \in 0 .. MaxSeq
  BY OnlyOne DEF OneInv, LogInv, ReaderInv, QueueOrder, Numbers, TypeOK
<1>1. CASE ReaderList
  <2>1. CASE Page = {}
    BY <1>0, <1>1, <2>1 DEF ReaderList, rowVars, CursorLogged, InLog, ReaderMissesNothing
  <2>2. CASE Page # {}
    <3>1. /\ cursor' \in Page /\ cursor' \in Seqs /\ got' = got \cup {log[s] : s \in Page}
          /\ log' = log
      BY <1>1, <2>2, PageEnd DEF ReaderList, rowVars
    <3>2. CursorLogged'
      BY <3>1 DEF Page, CursorLogged, InLog
    <3>3. ASSUME NEW s \in 1 .. cursor', s > cursor, log[s] # NoEvent
          PROVE  s \in Page
      BY <1>0, <3>1, <3>3, PageIsClosed
    <3>4. ReaderMissesNothing'
      BY <1>0, <3>1, <3>3, Bounds DEF ReaderMissesNothing, Seqs
    <3> QED
      BY <3>2, <3>4
  <2> QED
    BY <2>1, <2>2
<1>2. CASE UNCHANGED <<cursor, got>>
  <2>1. ASSUME NEW s \in 1 .. cursor, log'[s] # log[s]
        PROVE  FALSE
    <3>1. s \in Seqs /\ cursor \in Seqs /\ log[cursor] # NoEvent
      BY <1>0, Bounds DEF Seqs, CursorLogged, InLog
    <3>2. CASE DrainInsert /\ log'[s] \in Held(batch)
      <4>1. log'[s] \in Pending /\ log'[s].seq = s
        BY <1>0, <2>1, <3>1, <3>2, LogSteps DEF DrainInsert, Pending
      <4> QED
        BY <1>0, <3>1, <4>1, Bounds DEF LogFirst, Seqs
    <3>3. CASE TaskInsert(1) /\ log'[s] = cur[1]
      <4>1. pc[1] = "insert" /\ log'[s].seq = s
        BY <1>0, <2>1, <3>1, <3>3, LogSteps DEF TaskInsert
      <4>2. cur[1].seq = seqno[1]
        BY <1>0, <4>1 DEF NumbersOf, Busy, Closing
      <4> QED
        BY <1>0, <3>1, <3>3, <4>1, <4>2, Bounds DEF FreshNumber, Storing, Seqs
    <3> QED
      BY <1>0, <2>1, <3>1, <3>2, <3>3, LogSteps
  <2>2. CursorLogged'
    BY <1>0, <1>2, <2>1, Bounds DEF CursorLogged, InLog
  <2>3. ReaderMissesNothing'
    BY <1>0, <1>2, <2>1 DEF ReaderMissesNothing
  <2> QED
    BY <2>2, <2>3
<1> QED
  BY <1>1, <1>2
    DEF Next, TaskStep, DrainerStep, Finished, vars, DrainRecv, DrainTimeout,
        DrainFlush, DrainFinal, DrainInsert, DrainRatchet, OtherPush,
        Shutdown, TaskChunk, TaskEvent, TaskPushAgain, TaskInsert,
        TaskRatchet, TaskForward, TaskBodyEnd, TaskBodyError, TaskCancelled,
        TaskClose, TaskComplete, Disconnect, AskCancel, CancelRow, RetryBump,
        RetryStart, MarkFailure, ReaderCheck, rowVars, bufferVars, taskVars,
        readerVars, otherVars

\* With one attempt that no client disturbs, no failed statement and a
\* provider that reports a terminal event before its body ends, the replaying
\* reader never passes an event that is committed behind it, also when the
\* buffer overflows or shuts down and when the body breaks off.
THEOREM ReaderComplete ==
  ASSUME MaxAttempts = 1, MaxFaults = 0, Disturbances \subseteq {"shutdown", "error"}
  PROVE  Spec => []ReaderMissesNothing
<1>1. Init => ReaderInv
  <2> SUFFICES ASSUME Init PROVE ReaderInv
    OBVIOUS
  <2>1. Genuine /\ CursorLogged /\ ReaderMissesNothing
    BY OnlyOne DEF Init, Genuine, CursorLogged, InLog, ReaderMissesNothing, NoEvent
  <2>2. QueueOrder
    BY HeldEmpty, EmptyInOrder DEF Init, QueueOrder, BatchFirst
  <2>3. LogFirst
    BY DEF Init, LogFirst
  <2> QED
    BY <2>1, <2>2, <2>3 DEF ReaderInv
<1>2. OneInv /\ ProviderInv /\ ReaderInv /\ [Next]_vars => ReaderInv'
  BY NextGenuine, NextQueueOrder, NextLogFirst, NextCursor DEF ReaderInv
<1>3. ReaderInv => ReaderMissesNothing
  BY DEF ReaderInv
<1>4. Spec => []ProviderInv
  BY ProviderHolds
<1> QED
  BY <1>1, <1>2, <1>3, <1>4, OneInvHolds, PTL DEF Spec

=============================================================================
