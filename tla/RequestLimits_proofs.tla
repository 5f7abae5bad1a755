------------------------ MODULE RequestLimits_proofs ------------------------
(***************************************************************************)
(* Proofs about the limits of an API key: the types, and the three budget  *)
(* invariants.                                                             *)
(*                                                                         *)
(* What the invariants need is the sum, over all requests, of what a       *)
(* request has still to add to or to take from a spend counter.  Tally     *)
(* states such a sum without recursion: as the size of a union of disjoint *)
(* sets, one for each request, of the sizes that are added up.             *)
(***************************************************************************)
EXTENDS RequestLimits, FiniteSetTheorems, SequenceTheorems, TLAPS

-----------------------------------------------------------------------------
(* Sums over the requests. *)

Shares(f, n, F) ==
  /\ F \in [Requests -> SUBSET (1 .. n)]
  /\ \A r, q \in Requests : r # q => F[r] \cap F[q] = {}
  /\ \A r \in Requests : Cardinality(F[r]) = f[r]

Tally(f, s) ==
  \E n \in Nat : \E F : Shares(f, n, F) /\ s = Cardinality(UNION {F[r] : r \in Requests})

(* A sum is a natural number, and no summand exceeds it. *)
LEMMA TallyBound ==
  ASSUME NEW f, NEW s, Tally(f, s), NEW r \in Requests
  PROVE  s \in Nat /\ f[r] \in Nat /\ f[r] <= s
<1>0. PICK n \in Nat : \E F : Shares(f, n, F) /\ s = Cardinality(UNION {F[q] : q \in Requests})
  BY DEF Tally
<1>1. PICK F : Shares(f, n, F) /\ s = Cardinality(UNION {F[q] : q \in Requests})
  BY <1>0
<1> DEFINE U == UNION {F[q] : q \in Requests}
<1>2. U \subseteq 1 .. n /\ F[r] \subseteq U
  BY <1>1 DEF Shares
<1>3. IsFiniteSet(1 .. n)
  BY FS_Interval
<1>4. IsFiniteSet(U)
  BY <1>2, <1>3, FS_Subset
<1>5. IsFiniteSet(F[r]) /\ Cardinality(F[r]) <= Cardinality(U)
  BY <1>2, <1>4, FS_Subset
<1>6. Cardinality(U) \in Nat /\ Cardinality(F[r]) \in Nat
  BY <1>4, <1>5, FS_CardinalityType
<1>7. Cardinality(F[r]) = f[r]
  BY <1>1 DEF Shares
<1> QED BY <1>1, <1>5, <1>6, <1>7

(* One summand changes. *)
LEMMA TallyUpdate ==
  ASSUME NEW f, NEW s, Tally(f, s), NEW g, NEW r \in Requests,
         g[r] \in Nat, \A q \in Requests \ {r} : g[q] = f[q]
  PROVE  Tally(g, s - f[r] + g[r])
<1>0. PICK n \in Nat : \E F : Shares(f, n, F) /\ s = Cardinality(UNION {F[q] : q \in Requests})
  BY DEF Tally
<1>1. PICK F : Shares(f, n, F) /\ s = Cardinality(UNION {F[q] : q \in Requests})
  BY <1>0
<1> DEFINE U == UNION {F[q] : q \in Requests}
           m == n + g[r]
           N == (n + 1) .. m
           G == [F EXCEPT ![r] = N]
           V == UNION {G[q] : q \in Requests}
<1>2. F \in [Requests -> SUBSET (1 .. n)] /\ Cardinality(F[r]) = f[r]
  BY <1>1 DEF Shares
<1>3. U \subseteq 1 .. n /\ F[r] \subseteq U
  BY <1>2
<1>4. IsFiniteSet(1 .. n) /\ IsFiniteSet(N) /\ Cardinality(N) = g[r]
  <2>1. n + 1 \in Int /\ m \in Int
    BY <1>1
  <2>2. IsFiniteSet(N) /\ Cardinality(N) = IF n + 1 > m THEN 0 ELSE m - (n + 1) + 1
    BY <2>1, FS_Interval
  <2>3. Cardinality(N) = g[r]
    <3> HIDE DEF N
    <3> QED BY <2>2
  <2>4. IsFiniteSet(1 .. n)
    BY FS_Interval
  <2> QED BY <2>2, <2>3, <2>4
<1>5. IsFiniteSet(U)
  BY <1>3, <1>4, FS_Subset
<1>6. IsFiniteSet(U \ F[r]) /\ Cardinality(U \ F[r]) = s - f[r]
  <2>1. U \cap F[r] = F[r]
    BY <1>3
  <2>2. IsFiniteSet(U \ F[r]) /\ Cardinality(U \ F[r]) = Cardinality(U) - Cardinality(U \cap F[r])
    BY <1>5, FS_Difference
  <2> HIDE DEF U
  <2> QED BY <2>1, <2>2, <1>1, <1>2 DEF U
<1>7. V = (U \ F[r]) \cup N
  <2>1. ASSUME NEW q \in Requests, q # r PROVE G[q] = F[q] /\ F[q] \cap F[r] = {}
    BY <2>1, <1>1, <1>2 DEF Shares
  <2>2. G[r] = N
    BY <1>2
  <2> HIDE DEF G, N
  <2> QED BY <2>1, <2>2
<1>8. (U \ F[r]) \cap N = {}
  BY <1>3
<1>9. Cardinality(V) = s - f[r] + g[r]
  <2>1. s - f[r] \in Nat
    BY <1>6, FS_CardinalityType
  <2>2. Cardinality((U \ F[r]) \cup N)
          = Cardinality(U \ F[r]) + Cardinality(N) - Cardinality((U \ F[r]) \cap N)
    BY <1>4, <1>6, FS_Union
  <2>3. Cardinality((U \ F[r]) \cap N) = 0
    BY <1>8, FS_EmptySet
  <2> HIDE DEF U, V, N
  <2> QED BY <2>1, <2>2, <2>3, <1>4, <1>6, <1>7
<1>10. Shares(g, m, G)
  <2>1. m \in Nat
    OBVIOUS
  <2>2. G \in [Requests -> SUBSET (1 .. m)]
    <3>1. ASSUME NEW q \in Requests PROVE F[q] \subseteq 1 .. m
      BY <1>2
    <3>2. N \subseteq 1 .. m
      OBVIOUS
    <3> HIDE DEF N, m
    <3> QED BY <3>1, <3>2, <1>2
  <2>3. ASSUME NEW q \in Requests PROVE Cardinality(G[q]) = g[q]
    <3>1. CASE q = r
      BY <3>1, <1>2, <1>4
    <3>2. CASE q # r
      BY <3>2, <1>1, <1>2 DEF Shares
    <3> QED BY <3>1, <3>2
  <2>4. ASSUME NEW q \in Requests, NEW t \in Requests, q # t PROVE G[q] \cap G[t] = {}
    <3>1. \A u \in Requests : F[u] \cap N = {}
      BY <1>2
    <3>2. F[q] \cap F[t] = {}
      BY <2>4, <1>1 DEF Shares
    <3> HIDE DEF N
    <3> QED BY <3>1, <3>2, <2>4, <1>2
  <2> HIDE DEF G
  <2> QED BY <2>2, <2>3, <2>4 DEF Shares
<1>11. m \in Nat
  OBVIOUS
<1> HIDE DEF G, m
<1> QED BY <1>9, <1>10, <1>11 DEF Tally

(* Nothing to add up. *)
LEMMA TallyZero ==
  ASSUME NEW f, \A r \in Requests : f[r] = 0
  PROVE  Tally(f, 0) /\ \A s : Tally(f, s) => s = 0
<1>1. Tally(f, 0)
  <2> DEFINE F == [r \in Requests |-> {}]
  <2>1. Shares(f, 0, F)
    <3>1. Cardinality({}) = 0
      BY FS_EmptySet
    <3> QED BY <3>1 DEF Shares
  <2>2. UNION {F[r] : r \in Requests} = {}
    OBVIOUS
  <2>3. 0 = Cardinality(UNION {F[r] : r \in Requests})
    BY <2>2, FS_EmptySet
  <2> HIDE DEF F
  <2> QED BY <2>1, <2>3 DEF Tally
<1>2. ASSUME NEW s, Tally(f, s) PROVE s = 0
  <2>0. PICK n \in Nat : \E F : Shares(f, n, F) /\ s = Cardinality(UNION {F[q] : q \in Requests})
    BY <1>2 DEF Tally
  <2>1. PICK F : Shares(f, n, F) /\ s = Cardinality(UNION {F[q] : q \in Requests})
    BY <2>0
  <2>2. ASSUME NEW r \in Requests PROVE F[r] = {}
    <3>1. F[r] \subseteq 1 .. n /\ Cardinality(F[r]) = 0
      BY <2>1 DEF Shares
    <3>2. IsFiniteSet(1 .. n)
      BY FS_Interval
    <3>3. IsFiniteSet(F[r])
      BY <3>1, <3>2, FS_Subset
    <3> QED BY <3>1, <3>3, FS_EmptySet
  <2>3. UNION {F[r] : r \in Requests} = {}
    BY <2>2
  <2> QED BY <2>1, <2>3, FS_EmptySet
<1> QED BY <1>1, <1>2

(* Summands that do not change. *)
LEMMA TallySame ==
  ASSUME NEW f, NEW s, Tally(f, s), NEW g, \A q \in Requests : g[q] = f[q]
  PROVE  Tally(g, s)
<1>0. PICK n \in Nat : \E F : Shares(f, n, F) /\ s = Cardinality(UNION {F[q] : q \in Requests})
  BY DEF Tally
<1>1. PICK F : Shares(f, n, F) /\ s = Cardinality(UNION {F[q] : q \in Requests})
  BY <1>0
<1>2. Shares(g, n, F)
  BY <1>1 DEF Shares
<1> QED BY <1>1, <1>2 DEF Tally

-----------------------------------------------------------------------------
(* The batch of checks and the lists of adjustments. *)

Windows == {"tpm", "tpd", "rpm", "rpd"}
Names == Windows \cup {"spend"}

(* Only the first entry may be the budget, and it is when there is one. *)
SpendFirst(s) ==
  /\ s \in Seq(Names)
  /\ \A i \in 2 .. Len(s) : s[i] \in Windows
  /\ "spend" \in Optional => s # <<>> /\ s[1] = "spend"
  /\ "spend" \notin Optional /\ s # <<>> => s[1] \in Windows

(* Adjustments of a request of period p: only the first may be to a spend
   counter, and that is the counter of its own period. *)
TodoFor(s, p) ==
  /\ s \in Seq(Keys \X Int)
  /\ \A i \in 2 .. Len(s) : s[i] \in WindowKeys \X Int
  /\ s # <<>> => s[1] \in (WindowKeys \cup {SpendKey(p)}) \X Int

(* What a list of adjustments has still to add to the spend counter of p. *)
Owed(s, p) == IF s # <<>> /\ s[1][1] = SpendKey(p) THEN s[1][2] ELSE 0

LEMMA SpendFirstConcat ==
  ASSUME NEW s, SpendFirst(s), NEW t \in Seq(Windows)
  PROVE  SpendFirst(s \o t) /\ Len(s \o t) = Len(s) + Len(t)
<1>1. s \in Seq(Names) /\ t \in Seq(Names) /\ Len(s) \in Nat /\ Len(t) \in Nat
  BY DEF SpendFirst, Names
<1>2. s \o t \in Seq(Names) /\ Len(s \o t) = Len(s) + Len(t)
  BY <1>1
<1>3. ASSUME NEW i \in 1 .. Len(s \o t)
      PROVE  (s \o t)[i] = IF i <= Len(s) THEN s[i] ELSE t[i - Len(s)]
  BY <1>1, <1>2
<1>4. ASSUME NEW i \in 1 .. Len(s \o t), i > Len(s) PROVE (s \o t)[i] \in Windows
  BY <1>1, <1>2, <1>3, <1>4
<1>5. \A i \in 2 .. Len(s \o t) : (s \o t)[i] \in Windows
  BY <1>1, <1>2, <1>3, <1>4 DEF SpendFirst
<1>6. CASE s = <<>>
  BY <1>1, <1>2, <1>4, <1>5, <1>6 DEF SpendFirst
<1>7. CASE s # <<>>
  <2>1. Len(s) > 0 /\ (s \o t)[1] = s[1] /\ s \o t # <<>>
    BY <1>1, <1>2, <1>3, <1>7
  <2> QED BY <1>2, <1>5, <1>7, <2>1 DEF SpendFirst
<1> QED BY <1>2, <1>6, <1>7

LEMMA ChosenFacts ==
  /\ SpendFirst(Chosen("spend"))
  /\ \A name \in Windows : Chosen(name) \in Seq(Windows) /\ Len(Chosen(name)) \in Nat
  /\ Len(Chosen("tpm")) = 1 /\ Len(Chosen("rpm")) = 1
<1>1. SpendFirst(Chosen("spend"))
  <2>1. CASE "spend" \in Optional
    <3>1. Chosen("spend") = <<"spend">>
      BY <2>1 DEF Chosen, Configured
    <3>2. <<"spend">> \in Seq(Names) /\ Len(<<"spend">>) = 1 /\ <<"spend">> # <<>>
      BY DEF Names
    <3>3. Len(Chosen("spend")) = 1 /\ Chosen("spend")[1] = "spend"
      BY <3>1
    <3>4. \A i : i \in 2 .. 1 => FALSE
      OBVIOUS
    <3> QED BY <2>1, <3>1, <3>2, <3>3, <3>4 DEF SpendFirst
  <2>2. CASE "spend" \notin Optional
    <3>1. Chosen("spend") = <<>>
      BY <2>2 DEF Chosen, Configured
    <3>2. Chosen("spend") \in Seq(Names) /\ Len(Chosen("spend")) = 0
      BY <3>1, EmptySeq
    <3>3. \A i : i \in 2 .. 0 => FALSE
      OBVIOUS
    <3> QED BY <2>2, <3>1, <3>2, <3>3 DEF SpendFirst
  <2> QED BY <2>1, <2>2
<1>2. ASSUME NEW name \in Windows PROVE Chosen(name) \in Seq(Windows) /\ Len(Chosen(name)) \in Nat
  BY DEF Chosen
<1>3. Len(Chosen("tpm")) = 1 /\ Len(Chosen("rpm")) = 1
  BY DEF Chosen, Configured
<1> QED BY <1>1, <1>2, <1>3

(* The batch checks the budget first, and at least two limits. *)
LEMMA ChecksFacts ==
  SpendFirst(Checks) /\ Len(Checks) \in Nat /\ Len(Checks) >= 2
<1> DEFINE a == Chosen("spend") \o Chosen("tpm")
           b == a \o Chosen("tpd")
           c == b \o Chosen("rpm")
<1>1. Len(Chosen("spend")) \in Nat
  BY ChosenFacts DEF SpendFirst
<1>2. SpendFirst(a) /\ Len(a) = Len(Chosen("spend")) + 1
  BY ChosenFacts, SpendFirstConcat DEF Windows
<1>3. SpendFirst(b) /\ Len(b) = Len(a) + Len(Chosen("tpd"))
  <2> HIDE DEF a
  <2> QED BY <1>2, ChosenFacts, SpendFirstConcat DEF Windows
<1>4. SpendFirst(c) /\ Len(c) = Len(b) + 1
  <2> HIDE DEF b
  <2> QED BY <1>3, ChosenFacts, SpendFirstConcat DEF Windows
<1>5. SpendFirst(Checks) /\ Len(Checks) = Len(c) + Len(Chosen("rpd"))
  <2>1. Checks = c \o Chosen("rpd")
    BY DEF Checks
  <2> HIDE DEF c
  <2> QED BY <2>1, <1>4, ChosenFacts, SpendFirstConcat DEF Windows
<1>6. Len(Chosen("tpd")) \in Nat /\ Len(Chosen("rpd")) \in Nat
  BY ChosenFacts DEF Windows
<1> HIDE DEF a, b, c
<1> QED BY <1>1, <1>2, <1>3, <1>4, <1>5, <1>6

(* A refund begins with the budget, unless the budget refused. *)
LEMMA RefundNamesFacts ==
  ASSUME NEW denied
  PROVE  IF denied = "spend" THEN RefundNames(denied) = <<>>
                             ELSE SpendFirst(RefundNames(denied))
<1> DEFINE a == Chosen("spend") \o Chosen("tpm")
<1>1. SpendFirst(a)
  BY ChosenFacts, SpendFirstConcat DEF Windows
<1>2. SpendFirst(a \o Chosen("tpd"))
  <2> HIDE DEF a
  <2> QED BY <1>1, ChosenFacts, SpendFirstConcat DEF Windows
<1> QED BY <1>1, <1>2, ChosenFacts DEF RefundNames

LEMMA KeyOfFacts ==
  ASSUME NEW p \in Periods
  PROVE  /\ SpendKey(p) \in Keys /\ SpendKey(p) \notin WindowKeys
         /\ \A x \in Periods : SpendKey(x) = SpendKey(p) => x = p
         /\ KeyOf("spend", p) = SpendKey(p)
         /\ \A name \in Windows : KeyOf(name, p) \in WindowKeys
         /\ WindowKeys \subseteq Keys
BY DEF KeyOf, SpendKey, Keys, SpendKeys, WindowKeys, Windows

LEMMA AmountFacts ==
  /\ Amount("spend") = Estimate
  /\ \A name \in Names : Amount(name) \in Nat
BY LimitsAssumption DEF Amount, Names, Windows

LEMMA RefundFacts ==
  ASSUME NEW q, q.period \in Periods
  PROVE  /\ TodoFor(RefundOf(q), q.period)
         /\ \A p \in Periods : Owed(RefundOf(q), p) =
              IF "spend" \in Optional /\ q.denied # "spend" /\ p = q.period THEN -Estimate ELSE 0
         /\ "spend" \in Optional => (RefundOf(q) = <<>> <=> q.denied = "spend")
<1> DEFINE names == RefundNames(q.denied)
<1>1. names \in Seq(Names) /\ Len(names) \in Nat
  <2>1. CASE q.denied = "spend"
    <3>1. names = <<>>
      BY <2>1, RefundNamesFacts
    <3> HIDE DEF names
    <3> QED BY <3>1
  <2>2. CASE q.denied # "spend"
    <3>1. SpendFirst(names)
      BY <2>2, RefundNamesFacts
    <3> HIDE DEF names
    <3> QED BY <3>1 DEF SpendFirst
  <2> QED BY <2>1, <2>2
<1>2. RefundOf(q) = [i \in 1 .. Len(names) |-> <<KeyOf(names[i], q.period), -Amount(names[i])>>]
  BY DEF RefundOf
<1>3. ASSUME NEW i \in 1 .. Len(names)
      PROVE  /\ RefundOf(q)[i] = <<KeyOf(names[i], q.period), -Amount(names[i])>>
             /\ RefundOf(q)[i] \in Keys \X Int
             /\ names[i] \in Windows => RefundOf(q)[i] \in WindowKeys \X Int
             /\ names[i] = "spend" => RefundOf(q)[i] = <<SpendKey(q.period), -Estimate>>
  <2>1. names[i] \in Names
    BY <1>1
  <2>2. -Amount(names[i]) \in Int
    BY <2>1, AmountFacts
  <2> HIDE DEF names
  <2> QED BY <2>1, <2>2, <1>2, KeyOfFacts, AmountFacts DEF Names
<1>4. /\ RefundOf(q) \in Seq(Keys \X Int) /\ Len(RefundOf(q)) = Len(names)
      /\ RefundOf(q) = <<>> <=> names = <<>>
  <2> HIDE DEF names
  <2>1. RefundOf(q) \in [1 .. Len(names) -> Keys \X Int]
    BY <1>2, <1>3
  <2>2. RefundOf(q) \in Seq(Keys \X Int) /\ Len(RefundOf(q)) = Len(names)
    BY <2>1, <1>1
  <2> QED BY <2>2, <1>1
<1>5. CASE q.denied = "spend"
  <2>1. RefundOf(q) = <<>>
    BY <1>4, <1>5, RefundNamesFacts
  <2> QED BY <1>4, <1>5, <2>1 DEF TodoFor, Owed
<1>6. CASE q.denied # "spend"
  <2>1. SpendFirst(names)
    BY <1>6, RefundNamesFacts
  <2>2. \A i \in 2 .. Len(names) : names[i] \in Windows
    BY <2>1 DEF SpendFirst
  <2>3. CASE "spend" \in Optional
    <3>1. names # <<>> /\ names[1] = "spend"
      BY <2>1, <2>3 DEF SpendFirst
    <3> HIDE DEF names
    <3>2. 1 \in 1 .. Len(names)
      BY <3>1, <1>1
    <3>3. RefundOf(q)[1] = <<SpendKey(q.period), -Estimate>>
      BY <3>1, <3>2, <1>3
    <3>4. TodoFor(RefundOf(q), q.period)
      BY <3>2, <3>3, <1>3, <1>4, <2>2, LimitsAssumption DEF TodoFor
    <3>5. \A p \in Periods : Owed(RefundOf(q), p) = IF p = q.period THEN -Estimate ELSE 0
      BY <3>1, <3>3, <1>4, KeyOfFacts DEF Owed
    <3> QED BY <3>1, <3>4, <3>5, <1>4, <1>6, <2>3
  <2>4. CASE "spend" \notin Optional
    <3>1. names # <<>> => names[1] \in Windows
      BY <2>1, <2>4 DEF SpendFirst
    <3> HIDE DEF names
    <3>2. names # <<>> => 1 \in 1 .. Len(names)
      BY <1>1
    <3>3. RefundOf(q) # <<>> => RefundOf(q)[1] \in WindowKeys \X Int
      BY <3>1, <3>2, <1>3, <1>4
    <3>4. TodoFor(RefundOf(q), q.period)
      BY <3>3, <1>3, <1>4, <2>2 DEF TodoFor
    <3>5. \A p \in Periods : Owed(RefundOf(q), p) = 0
      BY <3>3, <1>4, KeyOfFacts DEF Owed
    <3> QED BY <3>4, <3>5, <2>4
  <2> QED BY <2>3, <2>4
<1> QED BY <1>5, <1>6

LEMMA TodoConcat ==
  ASSUME NEW p, NEW s, TodoFor(s, p), NEW t \in Seq(WindowKeys \X Int)
  PROVE  TodoFor(s \o t, p) /\ \A x \in Periods : Owed(s \o t, x) = Owed(s, x)
<1>1. s \in Seq(Keys \X Int) /\ t \in Seq(Keys \X Int) /\ Len(s) \in Nat /\ Len(t) \in Nat
  BY DEF TodoFor, Keys
<1>2. s \o t \in Seq(Keys \X Int) /\ Len(s \o t) = Len(s) + Len(t)
  BY <1>1
<1>3. ASSUME NEW i \in 1 .. Len(s \o t)
      PROVE  (s \o t)[i] = IF i <= Len(s) THEN s[i] ELSE t[i - Len(s)]
  BY <1>1, <1>2
<1>4. ASSUME NEW i \in 1 .. Len(s \o t), i > Len(s) PROVE (s \o t)[i] \in WindowKeys \X Int
  BY <1>1, <1>2, <1>3, <1>4
<1>5. \A i \in 2 .. Len(s \o t) : (s \o t)[i] \in WindowKeys \X Int
  BY <1>1, <1>2, <1>3, <1>4 DEF TodoFor
<1>6. CASE s = <<>>
  <2>1. s \o t # <<>> => (s \o t)[1] \in WindowKeys \X Int
    BY <1>1, <1>2, <1>4, <1>6
  <2>2. TodoFor(s \o t, p)
    BY <1>2, <1>5, <2>1 DEF TodoFor
  <2>3. ASSUME NEW x \in Periods PROVE Owed(s \o t, x) = 0
    BY <2>1, KeyOfFacts DEF Owed
  <2> QED BY <1>6, <2>2, <2>3 DEF Owed
<1>7. CASE s # <<>>
  <2>1. (s \o t)[1] = s[1] /\ s \o t # <<>>
    BY <1>1, <1>2, <1>3, <1>7
  <2> QED BY <1>2, <1>5, <1>7, <2>1 DEF TodoFor, Owed
<1> QED BY <1>6, <1>7

(* The settlement of a call replaces the estimate by what is charged. *)
LEMMA SettlementFacts ==
  ASSUME NEW p \in Periods, NEW charged \in Nat, NEW tokens \in Nat
  PROVE  /\ TodoFor(Settlement(p, charged, tokens), p)
         /\ \A x \in Periods : Owed(Settlement(p, charged, tokens), x) =
              IF "spend" \in Optional /\ x = p THEN charged - Estimate ELSE 0
<1> DEFINE s == Adjustment("spend", p, charged - Estimate)
           t == Adjustment("tpm", p, tokens - EstTokens)
           u == Adjustment("tpd", p, tokens - EstTokens)
<1>0. charged - Estimate \in Int /\ tokens - EstTokens \in Int
  BY LimitsAssumption
<1>1. TodoFor(s, p)
  <2>1. CASE s = <<>>
    <3>1. <<>> \in Seq(Keys \X Int) /\ Len(<<>>) = 0
      OBVIOUS
    <3> HIDE DEF s
    <3> QED BY <2>1, <3>1 DEF TodoFor
  <2>2. CASE s = << <<SpendKey(p), charged - Estimate>> >>
    <3>1. <<SpendKey(p), charged - Estimate>> \in Keys \X Int
      BY <1>0, KeyOfFacts
    <3> HIDE DEF s
    <3>2. s \in Seq(Keys \X Int) /\ Len(s) = 1 /\ s[1] = <<SpendKey(p), charged - Estimate>>
      BY <2>2, <3>1
    <3>3. \A i : i \in 2 .. 1 => FALSE
      OBVIOUS
    <3> QED BY <1>0, <3>2, <3>3 DEF TodoFor
  <2>3. s = <<>> \/ s = << <<SpendKey(p), charged - Estimate>> >>
    BY KeyOfFacts DEF Adjustment
  <2> QED BY <2>1, <2>2, <2>3
<1>2. ASSUME NEW x \in Periods
      PROVE  Owed(s, x) = IF "spend" \in Optional /\ x = p THEN charged - Estimate ELSE 0
  <2>1. CASE charged - Estimate # 0 /\ "spend" \in Optional
    <3>1. s = << <<SpendKey(p), charged - Estimate>> >>
      BY <2>1, KeyOfFacts DEF Adjustment, Configured
    <3> QED BY <2>1, <3>1, KeyOfFacts DEF Owed
  <2>2. CASE ~(charged - Estimate # 0 /\ "spend" \in Optional)
    <3>1. s = <<>>
      BY <2>2 DEF Adjustment, Configured
    <3> QED BY <2>2, <3>1 DEF Owed
  <2> QED BY <2>1, <2>2
<1>3. t \in Seq(WindowKeys \X Int) /\ u \in Seq(WindowKeys \X Int)
  <2>1. ASSUME NEW name \in Windows
        PROVE  Adjustment(name, p, tokens - EstTokens) \in Seq(WindowKeys \X Int)
    <3>1. <<KeyOf(name, p), tokens - EstTokens>> \in WindowKeys \X Int
      BY <1>0, KeyOfFacts
    <3>2. << <<KeyOf(name, p), tokens - EstTokens>> >> \in Seq(WindowKeys \X Int)
      BY <3>1
    <3> QED BY <3>2, EmptySeq DEF Adjustment
  <2> QED BY <2>1 DEF Windows
<1>4. Settlement(p, charged, tokens) = s \o t \o u
  BY DEF Settlement
<1> HIDE DEF s, t, u
<1>5. TodoFor(s \o t, p) /\ \A x \in Periods : Owed(s \o t, x) = Owed(s, x)
  BY <1>1, <1>3, TodoConcat
<1>6. TodoFor(s \o t \o u, p) /\ \A x \in Periods : Owed(s \o t \o u, x) = Owed(s \o t, x)
  BY <1>3, <1>5, TodoConcat
<1> QED BY <1>2, <1>4, <1>5, <1>6

(* One adjustment is made: what remains is for the windows. *)
LEMMA TailFacts ==
  ASSUME NEW p \in Periods, NEW s, TodoFor(s, p), s # <<>>
  PROVE  /\ TodoFor(Tail(s), p)
         /\ \A x \in Periods : Owed(Tail(s), x) = 0
         /\ Len(s) = 1 <=> Tail(s) = <<>>
         /\ Head(s) = s[1] /\ s[1] \in Keys \X Int
<1>1. s \in Seq(Keys \X Int) /\ Len(s) \in Nat \ {0}
  BY DEF TodoFor
<1>2. /\ Tail(s) \in Seq(Keys \X Int) /\ Len(Tail(s)) = Len(s) - 1
      /\ \A i \in 1 .. Len(Tail(s)) : Tail(s)[i] = s[i + 1]
      /\ Head(s) = s[1] /\ s[1] \in Keys \X Int
  BY <1>1
<1>3. ASSUME NEW i \in 1 .. Len(Tail(s)) PROVE Tail(s)[i] \in WindowKeys \X Int
  BY <1>1, <1>2 DEF TodoFor
<1>4. Tail(s) # <<>> => 1 \in 1 .. Len(Tail(s))
  BY <1>1, <1>2
<1>5. TodoFor(Tail(s), p)
  BY <1>2, <1>3, <1>4 DEF TodoFor
<1>6. ASSUME NEW x \in Periods PROVE Owed(Tail(s), x) = 0
  BY <1>3, <1>4, KeyOfFacts DEF Owed
<1>7. Len(s) = 1 <=> Tail(s) = <<>>
  <2> DEFINE t == Tail(s)
  <2>1. t \in Seq(Keys \X Int) /\ Len(t) = Len(s) - 1
    BY <1>2
  <2> HIDE DEF t
  <2>2. t = <<>> <=> Len(t) = 0
    BY <2>1, EmptySeq
  <2>3. Tail(s) = <<>> <=> Len(s) = 1
    BY <1>1, <2>1, <2>2 DEF t
  <2> QED BY <2>3
<1> QED BY <1>2, <1>5, <1>6, <1>7

-----------------------------------------------------------------------------
(* The types, strengthened by what a request may have to do at each step. *)

Reqs ==
  [pc : {"new", "check", "call", "refund", "settle", "done"}, period : Periods,
   next : 0 .. Len(Checks), denied : {"none", "spend", "tpm", "tpd", "rpm", "rpd"},
   todo : Seq(Keys \X Int)]

Sane(q) ==
  /\ q \in Reqs
  /\ TodoFor(q.todo, q.period)
  /\ q.pc \in {"refund", "settle"} <=> q.todo # <<>>
  /\ q.pc = "new" => q.next = 0 /\ q.denied = "none"
  /\ q.pc = "check" => q.next \in 1 .. Len(Checks) - 1
  /\ q.pc = "call" => q.denied = "none"

(* The budget is the last counter that a rotation deletes. *)
SpendLast ==
  /\ rotating \in Seq(Names)
  /\ \A i \in 1 .. Len(rotating) : i < Len(rotating) => rotating[i] \in Windows
  /\ rotating # <<>> => rotations > 0

Types ==
  /\ counter \in [Keys -> Int]
  /\ ttl \subseteq WindowKeys
  /\ period \in Periods
  /\ req \in [Requests -> Reqs]
  /\ \A r \in Requests : Sane(req[r])
  /\ SpendLast
  /\ rotations \in 0 .. MaxRotations /\ faults \in 0 .. MaxFaults
  /\ cost \in [Periods -> Nat] /\ over \in [Periods -> Nat]

(* The request has a reservation in the spend counter of p. *)
Holds(q, p) == q.pc \in {"check", "call"} /\ q.period = p /\ q.denied # "spend"

Excess(c) == IF c > Estimate THEN c - Estimate ELSE 0

Kept(p) == counter'[SpendKey(p)] = counter[SpendKey(p)]
Steady(p) == cost'[p] = cost[p] /\ over'[p] = over[p]

(* What one step of a request, from q to q2, means for the books of p. *)
Idle(q, q2, p) ==
  /\ "spend" \in Optional => (Holds(q2, p) <=> Holds(q, p))
  /\ Owed(q2.todo, p) = Owed(q.todo, p)
  /\ Kept(p) /\ Steady(p)

Reserves(q, q2, p) ==
  /\ ~Holds(q, p) /\ Holds(q2, p)
  /\ Owed(q.todo, p) = 0 /\ Owed(q2.todo, p) = 0
  /\ counter'[SpendKey(p)] = counter[SpendKey(p)] + Estimate
  /\ counter'[SpendKey(p)] <= Budget
  /\ Steady(p)

GivesBack(q, q2, p) ==
  /\ Holds(q, p) /\ ~Holds(q2, p)
  /\ Owed(q.todo, p) = 0
  /\ Owed(q2.todo, p) \in Int /\ Owed(q2.todo, p) <= 0
  /\ "spend" \in Optional => Owed(q2.todo, p) = -Estimate
  /\ Kept(p) /\ Steady(p)

Charges(q, q2, p) ==
  /\ Holds(q, p) /\ ~Holds(q2, p)
  /\ Owed(q.todo, p) = 0
  /\ \E c \in Nat :
       /\ cost'[p] = cost[p] + c /\ over'[p] = over[p] + Excess(c)
       /\ Owed(q2.todo, p) \in Int /\ Owed(q2.todo, p) <= Excess(c)
       /\ "spend" \in Optional /\ Streamed = {} => Owed(q2.todo, p) = c - Estimate
  /\ Kept(p)

Adjusts(q, q2, p) ==
  /\ ~Holds(q, p) /\ ~Holds(q2, p)
  /\ Owed(q2.todo, p) = 0
  /\ counter'[SpendKey(p)] = counter[SpendKey(p)] + Owed(q.todo, p)
  /\ Steady(p)

Loses(q, q2, p) ==
  /\ ~Holds(q2, p) /\ Owed(q2.todo, p) = 0
  /\ faults' > 0
  /\ Kept(p) /\ Steady(p)

Moves(q, q2, p) ==
  \/ Idle(q, q2, p) \/ Reserves(q, q2, p) \/ GivesBack(q, q2, p)
  \/ Charges(q, q2, p) \/ Adjusts(q, q2, p) \/ Loses(q, q2, p)

(* A step of request r: it becomes sane again and moves the books. *)
Step(r) ==
  \E q2 : /\ req' = [req EXCEPT ![r] = q2] /\ Sane(q2)
          /\ \A p \in Periods : Moves(req[r], q2, p)

LEMMA EmptyTodo ==
  ASSUME NEW p \in Periods
  PROVE  /\ TodoFor(<<>>, p) /\ <<>> \in Seq(Keys \X Int)
         /\ \A x \in Periods : Owed(<<>>, x) = 0
<1>1. <<>> \in Seq(Keys \X Int) /\ Len(<<>>) = 0
  BY EmptySeq
<1>2. \A i : i \in 2 .. 0 => FALSE
  OBVIOUS
<1> QED BY <1>1, <1>2 DEF TodoFor, Owed

(* What is owed is a number. *)
LEMMA OwedType ==
  ASSUME NEW q, Sane(q), NEW p \in Periods
  PROVE  Owed(q.todo, p) \in Int /\ (q.todo = <<>> => Owed(q.todo, p) = 0)
<1>1. q.todo # <<>> => q.todo[1][2] \in Int
  BY DEF Sane, TodoFor
<1> QED BY <1>1 DEF Owed

(* A request that has run some of its checks. *)
Ready(q) ==
  q \in Reqs /\ q.todo = <<>> /\ q.next \in 1 .. Len(Checks)

LEMMA AfterBatchFacts ==
  ASSUME NEW q, Ready(q), NEW q2, q2 = AfterBatch(q)
  PROVE  /\ Sane(q2)
         /\ \A p \in Periods :
              \/ /\ "spend" \in Optional =>
                      (Holds(q2, p) <=> q.period = p /\ q.denied # "spend")
                 /\ Owed(q2.todo, p) = 0
              \/ /\ q.period = p /\ q.denied # "spend" /\ ~Holds(q2, p)
                 /\ Owed(q2.todo, p) \in Int /\ Owed(q2.todo, p) <= 0
                 /\ "spend" \in Optional => Owed(q2.todo, p) = -Estimate
         /\ q.next < Len(Checks) => \A p \in Periods :
              /\ Holds(q2, p) <=> q.period = p /\ q.denied # "spend"
              /\ Owed(q2.todo, p) = 0
<1>0. /\ q \in Reqs /\ q.period \in Periods /\ q.todo = <<>> /\ q.next \in 1 .. Len(Checks)
      /\ Len(Checks) \in Nat /\ Len(Checks) >= 2 /\ q.next \in Nat
  BY ChecksFacts DEF Ready, Reqs
<1>a. TodoFor(<<>>, q.period) /\ \A x \in Periods : Owed(<<>>, x) = 0
  BY <1>0, EmptyTodo
<1>1. CASE q.next < Len(Checks)
  <2>1. q2 = [q EXCEPT !.pc = "check"]
    BY <1>1 DEF AfterBatch
  <2>2. /\ q2 \in Reqs /\ q2.pc = "check" /\ q2.period = q.period /\ q2.next = q.next
        /\ q2.denied = q.denied /\ q2.todo = <<>>
    BY <2>1, <1>0 DEF Reqs
  <2>3. Sane(q2)
    BY <2>2, <1>0, <1>1, <1>a DEF Sane
  <2> QED BY <2>2, <2>3, <1>a DEF Holds
<1>2. CASE ~(q.next < Len(Checks)) /\ q.denied = "none"
  <2>1. q2 = [q EXCEPT !.pc = "call"]
    BY <1>2 DEF AfterBatch
  <2>2. /\ q2 \in Reqs /\ q2.pc = "call" /\ q2.period = q.period /\ q2.next = q.next
        /\ q2.denied = q.denied /\ q2.todo = <<>>
    BY <2>1, <1>0 DEF Reqs
  <2>3. Sane(q2)
    BY <2>2, <1>0, <1>2, <1>a DEF Sane
  <2> QED BY <2>2, <2>3, <1>a, <1>2 DEF Holds
<1>3. CASE ~(q.next < Len(Checks)) /\ q.denied # "none" /\ RefundOf(q) = <<>>
  <2>1. q2 = [q EXCEPT !.pc = "done"]
    BY <1>3 DEF AfterBatch
  <2>2. /\ q2 \in Reqs /\ q2.pc = "done" /\ q2.period = q.period /\ q2.next = q.next
        /\ q2.denied = q.denied /\ q2.todo = <<>>
    BY <2>1, <1>0 DEF Reqs
  <2>3. Sane(q2)
    BY <2>2, <1>0, <1>a DEF Sane
  <2>4. "spend" \in Optional => q.denied = "spend"
    BY <1>0, <1>3, RefundFacts
  <2> QED BY <2>2, <2>3, <2>4, <1>a, <1>3 DEF Holds
<1>4. CASE ~(q.next < Len(Checks)) /\ q.denied # "none" /\ RefundOf(q) # <<>>
  <2>1. q2 = [q EXCEPT !.pc = "refund", !.todo = RefundOf(q)]
    BY <1>4 DEF AfterBatch
  <2>0. TodoFor(RefundOf(q), q.period) /\ RefundOf(q) \in Seq(Keys \X Int)
    BY <1>0, RefundFacts DEF TodoFor
  <2>2. /\ q2 \in Reqs /\ q2.pc = "refund" /\ q2.period = q.period /\ q2.next = q.next
        /\ q2.denied = q.denied /\ q2.todo = RefundOf(q)
    BY <2>1, <2>0, <1>0 DEF Reqs
  <2>3. Sane(q2)
    BY <2>2, <2>0, <1>0, <1>4 DEF Sane
  <2>4. \A p \in Periods : ~Holds(q2, p)
    BY <2>2 DEF Holds
  <2>5. \A p \in Periods : Owed(q2.todo, p) =
          IF "spend" \in Optional /\ q.denied # "spend" /\ p = q.period THEN -Estimate ELSE 0
    BY <2>2, <1>0, RefundFacts
  <2>6. -Estimate \in Int /\ -Estimate <= 0
    BY LimitsAssumption
  <2> QED BY <2>3, <2>4, <2>5, <2>6, <1>4
<1> QED BY <1>1, <1>2, <1>3, <1>4

-----------------------------------------------------------------------------
(* The steps of a request. *)

LEMMA IncrByFacts ==
  ASSUME Types, NEW k \in Keys, NEW amount \in Int, IncrBy(k, amount)
  PROVE  /\ counter' \in [Keys -> Int] /\ ttl' \subseteq WindowKeys
         /\ counter'[k] = counter[k] + amount
         /\ \A x \in Keys \ {k} : counter'[x] = counter[x]
BY DEF Types, IncrBy

(* One check of the batch, of a request that was q0 before it. *)
LEMMA CheckNextFacts ==
  ASSUME Types, NEW r \in Requests, NEW q, CheckNext(r, q), cost' = cost, over' = over,
         q \in Reqs, q.todo = <<>>, q.next < Len(Checks), q.next = 0 => q.denied = "none",
         NEW q0, \A p \in Periods : Owed(q0.todo, p) = 0,
         \A p \in Periods : Holds(q0, p) <=> q.next # 0 /\ q.period = p /\ q.denied # "spend"
  PROVE  /\ counter' \in [Keys -> Int] /\ ttl' \subseteq WindowKeys
         /\ \E q2 : /\ req' = [req EXCEPT ![r] = q2] /\ Sane(q2)
                    /\ \A p \in Periods : Moves(q0, q2, p)
<1> DEFINE name == Checks[q.next + 1]
           k == KeyOf(name, q.period)
<1>0. /\ q.next \in Nat /\ q.period \in Periods /\ Len(Checks) \in Nat /\ Len(Checks) >= 2
      /\ q.next + 1 \in 1 .. Len(Checks)
  BY ChecksFacts DEF Reqs
<1>a. \A p \in Periods : Steady(p)
  BY DEF Steady
<1>1. name \in Names /\ (q.next # 0 => name \in Windows)
  <2>1. name \in Names
    BY <1>0, ChecksFacts DEF SpendFirst
  <2>2. q.next # 0 => q.next + 1 \in 2 .. Len(Checks)
    BY <1>0
  <2> QED BY <2>1, <2>2, ChecksFacts DEF SpendFirst
<1>2. q.next = 0 => (name = "spend" <=> "spend" \in Optional)
  <2>1. Checks # <<>>
    BY <1>0, EmptySeq
  <2>2. q.next = 0 => name = Checks[1]
    BY <1>0
  <2>3. "spend" \notin Windows
    BY DEF Windows
  <2> QED BY <2>1, <2>2, <2>3, ChecksFacts DEF SpendFirst
<1>3. k \in Keys /\ Amount(name) \in Int /\ (name \in Windows => k \in WindowKeys)
      /\ (name = "spend" => k = SpendKey(q.period) /\ Amount(name) = Estimate /\ Limit(name) = Budget)
  <2>1. Amount(name) \in Nat
    BY <1>1, AmountFacts
  <2> HIDE DEF name
  <2> QED BY <2>1, <1>0, <1>1, KeyOfFacts, AmountFacts DEF Names, Limit
<1>4. \/ Fits(name, k) /\ IncrBy(k, Amount(name))
         /\ req' = [req EXCEPT ![r] = AfterBatch([q EXCEPT !.next = @ + 1])]
      \/ /\ ~Fits(name, k)
         /\ req' = [req EXCEPT ![r] = AfterBatch(
              [q EXCEPT !.next = @ + 1,
                        !.denied = IF @ = "none" THEN name ELSE @])]
         /\ UNCHANGED <<counter, ttl>>
  BY DEF CheckNext
<1> HIDE DEF name, k
<1>5. CASE /\ Fits(name, k) /\ IncrBy(k, Amount(name))
           /\ req' = [req EXCEPT ![r] = AfterBatch([q EXCEPT !.next = @ + 1])]
  <2> DEFINE n == [q EXCEPT !.next = @ + 1]
             q2 == AfterBatch(n)
  <2>1. Ready(n) /\ n.period = q.period /\ n.denied = q.denied /\ n.next = q.next + 1
    BY <1>0 DEF Ready, Reqs
  <2>2. /\ counter' \in [Keys -> Int] /\ ttl' \subseteq WindowKeys
        /\ counter'[k] = counter[k] + Amount(name)
        /\ \A x \in Keys \ {k} : counter'[x] = counter[x]
    BY <1>3, <1>5, IncrByFacts
  <2>3. counter[k] + Amount(name) <= Limit(name)
    BY <1>5 DEF Fits
  <2> HIDE DEF n
  <2>4. /\ Sane(q2)
        /\ \A p \in Periods :
              \/ /\ "spend" \in Optional =>
                      (Holds(q2, p) <=> n.period = p /\ n.denied # "spend")
                 /\ Owed(q2.todo, p) = 0
              \/ /\ n.period = p /\ n.denied # "spend" /\ ~Holds(q2, p)
                 /\ Owed(q2.todo, p) \in Int /\ Owed(q2.todo, p) <= 0
                 /\ "spend" \in Optional => Owed(q2.todo, p) = -Estimate
        /\ n.next < Len(Checks) => \A p \in Periods :
              /\ Holds(q2, p) <=> n.period = p /\ n.denied # "spend"
              /\ Owed(q2.todo, p) = 0
    BY <2>1, AfterBatchFacts
  <2> HIDE DEF q2
  <2>5. ASSUME NEW p \in Periods PROVE Moves(q0, q2, p)
    <3>1. SpendKey(p) \in Keys /\ SpendKey(p) \notin WindowKeys
          /\ (SpendKey(p) = SpendKey(q.period) => p = q.period)
      BY <1>0, KeyOfFacts
    <3>2. CASE name \in Windows
      <4>1. Kept(p)
        BY <1>3, <2>2, <3>1, <3>2 DEF Kept
      <4>2. CASE q.next = 0
        <5>1. n.next < Len(Checks) /\ "spend" \notin Optional
          BY <4>2, <3>2, <2>1, <1>0, <1>2 DEF Windows
        <5> QED BY <5>1, <4>1, <2>4, <1>a DEF Moves, Idle
      <4>3. CASE q.next # 0
        <5>1. Holds(q0, p) <=> n.period = p /\ n.denied # "spend"
          BY <4>3, <2>1
        <5> QED BY <5>1, <4>1, <2>4, <1>a DEF Moves, Idle, GivesBack
      <4> QED BY <4>2, <4>3
    <3>3. CASE name = "spend"
      <4>1. q.next = 0 /\ n.next < Len(Checks) /\ n.denied = "none"
        BY <3>3, <2>1, <1>0, <1>1 DEF Windows
      <4>2. ~Holds(q0, p) /\ Owed(q2.todo, p) = 0 /\ (Holds(q2, p) <=> q.period = p)
        BY <4>1, <2>1, <2>4
      <4>3. CASE q.period = p
        <5>1. counter'[SpendKey(p)] = counter[SpendKey(p)] + Estimate
              /\ counter'[SpendKey(p)] <= Budget
          BY <4>3, <3>3, <1>3, <2>2, <2>3
        <5> QED BY <5>1, <4>2, <4>3, <1>a DEF Moves, Reserves
      <4>4. CASE q.period # p
        <5>1. Kept(p)
          BY <4>4, <3>1, <3>3, <1>3, <2>2 DEF Kept
        <5> QED BY <5>1, <4>2, <4>4, <1>a DEF Moves, Idle
      <4> QED BY <4>3, <4>4
    <3> QED BY <3>2, <3>3, <1>1 DEF Names
  <2>6. req' = [req EXCEPT ![r] = q2]
    BY <1>5 DEF q2, n
  <2> QED BY <2>2, <2>4, <2>5, <2>6
<1>6. CASE /\ ~Fits(name, k)
           /\ req' = [req EXCEPT ![r] = AfterBatch(
                [q EXCEPT !.next = @ + 1,
                          !.denied = IF @ = "none" THEN name ELSE @])]
           /\ UNCHANGED <<counter, ttl>>
  <2> DEFINE n == [q EXCEPT !.next = @ + 1, !.denied = IF @ = "none" THEN name ELSE @]
             q2 == AfterBatch(n)
  <2>1. /\ Ready(n) /\ n.period = q.period /\ n.next = q.next + 1
        /\ n.denied = IF q.denied = "none" THEN name ELSE q.denied
    <3> DEFINE d == IF q.denied = "none" THEN name ELSE q.denied
    <3>1. d \in {"none", "spend", "tpm", "tpd", "rpm", "rpd"} /\ q.next + 1 \in 0 .. Len(Checks)
      BY <1>0, <1>1 DEF Reqs, Names, Windows
    <3>2. n = [q EXCEPT !.next = q.next + 1, !.denied = d]
      OBVIOUS
    <3> HIDE DEF d
    <3>3. n \in Reqs /\ n.period = q.period /\ n.next = q.next + 1 /\ n.denied = d /\ n.todo = q.todo
      BY <3>1, <3>2 DEF Reqs
    <3> HIDE DEF n
    <3> QED BY <3>3, <1>0 DEF Ready, d
  <2>2. counter' \in [Keys -> Int] /\ ttl' \subseteq WindowKeys
    BY <1>6 DEF Types
  <2>3. \A p \in Periods : Kept(p)
    BY <1>6 DEF Kept
  <2> HIDE DEF n
  <2>4. /\ Sane(q2)
        /\ \A p \in Periods :
              \/ /\ "spend" \in Optional =>
                      (Holds(q2, p) <=> n.period = p /\ n.denied # "spend")
                 /\ Owed(q2.todo, p) = 0
              \/ /\ n.period = p /\ n.denied # "spend" /\ ~Holds(q2, p)
                 /\ Owed(q2.todo, p) \in Int /\ Owed(q2.todo, p) <= 0
                 /\ "spend" \in Optional => Owed(q2.todo, p) = -Estimate
        /\ n.next < Len(Checks) => \A p \in Periods :
              /\ Holds(q2, p) <=> n.period = p /\ n.denied # "spend"
              /\ Owed(q2.todo, p) = 0
    BY <2>1, AfterBatchFacts
  <2> HIDE DEF q2
  <2>5. ASSUME NEW p \in Periods PROVE Moves(q0, q2, p)
    <3>1. CASE q.next = 0
      <4>1. n.next < Len(Checks) /\ n.denied = name /\ ~Holds(q0, p)
        BY <3>1, <2>1, <1>0
      <4>2. "spend" \in Optional => ~Holds(q2, p)
        BY <4>1, <3>1, <1>2, <2>4
      <4> QED BY <4>1, <4>2, <2>3, <2>4, <1>a DEF Moves, Idle
    <3>2. CASE q.next # 0
      <4>1. n.denied # "spend" <=> q.denied # "spend"
        BY <3>2, <2>1, <1>1 DEF Windows
      <4>2. Holds(q0, p) <=> n.period = p /\ n.denied # "spend"
        BY <4>1, <3>2, <2>1
      <4> QED BY <4>2, <2>3, <2>4, <1>a DEF Moves, Idle, GivesBack
    <3> QED BY <3>1, <3>2
  <2>6. req' = [req EXCEPT ![r] = AfterBatch(
                  [q EXCEPT !.next = @ + 1, !.denied = IF @ = "none" THEN name ELSE @])]
    BY <1>6
  <2>7. req' = [req EXCEPT ![r] = q2]
    BY ONLY <2>6 DEF q2, n
  <2> QED BY <2>2, <2>4, <2>5, <2>7
<1> QED BY <1>4, <1>5, <1>6

(* A step of a request and what it leaves alone. *)
Advances(r) ==
  /\ Step(r)
  /\ counter' \in [Keys -> Int] /\ ttl' \subseteq WindowKeys
  /\ period' = period /\ rotating' = rotating /\ rotations' = rotations
  /\ faults' \in 0 .. MaxFaults /\ faults' >= faults
  /\ cost' \in [Periods -> Nat] /\ over' \in [Periods -> Nat]

LEMMA BeginCheckAdvances ==
  ASSUME Types, NEW r \in Requests, BeginCheck(r)
  PROVE  Advances(r)
<1> DEFINE q == [req[r] EXCEPT !.period = period]
<1>1. req[r] \in Reqs /\ Sane(req[r]) /\ req[r].pc = "new" /\ period \in Periods
  BY DEF Types, BeginCheck
<1>2. req[r].todo = <<>> /\ req[r].next = 0 /\ req[r].denied = "none" /\ req[r].period \in Periods
  BY <1>1 DEF Sane, Reqs
<1>3. q \in Reqs /\ q.todo = <<>> /\ q.next = 0 /\ q.denied = "none"
  BY <1>1, <1>2 DEF Reqs
<1>4. CheckNext(r, q) /\ UNCHANGED <<period, rotating, rotations, faults, cost, over>>
  BY DEF BeginCheck
<1> HIDE DEF q
<1>5. \A p \in Periods : Owed(req[r].todo, p) = 0 /\ ~Holds(req[r], p)
  BY <1>1, <1>2, EmptyTodo DEF Holds
<1>6. q.next < Len(Checks) /\ (q.next = 0 => q.denied = "none")
  BY <1>3, ChecksFacts
<1>7. \A p \in Periods : Holds(req[r], p) <=> q.next # 0 /\ q.period = p /\ q.denied # "spend"
  BY <1>3, <1>5
<1>8. /\ counter' \in [Keys -> Int] /\ ttl' \subseteq WindowKeys
      /\ \E q2 : /\ req' = [req EXCEPT ![r] = q2] /\ Sane(q2)
                 /\ \A p \in Periods : Moves(req[r], q2, p)
  BY <1>3, <1>4, <1>5, <1>6, <1>7, CheckNextFacts
<1>9. Step(r)
  BY <1>8 DEF Step
<1> QED BY <1>4, <1>8, <1>9 DEF Advances, Types

LEMMA CheckAdvances ==
  ASSUME Types, NEW r \in Requests, Check(r)
  PROVE  Advances(r)
<1> DEFINE q == req[r]
<1>1. q \in Reqs /\ Sane(q) /\ q.pc = "check"
  BY DEF Types, Check
<1>2. q.todo = <<>> /\ q.next \in 1 .. Len(Checks) - 1 /\ q.period \in Periods
  BY <1>1 DEF Sane, Reqs
<1>4. CheckNext(r, q) /\ UNCHANGED <<period, rotating, rotations, faults, cost, over>>
  BY DEF Check
<1> HIDE DEF q
<1>5. \A p \in Periods : Owed(q.todo, p) = 0
  BY <1>2, EmptyTodo
<1>6. q.next < Len(Checks) /\ q.next # 0 /\ (q.next = 0 => q.denied = "none")
  BY <1>2, ChecksFacts
<1>7. \A p \in Periods : Holds(q, p) <=> q.next # 0 /\ q.period = p /\ q.denied # "spend"
  BY <1>1, <1>6 DEF Holds
<1>8. /\ counter' \in [Keys -> Int] /\ ttl' \subseteq WindowKeys
      /\ \E q2 : /\ req' = [req EXCEPT ![r] = q2] /\ Sane(q2)
                 /\ \A p \in Periods : Moves(q, q2, p)
  BY <1>1, <1>2, <1>4, <1>5, <1>6, <1>7, CheckNextFacts
<1>9. Step(r)
  BY <1>8 DEF Step, q
<1> QED BY <1>4, <1>8, <1>9 DEF Advances, Types

(* A request that ends without its adjustments loses what it held. *)
LEMMA DroppedFacts ==
  ASSUME NEW q, Sane(q), NEW q2, q2 = [q EXCEPT !.pc = "done", !.todo = <<>>]
  PROVE  Sane(q2) /\ \A p \in Periods : ~Holds(q2, p) /\ Owed(q2.todo, p) = 0
<1>1. q \in Reqs /\ q.period \in Periods /\ <<>> \in Seq(Keys \X Int)
  BY EmptyTodo DEF Sane, Reqs
<1>2. q2 \in Reqs /\ q2.pc = "done" /\ q2.todo = <<>> /\ q2.period = q.period
  BY <1>1 DEF Reqs
<1> QED BY <1>1, <1>2, EmptyTodo DEF Sane, Holds

LEMMA LeavesAdvances ==
  ASSUME Types, NEW r \in Requests, CheckError(r) \/ ClientLeaves(r)
  PROVE  Advances(r)
<1> DEFINE q2 == [req[r] EXCEPT !.pc = "done", !.todo = <<>>]
<1>1. req \in [Requests -> Reqs] /\ req[r] \in Reqs /\ Sane(req[r])
  BY DEF Types
<1>2. req' = [req EXCEPT ![r] = q2]
  <2>1. CASE CheckError(r)
    <3>1. req[r].todo = <<>>
      BY <2>1, <1>1 DEF CheckError, Sane
    <3>2. [req[r] EXCEPT !.pc = "done"] = q2
      BY <3>1, <1>1 DEF Reqs
    <3>3. req' = [req EXCEPT ![r] = [req[r] EXCEPT !.pc = "done"]]
      BY <2>1, <1>1 DEF CheckError
    <3> QED BY <3>2, <3>3
  <2>2. CASE ClientLeaves(r)
    BY <2>2, <1>1 DEF ClientLeaves, Reqs
  <2> QED BY <2>1, <2>2
<1>3. Sane(q2) /\ \A p \in Periods : ~Holds(q2, p) /\ Owed(q2.todo, p) = 0
  BY <1>1, DroppedFacts
<1> HIDE DEF q2
<1>4. /\ faults < MaxFaults /\ faults' = faults + 1
      /\ UNCHANGED <<counter, ttl, period, rotating, rotations, cost, over>>
  BY DEF CheckError, ClientLeaves
<1>5. faults' \in 0 .. MaxFaults /\ faults' >= faults /\ faults' > 0
  BY <1>4, LimitsAssumption DEF Types
<1>6. \A p \in Periods : Moves(req[r], q2, p)
  BY <1>3, <1>4, <1>5 DEF Moves, Loses, Kept, Steady
<1>7. Step(r)
  BY <1>2, <1>3, <1>6 DEF Step
<1> QED BY <1>4, <1>5, <1>7 DEF Advances, Types

LEMMA SettleFacts ==
  ASSUME Types, NEW r \in Requests, req[r].pc = "call",
         NEW charged \in Nat, NEW tokens \in Nat, Settle(r, charged, tokens)
  PROVE  /\ req[r].period \in Periods
         /\ \A p \in Periods : /\ Holds(req[r], p) <=> p = req[r].period
                               /\ Owed(req[r].todo, p) = 0
         /\ \E q2 : /\ req' = [req EXCEPT ![r] = q2] /\ Sane(q2)
                    /\ \A p \in Periods :
                         /\ ~Holds(q2, p)
                         /\ Owed(q2.todo, p) = IF "spend" \in Optional /\ p = req[r].period
                                               THEN charged - Estimate ELSE 0
<1> DEFINE q == req[r]
           todo == Settlement(q.period, charged, tokens)
           pc == IF todo = <<>> THEN "done" ELSE "settle"
           q2 == [q EXCEPT !.pc = pc, !.todo = todo]
<1>1. req \in [Requests -> Reqs] /\ q \in Reqs /\ Sane(q)
  BY DEF Types
<1>2. q.period \in Periods /\ q.todo = <<>> /\ q.denied = "none"
  BY <1>1 DEF Sane, Reqs
<1>3. \A p \in Periods : Owed(q.todo, p) = 0 /\ (Holds(q, p) <=> p = q.period)
  BY <1>2, EmptyTodo DEF Holds
<1>4. /\ TodoFor(todo, q.period)
      /\ \A x \in Periods : Owed(todo, x) =
           IF "spend" \in Optional /\ x = q.period THEN charged - Estimate ELSE 0
  BY <1>2, SettlementFacts
<1>5. req' = [req EXCEPT ![r].todo = todo, ![r].pc = pc]
  BY DEF Settle
<1>6. pc \in {"done", "settle"} /\ (pc = "settle" <=> todo # <<>>)
  OBVIOUS
<1> HIDE DEF todo, pc
<1>7. req' = [req EXCEPT ![r] = q2]
  BY <1>1, <1>5 DEF Reqs
<1>8. todo \in Seq(Keys \X Int)
  BY <1>4 DEF TodoFor
<1>9. q2 \in Reqs /\ q2.pc = pc /\ q2.todo = todo /\ q2.period = q.period
  BY <1>1, <1>6, <1>8 DEF Reqs
<1> HIDE DEF q2
<1>10. Sane(q2)
  BY <1>4, <1>6, <1>9 DEF Sane
<1>11. \A p \in Periods : ~Holds(q2, p)
  BY <1>6, <1>9 DEF Holds
<1> QED BY <1>2, <1>3, <1>4, <1>7, <1>9, <1>10, <1>11

LEMMA FailAdvances ==
  ASSUME Types, NEW r \in Requests, Fail(r)
  PROVE  Advances(r)
<1>0. /\ req[r].pc = "call" /\ Settle(r, 0, 0)
      /\ UNCHANGED <<counter, ttl, period, rotating, rotations, faults, cost, over>>
  BY DEF Fail
<1>1. /\ req[r].period \in Periods
      /\ \A p \in Periods : /\ Holds(req[r], p) <=> p = req[r].period
                            /\ Owed(req[r].todo, p) = 0
      /\ \E q2 : /\ req' = [req EXCEPT ![r] = q2] /\ Sane(q2)
                 /\ \A p \in Periods :
                      /\ ~Holds(q2, p)
                      /\ Owed(q2.todo, p) = IF "spend" \in Optional /\ p = req[r].period
                                            THEN 0 - Estimate ELSE 0
  BY <1>0, SettleFacts
<1>2. PICK q2 : /\ req' = [req EXCEPT ![r] = q2] /\ Sane(q2)
                /\ \A p \in Periods :
                     /\ ~Holds(q2, p)
                     /\ Owed(q2.todo, p) = IF "spend" \in Optional /\ p = req[r].period
                                           THEN 0 - Estimate ELSE 0
  BY <1>1
<1>3. 0 - Estimate \in Int /\ 0 - Estimate <= 0 /\ 0 - Estimate = -Estimate
  BY LimitsAssumption
<1>4. ASSUME NEW p \in Periods PROVE Moves(req[r], q2, p)
  <2>1. Kept(p) /\ Steady(p)
    BY <1>0 DEF Kept, Steady
  <2>2. CASE p = req[r].period
    <3>1. Owed(q2.todo, p) \in Int /\ Owed(q2.todo, p) <= 0
          /\ ("spend" \in Optional => Owed(q2.todo, p) = -Estimate)
      BY <2>2, <1>2, <1>3
    <3> QED BY <3>1, <2>1, <2>2, <1>1, <1>2 DEF Moves, GivesBack
  <2>3. CASE p # req[r].period
    BY <2>1, <2>3, <1>1, <1>2 DEF Moves, Idle
  <2> QED BY <2>2, <2>3
<1>5. Step(r)
  BY <1>2, <1>4 DEF Step
<1>6. faults' \in 0 .. MaxFaults /\ faults' >= faults
  BY <1>0 DEF Types
<1> QED BY <1>0, <1>5, <1>6 DEF Advances, Types

LEMMA SucceedAdvances ==
  ASSUME Types, NEW r \in Requests, Succeed(r)
  PROVE  Advances(r)
<1>0. /\ req[r].pc = "call"
      /\ UNCHANGED <<counter, ttl, period, rotating, rotations, faults>>
  BY DEF Succeed
<1>1. PICK c \in Costs, t \in TokenCounts :
        /\ IF r \in Streamed THEN Settle(r, 0, 0) ELSE Settle(r, c, t)
        /\ cost' = [cost EXCEPT ![req[r].period] = @ + c]
        /\ over' = [over EXCEPT ![req[r].period] = @ + (IF c > Estimate THEN c - Estimate ELSE 0)]
  BY DEF Succeed
<1>2. c \in Nat /\ t \in Nat /\ Excess(c) \in Nat /\ Estimate \in Nat
  BY LimitsAssumption DEF Excess
<1>3. PICK charged \in Nat, tokens \in Nat :
        /\ Settle(r, charged, tokens) /\ charged <= c /\ (Streamed = {} => charged = c)
  <2>1. CASE r \in Streamed
    BY <1>1, <1>2, <2>1
  <2>2. CASE r \notin Streamed
    BY <1>1, <1>2, <2>2
  <2> QED BY <2>1, <2>2
<1>4. /\ req[r].period \in Periods
      /\ \A p \in Periods : /\ Holds(req[r], p) <=> p = req[r].period
                            /\ Owed(req[r].todo, p) = 0
      /\ \E q2 : /\ req' = [req EXCEPT ![r] = q2] /\ Sane(q2)
                 /\ \A p \in Periods :
                      /\ ~Holds(q2, p)
                      /\ Owed(q2.todo, p) = IF "spend" \in Optional /\ p = req[r].period
                                            THEN charged - Estimate ELSE 0
  BY <1>0, <1>3, SettleFacts
<1>5. PICK q2 : /\ req' = [req EXCEPT ![r] = q2] /\ Sane(q2)
                /\ \A p \in Periods :
                     /\ ~Holds(q2, p)
                     /\ Owed(q2.todo, p) = IF "spend" \in Optional /\ p = req[r].period
                                           THEN charged - Estimate ELSE 0
  BY <1>4
<1>6. over' = [over EXCEPT ![req[r].period] = @ + Excess(c)]
  BY <1>1 DEF Excess
<1>7. cost' \in [Periods -> Nat] /\ over' \in [Periods -> Nat]
  BY <1>1, <1>2, <1>4, <1>6 DEF Types
<1>8. ASSUME NEW p \in Periods PROVE Moves(req[r], q2, p)
  <2>1. Kept(p)
    BY <1>0 DEF Kept
  <2>2. CASE p = req[r].period
    <3>1. cost'[p] = cost[p] + c /\ over'[p] = over[p] + Excess(c)
      BY <2>2, <1>1, <1>6 DEF Types
    <3>2. Owed(q2.todo, p) \in Int /\ Owed(q2.todo, p) <= Excess(c)
      BY <2>2, <1>2, <1>3, <1>5 DEF Excess
    <3>3. "spend" \in Optional /\ Streamed = {} => Owed(q2.todo, p) = c - Estimate
      BY <2>2, <1>3, <1>5
    <3> QED BY <3>1, <3>2, <3>3, <2>1, <2>2, <1>2, <1>4, <1>5 DEF Moves, Charges
  <2>3. CASE p # req[r].period
    <3>1. Steady(p)
      BY <2>3, <1>1 DEF Types, Steady
    <3> QED BY <3>1, <2>1, <2>3, <1>4, <1>5 DEF Moves, Idle
  <2> QED BY <2>2, <2>3
<1>9. Step(r)
  BY <1>5, <1>8 DEF Step
<1>10. faults' \in 0 .. MaxFaults /\ faults' >= faults
  BY <1>0 DEF Types
<1> QED BY <1>0, <1>7, <1>9, <1>10 DEF Advances, Types

(* One adjustment leaves the list. *)
LEMMA AppliedFacts ==
  ASSUME Types, NEW r \in Requests, req[r].pc \in {"refund", "settle"}, Applied(r)
  PROVE  /\ req[r].period \in Periods /\ TodoFor(req[r].todo, req[r].period) /\ req[r].todo # <<>>
         /\ Head(req[r].todo) = req[r].todo[1] /\ req[r].todo[1] \in Keys \X Int
         /\ \A p \in Periods : ~Holds(req[r], p)
         /\ \E q2 : /\ req' = [req EXCEPT ![r] = q2] /\ Sane(q2)
                    /\ \A p \in Periods : ~Holds(q2, p) /\ Owed(q2.todo, p) = 0
<1> DEFINE q == req[r]
           todo == Tail(q.todo)
           pc == IF Len(q.todo) = 1 THEN "done" ELSE q.pc
           q2 == [q EXCEPT !.pc = pc, !.todo = todo]
<1>1. req \in [Requests -> Reqs] /\ q \in Reqs /\ Sane(q)
  BY DEF Types
<1>2. q.period \in Periods /\ q.todo # <<>> /\ TodoFor(q.todo, q.period)
  BY <1>1 DEF Sane, Reqs
<1>3. \A p \in Periods : ~Holds(q, p)
  BY DEF Holds
<1>4. /\ TodoFor(todo, q.period) /\ \A x \in Periods : Owed(todo, x) = 0
      /\ Len(q.todo) = 1 <=> todo = <<>>
      /\ Head(q.todo) = q.todo[1] /\ q.todo[1] \in Keys \X Int
  BY <1>2, TailFacts
<1>5. req' = [req EXCEPT ![r].todo = todo, ![r].pc = pc]
  BY <1>1 DEF Applied, Reqs
<1>6. pc \in {"done", "refund", "settle"} /\ (pc \in {"refund", "settle"} <=> todo # <<>>)
  BY <1>4
<1> HIDE DEF todo, pc
<1>7. req' = [req EXCEPT ![r] = q2]
  BY <1>1, <1>5 DEF Reqs
<1>8. todo \in Seq(Keys \X Int)
  BY <1>4 DEF TodoFor
<1>9. q2 \in Reqs /\ q2.pc = pc /\ q2.todo = todo /\ q2.period = q.period
  BY <1>1, <1>6, <1>8 DEF Reqs
<1> HIDE DEF q2
<1>10. Sane(q2)
  BY <1>4, <1>6, <1>9 DEF Sane
<1>11. \A p \in Periods : ~Holds(q2, p)
  BY <1>6, <1>9 DEF Holds
<1> QED BY <1>2, <1>3, <1>4, <1>7, <1>9, <1>10, <1>11

LEMMA ApplyAdvances ==
  ASSUME Types, NEW r \in Requests, Apply(r) \/ ApplyFails(r)
  PROVE  Advances(r)
<1> DEFINE q == req[r]
<1>0. q.pc \in {"refund", "settle"} /\ Applied(r)
      /\ UNCHANGED <<period, rotating, rotations, cost, over>>
  BY DEF Apply, ApplyFails
<1>1. /\ q.period \in Periods /\ TodoFor(q.todo, q.period) /\ q.todo # <<>>
      /\ Head(q.todo) = q.todo[1] /\ q.todo[1] \in Keys \X Int
      /\ \A p \in Periods : ~Holds(q, p)
      /\ \E q2 : /\ req' = [req EXCEPT ![r] = q2] /\ Sane(q2)
                 /\ \A p \in Periods : ~Holds(q2, p) /\ Owed(q2.todo, p) = 0
  BY <1>0, AppliedFacts
<1>2. PICK q2 : /\ req' = [req EXCEPT ![r] = q2] /\ Sane(q2)
                /\ \A p \in Periods : ~Holds(q2, p) /\ Owed(q2.todo, p) = 0
  BY <1>1
<1>3. CASE Apply(r)
  <2> DEFINE k == q.todo[1][1]
             amount == q.todo[1][2]
  <2>1. k \in Keys /\ amount \in Int
    BY <1>1
  <2>2. IncrBy(k, amount) /\ faults' = faults
    BY <1>1, <1>3 DEF Apply
  <2>3. /\ Owed(q.todo, q.period) \in Int
        /\ \A p \in Periods : Owed(q.todo, p) = IF k = SpendKey(p) THEN amount ELSE 0
    BY <1>1, <2>1 DEF Owed
  <2> HIDE DEF k, amount
  <2>4. /\ counter' \in [Keys -> Int] /\ ttl' \subseteq WindowKeys
        /\ counter'[k] = counter[k] + amount
        /\ \A x \in Keys \ {k} : counter'[x] = counter[x]
    BY <2>1, <2>2, IncrByFacts
  <2>5. ASSUME NEW p \in Periods PROVE Moves(q, q2, p)
    <3>1. SpendKey(p) \in Keys /\ counter[SpendKey(p)] \in Int
      BY KeyOfFacts DEF Types
    <3>2. counter'[SpendKey(p)] = counter[SpendKey(p)] + Owed(q.todo, p)
      BY <3>1, <2>3, <2>4
    <3>3. Steady(p)
      BY <1>0 DEF Steady
    <3> QED BY <3>2, <3>3, <1>1, <1>2 DEF Moves, Adjusts
  <2>6. Step(r)
    BY <1>2, <2>5 DEF Step
  <2>7. faults' \in 0 .. MaxFaults /\ faults' >= faults
    BY <2>2 DEF Types
  <2> QED BY <2>4, <2>6, <2>7, <1>0 DEF Advances, Types
<1>4. CASE ApplyFails(r)
  <2>1. faults < MaxFaults /\ faults' = faults + 1 /\ UNCHANGED <<counter, ttl>>
    BY <1>4 DEF ApplyFails
  <2>2. faults' \in 0 .. MaxFaults /\ faults' >= faults /\ faults' > 0
    BY <2>1, LimitsAssumption DEF Types
  <2>3. \A p \in Periods : Moves(q, q2, p)
    BY <1>0, <1>2, <2>1, <2>2 DEF Moves, Loses, Kept, Steady
  <2>4. Step(r)
    BY <1>2, <2>3 DEF Step
  <2> QED BY <2>1, <2>2, <2>4, <1>0 DEF Advances, Types
<1> QED BY <1>3, <1>4

-----------------------------------------------------------------------------
(* The steps of the clock, of Redis and of a rotation. *)

(* Rotations that have deleted the spend counter already. *)
HasSpend == rotating # <<>> /\ rotating[Len(rotating)] = "spend"
Forgotten == IF HasSpend THEN rotations - 1 ELSE rotations

Background ==
  \/ \E k \in WindowKeys : Expire(k)
  \/ NextPeriod
  \/ RotateKey
  \/ DeleteCounter

(* What they mean for the books of p. *)
Forgets(p) ==
  /\ counter'[SpendKey(p)] = 0
  /\ rotations' > 0 /\ Forgotten' = Forgotten + 1

Passes(p) ==
  Kept(p) /\ Forgotten' \in Nat /\ Forgotten' >= Forgotten

LEMMA ForgottenType ==
  ASSUME Types
  PROVE  Forgotten \in Nat /\ Forgotten <= rotations
<1>1. rotations \in Nat /\ (HasSpend => rotations > 0)
  BY DEF Types, SpendLast, HasSpend
<1> QED BY <1>1 DEF Forgotten

LEMMA LastFacts ==
  ASSUME NEW v \in Seq(Windows), NEW s \in Seq(Names), Len(s) \in {0, 1}
  PROVE  /\ v \o s \in Seq(Names)
         /\ \A i \in 1 .. Len(v \o s) : i < Len(v \o s) => (v \o s)[i] \in Windows
<1>1. v \in Seq(Names) /\ Len(v) \in Nat /\ \A i \in 1 .. Len(v) : v[i] \in Windows
  BY DEF Names
<1>2. v \o s \in Seq(Names) /\ Len(v \o s) = Len(v) + Len(s)
  BY <1>1
<1>3. ASSUME NEW i \in 1 .. Len(v \o s), i < Len(v \o s) PROVE (v \o s)[i] \in Windows
  <2> DEFINE m == Len(v)
             n == Len(v \o s)
             l == Len(s)
  <2>0. m \in Nat /\ l \in {0, 1} /\ n = m + l /\ i \in 1 .. n /\ i < n
    BY <1>1, <1>2, <1>3
  <2> HIDE DEF l, m, n
  <2>2. i \in 1 .. m
    <3>1. CASE l = 0
      BY <2>0, <3>1
    <3>2. CASE l = 1
      BY <2>0, <3>2
    <3> QED BY <2>0, <3>1, <3>2
  <2>3. i \in 1 .. Len(v)
    BY <2>2 DEF m
  <2> QED BY <2>3, <1>1
<1> QED BY <1>2, <1>3

LEMMA RotatingFacts ==
  ASSUME NEW w, w = Chosen("rpm") \o Chosen("rpd") \o Chosen("tpm") \o Chosen("tpd") \o Chosen("spend")
  PROVE  /\ w \in Seq(Names)
         /\ \A i \in 1 .. Len(w) : i < Len(w) => w[i] \in Windows
<1> DEFINE v == Chosen("rpm") \o Chosen("rpd") \o Chosen("tpm") \o Chosen("tpd")
           s == Chosen("spend")
<1>1. /\ Chosen("rpm") \in Seq(Windows) /\ Chosen("rpd") \in Seq(Windows)
      /\ Chosen("tpm") \in Seq(Windows) /\ Chosen("tpd") \in Seq(Windows)
  BY ChosenFacts DEF Windows
<1>2. v \in Seq(Windows)
  <2>1. \A x, y \in Seq(Windows) : x \o y \in Seq(Windows)
    OBVIOUS
  <2> QED BY <2>1, <1>1
<1>3. s \in Seq(Names) /\ Len(s) \in {0, 1}
  <2>1. s \in Seq(Names)
    BY ChosenFacts DEF SpendFirst
  <2>2. s = <<"spend">> \/ s = <<>>
    BY DEF Chosen
  <2>3. Len(<<"spend">>) = 1 /\ Len(<<>>) = 0
    OBVIOUS
  <2> HIDE DEF s
  <2> QED BY <2>1, <2>2, <2>3
<1>4. w = v \o s
  OBVIOUS
<1> HIDE DEF v, s
<1> QED BY <1>2, <1>3, <1>4, LastFacts

LEMMA BackgroundStep ==
  ASSUME Types, Background
  PROVE  /\ Types' /\ req' = req /\ cost' = cost /\ over' = over /\ faults' = faults
         /\ rotations' >= rotations
         /\ \A p \in Periods : Forgets(p) \/ Passes(p)
<1>0. /\ counter \in [Keys -> Int] /\ ttl \subseteq WindowKeys /\ period \in Periods
      /\ rotations \in Nat /\ rotating \in Seq(Names) /\ Forgotten \in Nat
  BY ForgottenType DEF Types, SpendLast
<1>a. \A p \in Periods : SpendKey(p) \in Keys /\ SpendKey(p) \notin WindowKeys
  BY KeyOfFacts
<1>1. CASE \E k \in WindowKeys : Expire(k)
  <2>1. PICK k \in WindowKeys : Expire(k)
    BY <1>1
  <2>2. /\ counter' = [counter EXCEPT ![k] = 0] /\ ttl' = ttl \ {k}
        /\ UNCHANGED <<period, req, rotating, rotations, faults, cost, over>>
    BY <2>1 DEF Expire
  <2>3. k \in Keys
    BY DEF Keys
  <2>4. counter' \in [Keys -> Int] /\ ttl' \subseteq WindowKeys
    BY <2>2, <2>3, <1>0
  <2>5. Types' 
    BY <2>2, <2>4 DEF Types, SpendLast
  <2>6. Forgotten' = Forgotten
    BY <2>2 DEF Forgotten, HasSpend
  <2>7. \A p \in Periods : Passes(p)
    BY <2>2, <2>6, <1>0, <1>a DEF Passes, Kept
  <2> QED BY <2>2, <2>5, <2>7, <1>0
<1>2. CASE NextPeriod
  <2>1. /\ period < MaxPeriods /\ period' = period + 1
        /\ UNCHANGED <<counter, ttl, req, rotating, rotations, faults, cost, over>>
    BY <1>2 DEF NextPeriod
  <2>2. period' \in Periods
    BY <2>1, <1>0, LimitsAssumption DEF Periods
  <2>5. Types'
    BY <2>1, <2>2 DEF Types, SpendLast
  <2>6. Forgotten' = Forgotten
    BY <2>1 DEF Forgotten, HasSpend
  <2>7. \A p \in Periods : Passes(p)
    BY <2>1, <2>6, <1>0 DEF Passes, Kept
  <2> QED BY <2>1, <2>5, <2>7, <1>0
<1>3. CASE RotateKey
  <2>1. /\ rotations < MaxRotations /\ rotating = <<>> /\ rotations' = rotations + 1
        /\ rotating' = Chosen("rpm") \o Chosen("rpd") \o Chosen("tpm") \o Chosen("tpd") \o Chosen("spend")
        /\ UNCHANGED <<counter, ttl, period, req, faults, cost, over>>
    BY <1>3 DEF RotateKey
  <2>2. rotations' \in 0 .. MaxRotations /\ rotations' > 0
    BY <2>1, <1>0, LimitsAssumption
  <2>3. SpendLast'
    BY <2>1, <2>2, RotatingFacts DEF SpendLast
  <2>5. Types'
    BY <2>1, <2>2, <2>3 DEF Types
  <2>6. Forgotten = rotations /\ Forgotten' \in Nat /\ Forgotten' >= Forgotten
    BY <2>1, <1>0 DEF Forgotten, HasSpend
  <2>7. \A p \in Periods : Passes(p)
    BY <2>1, <2>6 DEF Passes, Kept
  <2> QED BY <2>1, <2>5, <2>7, <1>0
<1>4. CASE DeleteCounter
  <2> DEFINE k == KeyOf(Head(rotating), period)
  <2>1. /\ rotating # <<>> /\ counter' = [counter EXCEPT ![k] = 0] /\ ttl' = ttl \ {k}
        /\ rotating' = Tail(rotating)
        /\ UNCHANGED <<period, req, rotations, faults, cost, over>>
    BY <1>4 DEF DeleteCounter
  <2>2. /\ Len(rotating) \in Nat \ {0} /\ Head(rotating) = rotating[1] /\ Head(rotating) \in Names
        /\ rotating' \in Seq(Names) /\ Len(rotating') = Len(rotating) - 1
        /\ \A i \in 1 .. Len(rotating') : rotating'[i] = rotating[i + 1]
    BY <2>1, <1>0
  <2>3. /\ k \in Keys /\ (Head(rotating) \in Windows => k \in WindowKeys)
        /\ (Head(rotating) = "spend" => k = SpendKey(period))
    BY <2>2, <1>0, KeyOfFacts DEF Names
  <2> HIDE DEF k
  <2>4. rotations > 0 /\ \A i \in 1 .. Len(rotating) : i < Len(rotating) => rotating[i] \in Windows
    BY <2>1 DEF Types, SpendLast
  <2>5. SpendLast'
    <3>1. ASSUME NEW i \in 1 .. Len(rotating'), i < Len(rotating') PROVE rotating'[i] \in Windows
      BY <3>1, <2>2, <2>4
    <3> QED BY <3>1, <2>1, <2>2, <2>4 DEF SpendLast
  <2>6. counter' \in [Keys -> Int] /\ ttl' \subseteq WindowKeys
    BY <2>1, <2>3, <1>0
  <2>7. Types'
    BY <2>1, <2>5, <2>6 DEF Types
  <2>8. CASE Head(rotating) = "spend"
    <3>1. Len(rotating) = 1
      <4>1. "spend" \notin Windows
        BY DEF Windows
      <4>2. 1 \in 1 .. Len(rotating)
        BY <2>2
      <4> QED BY <4>1, <4>2, <2>2, <2>4, <2>8
    <3>2. rotating' = <<>>
      BY <3>1, <2>2, EmptySeq
    <3>3. HasSpend /\ ~HasSpend'
      BY <3>1, <3>2, <2>1, <2>2, <2>8 DEF HasSpend
    <3>4. Forgotten' = Forgotten + 1 /\ Forgotten' >= Forgotten
      BY <3>3, <2>1, <1>0 DEF Forgotten
    <3>5. ASSUME NEW p \in Periods PROVE Forgets(p) \/ Passes(p)
      <4>1. CASE p = period
        BY <4>1, <3>4, <2>1, <2>3, <2>4, <2>8, <1>0 DEF Forgets
      <4>2. CASE p # period
        <5>1. SpendKey(p) # k /\ SpendKey(p) \in Keys
          BY <4>2, <2>3, <2>8, <1>0, KeyOfFacts
        <5> QED BY <5>1, <3>4, <2>1, <1>0 DEF Passes, Kept
      <4> QED BY <4>1, <4>2
    <3> QED BY <3>5, <2>1, <2>7, <1>0
  <2>9. CASE Head(rotating) \in Windows
    <3>1. HasSpend' <=> HasSpend
      <4>1. CASE Len(rotating) = 1
        <5>1. rotating' = <<>> /\ rotating[Len(rotating)] # "spend"
          BY <4>1, <2>2, <2>9, EmptySeq DEF Windows
        <5> QED BY <5>1 DEF HasSpend
      <4>2. CASE Len(rotating) # 1
        <5>1. rotating' # <<>> /\ rotating'[Len(rotating')] = rotating[Len(rotating)]
          BY <4>2, <2>2
        <5> QED BY <5>1, <2>1 DEF HasSpend
      <4> QED BY <4>1, <4>2
    <3>2. Forgotten' = Forgotten
      BY <3>1, <2>1 DEF Forgotten
    <3>3. \A p \in Periods : Passes(p)
      BY <3>2, <2>1, <2>3, <2>9, <1>0, <1>a DEF Passes, Kept
    <3> QED BY <3>3, <2>1, <2>7, <1>0
  <2> QED BY <2>2, <2>8, <2>9 DEF Names
<1> QED BY <1>1, <1>2, <1>3, <1>4 DEF Background

LEMMA InitTypes ==
  Init => Types
<1> SUFFICES ASSUME Init PROVE Types
  OBVIOUS
<1>1. 1 \in Periods
  BY LimitsAssumption DEF Periods
<1>2. Fresh \in Reqs /\ Sane(Fresh)
  <2>1. TodoFor(<<>>, 1) /\ <<>> \in Seq(Keys \X Int)
    BY <1>1, EmptyTodo
  <2>2. Fresh \in Reqs
    BY <2>1, <1>1, ChecksFacts DEF Fresh, Reqs
  <2> QED BY <2>1, <2>2 DEF Fresh, Sane
<1>3. SpendLast
  BY EmptySeq DEF Init, SpendLast
<1>4. req \in [Requests -> Reqs] /\ \A r \in Requests : Sane(req[r])
  BY <1>2 DEF Init
<1> QED BY <1>1, <1>3, <1>4, LimitsAssumption DEF Init, Types

LEMMA AdvancesTypes ==
  ASSUME Types, NEW r \in Requests, Advances(r)
  PROVE  Types'
<1>1. PICK q2 : req' = [req EXCEPT ![r] = q2] /\ Sane(q2)
  BY DEF Advances, Step
<1>2. req' \in [Requests -> Reqs] /\ \A q \in Requests : Sane(req'[q])
  BY <1>1 DEF Types, Sane
<1>3. SpendLast'
  BY DEF Advances, Types, SpendLast
<1> QED BY <1>2, <1>3 DEF Advances, Types

(* Every step is one of a request, one in the background, or stutters. *)
LEMMA NextCases ==
  ASSUME Types, [Next]_vars
  PROVE  (\E r \in Requests : Advances(r)) \/ Background \/ UNCHANGED vars
<1>1. CASE Next
  <2>1. ASSUME NEW r \in Requests, Works(r) \/ CheckError(r) \/ ApplyFails(r) \/ ClientLeaves(r)
        PROVE  Advances(r)
    BY <2>1, BeginCheckAdvances, CheckAdvances, LeavesAdvances, FailAdvances, SucceedAdvances,
       ApplyAdvances DEF Works
  <2> QED BY <1>1, <2>1 DEF Next, Background
<1> QED BY <1>1

LEMMA TypesStep ==
  ASSUME Types, [Next]_vars
  PROVE  Types'
<1>1. ASSUME UNCHANGED vars PROVE Types'
  BY <1>1 DEF vars, Types, SpendLast
<1> QED BY <1>1, NextCases, AdvancesTypes, BackgroundStep

LEMMA TypesInvariant ==
  Spec => []Types
<1>1. Init => Types
  BY InitTypes
<1>2. Types /\ [Next]_vars => Types'
  BY TypesStep
<1> QED BY <1>1, <1>2, PTL DEF Spec

(* The state keeps its types: request records, adjustments and counters
   stay what api_middleware and the cache expect, and a request has
   adjustments to make exactly while it refunds or settles. *)
THEOREM LimitsTyped ==
  Spec => []TypeOK
<1>1. Types => TypeOK
  BY DEF Types, Sane, Reqs, TypeOK
<1> QED BY <1>1, TypesInvariant, PTL

-----------------------------------------------------------------------------
(* The books of a period: what its requests have still to add to its spend
   counter, what they have to take from it, and what they hold in it. *)

Positive(x) == IF x > 0 THEN x ELSE 0

Dues(p) == [r \in Requests |-> Positive(Owed(req[r].todo, p))]
Backs(p) == [r \in Requests |-> Positive(-Owed(req[r].todo, p))]
Held(p) == Estimate * Cardinality(Serving(p))

LEMMA DuesStep ==
  ASSUME Types, NEW r \in Requests, NEW q2, Sane(q2), req' = [req EXCEPT ![r] = q2],
         NEW p \in Periods, NEW due, Tally(Dues(p), due)
  PROVE  /\ Owed(req[r].todo, p) \in Int /\ Owed(q2.todo, p) \in Int
         /\ due \in Nat /\ Positive(Owed(req[r].todo, p)) <= due
         /\ Tally(Dues(p)', due - Positive(Owed(req[r].todo, p)) + Positive(Owed(q2.todo, p)))
<1>1. Owed(req[r].todo, p) \in Int /\ Owed(q2.todo, p) \in Int
  BY OwedType DEF Types
<1>2. req'[r] = q2 /\ \A q \in Requests \ {r} : req'[q] = req[q]
  BY DEF Types
<1> DEFINE f == Dues(p)
           g == Dues(p)'
<1>3. /\ f[r] = Positive(Owed(req[r].todo, p)) /\ g[r] = Positive(Owed(q2.todo, p))
      /\ \A q \in Requests \ {r} : g[q] = f[q]
  BY <1>2 DEF Dues
<1>4. g[r] \in Nat
  BY <1>1, <1>3 DEF Positive
<1>5. due \in Nat /\ f[r] <= due
  BY TallyBound
<1> HIDE DEF f, g
<1>6. Tally(g, due - f[r] + g[r])
  BY <1>3, <1>4, TallyUpdate DEF f
<1>7. Tally(g, due - Positive(Owed(req[r].todo, p)) + Positive(Owed(q2.todo, p)))
  BY <1>3, <1>6
<1> QED BY <1>1, <1>3, <1>5, <1>7 DEF f, g

LEMMA BacksStep ==
  ASSUME Types, NEW r \in Requests, NEW q2, Sane(q2), req' = [req EXCEPT ![r] = q2],
         NEW p \in Periods, NEW back, Tally(Backs(p), back)
  PROVE  /\ Owed(req[r].todo, p) \in Int /\ Owed(q2.todo, p) \in Int
         /\ back \in Nat /\ Positive(-Owed(req[r].todo, p)) <= back
         /\ Tally(Backs(p)', back - Positive(-Owed(req[r].todo, p)) + Positive(-Owed(q2.todo, p)))
<1>1. Owed(req[r].todo, p) \in Int /\ Owed(q2.todo, p) \in Int
  BY OwedType DEF Types
<1>2. req'[r] = q2 /\ \A q \in Requests \ {r} : req'[q] = req[q]
  BY DEF Types
<1> DEFINE f == Backs(p)
           g == Backs(p)'
<1>3. /\ f[r] = Positive(-Owed(req[r].todo, p)) /\ g[r] = Positive(-Owed(q2.todo, p))
      /\ \A q \in Requests \ {r} : g[q] = f[q]
  BY <1>2 DEF Backs
<1>4. g[r] \in Nat
  BY <1>1, <1>3 DEF Positive
<1>5. back \in Nat /\ f[r] <= back
  BY TallyBound
<1> HIDE DEF f, g
<1>6. Tally(g, back - f[r] + g[r])
  BY <1>3, <1>4, TallyUpdate DEF f
<1>7. Tally(g, back - Positive(-Owed(req[r].todo, p)) + Positive(-Owed(q2.todo, p)))
  BY <1>3, <1>6
<1> QED BY <1>1, <1>3, <1>5, <1>7 DEF f, g

LEMMA ServingStep ==
  ASSUME Types, NEW r \in Requests, NEW q2, req' = [req EXCEPT ![r] = q2],
         NEW p \in Periods, IsFiniteSet(Serving(p))
  PROVE  /\ IsFiniteSet(Serving(p)') /\ Held(p) \in Nat
         /\ Held(p)' = Held(p) + (IF Holds(q2, p) THEN Estimate ELSE 0)
                               - (IF Holds(req[r], p) THEN Estimate ELSE 0)
<1> DEFINE S == Serving(p)
           T == Serving(p)'
           a == Cardinality(S)
           b == Cardinality(T)
<1>1. req'[r] = q2 /\ \A q \in Requests \ {r} : req'[q] = req[q]
  BY DEF Types
<1>2. S = {q \in Requests : Holds(req[q], p)} /\ T = {q \in Requests : Holds(req'[q], p)}
  BY DEF Serving, Holds
<1> HIDE DEF S, T
<1>3. IsFiniteSet(S) /\ a \in Nat
  BY FS_CardinalityType DEF S
<1>4. /\ IsFiniteSet(T) /\ b \in Nat
      /\ b = a + (IF Holds(q2, p) THEN 1 ELSE 0) - (IF Holds(req[r], p) THEN 1 ELSE 0)
  <2>1. CASE Holds(q2, p) /\ ~Holds(req[r], p)
    <3>1. T = S \cup {r} /\ r \notin S
      BY <2>1, <1>1, <1>2
    <3>2. IsFiniteSet(S \cup {r}) /\ Cardinality(S \cup {r}) = a + 1
      BY <3>1, <1>3, FS_AddElement
    <3> QED BY <2>1, <3>1, <3>2, <1>3
  <2>2. CASE ~Holds(q2, p) /\ Holds(req[r], p)
    <3>1. T = S \ {r} /\ r \in S
      BY <2>2, <1>1, <1>2
    <3>2. IsFiniteSet(S \ {r}) /\ Cardinality(S \ {r}) = a - 1
      BY <3>1, <1>3, FS_RemoveElement
    <3>3. IsFiniteSet(T) /\ b \in Nat
      BY <3>1, <3>2, FS_CardinalityType
    <3> QED BY <2>2, <3>1, <3>2, <3>3, <1>3
  <2>3. CASE Holds(q2, p) <=> Holds(req[r], p)
    <3>1. T = S
      BY <2>3, <1>1, <1>2
    <3> QED BY <2>3, <3>1, <1>3
  <2> QED BY <2>1, <2>2, <2>3
<1>5. Held(p) = Estimate * a /\ Held(p)' = Estimate * b
  BY DEF Held, S, T
<1> HIDE DEF a, b
<1>6. Estimate \in Nat
  BY LimitsAssumption
<1>7. Estimate * a \in Nat /\ Estimate * (a + 1) = Estimate * a + Estimate
      /\ Estimate * (a - 1) = Estimate * a - Estimate
  BY <1>3, <1>6
<1>8. Held(p)' = Held(p) + (IF Holds(q2, p) THEN Estimate ELSE 0)
                         - (IF Holds(req[r], p) THEN Estimate ELSE 0)
  <2>1. CASE Holds(q2, p) /\ ~Holds(req[r], p)
    BY <2>1, <1>3, <1>4, <1>5, <1>6, <1>7
  <2>2. CASE ~Holds(q2, p) /\ Holds(req[r], p)
    BY <2>2, <1>3, <1>4, <1>5, <1>6, <1>7
  <2>3. CASE Holds(q2, p) <=> Holds(req[r], p)
    BY <2>3, <1>3, <1>4, <1>5, <1>6, <1>7
  <2> QED BY <2>1, <2>2, <2>3
<1> QED BY <1>4, <1>5, <1>7, <1>8 DEF T

(* Nothing changes for the books when no request does. *)
LEMMA BooksSame ==
  ASSUME req' = req, NEW p \in Periods
  PROVE  /\ \A s : Tally(Dues(p), s) => Tally(Dues(p)', s)
         /\ \A s : Tally(Backs(p), s) => Tally(Backs(p)', s)
         /\ Serving(p)' = Serving(p) /\ Held(p)' = Held(p)
<1>1. Dues(p)' = Dues(p) /\ Backs(p)' = Backs(p)
  BY DEF Dues, Backs
<1>2. Serving(p)' = Serving(p)
  BY DEF Serving
<1> QED BY <1>1, <1>2 DEF Held

LEMMA BooksInit ==
  ASSUME Init, NEW p \in Periods
  PROVE  /\ Tally(Dues(p), 0) /\ Tally(Backs(p), 0)
         /\ IsFiniteSet(Serving(p)) /\ Held(p) = 0
         /\ counter[SpendKey(p)] = 0 /\ cost[p] = 0 /\ over[p] = 0
<1>1. \A r \in Requests : req[r].todo = <<>> /\ req[r].pc = "new"
  BY DEF Init, Fresh
<1>2. \A r \in Requests : Owed(req[r].todo, p) = 0
  BY <1>1 DEF Owed
<1>3. \A r \in Requests : Dues(p)[r] = 0 /\ Backs(p)[r] = 0
  BY <1>2 DEF Dues, Backs, Positive
<1>4. Serving(p) = {}
  BY <1>1 DEF Serving
<1>5. Held(p) = 0
  BY <1>4, FS_EmptySet, LimitsAssumption DEF Held
<1>6. counter[SpendKey(p)] = 0 /\ cost[p] = 0 /\ over[p] = 0
  BY KeyOfFacts DEF Init
<1> QED BY <1>3, <1>4, <1>5, <1>6, TallyZero, FS_EmptySet

-----------------------------------------------------------------------------
(* The spend counter never passes the limit by more than calls overran. *)

(* Also the overruns that are still to be settled are within what was
   overrun, so a reservation that fits leaves room for them. *)
Within(p) ==
  \E due \in Nat :
    /\ Tally(Dues(p), due)
    /\ due <= over[p] /\ counter[SpendKey(p)] + due <= Budget + over[p]

LEMMA WithinAdvances ==
  ASSUME Types, NEW r \in Requests, Advances(r), NEW p \in Periods, Within(p)
  PROVE  Within(p)'
<1>1. PICK q2 : req' = [req EXCEPT ![r] = q2] /\ Sane(q2) /\ Moves(req[r], q2, p)
  BY DEF Advances, Step
<1>2. PICK due \in Nat : /\ Tally(Dues(p), due)
                         /\ due <= over[p] /\ counter[SpendKey(p)] + due <= Budget + over[p]
  BY DEF Within
<1> DEFINE x == Owed(req[r].todo, p)
           y == Owed(q2.todo, p)
           due2 == due - Positive(x) + Positive(y)
           c == counter[SpendKey(p)]
           c2 == counter'[SpendKey(p)]
<1>3. /\ x \in Int /\ y \in Int /\ Positive(x) <= due /\ Tally(Dues(p)', due2)
  BY <1>1, <1>2, DuesStep
<1>4. SpendKey(p) \in Keys
  BY KeyOfFacts
<1>5. /\ c \in Int /\ c2 \in Int /\ over[p] \in Nat /\ over'[p] \in Nat
      /\ Budget \in Nat /\ Estimate \in Nat
  BY <1>4, LimitsAssumption DEF Types, Advances
<1>6. due <= over[p] /\ c + due <= Budget + over[p]
  BY <1>2
<1> HIDE DEF x, y, c, c2
<1>7. due2 \in Nat
  BY <1>2, <1>3 DEF Positive
<1>8. due2 <= over'[p] /\ c2 + due2 <= Budget + over'[p]
  <2>1. CASE Idle(req[r], q2, p)
    <3>1. x = y /\ c2 = c /\ over'[p] = over[p]
      BY <2>1 DEF Idle, Kept, Steady, x, y, c, c2
    <3> QED BY <3>1, <1>2, <1>3, <1>5, <1>6 DEF Positive
  <2>2. CASE Reserves(req[r], q2, p)
    <3>1. x = 0 /\ y = 0 /\ c2 <= Budget /\ over'[p] = over[p]
      BY <2>2 DEF Reserves, Steady, x, y, c2
    <3> QED BY <3>1, <1>2, <1>3, <1>5, <1>6 DEF Positive
  <2>3. CASE GivesBack(req[r], q2, p)
    <3>1. x = 0 /\ y <= 0 /\ c2 = c /\ over'[p] = over[p]
      BY <2>3 DEF GivesBack, Kept, Steady, x, y, c, c2
    <3> QED BY <3>1, <1>2, <1>3, <1>5, <1>6 DEF Positive
  <2>4. CASE Charges(req[r], q2, p)
    <3>1. PICK e \in Nat : x = 0 /\ over'[p] = over[p] + Excess(e) /\ y <= Excess(e) /\ c2 = c
      BY <2>4 DEF Charges, Kept, x, y, c, c2
    <3>2. Excess(e) \in Nat
      BY <1>5 DEF Excess
    <3> QED BY <3>1, <3>2, <1>2, <1>3, <1>5, <1>6 DEF Positive
  <2>5. CASE Adjusts(req[r], q2, p)
    <3>1. y = 0 /\ c2 = c + x /\ over'[p] = over[p]
      BY <2>5 DEF Adjusts, Steady, x, y, c, c2
    <3> QED BY <3>1, <1>2, <1>3, <1>5, <1>6 DEF Positive
  <2>6. CASE Loses(req[r], q2, p)
    <3>1. y = 0 /\ c2 = c /\ over'[p] = over[p]
      BY <2>6 DEF Loses, Kept, Steady, y, c, c2
    <3> QED BY <3>1, <1>2, <1>3, <1>5, <1>6 DEF Positive
  <2> QED BY <1>1, <2>1, <2>2, <2>3, <2>4, <2>5, <2>6 DEF Moves
<1> HIDE DEF due2
<1> QED BY <1>3, <1>7, <1>8 DEF Within, c2

LEMMA WithinBackground ==
  ASSUME Types, Background, NEW p \in Periods, Within(p)
  PROVE  Within(p)'
<1>1. /\ req' = req /\ over' = over /\ (Forgets(p) \/ Passes(p))
  BY BackgroundStep
<1>2. PICK due \in Nat : /\ Tally(Dues(p), due)
                         /\ due <= over[p] /\ counter[SpendKey(p)] + due <= Budget + over[p]
  BY DEF Within
<1>3. Tally(Dues(p)', due)
  BY <1>1, <1>2, BooksSame
<1>4. counter'[SpendKey(p)] = 0 \/ counter'[SpendKey(p)] = counter[SpendKey(p)]
  BY <1>1 DEF Forgets, Passes, Kept
<1>5. over[p] \in Nat /\ Budget \in Nat
  BY LimitsAssumption DEF Types
<1>6. due <= over'[p] /\ counter'[SpendKey(p)] + due <= Budget + over'[p]
  BY <1>1, <1>2, <1>4, <1>5
<1> QED BY <1>3, <1>6 DEF Within

(* A spend counter exceeds the budget by no more than settled calls cost
   over their estimates, whatever limits are configured, however batches,
   refunds, settlements, cache errors and rotations interleave. *)
THEOREM SpendLimited ==
  Spec => []SpendWithinLimit
<1> DEFINE Inv == Types /\ \A p \in Periods : Within(p)
<1>1. Init => Inv
  <2> SUFFICES ASSUME Init, NEW p \in Periods PROVE Within(p)
    BY InitTypes
  <2>1. /\ Tally(Dues(p), 0) /\ counter[SpendKey(p)] = 0 /\ over[p] = 0
    BY BooksInit
  <2>2. 0 <= over[p] /\ counter[SpendKey(p)] + 0 <= Budget + over[p]
    BY <2>1, LimitsAssumption
  <2> QED BY <2>1, <2>2 DEF Within
<1>2. Inv /\ [Next]_vars => Inv'
  <2> SUFFICES ASSUME Inv, [Next]_vars PROVE Inv'
    OBVIOUS
  <2>1. Types'
    BY TypesStep
  <2>2. ASSUME NEW p \in Periods PROVE Within(p)'
    <3>1. CASE UNCHANGED vars
      <4>1. Dues(p)' = Dues(p) /\ over' = over /\ counter' = counter
        BY <3>1 DEF vars, Dues
      <4> QED BY <4>1 DEF Within
    <3> QED BY <3>1, NextCases, WithinAdvances, WithinBackground
  <2> QED BY <2>1, <2>2
<1>3. Inv => SpendWithinLimit
  <2> SUFFICES ASSUME Inv, NEW p \in Periods PROVE counter[SpendKey(p)] <= Budget + over[p]
    BY DEF SpendWithinLimit
  <2>1. PICK due \in Nat : counter[SpendKey(p)] + due <= Budget + over[p]
    BY DEF Within
  <2>2. SpendKey(p) \in Keys
    BY KeyOfFacts
  <2>3. counter[SpendKey(p)] \in Int /\ over[p] \in Nat /\ Budget \in Nat
    BY <2>2, LimitsAssumption DEF Types
  <2> QED BY <2>1, <2>3
<1> QED BY <1>1, <1>2, <1>3, PTL DEF Spec

-----------------------------------------------------------------------------
(* What the calls of a period cost. *)

(* Of the spend counter, less the overruns a that were added to it, nothing
   is lost but what a rotation deletes: it backs what the calls cost within
   their estimates, what is held for the calls under way, and what is still
   to be taken from the counter. *)
Backed(p) ==
  \E back, a \in Nat :
    /\ Tally(Backs(p), back) /\ IsFiniteSet(Serving(p))
    /\ counter[SpendKey(p)] - a <= Budget
    /\ cost[p] - over[p] + Held(p) + back <= counter[SpendKey(p)] - a + Budget * Forgotten

LEMMA BackedAdvances ==
  ASSUME "spend" \in Optional, Streamed = {},
         Types, NEW r \in Requests, Advances(r), NEW p \in Periods, Backed(p)
  PROVE  Backed(p)'
<1>1. PICK q2 : req' = [req EXCEPT ![r] = q2] /\ Sane(q2) /\ Moves(req[r], q2, p)
  BY DEF Advances, Step
<1>2. PICK back \in Nat, a \in Nat :
        /\ Tally(Backs(p), back) /\ IsFiniteSet(Serving(p))
        /\ counter[SpendKey(p)] - a <= Budget
        /\ cost[p] - over[p] + Held(p) + back <= counter[SpendKey(p)] - a + Budget * Forgotten
  BY DEF Backed
<1> DEFINE x == Owed(req[r].todo, p)
           y == Owed(q2.todo, p)
           back2 == back - Positive(-x) + Positive(-y)
           c == counter[SpendKey(p)]
           c2 == counter'[SpendKey(p)]
           h == Held(p)
           h2 == Held(p)'
           d == Budget * Forgotten
           s == cost[p] - over[p]
           s2 == cost'[p] - over'[p]
<1>3. /\ x \in Int /\ y \in Int /\ Positive(-x) <= back /\ Tally(Backs(p)', back2)
  BY <1>1, <1>2, BacksStep
<1>4. /\ IsFiniteSet(Serving(p)') /\ h \in Nat
      /\ h2 = h + (IF Holds(q2, p) THEN Estimate ELSE 0) - (IF Holds(req[r], p) THEN Estimate ELSE 0)
  BY <1>1, <1>2, ServingStep
<1>5. SpendKey(p) \in Keys /\ Forgotten \in Nat
  BY KeyOfFacts, ForgottenType
<1>6. /\ c \in Int /\ c2 \in Int /\ s \in Int /\ s2 \in Int
      /\ Budget \in Nat /\ Estimate \in Nat /\ d \in Int
  BY <1>5, LimitsAssumption DEF Types, Advances
<1>7. Forgotten' = Forgotten
  BY DEF Forgotten, HasSpend, Advances
<1>8. c - a <= Budget /\ s + h + back <= c - a + d
  BY <1>2
<1>9. cost[p] \in Nat /\ over[p] \in Nat /\ cost'[p] \in Nat /\ over'[p] \in Nat
  BY DEF Types, Advances
<1> HIDE DEF x, y, c, c2, h, h2, d, s, s2
<1>10. back2 \in Nat
  BY <1>2, <1>3 DEF Positive
<1>11. \E b \in Nat : c2 - b <= Budget /\ s2 + h2 + back2 <= c2 - b + d
  <2>1. CASE Idle(req[r], q2, p)
    <3>1. x = y /\ c2 = c /\ s2 = s /\ (Holds(q2, p) <=> Holds(req[r], p))
      BY <2>1 DEF Idle, Kept, Steady, x, y, c, c2, s, s2
    <3>2. h2 = h
      BY <3>1, <1>4, <1>6
    <3>3. back2 = back
      BY <3>1, <1>2, <1>3 DEF Positive
    <3> QED BY <3>1, <3>2, <3>3, <1>2, <1>8
  <2>2. CASE Reserves(req[r], q2, p)
    <3>1. x = 0 /\ y = 0 /\ c2 = c + Estimate /\ c2 <= Budget /\ s2 = s
          /\ Holds(q2, p) /\ ~Holds(req[r], p)
      BY <2>2 DEF Reserves, Steady, x, y, c, c2, s, s2
    <3>2. h2 = h + Estimate /\ back2 = back
      BY <3>1, <1>2, <1>3, <1>4, <1>6 DEF Positive
    <3>3. c2 - a <= Budget /\ s2 + h2 + back2 <= c2 - a + d
      BY <3>1, <3>2, <1>2, <1>4, <1>6, <1>8
    <3> QED BY <3>3, <1>2
  <2>3. CASE GivesBack(req[r], q2, p)
    <3>1. x = 0 /\ y = -Estimate /\ c2 = c /\ s2 = s /\ ~Holds(q2, p) /\ Holds(req[r], p)
      BY <2>3 DEF GivesBack, Kept, Steady, x, y, c, c2, s, s2
    <3>2. h2 = h - Estimate /\ back2 = back + Estimate
      BY <3>1, <1>2, <1>3, <1>4, <1>6 DEF Positive
    <3>3. c2 - a <= Budget /\ s2 + h2 + back2 <= c2 - a + d
      BY <3>1, <3>2, <1>2, <1>4, <1>6, <1>8
    <3> QED BY <3>3, <1>2
  <2>4. CASE Charges(req[r], q2, p)
    <3>1. PICK e \in Nat : /\ x = 0 /\ y = e - Estimate /\ c2 = c
                           /\ cost'[p] = cost[p] + e /\ over'[p] = over[p] + Excess(e)
      BY <2>4 DEF Charges, Kept, x, y, c, c2
    <3>2. ~Holds(q2, p) /\ Holds(req[r], p)
      BY <2>4 DEF Charges
    <3>3. Excess(e) \in Nat /\ s2 = s + e - Excess(e)
      BY <3>1, <1>6, <1>9 DEF Excess, s, s2
    <3>4. h2 = h - Estimate /\ back2 = back + Positive(Estimate - e)
      BY <3>1, <3>2, <1>2, <1>3, <1>4, <1>6 DEF Positive
    <3>5. e - Excess(e) + Positive(Estimate - e) = Estimate
      BY <3>1, <1>6 DEF Excess, Positive
    <3>6. Positive(Estimate - e) \in Nat
      BY <3>1, <1>6 DEF Positive
    <3>7. c2 - a <= Budget /\ s2 + h2 + back2 <= c2 - a + d
      BY <3>1, <3>3, <3>4, <3>5, <3>6, <1>2, <1>4, <1>6, <1>8
    <3> QED BY <3>7, <1>2
  <2>5. CASE Adjusts(req[r], q2, p)
    <3>1. y = 0 /\ c2 = c + x /\ s2 = s /\ ~Holds(q2, p) /\ ~Holds(req[r], p)
      BY <2>5 DEF Adjusts, Steady, x, y, c, c2, s, s2
    <3>2. h2 = h /\ back2 = back - Positive(-x)
      BY <3>1, <1>2, <1>3, <1>4, <1>6 DEF Positive
    <3>3. CASE x > 0
      <4>1. back2 = back
        BY <3>2, <3>3, <1>2, <1>3 DEF Positive
      <4>2. a + x \in Nat /\ c2 - (a + x) <= Budget /\ s2 + h2 + back2 <= c2 - (a + x) + d
        BY <3>1, <3>2, <3>3, <4>1, <1>2, <1>3, <1>4, <1>6, <1>8
      <4> QED BY <4>2
    <3>4. CASE ~(x > 0)
      <4>1. back2 = back + x
        BY <3>2, <3>4, <1>2, <1>3 DEF Positive
      <4>2. c2 - a <= Budget /\ s2 + h2 + back2 <= c2 - a + d
        BY <3>1, <3>2, <3>4, <4>1, <1>2, <1>3, <1>4, <1>6, <1>8
      <4> QED BY <4>2, <1>2
    <3> QED BY <3>3, <3>4
  <2>6. CASE Loses(req[r], q2, p)
    <3>1. y = 0 /\ c2 = c /\ s2 = s /\ ~Holds(q2, p)
      BY <2>6 DEF Loses, Kept, Steady, y, c, c2, s, s2
    <3>2. h2 <= h /\ h2 \in Int /\ back2 <= back
      BY <3>1, <1>2, <1>3, <1>4, <1>6 DEF Positive
    <3>3. c2 - a <= Budget /\ s2 + h2 + back2 <= c2 - a + d
      BY <3>1, <3>2, <1>2, <1>4, <1>6, <1>8, <1>10
    <3> QED BY <3>3, <1>2
  <2> QED BY <1>1, <2>1, <2>2, <2>3, <2>4, <2>5, <2>6 DEF Moves
<1>12. PICK b \in Nat : c2 - b <= Budget /\ s2 + h2 + back2 <= c2 - b + d
  BY <1>11
<1>13. counter'[SpendKey(p)] - b <= Budget
       /\ cost'[p] - over'[p] + Held(p)' + back2 <= counter'[SpendKey(p)] - b + Budget * Forgotten'
  BY <1>7, <1>12 DEF c2, s2, h2, d
<1> HIDE DEF back2
<1> QED BY <1>3, <1>4, <1>10, <1>13 DEF Backed

LEMMA BackedBackground ==
  ASSUME Types, Background, NEW p \in Periods, Backed(p)
  PROVE  Backed(p)'
<1>1. /\ Types' /\ req' = req /\ over' = over /\ cost' = cost /\ (Forgets(p) \/ Passes(p))
  BY BackgroundStep
<1>2. PICK back \in Nat, a \in Nat :
        /\ Tally(Backs(p), back) /\ IsFiniteSet(Serving(p))
        /\ counter[SpendKey(p)] - a <= Budget
        /\ cost[p] - over[p] + Held(p) + back <= counter[SpendKey(p)] - a + Budget * Forgotten
  BY DEF Backed
<1> DEFINE c == counter[SpendKey(p)]
           h == Held(p)
           s == cost[p] - over[p]
<1>3. Tally(Backs(p)', back) /\ IsFiniteSet(Serving(p)') /\ Held(p)' = h
  BY <1>1, <1>2, BooksSame
<1>4. SpendKey(p) \in Keys /\ Forgotten \in Nat
  BY KeyOfFacts, ForgottenType
<1>5. Forgotten' \in Nat
  BY <1>1, <1>4 DEF Forgets, Passes
<1>6. c \in Int /\ s \in Int /\ Budget \in Nat /\ h \in Nat
  <2>1. Cardinality(Serving(p)) \in Nat
    BY <1>2, FS_CardinalityType
  <2> QED BY <2>1, <1>4, LimitsAssumption DEF Types, Held
<1>7. c - a <= Budget /\ s + h + back <= c - a + Budget * Forgotten
  BY <1>2
<1>8. cost'[p] - over'[p] = s
  BY <1>1
<1> HIDE DEF c, h, s
<1>9. CASE Forgets(p)
  <2>1. counter'[SpendKey(p)] = 0 /\ Forgotten' = Forgotten + 1
    BY <1>9 DEF Forgets
  <2>2. Budget * Forgotten' = Budget * Forgotten + Budget /\ Budget * Forgotten \in Int
    BY <2>1, <1>4, <1>6
  <2>3. 0 - 0 <= Budget /\ s + h + back <= 0 - 0 + Budget * Forgotten'
    BY <2>2, <1>2, <1>6, <1>7
  <2> QED BY <2>1, <2>3, <1>2, <1>3, <1>8 DEF Backed
<1>10. CASE Passes(p)
  <2>1. counter'[SpendKey(p)] = c /\ Forgotten' >= Forgotten
    BY <1>10 DEF Passes, Kept, c
  <2>2. /\ Budget * Forgotten' >= Budget * Forgotten
        /\ Budget * Forgotten \in Int /\ Budget * Forgotten' \in Int
    <3> DEFINE m == Forgotten
               n == Forgotten'
    <3>1. m \in Nat /\ n \in Nat /\ n >= m /\ Budget \in Nat
      BY <2>1, <1>4, <1>5, <1>6
    <3> HIDE DEF m, n
    <3>2. Budget * n = Budget * m + Budget * (n - m) /\ Budget * (n - m) \in Nat
      BY <3>1
    <3>3. Budget * m \in Int /\ Budget * n \in Int /\ Budget * n >= Budget * m
      BY <3>1, <3>2
    <3> QED BY <3>3 DEF m, n
  <2>3. c - a <= Budget /\ s + h + back <= c - a + Budget * Forgotten'
    BY <2>2, <1>2, <1>6, <1>7
  <2> QED BY <2>1, <2>3, <1>2, <1>3, <1>8 DEF Backed
<1> QED BY <1>1, <1>9, <1>10

(* With a budget configured and every call charged what it costs, what the
   calls of a period cost, with the estimates of the calls under way, stays
   within the budget, plus their overruns, plus one more budget for each
   rotation: whatever the interleaving of batches, refunds, settlements,
   failures and the deletion of the counters. *)
THEOREM BudgetKept ==
  ASSUME "spend" \in Optional, Streamed = {}
  PROVE  Spec => []BudgetHolds
<1> DEFINE Inv == Types /\ \A p \in Periods : Backed(p)
<1>1. Init => Inv
  <2> SUFFICES ASSUME Init, NEW p \in Periods PROVE Backed(p)
    BY InitTypes
  <2>1. /\ Tally(Backs(p), 0) /\ IsFiniteSet(Serving(p)) /\ Held(p) = 0
        /\ counter[SpendKey(p)] = 0 /\ cost[p] = 0 /\ over[p] = 0
    BY BooksInit
  <2>2. Forgotten = 0
    BY DEF Init, Forgotten, HasSpend
  <2>3. /\ counter[SpendKey(p)] - 0 <= Budget
        /\ cost[p] - over[p] + Held(p) + 0 <= counter[SpendKey(p)] - 0 + Budget * Forgotten
    BY <2>1, <2>2, LimitsAssumption
  <2>4. 0 \in Nat
    OBVIOUS
  <2> QED BY <2>1, <2>3, <2>4 DEF Backed
<1>2. Inv /\ [Next]_vars => Inv'
  <2> SUFFICES ASSUME Inv, [Next]_vars PROVE Inv'
    OBVIOUS
  <2>1. Types'
    BY TypesStep
  <2>2. ASSUME NEW p \in Periods PROVE Backed(p)'
    <3>1. CASE UNCHANGED vars
      <4>1. /\ Backs(p)' = Backs(p) /\ Serving(p)' = Serving(p) /\ Held(p)' = Held(p)
            /\ Forgotten' = Forgotten /\ over' = over /\ cost' = cost /\ counter' = counter
        BY <3>1 DEF vars, Backs, Serving, Held, Forgotten, HasSpend
      <4> QED BY <4>1 DEF Backed
    <3> QED BY <3>1, NextCases, BackedAdvances, BackedBackground
  <2> QED BY <2>1, <2>2
<1>3. Inv => BudgetHolds
  <2> SUFFICES ASSUME Inv, NEW p \in Periods
               PROVE  cost[p] + Held(p) <= Budget * (1 + rotations) + over[p]
    BY DEF BudgetHolds, Held
  <2>1. PICK back \in Nat, a \in Nat :
          /\ IsFiniteSet(Serving(p))
          /\ counter[SpendKey(p)] - a <= Budget
          /\ cost[p] - over[p] + Held(p) + back <= counter[SpendKey(p)] - a + Budget * Forgotten
    BY DEF Backed
  <2>2. SpendKey(p) \in Keys /\ Forgotten \in Nat /\ Forgotten <= rotations
    BY KeyOfFacts, ForgottenType
  <2>3. Cardinality(Serving(p)) \in Nat
    BY <2>1, FS_CardinalityType
  <2>4. /\ counter[SpendKey(p)] \in Int /\ over[p] \in Nat /\ cost[p] \in Nat /\ Budget \in Nat
        /\ Held(p) \in Nat /\ rotations \in Nat
    BY <2>2, <2>3, LimitsAssumption DEF Types, Held
  <2>5. /\ Budget * (1 + rotations) = Budget + Budget * rotations
        /\ Budget * Forgotten <= Budget * rotations
        /\ Budget * Forgotten \in Int /\ Budget * rotations \in Int
    BY <2>2, <2>4
  <2> QED BY <2>1, <2>4, <2>5
<1> QED BY <1>1, <1>2, <1>3, PTL DEF Spec

-----------------------------------------------------------------------------
(* The counter of a period is exactly what its calls cost. *)

(* While nothing went wrong, the counter is what the calls cost, with what
   is held, with what is to be taken from it and without what is to be
   added to it. *)
Exact(p) ==
  \E due, back \in Nat :
    /\ Tally(Dues(p), due) /\ Tally(Backs(p), back) /\ IsFiniteSet(Serving(p))
    /\ faults = 0 /\ rotations = 0 =>
         counter[SpendKey(p)] = cost[p] + Held(p) + back - due

LEMMA ExactAdvances ==
  ASSUME "spend" \in Optional, Streamed = {},
         Types, NEW r \in Requests, Advances(r), NEW p \in Periods, Exact(p)
  PROVE  Exact(p)'
<1>1. PICK q2 : req' = [req EXCEPT ![r] = q2] /\ Sane(q2) /\ Moves(req[r], q2, p)
  BY DEF Advances, Step
<1>2. PICK due \in Nat, back \in Nat :
        /\ Tally(Dues(p), due) /\ Tally(Backs(p), back) /\ IsFiniteSet(Serving(p))
        /\ faults = 0 /\ rotations = 0 =>
             counter[SpendKey(p)] = cost[p] + Held(p) + back - due
  BY DEF Exact
<1> DEFINE x == Owed(req[r].todo, p)
           y == Owed(q2.todo, p)
           due2 == due - Positive(x) + Positive(y)
           back2 == back - Positive(-x) + Positive(-y)
           c == counter[SpendKey(p)]
           c2 == counter'[SpendKey(p)]
           h == Held(p)
           h2 == Held(p)'
<1>3. /\ x \in Int /\ y \in Int /\ Positive(x) <= due /\ Tally(Dues(p)', due2)
  BY <1>1, <1>2, DuesStep
<1>4. Positive(-x) <= back /\ Tally(Backs(p)', back2)
  BY <1>1, <1>2, BacksStep
<1>5. /\ IsFiniteSet(Serving(p)') /\ h \in Nat
      /\ h2 = h + (IF Holds(q2, p) THEN Estimate ELSE 0) - (IF Holds(req[r], p) THEN Estimate ELSE 0)
  BY <1>1, <1>2, ServingStep
<1>6. SpendKey(p) \in Keys
  BY KeyOfFacts
<1>7. c \in Int /\ c2 \in Int /\ cost[p] \in Nat /\ cost'[p] \in Nat /\ Estimate \in Nat
  BY <1>6, LimitsAssumption DEF Types, Advances
<1>8. faults' = 0 /\ rotations' = 0 => faults = 0 /\ rotations = 0
  BY DEF Types, Advances
<1>9. faults = 0 /\ rotations = 0 => c = cost[p] + h + back - due
  BY <1>2
<1> HIDE DEF x, y, c, c2, h, h2
<1>10. due2 \in Nat /\ back2 \in Nat
  BY <1>2, <1>3, <1>4 DEF Positive
<1>11. ASSUME faults' = 0, rotations' = 0
       PROVE  c2 = cost'[p] + h2 + back2 - due2
  <2>0. c = cost[p] + h + back - due
    BY <1>8, <1>9, <1>11
  <2>1. CASE Idle(req[r], q2, p)
    <3>1. x = y /\ c2 = c /\ cost'[p] = cost[p] /\ (Holds(q2, p) <=> Holds(req[r], p))
      BY <2>1 DEF Idle, Kept, Steady, x, y, c, c2
    <3>2. h2 = h
      BY <3>1, <1>5, <1>7
    <3>3. back2 = back /\ due2 = due
      BY <3>1, <1>2, <1>3 DEF Positive
    <3> QED BY <3>1, <3>2, <3>3, <2>0
  <2>2. CASE Reserves(req[r], q2, p)
    <3>1. x = 0 /\ y = 0 /\ c2 = c + Estimate /\ cost'[p] = cost[p]
          /\ Holds(q2, p) /\ ~Holds(req[r], p)
      BY <2>2 DEF Reserves, Steady, x, y, c, c2
    <3>2. h2 = h + Estimate /\ back2 = back /\ due2 = due
      BY <3>1, <1>2, <1>3, <1>5, <1>7 DEF Positive
    <3> QED BY <3>1, <3>2, <2>0, <1>2, <1>5, <1>7
  <2>3. CASE GivesBack(req[r], q2, p)
    <3>1. x = 0 /\ y = -Estimate /\ c2 = c /\ cost'[p] = cost[p]
          /\ ~Holds(q2, p) /\ Holds(req[r], p)
      BY <2>3 DEF GivesBack, Kept, Steady, x, y, c, c2
    <3>2. h2 = h - Estimate /\ back2 = back + Estimate /\ due2 = due
      BY <3>1, <1>2, <1>3, <1>5, <1>7 DEF Positive
    <3> QED BY <3>1, <3>2, <2>0, <1>2, <1>5, <1>7
  <2>4. CASE Charges(req[r], q2, p)
    <3>1. PICK e \in Nat : x = 0 /\ y = e - Estimate /\ c2 = c /\ cost'[p] = cost[p] + e
      BY <2>4 DEF Charges, Kept, x, y, c, c2
    <3>2. ~Holds(q2, p) /\ Holds(req[r], p)
      BY <2>4 DEF Charges
    <3>3. h2 = h - Estimate /\ back2 - due2 = back - due - y
      BY <3>1, <3>2, <1>2, <1>3, <1>5, <1>7 DEF Positive
    <3> QED BY <3>1, <3>3, <2>0, <1>2, <1>3, <1>5, <1>7, <1>10
  <2>5. CASE Adjusts(req[r], q2, p)
    <3>1. y = 0 /\ c2 = c + x /\ cost'[p] = cost[p] /\ ~Holds(q2, p) /\ ~Holds(req[r], p)
      BY <2>5 DEF Adjusts, Steady, x, y, c, c2
    <3>2. h2 = h /\ back2 - due2 = back - due + x
      BY <3>1, <1>2, <1>3, <1>5, <1>7 DEF Positive
    <3> QED BY <3>1, <3>2, <2>0, <1>2, <1>3, <1>5, <1>7, <1>10
  <2>6. CASE Loses(req[r], q2, p)
    BY <2>6, <1>11 DEF Loses
  <2> QED BY <1>1, <2>1, <2>2, <2>3, <2>4, <2>5, <2>6 DEF Moves
<1>12. faults' = 0 /\ rotations' = 0 =>
         counter'[SpendKey(p)] = cost'[p] + Held(p)' + back2 - due2
  BY <1>11 DEF c2, h2
<1> HIDE DEF back2, due2
<1> QED BY <1>3, <1>4, <1>5, <1>10, <1>12 DEF Exact

LEMMA ExactBackground ==
  ASSUME Types, Background, NEW p \in Periods, Exact(p)
  PROVE  Exact(p)'
<1>1. /\ req' = req /\ cost' = cost /\ faults' = faults /\ rotations' >= rotations
      /\ (Forgets(p) \/ Passes(p))
  BY BackgroundStep
<1>2. PICK due \in Nat, back \in Nat :
        /\ Tally(Dues(p), due) /\ Tally(Backs(p), back) /\ IsFiniteSet(Serving(p))
        /\ faults = 0 /\ rotations = 0 =>
             counter[SpendKey(p)] = cost[p] + Held(p) + back - due
  BY DEF Exact
<1>3. /\ Tally(Dues(p)', due) /\ Tally(Backs(p)', back) /\ IsFiniteSet(Serving(p)')
      /\ Held(p)' = Held(p)
  BY <1>1, <1>2, BooksSame
<1>4. rotations' = 0 => rotations = 0 /\ counter'[SpendKey(p)] = counter[SpendKey(p)]
  BY <1>1 DEF Types, Forgets, Passes, Kept
<1>5. faults' = 0 /\ rotations' = 0 =>
        counter'[SpendKey(p)] = cost'[p] + Held(p)' + back - due
  BY <1>1, <1>2, <1>3, <1>4
<1> QED BY <1>2, <1>3, <1>5 DEF Exact

(* With a budget configured and every call charged what it costs: when no
   request of the current period is unfinished and nothing went wrong, the
   spend counter is what the calls of the period cost.  Every reservation
   was settled or refunded exactly once, to the key it was made on. *)
THEOREM BooksAreExact ==
  ASSUME "spend" \in Optional, Streamed = {}
  PROVE  Spec => []BooksBalance
<1> DEFINE Inv == Types /\ \A p \in Periods : Exact(p)
<1>1. Init => Inv
  <2> SUFFICES ASSUME Init, NEW p \in Periods PROVE Exact(p)
    BY InitTypes
  <2>1. /\ Tally(Dues(p), 0) /\ Tally(Backs(p), 0) /\ IsFiniteSet(Serving(p)) /\ Held(p) = 0
        /\ counter[SpendKey(p)] = 0 /\ cost[p] = 0
    BY BooksInit
  <2>2. counter[SpendKey(p)] = cost[p] + Held(p) + 0 - 0 /\ 0 \in Nat
    BY <2>1
  <2> QED BY <2>1, <2>2 DEF Exact
<1>2. Inv /\ [Next]_vars => Inv'
  <2> SUFFICES ASSUME Inv, [Next]_vars PROVE Inv'
    OBVIOUS
  <2>1. Types'
    BY TypesStep
  <2>2. ASSUME NEW p \in Periods PROVE Exact(p)'
    <3>1. CASE UNCHANGED vars
      <4>1. /\ Dues(p)' = Dues(p) /\ Backs(p)' = Backs(p) /\ Serving(p)' = Serving(p)
            /\ Held(p)' = Held(p) /\ faults' = faults /\ rotations' = rotations
            /\ cost' = cost /\ counter' = counter
        BY <3>1 DEF vars, Dues, Backs, Serving, Held
      <4> QED BY <4>1 DEF Exact
    <3> QED BY <3>1, NextCases, ExactAdvances, ExactBackground
  <2> QED BY <2>1, <2>2
<1>3. Inv => BooksBalance
  <2> SUFFICES ASSUME Inv, faults = 0, rotations = 0,
                      \A r \in Requests : req[r].period = period => req[r].pc \in {"new", "done"}
               PROVE  counter[SpendKey(period)] = cost[period]
    BY DEF BooksBalance
  <2> DEFINE p == period
  <2>1. p \in Periods /\ \A r \in Requests : Sane(req[r])
    BY DEF Types
  <2>2. PICK due \in Nat, back \in Nat :
          /\ Tally(Dues(p), due) /\ Tally(Backs(p), back)
          /\ counter[SpendKey(p)] = cost[p] + Held(p) + back - due
    BY <2>1 DEF Exact
  <2>3. ASSUME NEW r \in Requests PROVE Owed(req[r].todo, p) = 0
    <3>1. CASE req[r].period = p
      <4>1. req[r].todo = <<>>
        BY <3>1, <2>1 DEF Sane
      <4> QED BY <4>1 DEF Owed
    <3>2. CASE req[r].period # p
      <4>1. req[r].period \in Periods /\ TodoFor(req[r].todo, req[r].period)
        BY <2>1 DEF Sane, Reqs
      <4>2. req[r].todo # <<>> => req[r].todo[1][1] \in WindowKeys \cup {SpendKey(req[r].period)}
        BY <4>1 DEF TodoFor
      <4>3. SpendKey(p) \notin WindowKeys /\ SpendKey(p) # SpendKey(req[r].period)
        BY <2>1, <3>2, <4>1, KeyOfFacts
      <4> QED BY <4>2, <4>3 DEF Owed
    <3> QED BY <3>1, <3>2
  <2>4. \A r \in Requests : Dues(p)[r] = 0 /\ Backs(p)[r] = 0
    BY <2>3 DEF Dues, Backs, Positive
  <2>5. due = 0 /\ back = 0
    BY <2>2, <2>4, TallyZero
  <2>6. Serving(p) = {}
    BY DEF Serving
  <2>7. Held(p) = 0
    BY <2>6, FS_EmptySet, LimitsAssumption DEF Held
  <2>8. SpendKey(p) \in Keys
    BY <2>1, KeyOfFacts
  <2>9. counter[SpendKey(p)] \in Int /\ cost[p] \in Nat
    BY <2>1, <2>8 DEF Types
  <2> QED BY <2>2, <2>5, <2>7, <2>9
<1> QED BY <1>1, <1>2, <1>3, PTL DEF Spec

=============================================================================
