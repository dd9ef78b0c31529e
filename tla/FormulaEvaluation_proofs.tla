---------------------- MODULE FormulaEvaluation_proofs ----------------------
(***************************************************************************)
(* The breaker and the result cache for any number of formulas, entities,  *)
(* contexts and entries: counts stay within their limit, an open breaker   *)
(* stays open, a formula is skipped only for the errors of formulas of its *)
(* name, and is served only fresh results of formulas of its id.           *)
(***************************************************************************)
EXTENDS FormulaEvaluation, SequenceTheorems, TLAPS

\* A result found under a bare caller's context was computed from that context,
\* the hidden readings, and nothing else.
SoundEntry(entry) ==
  /\ entry.key.id = Id[entry.value.formula]
  /\ entry.key.context = entry.value.context
  /\ entry.key.added = {} =>
       /\ Reads[entry.value.formula] = {}
       /\ entry.value.globals = {}
       /\ entry.value.formula \notin UsesGlobals
       /\ Hidden[entry.value.formula] = {} => entry.value.inputs = {}

CacheSound == \A i \in DOMAIN cache : SoundEntry(cache[i])

\* The count kept under a name is that of the errors of formulas of that name.
CountsAreOwn ==
  \A n \in Labels :
    /\ fatal[n] = Len(streak[n])
    /\ \A i \in 1..Len(streak[n]) : Name[streak[n][i]] = n

-----------------------------------------------------------------------------
(* Sequences of entries *)

LEMMA MaxOfOne == ASSUME NEW n \in Nat PROVE Max({1, n}) \in Nat /\ Max({1, n}) >= 1
  <1>1. \E x \in {1, n} : \A y \in {1, n} : x >= y
    <2>1. CASE n >= 1
      BY <2>1
    <2>2. CASE n < 1
      BY <2>2
    <2> QED BY <2>1, <2>2
  <1>2. Max({1, n}) \in {1, n} /\ \A y \in {1, n} : Max({1, n}) >= y
    BY <1>1 DEF Max
  <1> QED BY <1>2

\* Removing an entry leaves a sequence of the entries that were there.
LEMMA WithoutType ==
  ASSUME NEW S, NEW s \in Seq(S), NEW k
  PROVE  /\ Without(s, k) \in Seq(S)
         /\ Len(Without(s, k)) <= Len(s)
         /\ \A i \in DOMAIN Without(s, k) : \E j \in DOMAIN s : Without(s, k)[i] = s[j]
  <1>1. CASE Keyed(s, k) = {}
    BY <1>1, LenProperties DEF Without
  <1>2. CASE Keyed(s, k) # {}
    <2> DEFINE p == CHOOSE i \in Keyed(s, k) : TRUE
               l == SubSeq(s, 1, p - 1)
               r == SubSeq(s, p + 1, Len(s))
    <2>1. p \in 1..Len(s)
      BY <1>2, LenProperties DEF Keyed
    <2>2. Without(s, k) = l \o r
      BY <1>2 DEF Without, RemoveAt
    <2> HIDE DEF p
    <2>3. l \in Seq(S) /\ Len(l) = p - 1 /\ \A i \in 1..(p - 1) : l[i] = s[i]
      BY <2>1
    <2>4. r \in Seq(S) /\ Len(r) = Len(s) - p /\ \A i \in 1..(Len(s) - p) : r[i] = s[p + i]
      BY <2>1
    <2> HIDE DEF l, r
    <2>5. /\ l \o r \in Seq(S) /\ Len(l \o r) = Len(s) - 1
          /\ \A i \in 1..(Len(s) - 1) : (l \o r)[i] = IF i <= p - 1 THEN l[i] ELSE r[i - (p - 1)]
      <3>1. Len(l) + Len(r) = Len(s) - 1 /\ Len(s) \in Nat
        BY <2>1, <2>3, <2>4, LenProperties
      <3>2. /\ l \o r \in Seq(S) /\ Len(l \o r) = Len(l) + Len(r)
            /\ \A i \in 1..(Len(l) + Len(r)) :
                 (l \o r)[i] = IF i <= Len(l) THEN l[i] ELSE r[i - Len(l)]
        BY <2>3, <2>4, ConcatProperties
      <3> QED BY <3>1, <3>2, <2>3
    <2>6. \A i \in 1..(Len(s) - 1) : \E j \in 1..Len(s) : (l \o r)[i] = s[j]
      <3> TAKE i \in 1..(Len(s) - 1)
      <3>1. CASE i <= p - 1
        <4>1. i \in 1..(p - 1) /\ i \in 1..Len(s)
          BY <3>1, <2>1
        <4>2. (l \o r)[i] = s[i]
          BY <4>1, <3>1, <2>3, <2>5
        <4> QED BY <4>1, <4>2
      <3>2. CASE i > p - 1
        <4>1. (l \o r)[i] = r[i - (p - 1)] /\ i - (p - 1) \in 1..(Len(s) - p)
          BY <3>2, <2>1, <2>5
        <4>2. (l \o r)[i] = s[p + (i - (p - 1))] /\ p + (i - (p - 1)) \in 1..Len(s)
          BY <4>1, <2>1, <2>4
        <4> QED BY <4>2
      <3>3. i <= p - 1 \/ i > p - 1
        BY <2>1
      <3> QED BY <3>1, <3>2, <3>3, Zenon
    <2>7. DOMAIN (l \o r) = 1..(Len(s) - 1) /\ DOMAIN s = 1..Len(s)
      BY <2>5, LenProperties
    <2>8. Len(l \o r) <= Len(s)
      BY <2>1, <2>5
    <2> DEFINE w == l \o r
    <2>9. w \in Seq(S) /\ Len(w) <= Len(s) /\ \A i \in DOMAIN w : \E j \in DOMAIN s : w[i] = s[j]
      BY <2>5, <2>6, <2>7, <2>8
    <2> HIDE DEF w
    <2>10. Without(s, k) = w
      BY <2>2 DEF w
    <2> QED BY <2>9, <2>10
  <1> QED BY <1>1, <1>2

\* Eviction drops the oldest entries and leaves room for one more.
LEMMA EvictedType ==
  ASSUME NEW S, cache \in Seq(S), Len(cache) <= MaxEntries, NEW n \in 0..Len(cache)
  PROVE  /\ Evicted(n) \in Seq(S)
         /\ Len(Evicted(n)) < MaxEntries
         /\ \A i \in DOMAIN Evicted(n) : \E j \in DOMAIN cache : Evicted(n)[i] = cache[j]
  <1> DEFINE rest == SubSeq(cache, n + 1, Len(cache))
             d == Max({1, Len(rest) \div 10})
             tail == SubSeq(rest, 1 + d, Len(rest))
  <1> USE EvaluationConstants
  <1>1. /\ rest \in Seq(S) /\ Len(rest) = Len(cache) - n
        /\ \A i \in 1..(Len(cache) - n) : rest[i] = cache[i + n]
    BY LenProperties
  <1>2. \A i \in DOMAIN rest : \E j \in DOMAIN cache : rest[i] = cache[j]
    <2> HIDE DEF rest
    <2>1. DOMAIN rest = 1..(Len(cache) - n) /\ DOMAIN cache = 1..Len(cache)
      BY <1>1, LenProperties
    <2>2. \A i \in 1..(Len(cache) - n) : i + n \in 1..Len(cache)
      BY LenProperties
    <2> QED BY <1>1, <2>1, <2>2
  <1>3. Len(rest) \in Nat /\ Len(rest) \div 10 \in Nat
    <2>1. Len(rest) \in Nat
      BY <1>1, LenProperties
    <2> HIDE DEF rest
    <2> QED BY <2>1
  <1>4. d \in Nat /\ d >= 1
    BY <1>3, MaxOfOne
  <1> HIDE DEF rest, d
  <1>5. tail \in Seq(S) /\ (Len(tail) = IF d <= Len(rest) THEN Len(rest) - d ELSE 0)
    BY <1>1, <1>3, <1>4
  <1>6. \A i \in DOMAIN tail : \E j \in DOMAIN rest : tail[i] = rest[j]
    <2> TAKE i \in DOMAIN tail
    <2>1. i \in 1..Len(tail) /\ Len(tail) \in Nat
      BY <1>5, LenProperties
    <2>2. d < Len(rest) /\ i \in 1..(Len(rest) - d)
      BY <2>1, <1>5, <1>4, <1>3
    <2>3. tail[i] = rest[i + d]
      BY <2>2, <1>1, <1>3, <1>4
    <2>4. i + d \in DOMAIN rest
      BY <2>2, <1>1, <1>3, <1>4, LenProperties
    <2> QED BY <2>3, <2>4
  <1> HIDE DEF tail
  <1>7. Evicted(n) = IF Len(cache) < MaxEntries THEN cache
                     ELSE IF Len(rest) < MaxEntries THEN rest ELSE tail
    BY DEF Evicted, rest, d, tail
  <1>8. Len(tail) < MaxEntries
    BY <1>1, <1>3, <1>4, <1>5
  <1>9. CASE Len(cache) < MaxEntries
    BY <1>7, <1>9
  <1>10. CASE ~(Len(cache) < MaxEntries) /\ Len(rest) < MaxEntries
    BY <1>7, <1>10, <1>1, <1>2
  <1>11. CASE ~(Len(cache) < MaxEntries) /\ ~(Len(rest) < MaxEntries)
    <2>1. Evicted(n) = tail
      BY <1>7, <1>11
    <2> QED BY <2>1, <1>5, <1>6, <1>8, <1>2
  <1> QED BY <1>9, <1>10, <1>11

\* Storing keeps every property that the old entries and the new one have.
LEMMA StoredType ==
  ASSUME NEW S, NEW P, NEW s \in Seq(S), NEW k, NEW v, P \subseteq S,
         [key |-> k, value |-> v] \in P,
         \A i \in DOMAIN s : s[i] \in P
  PROVE  /\ StoredIn(s, k, v) \in Seq(S)
         /\ Len(StoredIn(s, k, v)) <= Len(s) + 1
         /\ \A i \in DOMAIN StoredIn(s, k, v) : StoredIn(s, k, v)[i] \in P
  <1> DEFINE w == Without(s, k)
             e == [key |-> k, value |-> v]
  <1>1. w \in Seq(S) /\ Len(w) <= Len(s) /\ \A i \in DOMAIN w : w[i] \in P
    BY WithoutType
  <1>2. e \in P /\ e \in S
    OBVIOUS
  <1>3. StoredIn(s, k, v) = Append(w, e)
    BY DEF StoredIn
  <1> HIDE DEF w, e
  <1>4. /\ Append(w, e) \in Seq(S) /\ Len(Append(w, e)) = Len(w) + 1
        /\ \A i \in 1..Len(w) : Append(w, e)[i] = w[i]
        /\ Append(w, e)[Len(w) + 1] = e
    BY <1>1, <1>2, AppendProperties
  <1>5. \A i \in DOMAIN Append(w, e) : Append(w, e)[i] \in P
    <2> TAKE i \in DOMAIN Append(w, e)
    <2>1. Len(w) \in Nat /\ DOMAIN w = 1..Len(w) /\ i \in 1..(Len(w) + 1)
      BY <1>1, <1>4, LenProperties
    <2>2. i \in 1..Len(w) \/ i = Len(w) + 1
      BY <2>1
    <2> QED BY <2>1, <2>2, <1>1, <1>2, <1>4
  <1>6. Len(s) \in Nat /\ Len(w) \in Nat
    BY <1>1, LenProperties
  <1>7. Len(Append(w, e)) <= Len(s) + 1
    BY <1>1, <1>4, <1>6
  <1> QED BY <1>3, <1>4, <1>5, <1>7

-----------------------------------------------------------------------------
(* Types, and what the entries of the cache stand for *)

LEMMA NamesType == \A f \in Formulas : Name[f] \in Labels /\ Id[f] \in Labels
  BY DEF Labels

LEMMA CountedType == \A n \in 0..MaxFatal : Counted(n) \in 0..MaxFatal
  BY EvaluationConstants DEF Counted

LEMMA ValueType ==
  ASSUME TypeOK, NEW f \in Formulas, NEW c \in Contexts
  PROVE  Value(f, c) \in AnswerValues
  <1>1. Globals(f) \in GlobalSettings
    BY EvaluationConstants DEF TypeOK, Globals
  <1>2. Reads[f] \cup Hidden[f] \subseteq Entities
    BY EvaluationConstants
  <1>3. {<<e, reading[e]>> : e \in Reads[f] \cup Hidden[f]} \in SUBSET (Entities \X Readings)
    BY <1>2 DEF TypeOK
  <1> QED BY <1>1, <1>3 DEF Value, AnswerValues

LEMMA StoreKeyType ==
  ASSUME TypeOK, NEW f \in Formulas, NEW c \in Contexts
  PROVE  StoreKey(f, c) \in Keys
  <1>1. Reads[f] \subseteq Entities
    BY EvaluationConstants
  <1>2. {<<e, reading[e]>> : e \in Reads[f]} \subseteq Entities \X Readings
    BY <1>1 DEF TypeOK
  <1>3. globals \subseteq UNION GlobalSettings
    BY DEF TypeOK
  <1>4. (IF f \in Own THEN {f} ELSE {}) \subseteq Own
    OBVIOUS
  <1>5. Added(f) \in SUBSET Additions
    BY <1>2, <1>3, <1>4 DEF Added, Additions
  <1> QED BY <1>5, NamesType DEF StoreKey, Keys

\* A number computed from more than the caller's context is stored under more.
LEMMA StoredIsSound ==
  ASSUME NEW f \in Formulas, NEW c \in Contexts, Numeric(f)
  PROVE  SoundEntry([key |-> StoreKey(f, c), value |-> Value(f, c)])
  <1>1. ASSUME Added(f) = {}
        PROVE  /\ Reads[f] = {} /\ Globals(f) = {} /\ f \notin UsesGlobals
               /\ Hidden[f] = {} => Value(f, c).inputs = {}
    <2>1. Reads[f] = {} /\ globals = {}
      <3>1. {<<e, reading[e]>> : e \in Reads[f]} = {} /\ globals = {}
        BY <1>1 DEF Added
      <3>2. \A e \in Reads[f] : <<e, reading[e]>> \in {<<d, reading[d]>> : d \in Reads[f]}
        OBVIOUS
      <3> QED BY <3>1, <3>2
    <2>2. f \notin UsesGlobals
      BY <2>1 DEF Numeric
    <2>3. Hidden[f] = {} => Value(f, c).inputs = {}
      BY <2>1 DEF Value
    <2> QED BY <2>1, <2>2, <2>3 DEF Globals
  <1>2. /\ StoreKey(f, c).id = Id[f] /\ StoreKey(f, c).context = c
        /\ StoreKey(f, c).added = Added(f)
    BY DEF StoreKey
  <1>3. Value(f, c).formula = f /\ Value(f, c).context = c /\ Value(f, c).globals = Globals(f)
    BY DEF Value
  <1> QED BY <1>1, <1>2, <1>3 DEF SoundEntry

IInv == TypeOK /\ CacheSound

LEMMA InitIInv == Init => IInv
  <1> SUFFICES ASSUME Init PROVE IInv
    OBVIOUS
  <1>1. cache \in Seq(Entries) /\ Len(cache) = 0 /\ DOMAIN cache = {}
    BY EmptySeq, LenProperties DEF Init
  <1>2. reading \in [Entities -> Readings]
    BY EvaluationConstants DEF Init
  <1>3. 0 \in 0..MaxFatal /\ 0 <= MaxEntries
    BY EvaluationConstants
  <1>4. fatal \in [Labels -> 0..MaxFatal] /\ streak \in [Labels -> Seq(Formulas)]
    BY <1>3, EmptySeq DEF Init
  <1>5. /\ globals \in GlobalSettings /\ cycle \in BOOLEAN
        /\ answer = NoAnswer \/ \E f \in Formulas : answer \in Answers(f)
    BY EvaluationConstants DEF Init
  <1>6. CacheSound
    BY <1>1 DEF CacheSound
  <1>7. Len(cache) <= MaxEntries
    BY <1>1, <1>3
  <1> QED BY <1>1, <1>2, <1>4, <1>5, <1>6, <1>7 DEF IInv, TypeOK

LEMMA ReplyType ==
  ASSUME TypeOK, NEW f \in Formulas, NEW c \in Contexts, NEW kind \in Kinds,
         NEW v \in AnswerValues \cup {NoValue}, NEW hit \in BOOLEAN, Reply(f, c, kind, v, hit)
  PROVE  \E g \in Formulas : answer' \in Answers(g)
  <1> DEFINE all == [g \in SameId(f) |-> Value(g, c)]
  <1>1. all \in [SameId(f) -> AnswerValues]
    BY ValueType DEF SameId
  <1>2. answer' = [formula |-> f, context |-> c, kind |-> kind, value |-> v, hit |-> hit,
                   fresh |-> all]
    BY DEF Reply
  <1> HIDE DEF all
  <1> QED BY <1>1, <1>2 DEF Answers

\* A streak stays one of formulas.
LEMMA LengthenedType ==
  ASSUME NEW s \in Seq(Formulas), NEW f \in Formulas
  PROVE  Lengthened(s, f) \in Seq(Formulas)
  BY AppendProperties DEF Lengthened

LEMMA LookupIn ==
  ASSUME TypeOK, NEW k, Keyed(cache, k) # {}
  PROVE  \E i \in DOMAIN cache : cache[i].key = k /\ Lookup(k) = cache[i].value
  BY DEF Keyed, Lookup

LEMMA LookupType ==
  ASSUME TypeOK, NEW k, Keyed(cache, k) # {}
  PROVE  Lookup(k) \in AnswerValues
  <1>1. PICK i \in DOMAIN cache : cache[i].key = k /\ Lookup(k) = cache[i].value
    BY LookupIn
  <1>2. cache[i] \in Entries
    BY ElementOfSeq, LenProperties DEF TypeOK
  <1> QED BY <1>1, <1>2 DEF Entries

\* Every evaluation keeps the invariant.
LEMMA EvaluateKeeps ==
  ASSUME IInv, NEW f \in Formulas, NEW c \in Contexts, Evaluate(f, c)
  PROVE  IInv'
  <1>1. TypeOK /\ CacheSound
    BY DEF IInv
  <1>2. UNCHANGED <<reading, globals, cycle>>
    BY DEF Evaluate
  <1>3. CASE Fail(f, c)
    <2>1. \E g \in Formulas : answer' \in Answers(g)
      BY <1>1, <1>3, ReplyType DEF Fail, Kinds
    <2>2. fatal' \in [Labels -> 0..MaxFatal]
      BY <1>1, <1>3, CountedType DEF Fail, TypeOK
    <2>3. UNCHANGED cache
      BY <1>3 DEF Fail
    <2>4. streak' \in [Labels -> Seq(Formulas)]
      BY <1>1, <1>3, LengthenedType, NamesType DEF Fail, TypeOK
    <2> QED BY <1>1, <1>2, <2>1, <2>2, <2>3, <2>4 DEF IInv, TypeOK, CacheSound
  <1>4. CASE Skip(f, c)
    <2>1. \E g \in Formulas : answer' \in Answers(g)
      BY <1>1, <1>4, ReplyType DEF Skip, Kinds
    <2>2. UNCHANGED <<fatal, streak, cache>>
      BY <1>4 DEF Skip
    <2> QED BY <1>1, <1>2, <2>1, <2>2 DEF IInv, TypeOK, CacheSound
  <1>5. CASE Serve(f, c)
    <2>1. Lookup(LookupKey(f, c)) \in AnswerValues
      BY <1>1, <1>5, LookupType DEF Serve, Hit
    <2>2. \E g \in Formulas : answer' \in Answers(g)
      BY <1>1, <1>5, <2>1, ReplyType DEF Serve, Kinds
    <2>3. UNCHANGED <<fatal, streak, cache>>
      BY <1>5 DEF Serve
    <2> QED BY <1>1, <1>2, <2>2, <2>3 DEF IInv, TypeOK, CacheSound
  <1>6. CASE Reflect(f, c)
    <2>1. \E g \in Formulas : answer' \in Answers(g)
      BY <1>1, <1>6, ReplyType DEF Reflect, Kinds
    <2>2. UNCHANGED <<fatal, streak, cache>>
      BY <1>6 DEF Reflect
    <2> QED BY <1>1, <1>2, <2>1, <2>2 DEF IInv, TypeOK, CacheSound
  <1>7. CASE Compute(f, c)
    <2>1. Value(f, c) \in AnswerValues
      BY <1>1, ValueType
    <2>2. \E g \in Formulas : answer' \in Answers(g)
      <3>1. CASE Numeric(f)
        <4>1. Reply(f, c, "ok", Value(f, c), FALSE)
          BY <1>7, <3>1 DEF Compute
        <4> QED BY <1>1, <2>1, <4>1, ReplyType DEF Kinds
      <3>2. CASE ~Numeric(f)
        <4>1. \/ Reply(f, c, "ok", Value(f, c), FALSE)
              \/ Reply(f, c, "unknown", NoValue, FALSE)
          BY <1>7, <3>2 DEF Compute
        <4> QED BY <1>1, <2>1, <4>1, ReplyType DEF Kinds
      <3> QED BY <3>1, <3>2
    <2>3. fatal' \in [Labels -> 0..MaxFatal] /\ streak' \in [Labels -> Seq(Formulas)]
      <3>1. fatal' = [fatal EXCEPT ![Name[f]] = 0] /\ streak' = [streak EXCEPT ![Name[f]] = <<>>]
        BY <1>7 DEF Compute
      <3>2. 0 \in 0..MaxFatal /\ <<>> \in Seq(Formulas)
        BY EvaluationConstants, EmptySeq
      <3>3. fatal \in [Labels -> 0..MaxFatal] /\ streak \in [Labels -> Seq(Formulas)]
        BY <1>1 DEF TypeOK
      <3> QED BY <3>1, <3>2, <3>3
    <2>4. /\ cache' \in Seq(Entries) /\ Len(cache') <= MaxEntries
          /\ \A i \in DOMAIN cache' : SoundEntry(cache'[i])
      <3>1. CASE Numeric(f)
        <4> DEFINE new == [key |-> StoreKey(f, c), value |-> Value(f, c)]
                   Sound == {e \in Entries : SoundEntry(e)}
        <4>1. PICK n \in 0..Len(cache) :
                cache' = StoredIn(Evicted(n), StoreKey(f, c), Value(f, c))
          BY <1>7, <3>1 DEF Compute
        <4>2. cache \in Seq(Entries) /\ Len(cache) <= MaxEntries
          BY <1>1 DEF TypeOK
        <4>3. /\ Evicted(n) \in Seq(Entries) /\ Len(Evicted(n)) < MaxEntries
              /\ \A i \in DOMAIN Evicted(n) : \E j \in DOMAIN cache : Evicted(n)[i] = cache[j]
          BY <4>2, EvictedType
        <4>4. \A j \in DOMAIN cache : cache[j] \in Sound
          BY <4>2, <1>1, ElementOfSeq, LenProperties DEF CacheSound
        <4>5. new \in Entries
          BY <1>1, <2>1, StoreKeyType DEF Entries
        <4>6. SoundEntry(new)
          BY <3>1, StoredIsSound
        <4>7. new \in Sound /\ Sound \subseteq Entries
          BY <4>5, <4>6
        <4>8. \A i \in DOMAIN Evicted(n) : Evicted(n)[i] \in Sound
          BY <4>3, <4>4
        <4> HIDE DEF Sound
        <4>9. /\ cache' \in Seq(Entries) /\ Len(cache') <= Len(Evicted(n)) + 1
              /\ \A i \in DOMAIN cache' : cache'[i] \in Sound
          BY <4>1, <4>3, <4>7, <4>8, StoredType
        <4>10. Len(Evicted(n)) \in Nat /\ Len(cache') \in Nat
          BY <4>3, <4>9, LenProperties
        <4>11. Len(cache') <= MaxEntries
          BY <4>3, <4>9, <4>10, EvaluationConstants
        <4> QED BY <4>9, <4>11 DEF Sound
      <3>2. CASE ~Numeric(f)
        BY <1>1, <1>7, <3>2 DEF Compute, TypeOK, CacheSound
      <3> QED BY <3>1, <3>2
    <2> QED BY <1>1, <1>2, <2>2, <2>3, <2>4 DEF IInv, TypeOK, CacheSound
  <1> QED BY <1>3, <1>4, <1>5, <1>6, <1>7 DEF Evaluate, FailCircular, FailDependency

\* What happens around the evaluations keeps it as well.
LEMMA SurroundingsKeep ==
  ASSUME IInv,
         \/ \E e \in Entities, r \in Observed : SetReading(e, r)
         \/ \E g \in GlobalSettings : StartCycle(g)
         \/ EndCycle
         \/ ClearCache
  PROVE  IInv'
  <1>1. TypeOK /\ CacheSound
    BY DEF IInv
  <1>2. ASSUME NEW e \in Entities, NEW r \in Observed, SetReading(e, r) PROVE IInv'
    <2>1. r \in Readings
      BY EvaluationConstants
    <2>2. reading' \in [Entities -> Readings]
      BY <1>1, <1>2, <2>1 DEF SetReading, TypeOK
    <2> QED BY <1>1, <1>2, <2>2 DEF SetReading, IInv, TypeOK, CacheSound
  <1>3. ASSUME NEW g \in GlobalSettings, StartCycle(g) PROVE IInv'
    BY <1>1, <1>3 DEF StartCycle, IInv, TypeOK, CacheSound
  <1>4. CASE EndCycle
    BY <1>1, <1>4 DEF EndCycle, IInv, TypeOK, CacheSound
  <1>5. CASE ClearCache
    <2>1. cache' \in Seq(Entries) /\ Len(cache') = 0 /\ DOMAIN cache' = {}
      BY <1>5, EmptySeq, LenProperties DEF ClearCache
    <2>2. Len(cache') <= MaxEntries
      BY <2>1, EvaluationConstants
    <2>3. CacheSound'
      BY <2>1 DEF CacheSound
    <2>4. UNCHANGED <<reading, globals, fatal, cycle, answer, streak>>
      BY <1>5 DEF ClearCache
    <2> QED BY <1>1, <2>1, <2>2, <2>3, <2>4 DEF IInv, TypeOK
  <1> QED BY <1>2, <1>3, <1>4, <1>5

LEMMA StepKeeps == IInv /\ [Next]_vars => IInv'
  <1>1. ASSUME IInv, Next PROVE IInv'
    BY <1>1, EvaluateKeeps, SurroundingsKeep DEF Next
  <1>2. ASSUME IInv, UNCHANGED vars PROVE IInv'
    BY <1>2 DEF IInv, TypeOK, CacheSound, vars
  <1> QED BY <1>1, <1>2

\* The inductive invariant holds in every reachable state.
THEOREM Invariance == Spec => []IInv
  BY InitIInv, StepKeeps, PTL DEF Spec

\* Counts stay within the breaker's limit, and however stores, expiry and
\* evictions interleave the cache never exceeds max_entries.
THEOREM TypesHold == Spec => []TypeOK
  <1>1. IInv => TypeOK
    BY DEF IInv
  <1> QED BY <1>1, Invariance, PTL

-----------------------------------------------------------------------------
(* The breaker *)

\* Once a formula's breaker is open nothing ever closes it again.
LEMMA OpenStays ==
  ASSUME IInv, [Next]_vars, NEW g \in Formulas, Open(g)
  PROVE  Open(g)'
  <1>1. fatal \in [Labels -> 0..MaxFatal] /\ fatal[Name[g]] = MaxFatal /\ Name[g] \in Labels
    BY NamesType DEF IInv, TypeOK, Open
  <1>2. ASSUME NEW f \in Formulas, NEW c \in Contexts, Evaluate(f, c) PROVE Open(g)'
    <2>1. CASE Fail(f, c)
      <3>1. fatal' = [fatal EXCEPT ![Name[f]] = Counted(fatal[Name[f]])]
        BY <2>1 DEF Fail
      <3>2. Counted(MaxFatal) = MaxFatal
        BY EvaluationConstants DEF Counted
      <3>3. fatal'[Name[g]] = MaxFatal
        BY <1>1, <3>1, <3>2
      <3> QED BY <3>3 DEF Open
    <2>2. CASE Skip(f, c) \/ Serve(f, c) \/ Reflect(f, c)
      BY <1>1, <2>2 DEF Skip, Serve, Reflect, Open
    <2>3. CASE Compute(f, c)
      <3>1. fatal' = [fatal EXCEPT ![Name[f]] = 0] /\ ~Open(f)
        BY <2>3 DEF Compute, Attempted
      <3>2. Name[f] # Name[g]
        BY <1>1, <3>1 DEF Open
      <3>3. fatal'[Name[g]] = MaxFatal
        BY <1>1, <3>1, <3>2
      <3> QED BY <3>3 DEF Open
    <2> QED BY <1>2, <2>1, <2>2, <2>3 DEF Evaluate, FailCircular, FailDependency
  <1>3. CASE UNCHANGED fatal
    BY <1>1, <1>3 DEF Open
  <1> QED BY <1>2, <1>3 DEF Next, SetReading, StartCycle, EndCycle, ClearCache, vars

\* A breaker that has opened stays open until the evaluator is built anew.
THEOREM BreakersLatch == Spec => BreakerLatches
  <1>1. ASSUME IInv, [Next]_vars PROVE \A f \in Formulas : Open(f) => Open(f)'
    BY <1>1, OpenStays
  <1>2. IInv /\ [Next]_vars => [\A f \in Formulas : Open(f) => Open(f)']_vars
    BY <1>1
  <1> QED BY <1>2, Invariance, PTL DEF Spec, BreakerLatches

Earned == CountsAreOwn /\ SkipsAreEarned

LEMMA InitEarned == Init => Earned
  <1> SUFFICES ASSUME Init PROVE Earned
    OBVIOUS
  <1>1. \A n \in Labels : fatal[n] = 0 /\ streak[n] = <<>>
    BY DEF Init
  <1>2. Len(<<>>) = 0 /\ 1..0 = {}
    OBVIOUS
  <1>3. \A n \in Labels : fatal[n] = Len(streak[n]) /\ 1..Len(streak[n]) = {}
    BY <1>1, <1>2
  <1> QED BY <1>3 DEF Init, Earned, CountsAreOwn, SkipsAreEarned

\* One more error of f lengthens the streak as it increments the count.
LEMMA LengthenedCounts ==
  ASSUME NEW s \in Seq(Formulas), NEW f \in Formulas, Len(s) \in 0..MaxFatal,
         \A i \in 1..Len(s) : Name[s[i]] = Name[f]
  PROVE  /\ Len(Lengthened(s, f)) = Counted(Len(s))
         /\ \A i \in 1..Len(Lengthened(s, f)) : Name[Lengthened(s, f)[i]] = Name[f]
  <1>1. CASE Len(s) < MaxFatal
    <2> DEFINE t == Append(s, f)
    <2>1. /\ Len(t) = Len(s) + 1 /\ t[Len(s) + 1] = f
          /\ \A i \in 1..Len(s) : t[i] = s[i]
      BY AppendProperties
    <2>2. Lengthened(s, f) = t /\ Counted(Len(s)) = Len(s) + 1
      BY <1>1 DEF Lengthened, Counted
    <2> HIDE DEF t
    <2>3. \A i \in 1..(Len(s) + 1) : i \in 1..Len(s) \/ i = Len(s) + 1
      BY EvaluationConstants
    <2>4. \A i \in 1..Len(t) : Name[t[i]] = Name[f]
      BY <2>1, <2>3
    <2> QED BY <2>1, <2>2, <2>4
  <1>2. CASE ~(Len(s) < MaxFatal)
    <2>1. Lengthened(s, f) = s /\ Counted(Len(s)) = Len(s)
      BY <1>2, EvaluationConstants DEF Lengthened, Counted
    <2> QED BY <2>1
  <1> QED BY <1>1, <1>2

\* A count and the errors of the formulas of its name move together.
LEMMA EarnedKept ==
  ASSUME IInv, Earned, [Next]_vars
  PROVE  Earned'
  <1>1. /\ fatal \in [Labels -> 0..MaxFatal] /\ streak \in [Labels -> Seq(Formulas)]
        /\ \A n \in Labels : /\ fatal[n] = Len(streak[n])
                             /\ \A i \in 1..Len(streak[n]) : Name[streak[n][i]] = n
        /\ \A g \in Formulas : Name[g] \in Labels
    BY NamesType DEF IInv, TypeOK, Earned, CountsAreOwn
  <1>2. ASSUME NEW f \in Formulas, NEW c \in Contexts, Evaluate(f, c) PROVE Earned'
    <2>1. CASE Fail(f, c)
      <3> DEFINE s == streak[Name[f]]
      <3>1. /\ fatal' = [fatal EXCEPT ![Name[f]] = Counted(fatal[Name[f]])]
            /\ streak' = [streak EXCEPT ![Name[f]] = Lengthened(s, f)]
        BY <2>1 DEF Fail
      <3>2. /\ Name[f] \in Labels /\ s \in Seq(Formulas) /\ Len(s) = fatal[Name[f]]
            /\ Len(s) \in 0..MaxFatal
            /\ \A i \in 1..Len(s) : Name[s[i]] = Name[f]
        BY <1>1
      <3>3. /\ fatal'[Name[f]] = Counted(Len(s))
            /\ streak'[Name[f]] = Lengthened(s, f)
            /\ \A n \in Labels \ {Name[f]} : fatal'[n] = fatal[n] /\ streak'[n] = streak[n]
        BY <1>1, <3>1, <3>2
      <3> HIDE DEF s
      <3>4. /\ Len(Lengthened(s, f)) = Counted(Len(s))
            /\ \A i \in 1..Len(Lengthened(s, f)) : Name[Lengthened(s, f)[i]] = Name[f]
        BY <3>2, LengthenedCounts
      <3>5. \A n \in Labels : /\ fatal'[n] = Len(streak'[n])
                              /\ \A i \in 1..Len(streak'[n]) : Name[streak'[n][i]] = n
        <4> TAKE n \in Labels
        <4>1. CASE n = Name[f]
          BY <4>1, <3>3, <3>4
        <4>2. CASE n # Name[f]
          BY <4>2, <3>3, <1>1
        <4> QED BY <4>1, <4>2
      <3>6. answer'.kind = "failed"
        BY <2>1 DEF Fail, Reply
      <3> QED BY <3>5, <3>6 DEF Earned, CountsAreOwn, SkipsAreEarned
    <2>2. CASE Skip(f, c)
      <3>1. /\ fatal[Name[f]] = MaxFatal /\ UNCHANGED <<fatal, streak>>
            /\ answer'.formula = f
        BY <2>2 DEF Skip, Reply, Open
      <3> DEFINE s == streak[Name[f]]
      <3>2. /\ s \in Seq(Formulas) /\ Len(s) = MaxFatal
            /\ \A i \in 1..Len(s) : Name[s[i]] = Name[f]
        BY <1>1, <3>1
      <3>3. DOMAIN s = 1..Len(s) /\ \A i \in 1..Len(s) : s[i] \in Formulas
        BY <3>2, LenProperties, ElementOfSeq
      <3>4. Len(s) = MaxFatal /\ \A i \in DOMAIN s : s[i] \in Namesakes(f)
        <4> HIDE DEF s
        <4> QED BY <3>2, <3>3 DEF Namesakes
      <3>5. SkipsAreEarned'
        <4> HIDE DEF s
        <4>1. streak'[Name[answer'.formula]] = s
          BY <3>1 DEF s
        <4> QED BY <3>1, <3>4, <4>1 DEF SkipsAreEarned
      <3> QED BY <1>1, <3>1, <3>5 DEF Earned, CountsAreOwn
    <2>3. CASE Serve(f, c) \/ Reflect(f, c)
      <3>1. UNCHANGED <<fatal, streak>> /\ answer'.kind # "skipped"
        BY <2>3 DEF Serve, Reflect, Reply
      <3> QED BY <1>1, <3>1 DEF Earned, CountsAreOwn, SkipsAreEarned
    <2>4. CASE Compute(f, c)
      <3>1. /\ fatal' = [fatal EXCEPT ![Name[f]] = 0]
            /\ streak' = [streak EXCEPT ![Name[f]] = <<>>]
        BY <2>4 DEF Compute
      <3>2. Len(<<>>) = 0 /\ 1..0 = {}
        OBVIOUS
      <3>3. \A n \in Labels : /\ fatal'[n] = Len(streak'[n])
                              /\ \A i \in 1..Len(streak'[n]) : Name[streak'[n][i]] = n
        <4> TAKE n \in Labels
        <4>1. CASE n = Name[f]
          <5>1. fatal'[n] = 0 /\ streak'[n] = <<>>
            BY <4>1, <1>1, <3>1
          <5>2. fatal'[n] = Len(streak'[n]) /\ 1..Len(streak'[n]) = {}
            BY <5>1, <3>2
          <5> QED BY <5>2
        <4>2. CASE n # Name[f]
          <5>1. fatal'[n] = fatal[n] /\ streak'[n] = streak[n]
            BY <4>2, <1>1, <3>1
          <5> QED BY <5>1, <1>1
        <4> QED BY <4>1, <4>2
      <3>4. answer'.kind # "skipped"
        BY <2>4 DEF Compute, Reply
      <3> QED BY <3>3, <3>4 DEF Earned, CountsAreOwn, SkipsAreEarned
    <2> QED BY <1>2, <2>1, <2>2, <2>3, <2>4 DEF Evaluate, FailCircular, FailDependency
  <1>3. CASE UNCHANGED <<fatal, streak, answer>>
    BY <1>3 DEF Earned, CountsAreOwn, SkipsAreEarned
  <1> QED BY <1>2, <1>3 DEF Next, SetReading, StartCycle, EndCycle, ClearCache, vars

\* A formula is skipped only for MaxFatal fatal errors of formulas of its name, none of
\* which has succeeded since: of its own when no other has its name.
THEOREM SkippedForOwnErrors == Spec => []SkipsAreEarned
  <1>1. IInv /\ Earned /\ [Next]_vars => Earned'
    BY EarnedKept
  <1>2. Earned => SkipsAreEarned
    BY DEF Earned
  <1> QED BY <1>1, <1>2, InitEarned, Invariance, PTL DEF Spec

-----------------------------------------------------------------------------
(* The result cache *)

\* What the cache serves a formula is what one of its id computed from the same context.
LEMMA ServedIsFresh ==
  ASSUME IInv, NEW f \in Formulas, NEW c \in Contexts, Hit(f, c)
  PROVE  \E g \in SameId(f) :
           \/ Lookup(LookupKey(f, c)) = Value(g, c)
           \/ /\ Hidden[g] # {}
              /\ Lookup(LookupKey(f, c)) =
                   [Value(g, c) EXCEPT !.inputs = Lookup(LookupKey(f, c)).inputs]
  <1> DEFINE k == LookupKey(f, c)
             v == Lookup(k)
             g == v.formula
             w == Value(g, c)
  <1>1. PICK i \in DOMAIN cache : cache[i].key = k /\ v = cache[i].value
    BY LookupIn DEF Hit, IInv
  <1>2. cache[i] \in Entries /\ SoundEntry(cache[i])
    BY ElementOfSeq, LenProperties DEF IInv, TypeOK, CacheSound
  <1>3. v \in AnswerValues /\ g \in Formulas
    BY <1>1, <1>2 DEF Entries, AnswerValues
  <1>4. w \in AnswerValues
    BY <1>3, ValueType DEF IInv
  <1>5. k.id = Id[f] /\ k.context = c /\ k.added = {}
    BY DEF LookupKey
  <1>6. w.formula = g /\ w.context = c /\ w.globals = Globals(g)
        /\ w.inputs = {<<e, reading[e]>> : e \in Reads[g] \cup Hidden[g]}
    BY DEF Value
  <1> HIDE DEF k, v, w
  <1>7. /\ Id[f] = Id[g] /\ c = v.context /\ Reads[g] = {}
        /\ v.globals = {} /\ g \notin UsesGlobals
        /\ Hidden[g] = {} => v.inputs = {}
    BY <1>1, <1>2, <1>5 DEF SoundEntry
  <1>8. g \in SameId(f)
    BY <1>3, <1>7 DEF SameId
  <1>9. v.formula = w.formula /\ v.context = w.context /\ v.globals = w.globals
    BY <1>6, <1>7 DEF Globals
  <1>10. Hidden[g] = {} => v.inputs = w.inputs
    BY <1>6, <1>7
  <1>11. \A x \in AnswerValues : x = [formula |-> x.formula, context |-> x.context,
                                      globals |-> x.globals, inputs |-> x.inputs]
    BY DEF AnswerValues
  <1>12. CASE Hidden[g] = {}
    <2>1. v = w
      BY <1>3, <1>4, <1>9, <1>10, <1>11, <1>12
    <2> QED BY <2>1, <1>8 DEF k, v, w
  <1>13. CASE Hidden[g] # {}
    <2>1. v = [w EXCEPT !.inputs = v.inputs]
      BY <1>3, <1>4, <1>9 DEF AnswerValues
    <2> QED BY <2>1, <1>8, <1>13 DEF k, v, w
  <1> QED BY <1>12, <1>13

LEMMA FreshKept ==
  ASSUME IInv, FreshAnswers, [Next]_vars
  PROVE  FreshAnswers'
  <1>1. ASSUME NEW f \in Formulas, NEW c \in Contexts, Evaluate(f, c) PROVE FreshAnswers'
    <2> DEFINE all == [g \in SameId(f) |-> Value(g, c)]
    <2>1. f \in SameId(f)
      BY DEF SameId
    <2>2. CASE Serve(f, c)
      <3> DEFINE v == Lookup(LookupKey(f, c))
      <3>1. PICK g \in SameId(f) :
              v = Value(g, c) \/ (Hidden[g] # {} /\ v = [Value(g, c) EXCEPT !.inputs = v.inputs])
        BY <2>2, ServedIsFresh DEF Serve
      <3>2. answer' = [formula |-> f, context |-> c, kind |-> "ok", value |-> v,
                       hit |-> TRUE, fresh |-> all]
        BY <2>2 DEF Serve, Reply
      <3>3. all[g] = Value(g, c)
        OBVIOUS
      <3> HIDE DEF v, all
      <3>4. /\ answer'.value = v /\ answer'.hit /\ answer'.formula = f
            /\ answer'.fresh[g] = Value(g, c)
        BY <3>2, <3>3
      <3> QED BY <3>1, <3>4 DEF FreshAnswers
    <2>3. CASE Compute(f, c)
      <3>1. /\ answer'.value \in {Value(f, c), NoValue} /\ answer'.formula = f
            /\ answer'.fresh = all
        BY <2>3 DEF Compute, Reply
      <3>2. all[f] = Value(f, c)
        BY <2>1
      <3> HIDE DEF all
      <3>3. answer'.value \in {answer'.fresh[f], NoValue}
        BY <3>1, <3>2
      <3> QED BY <2>1, <3>1, <3>3 DEF FreshAnswers
    <2>4. CASE Fail(f, c) \/ Skip(f, c) \/ Reflect(f, c)
      <3>1. answer'.value = NoValue
        BY <2>4 DEF Fail, Skip, Reflect, Reply
      <3> QED BY <3>1 DEF FreshAnswers
    <2> QED BY <1>1, <2>2, <2>3, <2>4 DEF Evaluate, FailCircular, FailDependency
  <1>2. CASE UNCHANGED answer
    BY <1>2 DEF FreshAnswers
  <1> QED BY <1>1, <1>2 DEF Next, SetReading, StartCycle, EndCycle, ClearCache, vars

\* A caller is answered what a fresh evaluation would give, whatever was stored,
\* evicted, cleared or changed before: one of the formula itself or, from the cache, of
\* one with the same id; and what was read through a collection pattern may be older.
THEOREM AnswersAreFresh == Spec => []FreshAnswers
  <1>1. IInv /\ FreshAnswers /\ [Next]_vars => FreshAnswers'
    BY FreshKept
  <1>2. Init => FreshAnswers
    BY DEF Init, FreshAnswers
  <1> QED BY <1>1, <1>2, Invariance, PTL DEF Spec

\* Within an update cycle no value comes from the cache, whatever names and ids are.
THEOREM CyclesAreFresh == Spec => AnswersFreshInCycle
  <1> DEFINE A == answer' # answer /\ cycle =>
                    answer'.value \in {answer'.fresh[answer'.formula], NoValue}
  <1>1. ASSUME NEW f \in Formulas, NEW c \in Contexts, Evaluate(f, c) PROVE A
    <2>1. CASE Serve(f, c)
      BY <2>1 DEF Serve, Hit
    <2>2. CASE Compute(f, c)
      <3> DEFINE all == [g \in SameId(f) |-> Value(g, c)]
      <3>1. /\ answer'.value \in {Value(f, c), NoValue} /\ answer'.formula = f
            /\ answer'.fresh = all
        BY <2>2 DEF Compute, Reply
      <3>2. all[f] = Value(f, c)
        BY DEF SameId
      <3> HIDE DEF all
      <3> QED BY <3>1, <3>2
    <2>3. CASE Fail(f, c) \/ Skip(f, c) \/ Reflect(f, c)
      BY <2>3 DEF Fail, Skip, Reflect, Reply
    <2> QED BY <1>1, <2>1, <2>2, <2>3 DEF Evaluate, FailCircular, FailDependency
  <1>2. [Next]_vars => [A]_vars
    BY <1>1 DEF Next, SetReading, StartCycle, EndCycle, ClearCache, vars
  <1> QED BY <1>2, PTL DEF Spec, AnswersFreshInCycle

=============================================================================
