------------------------- MODULE Integration_proofs -------------------------
(***************************************************************************)
(* For any entries, files and documents: an integration that is unloaded,  *)
(* reloaded or not set up to the end leaves nothing behind, every          *)
(* configuration that is accepted, as read and as imported, is sound, and  *)
(* what can be written of what was imported comes back as it was.          *)
(***************************************************************************)
EXTENDS Integration, SequenceTheorems, FiniteSetTheorems, WellFoundedInduction, TLAPS

-----------------------------------------------------------------------------
(* Recursion over the numbers *)

\* A set of numbers with a first one and every next one is Nat.
LEMMA Induction ==
  ASSUME NEW T \in SUBSET Nat, 0 \in T, \A n \in T : n + 1 \in T
  PROVE  T = Nat
  <1> DEFINE R == OpToRel(<, Nat)
  <1>1. SUFFICES ASSUME Nat \ T # {} PROVE FALSE
    OBVIOUS
  <1>2. PICK n \in Nat \ T : \A m \in Nat \ T : ~(<<m, n>> \in R)
    <2>1. \A Q, S : IsWellFoundedOn(Q, S)
             => \A X : X \subseteq S /\ X # {} => \E x \in X : \A y \in X : ~(<<y, x>> \in Q)
      BY WFMin
    <2>2. IsWellFoundedOn(R, Nat)
      BY NatLessThanWellFounded
    <2> HIDE DEF R
    <2> QED BY <1>1, <2>1, <2>2
  <1>3. n # 0 /\ n - 1 \in Nat
    OBVIOUS
  <1>4. n - 1 \in T
    <2>1. <<n - 1, n>> \in R
      BY <1>3 DEF OpToRel
    <2> HIDE DEF R
    <2> QED BY <1>2, <1>3, <2>1
  <1> QED BY <1>3, <1>4

\* A set of numbers that is not empty has a least one.
LEMMA LeastNumber ==
  ASSUME NEW T \in SUBSET Nat, T # {}
  PROVE  \E n \in T : \A m \in T : n <= m
  <1> DEFINE R == OpToRel(<, Nat)
  <1>1. \A Q, S : IsWellFoundedOn(Q, S)
           => \A X : X \subseteq S /\ X # {} => \E x \in X : \A y \in X : ~(<<y, x>> \in Q)
    BY WFMin
  <1>2. IsWellFoundedOn(R, Nat)
    BY NatLessThanWellFounded
  <1>3. \A m, n \in Nat : m < n => <<m, n>> \in R
    BY DEF OpToRel
  <1> HIDE DEF R
  <1>4. PICK n \in T : \A m \in T : ~(<<m, n>> \in R)
    BY <1>1, <1>2
  <1>5. \A m \in T : m \in Nat /\ n \in Nat /\ ~(m < n)
    BY <1>3, <1>4
  <1> QED BY <1>5

-----------------------------------------------------------------------------
(* The order of attributes *)

\* What Kahn's algorithm has got to, round by round.
Rounds(dependsOn, last, R) ==
  R = [n \in 0 .. last |->
         IF n = 0 THEN {} ELSE {a \in DOMAIN dependsOn : dependsOn[a] \subseteq R[n - 1]}]

\* What depends on nothing but what is done.
Following(dependsOn, done) == {a \in DOMAIN dependsOn : dependsOn[a] \subseteq done}

\* A round has what depends only on the round before it.
LEMMA RoundSteps ==
  ASSUME NEW dependsOn, NEW last \in Nat, NEW R, Rounds(dependsOn, last, R)
  PROVE  /\ R[0] = {}
         /\ \A n \in Nat : n + 1 <= last =>
              R[n + 1] = Following(dependsOn, R[n])
         /\ \A n \in 0 .. last : R[n] \subseteq DOMAIN dependsOn
  <1> DEFINE Round(n) == IF n = 0 THEN {} ELSE Following(dependsOn, R[n - 1])
  <1>1. R = [n \in 0 .. last |-> Round(n)]
    BY DEF Rounds, Following
  <1>2. \A n : Following(dependsOn, R[n]) \subseteq DOMAIN dependsOn
    BY DEF Following
  <1>3. \A n \in 0 .. last : R[n] = Round(n)
    <2> HIDE DEF Round
    <2> QED BY <1>1
  <1>4. 0 \in 0 .. last /\ Round(0) = {}
    OBVIOUS
  <1>5. \A n \in Nat : n + 1 # 0 /\ (n + 1) - 1 = n /\ (n + 1 <= last => n + 1 \in 0 .. last)
    OBVIOUS
  <1>6. \A n \in Nat : Round(n + 1) = Following(dependsOn, R[n])
    BY <1>5
  <1>7. \A n : Round(n) \subseteq DOMAIN dependsOn
    BY <1>2
  <1> HIDE DEF Round
  <1> QED BY <1>3, <1>4, <1>5, <1>6, <1>7

\* The algorithm has its rounds.
LEMMA InOrderRounds ==
  ASSUME NEW dependsOn, IsFiniteSet(DOMAIN dependsOn)
  PROVE  LET last == Cardinality(DOMAIN dependsOn)
         IN  /\ last \in Nat
             /\ \E R : Rounds(dependsOn, last, R) /\ InOrder(dependsOn) = R[last]
  <1> DEFINE last == Cardinality(DOMAIN dependsOn)
             T == {m \in Nat : \E W : Rounds(dependsOn, m, W)}
  <1>1. 0 \in T
    <2>1. Rounds(dependsOn, 0, [n \in 0 .. 0 |-> {}])
      BY DEF Rounds
    <2> QED BY <2>1
  <1>2. ASSUME NEW m \in T PROVE m + 1 \in T
    <2>1. PICK W : Rounds(dependsOn, m, W)
      OBVIOUS
    <2> DEFINE G(V, n) == IF n = 0 THEN {}
                          ELSE {a \in DOMAIN dependsOn : dependsOn[a] \subseteq V[n - 1]}
               X == [n \in 0 .. m + 1 |-> G(W, n)]
    <2>2. \A n \in 0 .. m : X[n] = W[n]
      <3>1. \A n \in 0 .. m : W[n] = G(W, n)
        BY <2>1 DEF Rounds
      <3>2. \A n \in 0 .. m : X[n] = G(W, n)
        OBVIOUS
      <3> QED BY <3>1, <3>2
    <2>3. \A n \in 0 .. m + 1 : G(W, n) = G(X, n)
      <3> SUFFICES ASSUME NEW n \in 0 .. m + 1 PROVE G(W, n) = G(X, n)
        OBVIOUS
      <3>1. n # 0 => n - 1 \in 0 .. m
        OBVIOUS
      <3> HIDE DEF X
      <3>2. n # 0 => X[n - 1] = W[n - 1]
        BY <2>2, <3>1
      <3> QED BY <3>2
    <2>4. X = [n \in 0 .. m + 1 |-> G(X, n)]
      BY <2>3
    <2> HIDE DEF X
    <2>5. Rounds(dependsOn, m + 1, X)
      BY <2>4 DEF Rounds
    <2> QED BY <2>5
  <1>3. last \in Nat
    BY FS_CardinalityType
  <1>4. last \in T
    BY <1>1, <1>2, <1>3, Induction
  <1>5. PICK W : Rounds(dependsOn, last, W)
    BY <1>4 DEF Rounds
  <1> DEFINE C == CHOOSE V : Rounds(dependsOn, last, V)
  <1>6. Rounds(dependsOn, last, C)
    BY <1>5
  <1>7. InOrder(dependsOn) = C[last]
    BY DEF InOrder, Rounds
  <1> HIDE DEF C
  <1> QED BY <1>3, <1>6, <1>7

\* If it gets to all of them, nothing depends on itself in a circle.
LEMMA InOrderSound ==
  ASSUME NEW dependsOn, IsFiniteSet(DOMAIN dependsOn), InOrder(dependsOn) = DOMAIN dependsOn,
         NEW T \in SUBSET DOMAIN dependsOn, T # {}
  PROVE  \E a \in T : dependsOn[a] \cap T = {}
  <1>0. PICK last \in Nat : \E R : Rounds(dependsOn, last, R) /\ InOrder(dependsOn) = R[last]
    BY InOrderRounds
  <1>1. PICK R : Rounds(dependsOn, last, R) /\ InOrder(dependsOn) = R[last]
    BY <1>0
  <1> DEFINE N == {n \in 0 .. last : T \cap R[n] # {}}
  <1>2. N \in SUBSET Nat /\ N # {}
    BY <1>1
  <1>3. PICK n \in N : \A m \in N : n <= m
    BY <1>2, LeastNumber
  <1>4. n \in 0 .. last /\ T \cap R[n] # {}
    OBVIOUS
  <1>5. R[0] = {}
    BY <1>1 DEF Rounds
  <1>6. n # 0 /\ n - 1 \in 0 .. last
    BY <1>4, <1>5
  <1>7. R[n] = {a \in DOMAIN dependsOn : dependsOn[a] \subseteq R[n - 1]}
    BY <1>1, <1>4, <1>6 DEF Rounds
  <1>8. n - 1 \notin N
    BY <1>3, <1>6
  <1>9. T \cap R[n - 1] = {}
    BY <1>6, <1>8
  <1> HIDE DEF N
  <1> QED BY <1>4, <1>7, <1>9
-----------------------------------------------------------------------------
(* The circles of handlers *)

Way(h, T, first, n, way) ==
  /\ way \in [0 .. n -> T] /\ way[0] = first
  /\ \A i \in 1 .. n : way[i] \in References(h[way[i - 1]])

\* Where every one of some handlers refers to one of them, ways are as long as one likes.
LEMMA WaysGoOn ==
  ASSUME NEW h, NEW T \in SUBSET DOMAIN h, NEW first \in T,
         \A a \in T : References(h[a]) \cap T # {}, NEW last \in Nat
  PROVE  \E way : Way(h, T, first, last, way)
  <1> DEFINE N == {n \in Nat : \E way : Way(h, T, first, n, way)}
  <1>1. 0 \in N
    <2>1. Way(h, T, first, 0, [i \in 0 .. 0 |-> first])
      BY DEF Way
    <2> QED BY <2>1
  <1>2. ASSUME NEW n \in N PROVE n + 1 \in N
    <2>1. PICK way : Way(h, T, first, n, way)
      OBVIOUS
    <2>2. PICK b \in T : b \in References(h[way[n]])
      BY <2>1 DEF Way
    <2> DEFINE more == [i \in 0 .. n + 1 |-> IF i = n + 1 THEN b ELSE way[i]]
    <2>3. more \in [0 .. n + 1 -> T] /\ more[0] = first
      BY <2>1 DEF Way
    <2>4. ASSUME NEW i \in 1 .. n + 1 PROVE more[i] \in References(h[more[i - 1]])
      <3>1. more[i - 1] = way[i - 1]
        OBVIOUS
      <3>2. CASE i = n + 1
        BY <2>2, <3>1, <3>2
      <3>3. CASE i # n + 1
        <4>1. i \in 1 .. n /\ more[i] = way[i]
          BY <3>3
        <4> QED BY <2>1, <3>1, <4>1 DEF Way
      <3> QED BY <3>2, <3>3
    <2>5. Way(h, T, first, n + 1, more)
      <3> HIDE DEF more
      <3> QED BY <2>3, <2>4 DEF Way
    <2> QED BY <2>5
  <1>3. last \in N
    BY <1>1, <1>2, Induction
  <1> QED BY <1>3

\* Where no circle is found there is none among handlers that refer to each other.
LEMMA HandlersSound ==
  ASSUME NEW h, IsFiniteSet(DOMAIN h), ~CircularHandlers(h),
         NEW T \in SUBSET DOMAIN h, T # {}
  PROVE  \E a \in T : References(h[a]) \cap T = {}
  <1>0. SUFFICES ASSUME \A a \in T : References(h[a]) \cap T # {} PROVE FALSE
    OBVIOUS
  <1> DEFINE last == Cardinality(DOMAIN h)
  <1>1. last \in Nat
    BY FS_CardinalityType
  <1> HIDE DEF last
  <1>2. PICK first \in T : TRUE
    OBVIOUS
  <1>a. PICK way : Way(h, T, first, last, way)
    BY <1>0, <1>1, WaysGoOn
  <1>3. /\ way \in [0 .. last -> T] /\ way[0] = first
        /\ \A i \in 1 .. last : way[i] \in References(h[way[i - 1]])
    BY <1>a DEF Way
  <1>4. \E i, j \in 0 .. last : i < j /\ way[i] = way[j]
    <2> SUFFICES ASSUME \A i, j \in 0 .. last : i < j => way[i] # way[j] PROVE FALSE
      OBVIOUS
    <2>1. way \in Injection(0 .. last, DOMAIN h)
      BY <1>1, <1>3 DEF Injection, IsInjective
    <2>2. Cardinality(0 .. last) <= last
      BY <2>1, FS_Injection DEF last
    <2>3. Cardinality(0 .. last) = last + 1
      BY <1>1, FS_Interval
    <2> QED BY <1>1, <2>2, <2>3
  <1>5. PICK i, j \in 0 .. last : i < j /\ way[i] = way[j]
    BY <1>4
  <1> DEFINE part == [k \in 0 .. j |-> way[k]]
  <1>6. j \in 1 .. last /\ i \in 0 .. j - 1
    BY <1>1, <1>5
  <1>7. part \in [0 .. j -> DOMAIN h] /\ part[0] = first /\ part[i] = part[j]
    BY <1>1, <1>3, <1>5, <1>6
  <1>8. \A k \in 1 .. j : part[k] \in References(h[part[k - 1]])
    BY <1>1, <1>3, <1>6
  <1> HIDE DEF part, last
  <1>9. CircleFrom(h, first)
    BY <1>6, <1>7, <1>8 DEF CircleFrom, last
  <1> QED BY <1>9 DEF CircularHandlers

LEMMA AlternatesFinite == IsFiniteSet(Alternates)
  <1>1. /\ IsFiniteSet({"UNAVAILABLE"}) /\ IsFiniteSet({"UNKNOWN"})
        /\ IsFiniteSet({"NONE"}) /\ IsFiniteSet({"FALLBACK"})
    BY FS_Singleton
  <1>2. IsFiniteSet({"UNAVAILABLE"} \cup {"UNKNOWN"}) /\ IsFiniteSet({"NONE"} \cup {"FALLBACK"})
    BY <1>1, FS_Union
  <1>3. IsFiniteSet(({"UNAVAILABLE"} \cup {"UNKNOWN"}) \cup ({"NONE"} \cup {"FALLBACK"}))
    BY <1>2, FS_Union
  <1>4. Alternates = ({"UNAVAILABLE"} \cup {"UNKNOWN"}) \cup ({"NONE"} \cup {"FALLBACK"})
    BY DEF Alternates
  <1> QED BY <1>3, <1>4

\* Handlers in which no circle was found are in no circle.
LEMMA HandlersInOrder ==
  ASSUME NEW h, HandlersGiven(h), ~CircularHandlers(h)
  PROVE  HandlersOrdered(h)
  <1> DEFINE B == {b \in DOMAIN h : \/ h[b].kind = "formula"
                                    \/ h[b].kind = "text" /\ Cardinality(h[b].mentions) = 1}
  <1>1. IsFiniteSet(DOMAIN h)
    <2> QED BY AlternatesFinite, FS_Subset DEF HandlersGiven
  <1>2. ASSUME NEW b \in B PROVE References(h[b]) = h[b].mentions
    <2>1. CASE h[b].kind = "formula"
      BY <2>1 DEF References
    <2>2. CASE h[b].kind = "text" /\ Cardinality(h[b].mentions) = 1
      <3>1. h[b].mentions \subseteq {"NONE", "UNKNOWN", "UNAVAILABLE"}
        BY DEF HandlersGiven, Alternates
      <3>2. IsFiniteSet(h[b].mentions)
        <4>1. h[b].mentions \subseteq Alternates
          BY <3>1 DEF Alternates
        <4> QED BY <4>1, AlternatesFinite, FS_Subset
      <3>3. PICK m : h[b].mentions = {m}
        BY <2>2, <3>2, FS_Singleton
      <3> QED BY <2>2, <3>1, <3>3 DEF References
    <2> QED BY <2>1, <2>2
  <1>3. ASSUME NEW T \in SUBSET B, T # {} PROVE \E a \in T : h[a].mentions \cap T = {}
    <2>1. PICK a \in T : References(h[a]) \cap T = {}
      BY <1>1, <1>3, HandlersSound
    <2> QED BY <1>2, <2>1
  <1> HIDE DEF B
  <1> DEFINE refers == [a \in B |-> h[a].mentions]
  <1>5. DOMAIN refers = B /\ \A a \in B : refers[a] = h[a].mentions
    OBVIOUS
  <1> HIDE DEF refers
  <1>6. NoCircle(refers)
    <2> SUFFICES ASSUME NEW T \in SUBSET B, T # {} PROVE \E a \in T : refers[a] \cap T = {}
      BY <1>5 DEF NoCircle
    <2>1. PICK a \in T : h[a].mentions \cap T = {}
      BY <1>3
    <2> QED BY <1>5, <2>1
  <1>4. NoCircle([a \in B |-> h[a].mentions])
    BY <1>6 DEF refers
  <1> QED BY <1>4 DEF HandlersOrdered, B

\* The handlers that are left are handlers of the document.
LEMMA HandlersLeft ==
  ASSUME NEW h, HandlersGiven(h)
  PROVE  HandlersGiven(Handlers(h))
  BY DEF HandlersGiven, Handlers, Without, Restrict
-----------------------------------------------------------------------------
(* What is read *)

\* A number that no number of the set exceeds.
LEMMA GreatestNumber ==
  ASSUME NEW last \in Nat, NEW N \in SUBSET (1 .. last), N # {}
  PROVE  \E n \in N : \A m \in N : m <= n
  <1> DEFINE T == {last - n : n \in N}
  <1>1. T \in SUBSET Nat /\ T # {}
    OBVIOUS
  <1>2. PICK t \in T : \A u \in T : t <= u
    BY <1>1, LeastNumber
  <1>3. PICK n \in N : t = last - n
    BY <1>2
  <1>4. \A m \in N : last - m \in T /\ m \in Int /\ n \in Int
    OBVIOUS
  <1>5. \A m \in N : t <= last - m
    BY <1>2, <1>4
  <1> QED BY <1>3, <1>4, <1>5

\* The sensors of a document are those of its text.
LEMMA DocumentGiven ==
  ASSUME NEW text, TextGiven(text)
  PROVE  /\ IsFiniteSet(DOMAIN Document(text).sensors)
         /\ \A k \in DOMAIN Document(text).sensors : SensorGiven(Document(text).sensors[k])
  <1> DEFINE q == text.sensors
             S == ToSet(q)
             at(k) == {i \in DOMAIN q : q[i].key = k}
  <1>1. Len(q) \in Nat /\ DOMAIN q = 1 .. Len(q) /\ \A i \in DOMAIN q : q[i] \in S
    BY LenProperties, ElementOfSeq DEF TextGiven
  <1>2. DOMAIN Document(text).sensors = {q[i].key : i \in DOMAIN q}
    BY DEF Document, KeysOf, Range
  <1>3. IsFiniteSet({q[i].key : i \in DOMAIN q})
    <2> HIDE DEF q
    <2>1. IsFiniteSet(DOMAIN q)
      <3>1. 1 \in Int /\ Len(q) \in Int
        BY <1>1
      <3>2. IsFiniteSet(1 .. Len(q))
        BY <3>1, FS_Interval
      <3> QED BY <1>1, <3>2
    <2>2. [i \in DOMAIN q |-> q[i].key] \in Surjection(DOMAIN q, {q[i].key : i \in DOMAIN q})
      BY DEF Surjection
    <2> QED BY <2>1, <2>2, FS_Surjection
  <1>4. ASSUME NEW k \in {q[i].key : i \in DOMAIN q}
        PROVE  SensorGiven(Document(text).sensors[k])
    <2>1. at(k) \in SUBSET (1 .. Len(q)) /\ at(k) # {}
      BY <1>1
    <2>2. PICK greatest \in at(k) : \A j \in at(k) : j <= greatest
      BY <1>1, <2>1, GreatestNumber
    <2>3. Document(text).sensors[k]
            = q[CHOOSE i \in DOMAIN q : q[i].key = k /\ \A j \in DOMAIN q : q[j].key = k => j <= i]
      BY <1>2 DEF Document, KeysOf, Range
    <2>4. \E i \in DOMAIN q : Document(text).sensors[k] = q[i]
      BY <2>2, <2>3
    <2> QED BY <1>1, <2>4 DEF TextGiven
  <1> QED BY <1>2, <1>3, <1>4

\* A configuration has its fields, finitely many sensors and these theirs.
ConfigGiven(config) ==
  /\ config = [device |-> config.device, globals |-> config.globals, sensors |-> config.sensors]
  /\ VariablesGiven(config.globals)
  /\ IsFiniteSet(Keys(config))
  /\ \A k \in Keys(config) : SensorRead(config.sensors[k])

\* No variable and no attribute has the name that stands for the sensor's state.
SensorNamed(s) ==
  /\ State \notin DOMAIN s.variables /\ State \notin DOMAIN s.attributes
  /\ \A a \in DOMAIN s.attributes : State \notin DOMAIN s.attributes[a].variables

\* The attributes that were read are in no circle.
LEMMA AttributesInOrder ==
  ASSUME NEW doc, NEW s, IsFiniteSet(DOMAIN s.attributes), ~CircularDependencies(s)
  PROVE  AttributesOrdered(ReadSensor(doc, s))
  <1> DEFINE r == ReadSensor(doc, s)
             B == {b \in DOMAIN r.attributes : IsFormulaExpression(r.attributes[b].text)}
             refers == [a \in B |-> r.attributes[a].text.names \ {a}]
             D == DOMAIN s.attributes
             d == DependsOn(s)
  <1>1. DOMAIN r.attributes = FormulaAttributes(s) /\ FormulaAttributes(s) \subseteq D
    BY DEF ReadSensor, FormulaAttributes
  <1>2. \A a \in FormulaAttributes(s) : r.attributes[a].text = s.attributes[a].text
    BY DEF ReadSensor, ReadAttribute
  <1>3. DOMAIN d = D /\ \A a \in B : d[a] = s.attributes[a].text.names \cap (D \ {a})
    BY <1>1, <1>2 DEF DependsOn
  <1>4. InOrder(d) = D
    <2>1. D \subseteq InOrder(d)
      BY DEF CircularDependencies, LeftOver
    <2>2. \E last \in Nat : \E R : Rounds(d, last, R) /\ InOrder(d) = R[last]
      BY <1>3, InOrderRounds
    <2>3. InOrder(d) \subseteq DOMAIN d
      <3> HIDE DEF d
      <3> QED BY <2>2 DEF Rounds
    <2> QED BY <1>3, <2>1, <2>3
  <1>5. ASSUME NEW T \in SUBSET B, T # {} PROVE \E a \in T : refers[a] \cap T = {}
    <2>1. T \in SUBSET DOMAIN d /\ IsFiniteSet(DOMAIN d) /\ InOrder(d) = DOMAIN d
      BY <1>1, <1>3, <1>4
    <2>2. PICK a \in T : d[a] \cap T = {}
      <3> HIDE DEF d
      <3> QED BY <1>5, <2>1, InOrderSound
    <2>3. refers[a] = s.attributes[a].text.names \ {a}
      BY <1>1, <1>2
    <2>4. T \subseteq D
      BY <1>1
    <2> HIDE DEF refers, d, D, B
    <2> QED BY <1>3, <2>2, <2>3, <2>4
  <1>6. DOMAIN refers = B
    OBVIOUS
  <1>7. NoCircle(refers)
    <2> HIDE DEF refers, B
    <2> SUFFICES ASSUME NEW T \in SUBSET B, T # {} PROVE \E a \in T : refers[a] \cap T = {}
      BY <1>6 DEF NoCircle
    <2> QED BY <1>5
  <1>8. AttributesOrdered(r) <=> NoCircle(refers)
    <2> HIDE DEF r
    <2> QED BY DEF AttributesOrdered
  <1> QED BY <1>7, <1>8

\* The text of a value that is a name or an entity id.
OneWord(kind, t) ==
  /\ kind = "name" => t.ids = {} /\ \E name \in t.names : t.names = {name}
  /\ kind = "entity" => t.names = {} /\ \E id \in t.ids : t.ids = {id}

\* Variables keep their texts and kinds when they are read.
LEMMA VariablesRead ==
  ASSUME NEW variables, VariablesGiven(variables)
  PROVE  /\ DOMAIN ReadVariables(variables) = DOMAIN variables
         /\ VariablesGiven(ReadVariables(variables))
         /\ \A v \in DOMAIN variables : /\ ReadVariables(variables)[v].kind = variables[v].kind
                                        /\ ReadVariables(variables)[v].text = variables[v].text
  <1>1. DOMAIN ReadVariables(variables) = DOMAIN variables
    BY DEF ReadVariables
  <1>2. ASSUME NEW v \in DOMAIN variables
        PROVE  /\ ReadVariables(variables)[v].kind = variables[v].kind
               /\ ReadVariables(variables)[v].text = variables[v].text
               /\ ValueGiven(ReadVariables(variables)[v])
    <2> DEFINE x == variables[v]
    <2>1. ReadVariables(variables)[v] = [x EXCEPT !.handlers = Handlers(x.handlers), !.nested = TRUE]
      BY DEF ReadVariables, ReadVariable
    <2>2. x = [kind |-> x.kind, text |-> x.text, handlers |-> x.handlers, nested |-> x.nested]
      BY DEF VariablesGiven, ValueGiven
    <2>3. OneWord(x.kind, x.text) /\ WordsGiven(x.text)
      BY DEF VariablesGiven, ValueGiven, OneWord
    <2> HIDE DEF x
    <2>4. ReadVariables(variables)[v]
            = [kind |-> x.kind, text |-> x.text, handlers |-> Handlers(x.handlers), nested |-> TRUE]
      BY <2>1, <2>2
    <2>5. /\ ReadVariables(variables)[v].kind = x.kind /\ ReadVariables(variables)[v].text = x.text
          /\ ValueGiven(ReadVariables(variables)[v])
      BY <2>3, <2>4 DEF ValueGiven, OneWord
    <2> QED BY <2>5 DEF x
  <1> QED BY <1>1, <1>2 DEF VariablesGiven

\* An attribute's own variables and its sensor's are values.
LEMMA VariablesAround ==
  ASSUME NEW s, SensorGiven(s), NEW a \in DOMAIN s.attributes
  PROVE  /\ DOMAIN VariablesOf(s, a) = DOMAIN s.attributes[a].variables \cup DOMAIN s.variables
         /\ VariablesGiven(VariablesOf(s, a))
  BY DEF VariablesOf, Over, SensorGiven, VariablesGiven

\* What is read of a sensor is a sensor of a configuration.
LEMMA SensorIsRead ==
  ASSUME NEW doc, NEW s, SensorGiven(s)
  PROVE  SensorRead(ReadSensor(doc, s))
  <1> DEFINE r == ReadSensor(doc, s)
  <1>1. /\ r.enabled = s.enabled /\ r.formula = s.formula /\ r.variables = ReadVariables(s.variables)
        /\ r.handlers = Handlers(s.handlers)
        /\ r.attributes = [a \in FormulaAttributes(s) |-> ReadAttribute(s, a)]
        /\ r.literals = [a \in DOMAIN s.attributes \ FormulaAttributes(s) |-> s.attributes[a].text]
        /\ r = [enabled |-> r.enabled, entity |-> r.entity, meta |-> r.meta, device |-> r.device,
                formula |-> r.formula, variables |-> r.variables, handlers |-> r.handlers,
                attributes |-> r.attributes, literals |-> r.literals]
    BY DEF ReadSensor
  <1> HIDE DEF r
  <1>2. FormulaAttributes(s) \subseteq DOMAIN s.attributes
    BY DEF FormulaAttributes
  <1>3. IsFiniteSet(DOMAIN r.attributes) /\ IsFiniteSet(DOMAIN r.literals)
    <2>1. IsFiniteSet(DOMAIN s.attributes)
      BY DEF SensorGiven
    <2>2. DOMAIN r.attributes \subseteq DOMAIN s.attributes /\ DOMAIN r.literals \subseteq DOMAIN s.attributes
      BY <1>1, <1>2
    <2> QED BY <2>1, <2>2, FS_Subset
  <1>4. HandlersGiven(r.handlers) /\ WordsGiven(r.formula) /\ VariablesGiven(r.variables)
    BY <1>1, HandlersLeft, VariablesRead DEF SensorGiven
  <1>5. ASSUME NEW a \in DOMAIN r.attributes
        PROVE  LET own == r.attributes[a]
               IN  /\ WordsGiven(own.text) /\ VariablesGiven(own.variables) /\ HandlersGiven(own.handlers)
                   /\ own = [text |-> own.text, variables |-> own.variables, handlers |-> own.handlers]
    <2>1. a \in FormulaAttributes(s) /\ r.attributes[a] = ReadAttribute(s, a)
      BY <1>1
    <2>2. VariablesGiven(VariablesOf(s, a))
      BY <1>2, <2>1, VariablesAround
    <2>3. VariablesGiven(ReadVariables(VariablesOf(s, a)))
      BY <2>2, VariablesRead
    <2>4. HandlersGiven(Handlers(s.attributes[a].handlers)) /\ WordsGiven(s.attributes[a].text)
      BY <1>2, <2>1, HandlersLeft DEF SensorGiven
    <2> QED BY <2>1, <2>3, <2>4 DEF ReadAttribute
  <1>6. \A a \in DOMAIN r.literals : WordsGiven(r.literals[a])
    BY <1>1 DEF SensorGiven
  <1>7. SensorGiven(r)
    <2>1. r.enabled \in BOOLEAN
      BY <1>1 DEF SensorGiven
    <2> QED BY <1>3, <1>4, <1>5, <2>1 DEF SensorGiven
  <1>8. SensorRead(r)
    BY <1>1, <1>3, <1>5, <1>6, <1>7 DEF SensorRead
  <1> QED BY <1>8 DEF r

LEMMA ConfigRead ==
  ASSUME NEW text, TextGiven(text)
  PROVE  ConfigGiven(Read(Document(text)))
  <1>1. Keys(Read(Document(text))) = DOMAIN Document(text).sensors
    BY DEF Keys, Read
  <1>2. \A k \in DOMAIN Document(text).sensors :
           Read(Document(text)).sensors[k] = ReadSensor(Document(text), Document(text).sensors[k])
    BY DEF Read
  <1>3. Read(Document(text)) = [device |-> Read(Document(text)).device,
          globals |-> Read(Document(text)).globals, sensors |-> Read(Document(text)).sensors]
    BY DEF Read
  <1>4. VariablesGiven(Read(Document(text)).globals)
    BY DEF Read, Document, TextGiven
  <1> QED BY <1>1, <1>2, <1>3, <1>4, DocumentGiven, SensorIsRead DEF ConfigGiven

\* The names in a sensor that was accepted are known, those of its handlers and attributes
\* in no circle.
LEMMA SensorAccepted ==
  ASSUME NEW doc, Accepted(doc), NEW k \in DOMAIN doc.sensors, SensorGiven(doc.sensors[k])
  PROVE  /\ SensorSound(Read(doc), ReadSensor(doc, doc.sensors[k]))
         /\ SensorNamed(ReadSensor(doc, doc.sensors[k]))
  <1> DEFINE s == doc.sensors[k]
             r == ReadSensor(doc, s)
  <1>1. /\ r.formula = s.formula /\ r.variables = ReadVariables(s.variables)
        /\ r.handlers = Handlers(s.handlers)
        /\ DOMAIN r.attributes = FormulaAttributes(s)
        /\ \A a \in FormulaAttributes(s) : r.attributes[a] = ReadAttribute(s, a)
        /\ DOMAIN r.literals = DOMAIN s.attributes \ FormulaAttributes(s)
        /\ FormulaAttributes(s) \subseteq DOMAIN s.attributes
    BY DEF ReadSensor, FormulaAttributes
  <1>2. Keys(Read(doc)) = DOMAIN doc.sensors /\ DOMAIN Read(doc).globals = DOMAIN doc.globals
    BY DEF Keys, Read
  <1>3. /\ FormulaValid(doc, s) /\ AttributesValid(doc, s) /\ FormulaReadable(doc, s)
        /\ \A a \in FormulaAttributes(s) : AttributeReadable(doc, s, a)
        /\ VariablesValid(s.variables,
                          DOMAIN doc.sensors \cup DOMAIN doc.globals \cup DOMAIN s.variables)
        /\ \A a \in FormulaAttributes(s) :
             VariablesValid(s.attributes[a].variables,
               DOMAIN doc.sensors \cup DOMAIN doc.globals \cup DOMAIN s.variables
                 \cup DOMAIN s.attributes[a].variables)
    BY DEF Accepted, Valid, MeaningValid, ReferencesValid, Readable
  <1>4. /\ VariablesGiven(s.variables) /\ HandlersGiven(s.handlers) /\ IsFiniteSet(DOMAIN s.attributes)
        /\ \A a \in FormulaAttributes(s) :
             /\ HandlersGiven(s.attributes[a].handlers)
             /\ VariablesGiven(VariablesOf(s, a))
             /\ DOMAIN VariablesOf(s, a) = DOMAIN s.attributes[a].variables \cup DOMAIN s.variables
    <2>1. SensorGiven(s)
      OBVIOUS
    <2> HIDE DEF s, r
    <2> QED BY <1>1, <2>1, VariablesAround DEF SensorGiven
  <1>5. AttributesOrdered(r)
    <2>1. ~CircularDependencies(s)
      BY <1>3 DEF AttributesValid
    <2> HIDE DEF s
    <2> QED BY <1>4, <2>1, AttributesInOrder
  <1> HIDE DEF s, r
  <1>6. NamesMean(Read(doc), r.formula, r.variables, {})
    <2>1. DOMAIN r.variables = DOMAIN s.variables
      BY <1>1, <1>4, VariablesRead
    <2> QED BY <1>1, <1>2, <1>3, <2>1 DEF NamesMean, FormulaValid, NamesDefined, IsFormulaExpression
  <1>7. ASSUME NEW variables, VariablesGiven(variables), ComputedDefined(variables, doc.globals)
        PROVE  ComputedMean(Read(doc), ReadVariables(variables))
    BY <1>2, <1>7, VariablesRead DEF ComputedMean, ComputedDefined, ComputedIn
  <1>8. ComputedMean(Read(doc), r.variables)
    BY <1>1, <1>3, <1>4, <1>7 DEF FormulaReadable
  <1>9. HandlersOrdered(r.handlers)
    BY <1>1, <1>3, <1>4, HandlersLeft, HandlersInOrder DEF FormulaReadable
  <1>10. ASSUME NEW a \in FormulaAttributes(s)
         PROVE  /\ NamesMean(Read(doc), r.attributes[a].text, r.attributes[a].variables,
                             DOMAIN r.attributes \cup DOMAIN r.literals)
                /\ ComputedMean(Read(doc), r.attributes[a].variables)
                /\ HandlersOrdered(r.attributes[a].handlers)
    <2>1. /\ r.attributes[a].text = s.attributes[a].text
          /\ r.attributes[a].variables = ReadVariables(VariablesOf(s, a))
          /\ r.attributes[a].handlers = Handlers(s.attributes[a].handlers)
      <3>1. r.attributes[a] = ReadAttribute(s, a)
        BY <1>1
      <3> QED BY <3>1 DEF ReadAttribute
    <2>2. NamesDefined(s.attributes[a].text, KnownTo(doc, s, a))
      BY <1>3 DEF AttributesValid, AttributeValid
    <2>3. DOMAIN r.attributes[a].variables = DOMAIN s.attributes[a].variables \cup DOMAIN s.variables
      BY <1>4, <2>1, VariablesRead
    <2>4. State \in FormulaFunctions
      BY IntegrationConstants
    <2>5. KnownTo(doc, s, a) \subseteq Keys(Read(doc)) \cup DOMAIN Read(doc).globals
            \cup DOMAIN r.attributes[a].variables \cup (DOMAIN r.attributes \cup DOMAIN r.literals)
            \cup FormulaFunctions
      BY <1>1, <1>2, <2>3, <2>4 DEF KnownTo
    <2>6. NamesMean(Read(doc), r.attributes[a].text, r.attributes[a].variables,
                    DOMAIN r.attributes \cup DOMAIN r.literals)
      BY <2>1, <2>2, <2>5 DEF NamesMean, NamesDefined, IsFormulaExpression
    <2>7. ComputedMean(Read(doc), r.attributes[a].variables)
      BY <1>3, <1>4, <1>7, <2>1 DEF AttributeReadable
    <2>8. HandlersOrdered(r.attributes[a].handlers)
      BY <1>3, <1>4, <2>1, HandlersLeft, HandlersInOrder DEF AttributeReadable
    <2> QED BY <2>6, <2>7, <2>8
  <1>11. SensorSound(Read(doc), r)
    BY <1>1, <1>5, <1>6, <1>8, <1>9, <1>10 DEF SensorSound
  <1>12. SensorNamed(r)
    <2>1. State \in Reserved
      BY IntegrationConstants
    <2>2. State \notin DOMAIN s.variables /\ State \notin DOMAIN s.attributes
      BY <1>3, <2>1 DEF VariablesValid, AttributesValid, NameAllowed
    <2>3. \A a \in FormulaAttributes(s) : State \notin DOMAIN s.attributes[a].variables
      BY <1>3, <2>1 DEF VariablesValid, NameAllowed
    <2>4. \A a \in FormulaAttributes(s) : DOMAIN r.attributes[a].variables
            = DOMAIN s.attributes[a].variables \cup DOMAIN s.variables
      <3> SUFFICES ASSUME NEW a \in FormulaAttributes(s)
                   PROVE  DOMAIN r.attributes[a].variables
                            = DOMAIN s.attributes[a].variables \cup DOMAIN s.variables
        OBVIOUS
      <3>1. r.attributes[a] = ReadAttribute(s, a)
        BY <1>1
      <3>2. r.attributes[a].variables = ReadVariables(VariablesOf(s, a))
        BY <3>1 DEF ReadAttribute
      <3> QED BY <1>4, <3>2, VariablesRead
    <2>5. DOMAIN r.variables = DOMAIN s.variables
      BY <1>1, <1>4, VariablesRead
    <2> QED BY <1>1, <2>2, <2>3, <2>4, <2>5 DEF SensorNamed
  <1> QED BY <1>11, <1>12 DEF r, s

LEMMA ReadSound ==
  ASSUME NEW text, TextGiven(text), Accepted(Document(text))
  PROVE  /\ Sound(Read(Document(text)))
         /\ \A k \in Keys(Read(Document(text))) : SensorNamed(Read(Document(text)).sensors[k])
  <1>1. /\ Keys(Read(Document(text))) = DOMAIN Document(text).sensors
        /\ \A k \in DOMAIN Document(text).sensors :
             Read(Document(text)).sensors[k] = ReadSensor(Document(text), Document(text).sensors[k])
    BY DEF Keys, Read
  <1> QED BY <1>1, DocumentGiven, SensorAccepted DEF Sound
-----------------------------------------------------------------------------
(* What is imported *)

\* A text that was looked at, were it a formula without entity ids.
Clear(config, k, t) == t.operators => t.ids \cap OwnIds(config, k) = {}

\* What an import leaves of a text: its fields, something where there was something, no
\* more names than it had but the sensor's state and, of what was looked at, no formula
\* without entity ids that was none.
Kept(config, k, t, w) ==
  /\ WordsGiven(w) /\ w.operators = t.operators
  /\ w.names \subseteq t.names \cup {State}
  /\ ~Empty(t) => ~Empty(w)
  /\ Clear(config, k, t) /\ t.operators /\ w.ids = {} => t.ids = {}

\* The sensor is left out of its texts.
LEMMA SelfImported ==
  ASSUME NEW config, NEW k, NEW t, WordsGiven(t)
  PROVE  LET u == WithoutSelf(config, k, t)
         IN  /\ Kept(config, k, t, u)
             /\ u.ids \cap OwnIds(config, k) = {}
             /\ u.names \cap OwnNames(config, k) \subseteq {State}
  <1> DEFINE u == WithoutSelf(config, k, t)
             names == OwnNames(config, k)
             ids == OwnIds(config, k)
  <1>1. CASE NamesItself(config, k, t)
    <2>1. u = [t EXCEPT !.names = (t.names \ names) \cup {State}, !.ids = t.ids \ ids]
      BY <1>1 DEF WithoutSelf
    <2> HIDE DEF u, names, ids
    <2>2. u = [names |-> (t.names \ names) \cup {State}, ids |-> t.ids \ ids,
               operators |-> t.operators, literal |-> t.literal]
      BY <2>1 DEF WordsGiven
    <2>3. u.ids = t.ids \ ids /\ u.names = (t.names \ names) \cup {State} /\ u.operators = t.operators
      BY <2>2
    <2>4. WordsGiven(u)
      BY <2>2 DEF WordsGiven
    <2>5. u.operators /\ (t.operators => t.ids \cap ids = {}) /\ u.ids = {} => t.ids = {}
      BY <2>3
    <2>6. Kept(config, k, t, u)
      BY <2>3, <2>4, <2>5 DEF Kept, Clear, Empty, ids
    <2> QED BY <2>3, <2>6 DEF u, names, ids
  <1>2. CASE ~NamesItself(config, k, t)
    <2>1. u = t
      BY <1>2 DEF WithoutSelf
    <2> HIDE DEF u
    <2> QED BY <1>2, <2>1 DEF Kept, NamesItself, u
  <1> QED BY <1>1, <1>2

\* What is called as another sensor and what stands for it.
Named(config, k, t) == (t.names \cap (DOMAIN config.sensors \ {k})) \ FormulaFunctions
Meant(config, k, t) ==
  Named(config, k, t) \cup {j \in DOMAIN config.sensors \ {k} : DefaultId[j] \in t.ids}

\* The other sensors in a text stand for their entities.
LEMMA OthersImported ==
  ASSUME NEW config, NEW k, NEW u, WordsGiven(u)
  PROVE  LET named == Named(config, k, u)
             meant == Meant(config, k, u)
         IN  WithEntities(config, k, u)
               = [names |-> u.names \ named,
                  ids |-> (u.ids \ {DefaultId[j] : j \in meant}) \cup Entities(config, meant),
                  operators |-> u.operators, literal |-> u.literal]
  <1> DEFINE named == Named(config, k, u)
             meant == Meant(config, k, u)
             ids == (u.ids \ {DefaultId[j] : j \in meant}) \cup Entities(config, meant)
             w == WithEntities(config, k, u)
  <1>1. w = [u EXCEPT !.names = u.names \ named, !.ids = ids]
    BY DEF WithEntities, Named, Meant
  <1> HIDE DEF w, named, ids
  <1>2. w = [names |-> u.names \ named, ids |-> ids, operators |-> u.operators, literal |-> u.literal]
    BY <1>1 DEF WordsGiven
  <1> QED BY <1>2 DEF w, named, ids

\* So much an import leaves of a text.
LEMMA TextImported ==
  ASSUME NEW config, NEW k, NEW t, WordsGiven(t)
  PROVE  Kept(config, k, t, ImportedText(config, k, t))
  <1> DEFINE u == WithoutSelf(config, k, t)
             w == ImportedText(config, k, t)
             named == Named(config, k, u)
             meant == Meant(config, k, u)
             gone == {DefaultId[j] : j \in meant}
  <1>1. Kept(config, k, t, u)
    BY SelfImported
  <1>2. w = [names |-> u.names \ named, ids |-> (u.ids \ gone) \cup Entities(config, meant),
             operators |-> u.operators, literal |-> u.literal]
    <2>1. WordsGiven(u) /\ w = WithEntities(config, k, u)
      BY <1>1 DEF Kept, ImportedText
    <2> HIDE DEF u, w
    <2> QED BY <2>1, OthersImported
  <1>3. named \subseteq meant /\ (meant # {} => Entities(config, meant) # {}) /\ (meant = {} => gone = {})
    BY DEF Entities, Meant
  <1> HIDE DEF u, w, named, meant, gone
  <1>4. /\ w.names = u.names \ named /\ w.ids = (u.ids \ gone) \cup Entities(config, meant)
        /\ w.operators = u.operators /\ WordsGiven(w)
    BY <1>2 DEF WordsGiven
  <1>5. w.ids = {} => meant = {} /\ u.ids = {} /\ named = {}
    BY <1>3, <1>4
  <1>6. ~Empty(u) => ~Empty(w)
    BY <1>4, <1>5 DEF Empty
  <1>7. Kept(config, k, t, w)
    BY <1>1, <1>4, <1>5, <1>6 DEF Kept
  <1> QED BY <1>7 DEF w

\* What becomes of a value: its kind and its text.
KindOf(config, k, v) ==
  LET t == WithoutSelf(config, k, v.text)
  IN  IF v.kind \notin {"name", "entity"} THEN v.kind
      ELSE IF t.names \cap (DOMAIN config.sensors \ {k}) # {} \/ t.ids # {} THEN "entity" ELSE "name"

TextOf(config, k, v) ==
  LET t == WithoutSelf(config, k, v.text)
      key == t.names \cap (DOMAIN config.sensors \ {k})
  IN  IF v.kind \notin {"name", "entity"} THEN t
      ELSE [names |-> t.names \ key, ids |-> t.ids \cup Entities(config, key),
            operators |-> t.operators, literal |-> t.literal]

\* A value stays what it is but for its kind and its text.
LEMMA ValueParts ==
  ASSUME NEW config, NEW k, NEW v, ValueGiven(v)
  PROVE  ImportedValue(config, k, v)
           = [kind |-> KindOf(config, k, v), text |-> TextOf(config, k, v),
              handlers |-> v.handlers, nested |-> v.nested]
  <1> DEFINE t == WithoutSelf(config, k, v.text)
             key == t.names \cap (DOMAIN config.sensors \ {k})
             new == ImportedValue(config, k, v)
  <1>1. v = [kind |-> v.kind, text |-> v.text, handlers |-> v.handlers, nested |-> v.nested]
    BY DEF ValueGiven
  <1>2. WordsGiven(t)
    BY SelfImported DEF ValueGiven, Kept
  <1>3. CASE v.kind \notin {"name", "entity"}
    <2>1. new = [v EXCEPT !.text = t] /\ KindOf(config, k, v) = v.kind /\ TextOf(config, k, v) = t
      BY <1>3 DEF ImportedValue, KindOf, TextOf
    <2> HIDE DEF new, t
    <2>2. new = [kind |-> v.kind, text |-> t, handlers |-> v.handlers, nested |-> v.nested]
      BY <1>1, <2>1
    <2> QED BY <2>1, <2>2 DEF new
  <1>4. CASE v.kind \in {"name", "entity"}
    <2> DEFINE kind == IF key # {} \/ t.ids # {} THEN "entity" ELSE "name"
               text == [t EXCEPT !.names = t.names \ key, !.ids = t.ids \cup Entities(config, key)]
               said == [names |-> t.names \ key, ids |-> t.ids \cup Entities(config, key),
                        operators |-> t.operators, literal |-> t.literal]
    <2>1. new = [v EXCEPT !.kind = kind, !.text = text]
      BY <1>4 DEF ImportedValue
    <2>2. KindOf(config, k, v) = kind /\ TextOf(config, k, v) = said
      BY <1>4 DEF KindOf, TextOf
    <2>3. text = said
      <3> DEFINE names == t.names \ key
                 ids == t.ids \cup Entities(config, key)
      <3>1. text = [t EXCEPT !.names = names, !.ids = ids]
        OBVIOUS
      <3>2. said = [names |-> names, ids |-> ids, operators |-> t.operators, literal |-> t.literal]
        OBVIOUS
      <3> HIDE DEF t, key, text, said, names, ids
      <3>3. text = [names |-> names, ids |-> ids, operators |-> t.operators, literal |-> t.literal]
        BY <1>2, <3>1 DEF WordsGiven
      <3> QED BY <3>2, <3>3
    <2> HIDE DEF new, kind, text, said
    <2>4. new = [kind |-> kind, text |-> text, handlers |-> v.handlers, nested |-> v.nested]
      BY <1>1, <2>1
    <2> QED BY <2>2, <2>3, <2>4 DEF new
  <1> QED BY <1>3, <1>4

\* A value that is imported is one: a name stays a name or becomes an entity id, and the
\* other way round.
LEMMA ValueImported ==
  ASSUME NEW config, NEW k, NEW v, ValueGiven(v)
  PROVE  LET new == ImportedValue(config, k, v)
         IN  /\ ValueGiven(new) /\ Kept(config, k, v.text, new.text)
             /\ new.handlers = v.handlers /\ new.nested = v.nested
             /\ \/ new.kind \in {"name", "entity"} /\ v.kind \in {"name", "entity"}
                \/ new.kind = v.kind /\ new.kind \notin {"name", "entity"}
  <1> DEFINE t == WithoutSelf(config, k, v.text)
             key == t.names \cap (DOMAIN config.sensors \ {k})
             new == ImportedValue(config, k, v)
             kind == KindOf(config, k, v)
             text == TextOf(config, k, v)
  <1>1. new = [kind |-> kind, text |-> text, handlers |-> v.handlers, nested |-> v.nested]
    BY ValueParts
  <1>2. WordsGiven(v.text) /\ OneWord(v.kind, v.text)
    BY DEF ValueGiven, OneWord
  <1>3. /\ Kept(config, k, v.text, t) /\ t.ids \cap OwnIds(config, k) = {}
        /\ t.names \cap OwnNames(config, k) \subseteq {State}
    BY <1>2, SelfImported
  <1>4. CASE v.kind \notin {"name", "entity"}
    <2>1. kind = v.kind /\ text = t
      BY <1>4 DEF KindOf, TextOf
    <2> HIDE DEF new, kind, text, t
    <2>2. new.kind = v.kind /\ new.text = t /\ new.handlers = v.handlers /\ new.nested = v.nested
      BY <1>1, <2>1
    <2>3. ValueGiven(new)
      BY <1>1, <1>3, <1>4, <2>1 DEF ValueGiven, Kept
    <2> QED BY <1>3, <1>4, <2>2, <2>3 DEF new
  <1>5. CASE v.kind \in {"name", "entity"}
    <2>1. /\ kind = IF key # {} \/ t.ids # {} THEN "entity" ELSE "name"
          /\ text = [names |-> t.names \ key, ids |-> t.ids \cup Entities(config, key),
                     operators |-> t.operators, literal |-> t.literal]
      BY <1>5 DEF KindOf, TextOf
    <2>2. \/ \E n : t.names = {n} /\ t.ids = {}
          \/ \E i : t.names = {} /\ t.ids = {i}
      <3>1. CASE ~NamesItself(config, k, v.text)
        <4>1. t = v.text
          BY <3>1 DEF WithoutSelf
        <4> HIDE DEF t
        <4> QED BY <1>2, <1>5, <4>1 DEF OneWord
      <3>2. CASE NamesItself(config, k, v.text)
        <4> DEFINE x == v.text
                   names == OwnNames(config, k)
                   ids == OwnIds(config, k)
        <4>1. t = [x EXCEPT !.names = (x.names \ names) \cup {State}, !.ids = x.ids \ ids]
          BY <3>2 DEF WithoutSelf
        <4>2. x.names \cap names # {} \/ x.ids \cap ids # {}
          BY <3>2 DEF NamesItself
        <4>3. WordsGiven(x) /\ OneWord(v.kind, x)
          BY <1>2
        <4> HIDE DEF t, x, names, ids
        <4>4. t.names = (x.names \ names) \cup {State} /\ t.ids = x.ids \ ids
          BY <4>1, <4>3 DEF WordsGiven
        <4>5. x.names \ names = {} /\ x.ids \ ids = {}
          BY <1>5, <4>2, <4>3 DEF OneWord
        <4> QED BY <4>4, <4>5
      <3> QED BY <3>1, <3>2
    <2>3. /\ key = {} => Entities(config, key) = {}
          /\ \A n : key = {n} => Entities(config, key) = {IdOf(n, config.sensors[n])}
      BY DEF Entities
    <2>4. key \subseteq t.names
      OBVIOUS
    <2> HIDE DEF new, kind, text, t, key
    <2>5. text.names = t.names \ key /\ text.ids = t.ids \cup Entities(config, key)
          /\ text.operators = t.operators /\ WordsGiven(text)
      BY <2>1 DEF WordsGiven
    <2>6. \/ kind = "name" /\ text.ids = {} /\ \E n : text.names = {n}
          \/ kind = "entity" /\ text.names = {} /\ \E i : text.ids = {i}
      <3>1. CASE key = {}
        BY <2>1, <2>2, <2>3, <2>5, <3>1
      <3>2. CASE key # {}
        <4>1. PICK n : t.names = {n} /\ t.ids = {}
          BY <2>2, <2>4, <3>2
        <4>2. key = {n}
          BY <2>4, <3>2, <4>1
        <4>3. text.names = {} /\ text.ids = {IdOf(n, config.sensors[n])} /\ kind = "entity"
          BY <2>1, <2>3, <2>5, <4>1, <4>2
        <4> QED BY <4>3
      <3> QED BY <3>1, <3>2
    <2>7. new.kind = kind /\ new.text = text /\ new.handlers = v.handlers /\ new.nested = v.nested
      BY <1>1
    <2>8. ValueGiven(new)
      BY <1>1, <2>5, <2>6 DEF ValueGiven
    <2>9. Kept(config, k, v.text, text)
      <3>1. ~Empty(text)
        BY <2>6 DEF Empty
      <3>2. text.ids = {} => t.ids = {}
        BY <2>5
      <3> QED BY <1>3, <2>4, <2>5, <3>1, <3>2 DEF Kept
    <2>10. kind \in {"name", "entity"}
      BY <2>6
    <2> QED BY <1>5, <2>7, <2>8, <2>9, <2>10 DEF new
  <1> QED BY <1>4, <1>5

\* Variables stay what they are when they are imported, but for their texts.
LEMMA VariablesImported ==
  ASSUME NEW config, NEW k, NEW variables, VariablesGiven(variables)
  PROVE  LET new == ImportedVariables(config, k, variables)
         IN  /\ DOMAIN new = DOMAIN variables /\ VariablesGiven(new)
             /\ \A v \in DOMAIN variables : /\ new[v].kind = "formula" => variables[v].kind = "formula"
                                            /\ Kept(config, k, variables[v].text, new[v].text)
  <1> DEFINE new == ImportedVariables(config, k, variables)
  <1>1. DOMAIN new = DOMAIN variables /\ \A v \in DOMAIN variables :
          new[v] = ImportedValue(config, k, variables[v])
    BY DEF ImportedVariables
  <1>2. \A v \in DOMAIN variables : ValueGiven(variables[v])
    BY DEF VariablesGiven
  <1> HIDE DEF new
  <1>3. \A v \in DOMAIN variables : /\ ValueGiven(new[v])
                                    /\ new[v].kind = "formula" => variables[v].kind = "formula"
                                    /\ Kept(config, k, variables[v].text, new[v].text)
    BY <1>1, <1>2, ValueImported
  <1> QED BY <1>1, <1>3 DEF VariablesGiven, new

\* The parts of a sensor that is imported.
LEMMA SensorImported ==
  ASSUME NEW config, NEW k, SensorRead(config.sensors[k])
  PROVE  LET s == config.sensors[k]
             r == ImportedSensor(config, k)
         IN  /\ SensorRead(r)
             /\ r.formula = ImportedText(config, k, s.formula)
             /\ r.variables = ImportedVariables(config, k, s.variables)
             /\ r.handlers = s.handlers
             /\ r.enabled = s.enabled /\ r.entity = IdOf(k, s) /\ r.meta = s.meta /\ r.device = s.device
             /\ r.literals = ImportedLiterals(config, k, s.literals)
             /\ DOMAIN r.literals = DOMAIN s.literals
             /\ DOMAIN r.attributes = DOMAIN s.attributes
             /\ \A a \in DOMAIN s.attributes :
                  /\ r.attributes[a].text = ImportedText(config, k, s.attributes[a].text)
                  /\ r.attributes[a].variables
                       = ImportedVariables(config, k, s.attributes[a].variables)
                  /\ r.attributes[a].handlers = s.attributes[a].handlers
  <1> DEFINE s == config.sensors[k]
             r == ImportedSensor(config, k)
             attributes == ImportedAttributes(config, k, s.attributes)
             literals == ImportedLiterals(config, k, s.literals)
  <1>1. r = [s EXCEPT !.entity = IdOf(k, s), !.formula = ImportedText(config, k, s.formula),
                      !.variables = ImportedVariables(config, k, s.variables),
                      !.attributes = attributes, !.literals = literals]
    BY DEF ImportedSensor
  <1>2. /\ s = [enabled |-> s.enabled, entity |-> s.entity, meta |-> s.meta, device |-> s.device,
                formula |-> s.formula, variables |-> s.variables, handlers |-> s.handlers,
                attributes |-> s.attributes, literals |-> s.literals]
        /\ SensorGiven(s) /\ IsFiniteSet(DOMAIN s.literals)
        /\ \A a \in DOMAIN s.attributes :
             s.attributes[a] = [text |-> s.attributes[a].text, variables |-> s.attributes[a].variables,
                                handlers |-> s.attributes[a].handlers]
        /\ \A a \in DOMAIN s.literals : WordsGiven(s.literals[a])
    BY DEF SensorRead
  <1>3. /\ DOMAIN attributes = DOMAIN s.attributes
        /\ \A a \in DOMAIN s.attributes :
             attributes[a] = [s.attributes[a] EXCEPT
               !.text = ImportedText(config, k, s.attributes[a].text),
               !.variables = ImportedVariables(config, k, s.attributes[a].variables)]
    BY DEF ImportedAttributes
  <1>4. /\ DOMAIN literals = DOMAIN s.literals
        /\ \A a \in DOMAIN s.literals : literals[a] = ImportedText(config, k, s.literals[a])
    BY DEF ImportedLiterals
  <1> HIDE DEF s, r, attributes, literals
  <1>5. r = [enabled |-> s.enabled, entity |-> IdOf(k, s), meta |-> s.meta, device |-> s.device,
             formula |-> ImportedText(config, k, s.formula),
             variables |-> ImportedVariables(config, k, s.variables), handlers |-> s.handlers,
             attributes |-> attributes, literals |-> literals]
    BY <1>1, <1>2
  <1>6. ASSUME NEW a \in DOMAIN s.attributes
        PROVE  attributes[a] = [text |-> ImportedText(config, k, s.attributes[a].text),
                 variables |-> ImportedVariables(config, k, s.attributes[a].variables),
                 handlers |-> s.attributes[a].handlers]
    BY <1>2, <1>3
  <1>7. ASSUME NEW a \in DOMAIN s.attributes
        PROVE  /\ WordsGiven(attributes[a].text) /\ VariablesGiven(attributes[a].variables)
               /\ HandlersGiven(attributes[a].handlers)
    <2>1. /\ WordsGiven(s.attributes[a].text) /\ VariablesGiven(s.attributes[a].variables)
          /\ HandlersGiven(s.attributes[a].handlers)
      BY <1>2 DEF SensorGiven
    <2>2. /\ WordsGiven(ImportedText(config, k, s.attributes[a].text))
          /\ VariablesGiven(ImportedVariables(config, k, s.attributes[a].variables))
      BY <2>1, TextImported, VariablesImported DEF Kept
    <2>3. /\ attributes[a].text = ImportedText(config, k, s.attributes[a].text)
          /\ attributes[a].variables = ImportedVariables(config, k, s.attributes[a].variables)
          /\ attributes[a].handlers = s.attributes[a].handlers
      <3>1. attributes[a] = [text |-> ImportedText(config, k, s.attributes[a].text),
              variables |-> ImportedVariables(config, k, s.attributes[a].variables),
              handlers |-> s.attributes[a].handlers]
        BY <1>6
      <3> QED BY <3>1
    <2> QED BY <2>1, <2>2, <2>3
  <1>8. /\ WordsGiven(ImportedText(config, k, s.formula))
        /\ VariablesGiven(ImportedVariables(config, k, s.variables))
        /\ HandlersGiven(s.handlers) /\ IsFiniteSet(DOMAIN s.attributes)
    BY <1>2, TextImported, VariablesImported DEF SensorGiven, Kept
  <1>9. \A a \in DOMAIN s.literals : WordsGiven(literals[a])
    BY <1>2, <1>4, TextImported DEF Kept
  <1>10. SensorGiven(r)
    <2>1. r.enabled \in BOOLEAN
      BY <1>2, <1>5 DEF SensorGiven
    <2> QED BY <1>3, <1>5, <1>7, <1>8, <2>1 DEF SensorGiven
  <1>11. SensorRead(r)
    <2>1. r = [enabled |-> r.enabled, entity |-> r.entity, meta |-> r.meta, device |-> r.device,
               formula |-> r.formula, variables |-> r.variables, handlers |-> r.handlers,
               attributes |-> r.attributes, literals |-> r.literals]
      BY <1>5
    <2>2. r.attributes = attributes /\ r.literals = literals
      BY <1>5
    <2>3. ASSUME NEW a \in DOMAIN r.attributes
          PROVE  r.attributes[a] = [text |-> r.attributes[a].text, variables |-> r.attributes[a].variables,
                                    handlers |-> r.attributes[a].handlers]
      <3>1. a \in DOMAIN s.attributes /\ r.attributes[a] = attributes[a]
        BY <1>3, <2>2
      <3>2. attributes[a] = [text |-> attributes[a].text, variables |-> attributes[a].variables,
                             handlers |-> attributes[a].handlers]
        <4>1. attributes[a] = [text |-> ImportedText(config, k, s.attributes[a].text),
                variables |-> ImportedVariables(config, k, s.attributes[a].variables),
                handlers |-> s.attributes[a].handlers]
          BY <1>6, <3>1
        <4> QED BY <4>1
      <3> QED BY <3>1, <3>2
    <2>4. IsFiniteSet(DOMAIN r.literals) /\ \A a \in DOMAIN r.literals : WordsGiven(r.literals[a])
      BY <1>2, <1>4, <1>9, <2>2
    <2> QED BY <1>10, <2>1, <2>3, <2>4 DEF SensorRead
  <1>12. /\ r.formula = ImportedText(config, k, s.formula)
         /\ r.variables = ImportedVariables(config, k, s.variables)
         /\ r.handlers = s.handlers
         /\ r.enabled = s.enabled /\ r.entity = IdOf(k, s) /\ r.meta = s.meta /\ r.device = s.device
         /\ r.literals = literals
         /\ DOMAIN r.literals = DOMAIN s.literals
         /\ DOMAIN r.attributes = DOMAIN s.attributes
    BY <1>3, <1>4, <1>5
  <1>13. ASSUME NEW a \in DOMAIN s.attributes
         PROVE  /\ r.attributes[a].text = ImportedText(config, k, s.attributes[a].text)
                /\ r.attributes[a].variables
                     = ImportedVariables(config, k, s.attributes[a].variables)
                /\ r.attributes[a].handlers = s.attributes[a].handlers
    <2>1. r.attributes[a] = attributes[a]
      BY <1>5
    <2>2. attributes[a] = [text |-> ImportedText(config, k, s.attributes[a].text),
            variables |-> ImportedVariables(config, k, s.attributes[a].variables),
            handlers |-> s.attributes[a].handlers]
      BY <1>6
    <2> QED BY <2>1, <2>2
  <1> QED BY <1>11, <1>12, <1>13 DEF s, r, literals

\* Global variables stay what they are, but for a name that is the key of a sensor.
LEMMA GlobalsImported ==
  ASSUME NEW config, VariablesGiven(config.globals)
  PROVE  LET new == ImportedGlobals(config)
         IN  /\ DOMAIN new = DOMAIN config.globals /\ VariablesGiven(new)
             /\ \A v \in DOMAIN new :
                  \/ /\ new[v] = config.globals[v]
                     /\ new[v].kind = "name" => new[v].text.names \cap Keys(config) = {}
                  \/ new[v].kind = "entity"
  <1> DEFINE new == ImportedGlobals(config)
  <1>1. DOMAIN new = DOMAIN config.globals
    BY DEF ImportedGlobals
  <1>2. ASSUME NEW v \in DOMAIN config.globals
        PROVE  /\ ValueGiven(new[v])
               /\ \/ /\ new[v] = config.globals[v]
                     /\ new[v].kind = "name" => new[v].text.names \cap Keys(config) = {}
                  \/ new[v].kind = "entity"
    <2> DEFINE x == config.globals[v]
               key == x.text.names \cap DOMAIN config.sensors
               ids == {IdOf(j, config.sensors[j]) : j \in key}
    <2>1. ValueGiven(x)
      BY DEF VariablesGiven
    <2>2. CASE x.kind # "name" \/ key = {}
      <3>1. new[v] = x
        BY <2>2 DEF ImportedGlobals
      <3> QED BY <2>1, <2>2, <3>1 DEF Keys
    <2>3. CASE x.kind = "name" /\ key # {}
      <3>1. new[v] = [x EXCEPT !.kind = "entity", !.text = [x.text EXCEPT !.names = {}, !.ids = ids]]
        BY <2>3 DEF ImportedGlobals, Entities
      <3>2. PICK n : x.text.names = {n}
        BY <2>1, <2>3 DEF ValueGiven
      <3>3. key = {n}
        BY <2>3, <3>2
      <3>4. ids = {IdOf(n, config.sensors[n])}
        BY <3>3
      <3> HIDE DEF x, ids, key, new
      <3>5. [x.text EXCEPT !.names = {}, !.ids = ids]
              = [names |-> {}, ids |-> ids, operators |-> x.text.operators, literal |-> x.text.literal]
        <4>1. x.text = [names |-> x.text.names, ids |-> x.text.ids, operators |-> x.text.operators,
                        literal |-> x.text.literal]
          BY <2>1 DEF ValueGiven, WordsGiven
        <4> DEFINE y == x.text
        <4>2. y = [names |-> y.names, ids |-> y.ids, operators |-> y.operators, literal |-> y.literal]
          BY <4>1
        <4> HIDE DEF y
        <4> DEFINE z == [y EXCEPT !.names = {}, !.ids = ids]
        <4>3. z = [y EXCEPT !.names = {}, !.ids = ids]
          OBVIOUS
        <4> HIDE DEF z
        <4>4. z = [names |-> {}, ids |-> ids, operators |-> y.operators, literal |-> y.literal]
          BY <4>2, <4>3
        <4> QED BY <4>4 DEF y, z
      <3>6. new[v] = [kind |-> "entity", handlers |-> x.handlers, nested |-> x.nested,
                      text |-> [names |-> {}, ids |-> ids, operators |-> x.text.operators,
                                literal |-> x.text.literal]]
        BY <2>1, <3>1, <3>5 DEF ValueGiven
      <3>7. ids # {} /\ \E id \in ids : ids = {id}
        BY <3>4
      <3> QED BY <3>6, <3>7 DEF ValueGiven, WordsGiven
    <2> QED BY <2>2, <2>3
  <1> QED BY <1>1, <1>2 DEF VariablesGiven

LEMMA ConfigImported ==
  ASSUME NEW config, ConfigGiven(config)
  PROVE  /\ ConfigGiven(Imported(config))
         /\ Keys(Imported(config)) = Keys(config)
         /\ DOMAIN Imported(config).globals = DOMAIN config.globals
         /\ \A k \in Keys(config) : Imported(config).sensors[k] = ImportedSensor(config, k)
  <1> DEFINE i == Imported(config)
             sensors == [k \in DOMAIN config.sensors |-> ImportedSensor(config, k)]
             globals == ImportedGlobals(config)
  <1>1. i = [config EXCEPT !.globals = globals, !.sensors = sensors]
    BY DEF Imported
  <1>2. config = [device |-> config.device, globals |-> config.globals, sensors |-> config.sensors]
    BY DEF ConfigGiven
  <1>3. DOMAIN sensors = Keys(config) /\ \A k \in Keys(config) : sensors[k] = ImportedSensor(config, k)
    BY DEF Keys
  <1>4. DOMAIN globals = DOMAIN config.globals
    BY DEF ImportedGlobals
  <1> HIDE DEF i, sensors, globals
  <1>5. i = [device |-> config.device, globals |-> globals, sensors |-> sensors]
    BY <1>1, <1>2
  <1>6. Keys(i) = Keys(config) /\ DOMAIN i.globals = DOMAIN config.globals /\ i.sensors = sensors
    BY <1>3, <1>4, <1>5 DEF Keys
  <1>7. \A k \in Keys(config) : SensorRead(ImportedSensor(config, k))
    BY SensorImported DEF ConfigGiven
  <1>8. ConfigGiven(i)
    <2>1. i = [device |-> i.device, globals |-> i.globals, sensors |-> i.sensors]
      BY <1>5
    <2>2. IsFiniteSet(Keys(i))
      BY <1>6 DEF ConfigGiven
    <2>3. \A k \in Keys(i) : SensorRead(i.sensors[k])
      BY <1>3, <1>6, <1>7
    <2>4. VariablesGiven(i.globals)
      <3>1. i.globals = ImportedGlobals(config)
        BY <1>5 DEF globals
      <3> QED BY <3>1, GlobalsImported DEF ConfigGiven
    <2> QED BY <2>1, <2>2, <2>3, <2>4 DEF ConfigGiven
  <1> QED BY <1>3, <1>6, <1>8 DEF i

\* The names of a text that was looked at mean after the import what they meant before.
LEMMA NamesImported ==
  ASSUME NEW config, ConfigGiven(config), NEW k, NEW t, WordsGiven(t), Clear(config, k, t),
         NEW variables, NEW new, DOMAIN new = DOMAIN variables, NEW attributes,
         NamesMean(config, t, variables, attributes)
  PROVE  NamesMean(Imported(config), ImportedText(config, k, t), new, attributes)
  <1>1. Kept(config, k, t, ImportedText(config, k, t))
    BY TextImported
  <1>2. /\ Keys(Imported(config)) = Keys(config)
        /\ DOMAIN Imported(config).globals = DOMAIN config.globals
    BY ConfigImported
  <1>3. State \in FormulaFunctions
    BY IntegrationConstants
  <1> QED BY <1>1, <1>2, <1>3 DEF NamesMean, Kept

\* So do those of computed variables, none of which is called as the sensor's state.
LEMMA ComputedImported ==
  ASSUME NEW config, ConfigGiven(config), NEW k, NEW variables, VariablesGiven(variables),
         State \notin DOMAIN variables, ComputedMean(config, variables)
  PROVE  ComputedMean(Imported(config), ImportedVariables(config, k, variables))
  <1> DEFINE new == ImportedVariables(config, k, variables)
  <1>1. /\ DOMAIN new = DOMAIN variables
        /\ \A v \in DOMAIN variables : /\ new[v].kind = "formula" => variables[v].kind = "formula"
                                       /\ Kept(config, k, variables[v].text, new[v].text)
    BY VariablesImported
  <1>3. DOMAIN Imported(config).globals = DOMAIN config.globals
    BY ConfigImported
  <1>4. State \in FormulaFunctions
    BY IntegrationConstants
  <1> HIDE DEF new
  <1>2. \A v \in DOMAIN variables : new[v].text.names \subseteq variables[v].text.names \cup {State}
    BY <1>1 DEF Kept
  <1>5. ComputedMean(Imported(config), new)
    BY <1>1, <1>2, <1>3, <1>4 DEF ComputedMean
  <1> QED BY <1>5 DEF new

\* Attributes whose texts have fewer names than those in order, beside their sensor's state.
LEMMA OrderImported ==
  ASSUME NEW s, NEW r, AttributesOrdered(s), DOMAIN r.attributes = DOMAIN s.attributes,
         State \notin DOMAIN s.attributes,
         \A a \in DOMAIN s.attributes :
           /\ IsFormulaExpression(r.attributes[a].text) => IsFormulaExpression(s.attributes[a].text)
           /\ r.attributes[a].text.names \subseteq s.attributes[a].text.names \cup {State}
  PROVE  AttributesOrdered(r)
  <1> DEFINE B == {b \in DOMAIN s.attributes : IsFormulaExpression(s.attributes[b].text)}
             C == {b \in DOMAIN r.attributes : IsFormulaExpression(r.attributes[b].text)}
             f == [a \in B |-> s.attributes[a].text.names \ {a}]
             g == [a \in C |-> r.attributes[a].text.names \ {a}]
  <1>1. C \subseteq B /\ State \notin C
    OBVIOUS
  <1>2. NoCircle(f)
    BY DEF AttributesOrdered
  <1>3. DOMAIN f = B /\ DOMAIN g = C /\ \A a \in C : g[a] \subseteq f[a] \cup {State}
    BY <1>1
  <1> HIDE DEF B, C, f, g
  <1>4. NoCircle(g)
    <2> SUFFICES ASSUME NEW T \in SUBSET C, T # {} PROVE \E a \in T : g[a] \cap T = {}
      BY <1>3 DEF NoCircle
    <2>1. PICK a \in T : f[a] \cap T = {}
      BY <1>1, <1>2, <1>3 DEF NoCircle
    <2> QED BY <1>1, <1>3, <2>1
  <1>5. AttributesOrdered(r) <=> NoCircle(g)
    BY DEF AttributesOrdered, C, g
  <1> QED BY <1>4, <1>5

\* The import of a sound configuration whose texts were looked at is sound.
LEMMA ImportedSound ==
  ASSUME NEW config, ConfigGiven(config), Sound(config), LookedAt(config),
         \A k \in Keys(config) : SensorNamed(config.sensors[k])
  PROVE  Sound(Imported(config))
  <1> SUFFICES ASSUME NEW k \in Keys(config)
               PROVE  SensorSound(Imported(config), ImportedSensor(config, k))
    BY ConfigImported DEF Sound
  <1> DEFINE s == config.sensors[k]
             r == ImportedSensor(config, k)
  <1>1. SensorRead(s) /\ SensorNamed(s) /\ SensorSound(config, s)
    BY SMTT(30) DEF ConfigGiven, Sound
  <1>2. /\ Clear(config, k, s.formula)
        /\ \A a \in DOMAIN s.attributes : Clear(config, k, s.attributes[a].text)
    BY DEF LookedAt, Clear
  <1>3. /\ r.formula = ImportedText(config, k, s.formula)
        /\ r.variables = ImportedVariables(config, k, s.variables)
        /\ r.handlers = s.handlers
        /\ DOMAIN r.literals = DOMAIN s.literals
        /\ DOMAIN r.attributes = DOMAIN s.attributes
        /\ \A a \in DOMAIN s.attributes :
             /\ r.attributes[a].text = ImportedText(config, k, s.attributes[a].text)
             /\ r.attributes[a].variables = ImportedVariables(config, k, s.attributes[a].variables)
             /\ r.attributes[a].handlers = s.attributes[a].handlers
    BY <1>1, SensorImported
  <1> HIDE DEF s, r
  <1>4. /\ WordsGiven(s.formula) /\ VariablesGiven(s.variables)
        /\ \A a \in DOMAIN s.attributes :
             WordsGiven(s.attributes[a].text) /\ VariablesGiven(s.attributes[a].variables)
    BY <1>1 DEF SensorRead, SensorGiven
  <1>5. /\ State \notin DOMAIN s.variables /\ State \notin DOMAIN s.attributes
        /\ \A a \in DOMAIN s.attributes : State \notin DOMAIN s.attributes[a].variables
    BY <1>1 DEF SensorNamed
  <1>6. /\ NamesMean(config, s.formula, s.variables, {}) /\ ComputedMean(config, s.variables)
        /\ HandlersOrdered(s.handlers) /\ AttributesOrdered(s)
        /\ \A a \in DOMAIN s.attributes :
             /\ NamesMean(config, s.attributes[a].text, s.attributes[a].variables,
                          DOMAIN s.attributes \cup DOMAIN s.literals)
             /\ ComputedMean(config, s.attributes[a].variables)
             /\ HandlersOrdered(s.attributes[a].handlers)
    BY <1>1 DEF SensorSound
  <1>7. NamesMean(Imported(config), r.formula, r.variables, {})
    <2>1. DOMAIN r.variables = DOMAIN s.variables
      BY <1>3, <1>4, VariablesImported
    <2> QED BY <1>2, <1>3, <1>4, <1>6, <2>1, NamesImported
  <1>8. ComputedMean(Imported(config), r.variables)
    BY <1>3, <1>4, <1>5, <1>6, ComputedImported
  <1>9. AttributesOrdered(r)
    <2>1. \A a \in DOMAIN s.attributes :
             /\ IsFormulaExpression(r.attributes[a].text) => IsFormulaExpression(s.attributes[a].text)
             /\ r.attributes[a].text.names \subseteq s.attributes[a].text.names \cup {State}
      <3> SUFFICES ASSUME NEW a \in DOMAIN s.attributes
                   PROVE  /\ IsFormulaExpression(r.attributes[a].text)
                               => IsFormulaExpression(s.attributes[a].text)
                          /\ r.attributes[a].text.names \subseteq s.attributes[a].text.names \cup {State}
        OBVIOUS
      <3>1. Kept(config, k, s.attributes[a].text, r.attributes[a].text)
        BY <1>3, <1>4, TextImported
      <3> QED BY <1>2, <3>1 DEF IsFormulaExpression, Kept
    <2> QED BY <1>3, <1>5, <1>6, <2>1, OrderImported
  <1>10. ASSUME NEW a \in DOMAIN s.attributes
         PROVE  /\ NamesMean(Imported(config), r.attributes[a].text, r.attributes[a].variables,
                             DOMAIN r.attributes \cup DOMAIN r.literals)
                /\ ComputedMean(Imported(config), r.attributes[a].variables)
                /\ HandlersOrdered(r.attributes[a].handlers)
    <2>1. DOMAIN r.attributes[a].variables = DOMAIN s.attributes[a].variables
      BY <1>3, <1>4, VariablesImported
    <2>2. NamesMean(Imported(config), r.attributes[a].text, r.attributes[a].variables,
                    DOMAIN r.attributes \cup DOMAIN r.literals)
      <3>1. NamesMean(Imported(config), ImportedText(config, k, s.attributes[a].text),
                      r.attributes[a].variables, DOMAIN s.attributes \cup DOMAIN s.literals)
        BY <1>2, <1>4, <1>6, <2>1, NamesImported
      <3> QED BY <1>3, <3>1
    <2>3. ComputedMean(Imported(config), r.attributes[a].variables)
      BY <1>3, <1>4, <1>5, <1>6, ComputedImported
    <2> QED BY <1>3, <1>6, <2>2, <2>3
  <1>11. SensorSound(Imported(config), r)
    BY <1>3, <1>6, <1>7, <1>8, <1>9, <1>10 DEF SensorSound
  <1> QED BY <1>11 DEF r
-----------------------------------------------------------------------------
(* What is exported *)

\* What is written of a sensor is a sensor of a document.
LEMMA SensorWritten ==
  ASSUME NEW config, NEW k, SensorRead(config.sensors[k])
  PROVE  SensorGiven(WrittenSensor(config, k))
  <1> DEFINE s == config.sensors[k]
             w == WrittenSensor(config, k)
  <1>1. /\ w.enabled = TRUE /\ w.handlers = s.handlers /\ w.formula = s.formula
        /\ w.variables = WrittenVariables(s.variables) /\ w.attributes = WrittenAttributes(s)
    BY DEF WrittenSensor, WrittenHandlers
  <1>2. SensorRead(s)
    OBVIOUS
  <1> HIDE DEF s, w
  <1>3. /\ HandlersGiven(s.handlers) /\ IsFiniteSet(DOMAIN s.attributes) /\ WordsGiven(s.formula)
        /\ VariablesGiven(s.variables) /\ IsFiniteSet(DOMAIN s.literals)
        /\ \A a \in DOMAIN s.attributes :
             /\ WordsGiven(s.attributes[a].text) /\ VariablesGiven(s.attributes[a].variables)
             /\ HandlersGiven(s.attributes[a].handlers)
        /\ \A a \in DOMAIN s.literals : WordsGiven(s.literals[a])
    BY <1>2 DEF SensorRead, SensorGiven
  <1>4. VariablesGiven(WrittenVariables(s.variables))
    <2> SUFFICES ASSUME NEW v \in DOMAIN s.variables
                 PROVE  ValueGiven(WrittenVariables(s.variables)[v])
      BY DEF VariablesGiven, WrittenVariables
    <2> DEFINE x == s.variables[v]
    <2>1. WrittenVariables(s.variables)[v] = [x EXCEPT !.handlers = WrittenHandlers(x.handlers)]
      BY DEF WrittenVariables
    <2>2. x = [kind |-> x.kind, text |-> x.text, handlers |-> x.handlers, nested |-> x.nested]
          /\ WordsGiven(x.text) /\ OneWord(x.kind, x.text)
      BY <1>3 DEF VariablesGiven, ValueGiven, OneWord
    <2> HIDE DEF x
    <2>3. WrittenVariables(s.variables)[v]
            = [kind |-> x.kind, text |-> x.text, handlers |-> WrittenHandlers(x.handlers),
               nested |-> x.nested]
      BY <2>1, <2>2
    <2> QED BY <2>2, <2>3 DEF ValueGiven, OneWord
  <1>5. HandlersGiven(NoHandlers) /\ VariablesGiven(NoVariables)
    BY DEF HandlersGiven, NoHandlers, VariablesGiven, NoVariables
  <1>6. ASSUME NEW a \in DOMAIN s.attributes
        PROVE  LET own == WrittenAttribute(s.attributes[a])
               IN  WordsGiven(own.text) /\ VariablesGiven(own.variables) /\ HandlersGiven(own.handlers)
    <2>1. CASE TakenForLiteral(s.attributes[a])
      <3> DEFINE t == s.attributes[a].text
                 bare == [t EXCEPT !.literal = FALSE]
      <3>1. WordsGiven(t) /\ bare = [t EXCEPT !.literal = FALSE]
        BY <1>3
      <3>2. LET own == WrittenAttribute(s.attributes[a])
            IN  own.text = bare /\ own.variables = NoVariables /\ own.handlers = NoHandlers
        BY <2>1 DEF WrittenAttribute
      <3> HIDE DEF t, bare
      <3>3. bare = [names |-> t.names, ids |-> t.ids, operators |-> t.operators, literal |-> FALSE]
        BY <3>1 DEF WordsGiven
      <3>4. WordsGiven(bare)
        BY <3>3 DEF WordsGiven
      <3> QED BY <1>5, <3>2, <3>4
    <2>2. CASE ~TakenForLiteral(s.attributes[a])
      <3> DEFINE variables == s.attributes[a].variables
      <3>1. VariablesGiven(Without(variables, ComputedIn(variables)))
        BY <1>3 DEF VariablesGiven, Without, Restrict
      <3> QED BY <1>3, <2>2, <3>1 DEF WrittenAttribute, WrittenHandlers
    <2> QED BY <2>1, <2>2
  <1>7. \A a \in DOMAIN s.literals :
          LET own == WrittenLiteral(s.literals[a])
          IN  WordsGiven(own.text) /\ VariablesGiven(own.variables) /\ HandlersGiven(own.handlers)
    BY <1>3, <1>5 DEF WrittenLiteral
  <1>8. /\ DOMAIN WrittenAttributes(s) = DOMAIN s.attributes \cup DOMAIN s.literals
        /\ \A a \in DOMAIN s.attributes : WrittenAttributes(s)[a] = WrittenAttribute(s.attributes[a])
        /\ \A a \in DOMAIN s.literals \ DOMAIN s.attributes :
             WrittenAttributes(s)[a] = WrittenLiteral(s.literals[a])
    BY DEF WrittenAttributes, Over
  <1>9. IsFiniteSet(DOMAIN WrittenAttributes(s))
    BY <1>3, <1>8, FS_Union
  <1>10. \A a \in DOMAIN WrittenAttributes(s) :
           LET own == WrittenAttributes(s)[a]
           IN  WordsGiven(own.text) /\ VariablesGiven(own.variables) /\ HandlersGiven(own.handlers)
    BY <1>6, <1>7, <1>8
  <1>11. SensorGiven(w)
    BY <1>1, <1>3, <1>4, <1>9, <1>10 DEF SensorGiven
  <1> QED BY <1>11 DEF w

\* A finite set has a sequence of its members, each of them once.
LEMMA MembersInSequence ==
  ASSUME NEW S, IsFiniteSet(S)
  PROVE  /\ SetToSeq(S) \in [1 .. Cardinality(S) -> S] /\ Cardinality(S) \in Nat
         /\ \A i, j \in 1 .. Cardinality(S) : SetToSeq(S)[i] = SetToSeq(S)[j] => i = j
         /\ \A x \in S : \E i \in 1 .. Cardinality(S) : SetToSeq(S)[i] = x
  <1>1. Cardinality(S) \in Nat
    BY FS_CardinalityType
  <1>2. ExistsBijection(1 .. Cardinality(S), S)
    BY FS_CardinalityType
  <1>3. PICK f : f \in Bijection(1 .. Cardinality(S), S)
    BY <1>2 DEF ExistsBijection
  <1>4. f \in [1 .. Cardinality(S) -> S] /\ IsInjective(f)
    BY <1>3 DEF Bijection, Injection
  <1> DEFINE q == SetToSeq(S)
  <1>5. q \in [1 .. Cardinality(S) -> S] /\ IsInjective(q)
    BY <1>4 DEF SetToSeq
  <1> HIDE DEF q
  <1>6. q \in Injection(1 .. Cardinality(S), S)
    BY <1>5 DEF Injection
  <1>7. Cardinality(1 .. Cardinality(S)) = Cardinality(S)
    <2>1. 1 \in Int /\ Cardinality(S) \in Int
      BY <1>1
    <2>2. Cardinality(1 .. Cardinality(S))
            = IF 1 > Cardinality(S) THEN 0 ELSE Cardinality(S) - 1 + 1
      BY <2>1, FS_Interval
    <2> QED BY <1>1, <2>2
  <1>8. q \in Surjection(1 .. Cardinality(S), S)
    BY <1>6, <1>7, FS_Injection
  <1>9. \A x \in S : \E i \in 1 .. Cardinality(S) : q[i] = x
    BY <1>8 DEF Surjection
  <1>10. \A i, j \in 1 .. Cardinality(S) : q[i] = q[j] => i = j
    BY <1>5 DEF IsInjective
  <1> QED BY <1>1, <1>5, <1>9, <1>10 DEF q

LEMMA TextExported ==
  ASSUME NEW config, ConfigGiven(config)
  PROVE  TextGiven(Exported(config))
  <1> DEFINE S == DOMAIN config.sensors
             keys == SetToSeq(S)
             n == Cardinality(S)
             q == [i \in DOMAIN keys |-> WrittenSensor(config, keys[i])]
  <1>1. keys \in [1 .. n -> S] /\ n \in Nat
    BY MembersInSequence DEF ConfigGiven, Keys
  <1>2. Exported(config).sensors = q
    BY DEF Exported
  <1>3. \A i \in 1 .. n : SensorGiven(WrittenSensor(config, keys[i]))
    BY <1>1, SensorWritten DEF ConfigGiven, Keys
  <1> HIDE DEF S, keys, n
  <1>4. DOMAIN q = 1 .. n /\ \A i \in 1 .. n : q[i] = WrittenSensor(config, keys[i])
    BY <1>1
  <1>5. ToSet(q) = {q[i] : i \in 1 .. n}
    BY <1>4 DEF ToSet
  <1>6. q \in [1 .. n -> ToSet(q)]
    <2>1. \A i \in 1 .. n : q[i] \in ToSet(q)
      BY <1>5
    <2>2. q = [i \in 1 .. n |-> q[i]]
      BY <1>4
    <2> HIDE DEF q
    <2> QED BY <2>1, <2>2
  <1>7. q \in Seq(ToSet(q))
    <2> HIDE DEF q
    <2> QED BY <1>1, <1>6, SeqDef
  <1> HIDE DEF q
  <1>8. \A s \in ToSet(q) : SensorGiven(s)
    BY <1>3, <1>4, <1>5
  <1>9. VariablesGiven(Exported(config).globals)
    BY DEF Exported, ConfigGiven
  <1> QED BY <1>2, <1>7, <1>8, <1>9 DEF TextGiven
-----------------------------------------------------------------------------
(* What a set-up leaves behind *)

EntryFields == {"listed", "phase", "manager", "ready", "parsed", "loaded", "shared", "edited",
                "reading"}
EntryShaped(x) == x = [f \in EntryFields |-> x[f]]

Integrations ==
  /\ entry = [e \in Entries |-> entry[e]]
  /\ \A e \in Entries :
       /\ EntryShaped(entry[e])
       /\ entry[e].manager \in 0 .. made
       /\ entry[e].phase = "down" => entry[e].manager = 0

Types ==
  /\ made \in 0 .. MaxManagers
  /\ handlers \in [Services -> 0 .. made]
  /\ managed = [n \in 1 .. MaxManagers |-> managed[n]]
  /\ Integrations

Owned(n) == \E e \in Entries : entry[e].manager = n

\* No two integrations have a manager in common, what no integration has manages
\* nothing, and no service that is ever taken away is answered for it.
Owners ==
  /\ \A e, f \in Entries : entry[e].manager # 0 /\ entry[e].manager = entry[f].manager => e = f
  /\ \A n \in 1 .. MaxManagers : ~Owned(n) => managed[n] = {}
  /\ \A s \in Removed : handlers[s] # 0 => Owned(handlers[s])

IInv == Types /\ Owners

\* One integration changes, keeping its manager.
LEMMA ManagerKept ==
  ASSUME IInv, NEW e \in Entries, NEW x,
         entry' = [entry EXCEPT ![e] = x], x.manager = entry[e].manager,
         EntryShaped(x),
         x.phase = "down" => x.manager = 0,
         UNCHANGED <<made, handlers>>,
         \/ managed' = managed
         \/ \E some : managed' = [managed EXCEPT ![entry[e].manager] = some]
  PROVE  IInv'
  <1>1. \A f \in Entries : entry'[f] = IF f = e THEN x ELSE entry[f]
    BY DEF IInv, Types, Integrations
  <1>2. \A f \in Entries : entry'[f].manager = entry[f].manager
    BY <1>1
  <1>3. Integrations'
    BY <1>1, <1>2 DEF IInv, Types, Integrations, EntryShaped
  <1>4. managed' = [n \in 1 .. MaxManagers |-> managed'[n]]
    BY DEF IInv, Types
  <1>5. \A n \in 1 .. MaxManagers : ~Owned(n) => managed'[n] = managed[n]
    BY DEF IInv, Types, Owned
  <1>6. \A n : Owned(n)' <=> Owned(n)
    BY <1>2 DEF Owned
  <1>7. Owners'
    BY <1>2, <1>5, <1>6 DEF IInv, Owners, Removed, Services
  <1> QED BY <1>3, <1>4, <1>7 DEF IInv, Types

\* A new manager for an integration, which then answers all services.
LEMMA ManagerMade ==
  ASSUME IInv, NEW e \in Entries, NEW x,
         made < MaxManagers, made' = made + 1,
         entry' = [entry EXCEPT ![e] = x], x.manager = made + 1,
         EntryShaped(x),
         x.phase # "down", handlers' = Registered(made + 1),
         managed' = IF entry[e].manager # 0 THEN [managed EXCEPT ![entry[e].manager] = {}] ELSE managed
  PROVE  IInv'
  <1>0. MaxManagers \in Nat /\ made \in Nat
    BY IntegrationConstants DEF IInv, Types
  <1>1. \A f \in Entries : entry'[f] = IF f = e THEN x ELSE entry[f]
    BY DEF IInv, Types, Integrations
  <1>2. Integrations'
    <2>1. \A f \in Entries : entry'[f].manager \in 0 .. made'
      BY <1>0, <1>1 DEF IInv, Types, Integrations
    <2> QED BY <1>1, <2>1 DEF IInv, Types, Integrations, EntryShaped
  <1>3. managed' = [n \in 1 .. MaxManagers |-> managed'[n]]
    BY DEF IInv, Types
  <1>4. handlers' \in [Services -> 0 .. made'] /\ \A s \in Services : handlers'[s] = made + 1
    BY <1>0 DEF Registered
  <1>5. \A f, g \in Entries : entry'[f].manager # 0 /\ entry'[f].manager = entry'[g].manager => f = g
    BY <1>0, <1>1 DEF IInv, Types, Integrations, Owners
  <1>6. \E f \in Entries : entry'[f].manager = made + 1
    BY <1>1
  <1>7. ASSUME NEW n \in 1 .. MaxManagers, ~Owned(n)' PROVE managed'[n] = {}
    <2>1. CASE n = entry[e].manager
      BY <2>1, <1>0 DEF IInv, Types
    <2>2. CASE n # entry[e].manager
      <3>1. ~Owned(n)
        BY <1>1, <1>7, <2>2 DEF Owned
      <3> QED BY <2>2, <3>1 DEF IInv, Types, Owners
    <2> QED BY <2>1, <2>2
  <1>8. Owners'
    BY <1>4, <1>5, <1>6, <1>7 DEF Owners, Removed, Owned
  <1> QED BY <1>0, <1>2, <1>3, <1>4, <1>8 DEF IInv, Types

\* An integration that is taken down.
LEMMA ManagerGone ==
  ASSUME IInv, NEW e \in Entries, NEW x,
         entry' = [entry EXCEPT ![e] = x], x.manager = 0,
         EntryShaped(x),
         UNCHANGED made, CleanUp(e)
  PROVE  IInv'
  <1>0. MaxManagers \in Nat /\ made \in Nat
    BY IntegrationConstants DEF IInv, Types
  <1>1. \A f \in Entries : entry'[f] = IF f = e THEN x ELSE entry[f]
    BY DEF IInv, Types, Integrations
  <1>2. Integrations'
    <2>1. \A f \in Entries : entry'[f].manager \in 0 .. made'
      BY <1>0, <1>1 DEF IInv, Types, Integrations
    <2> QED BY <1>1, <2>1 DEF IInv, Types, Integrations, EntryShaped
  <1>3. managed' = [n \in 1 .. MaxManagers |-> managed'[n]]
    BY DEF IInv, Types, CleanUp
  <1>4. handlers' \in [Services -> 0 .. made']
    BY <1>0 DEF IInv, Types, CleanUp, Unregistered
  <1>5. \A f, g \in Entries : entry'[f].manager # 0 /\ entry'[f].manager = entry'[g].manager => f = g
    BY <1>0, <1>1 DEF IInv, Types, Integrations, Owners
  <1>6. ASSUME NEW s \in Removed, handlers'[s] # 0
        PROVE  \E f \in Entries : entry'[f].manager = handlers'[s]
    <2>1. s \in Services
      BY DEF Removed
    <2>2. entry[e].manager = 0 /\ handlers'[s] = handlers[s]
      BY <1>6, <2>1 DEF CleanUp, Unregistered
    <2>3. Owned(handlers[s])
      BY <1>6, <2>2 DEF IInv, Owners
    <2> QED BY <1>1, <1>6, <2>2, <2>3 DEF Owned
  <1>7. ASSUME NEW n \in 1 .. MaxManagers, ~Owned(n)' PROVE managed'[n] = {}
    <2>1. CASE n = entry[e].manager
      BY <2>1, <1>0 DEF IInv, Types, CleanUp
    <2>2. CASE n # entry[e].manager
      <3>1. ~Owned(n)
        BY <1>1, <1>7, <2>2 DEF Owned
      <3> QED BY <2>2, <3>1 DEF IInv, Types, Owners, CleanUp
    <2> QED BY <2>1, <2>2
  <1>8. Owners'
    BY <1>5, <1>6, <1>7 DEF Owners, Owned
  <1> QED BY <1>0, <1>2, <1>3, <1>4, <1>8 DEF IInv, Types

\* Whatever a manager makes of a configuration, it stays the manager of its integration.
LEMMA ManagerLoads ==
  ASSUME IInv, NEW e \in Entries, NEW config,
         Loaded(e, config), UNCHANGED <<made, handlers>>
  PROVE  IInv'
  <1> DEFINE read == [entry[e] EXCEPT !.parsed = config, !.shared = FALSE, !.edited = FALSE,
                                      !.reading = {}]
             taken == [read EXCEPT !.loaded = config, !.shared = TRUE]
             done == [taken EXCEPT !.ready = TRUE]
             Fits(x) == /\ x.manager = entry[e].manager /\ x.phase = entry[e].phase
                        /\ EntryShaped(x)
  <1>1. Fits(read) /\ Fits(taken) /\ Fits(done)
    BY DEF IInv, Types, Integrations, EntryShaped, EntryFields
  <1>2. \E x : /\ Fits(x) /\ entry' = [entry EXCEPT ![e] = x]
               /\ \/ managed' = managed
                  \/ \E some : managed' = [managed EXCEPT ![entry[e].manager] = some]
    <2> HIDE DEF Fits
    <2>1. CASE Ignored(e, config)
      BY <1>1, <2>1 DEF Loaded
    <2>2. CASE ~Ignored(e, config)
      BY <1>1, <2>2 DEF Loaded
    <2> QED BY <2>1, <2>2
  <1>3. PICK x : /\ Fits(x) /\ entry' = [entry EXCEPT ![e] = x]
                 /\ \/ managed' = managed
                    \/ \E some : managed' = [managed EXCEPT ![entry[e].manager] = some]
    BY <1>2
  <1>4. entry[e].phase = "down" => entry[e].manager = 0
    BY DEF IInv, Types, Integrations
  <1> QED BY <1>3, <1>4, ManagerKept

\* Home Assistant takes an integration up and down.
LEMMA EntryActions ==
  ASSUME IInv, NEW e \in Entries,
         SetUp(e) \/ FinishSetUp(e) \/ FailSetUp(e) \/ Unload(e) \/ Reload(e)
  PROVE  IInv'
  <1>0. /\ entry = [f \in Entries |-> entry[f]] /\ MaxManagers \in Nat /\ made \in Nat
        /\ entry[e].phase = "down" => entry[e].manager = 0
    BY IntegrationConstants DEF IInv, Types, Integrations
  <1>s. EntryShaped(entry[e])
    BY DEF IInv, Types, Integrations
  <1>1. CASE SetUp(e)
    <2> DEFINE x == [entry[e] EXCEPT !.phase = "starting", !.manager = made + 1]
    <2>1. entry' = [entry EXCEPT ![e] = x]
      BY <1>1 DEF SetUp
    <2>2. EntryShaped(x)
      BY <1>s DEF EntryShaped, EntryFields
    <2>3. x.phase = "starting" /\ x.manager = made + 1
      BY <1>s DEF EntryShaped, EntryFields
    <2>4. entry[e].manager = 0 /\ managed' = managed
      BY <1>0, <1>1 DEF SetUp
    <2> HIDE DEF x
    <2> QED BY <1>1, <2>1, <2>2, <2>3, <2>4, ManagerMade DEF SetUp
  <1>2. CASE FinishSetUp(e)
    <2> DEFINE x == [entry[e] EXCEPT !.phase = "up", !.listed = TRUE]
    <2>1. entry' = [entry EXCEPT ![e] = x]
      BY <1>2 DEF FinishSetUp
    <2>2. EntryShaped(x)
      BY <1>s DEF EntryShaped, EntryFields
    <2>3. x.phase = "up" /\ x.manager = entry[e].manager
      BY <1>s DEF EntryShaped, EntryFields
    <2> HIDE DEF x
    <2> QED BY <1>2, <2>1, <2>2, <2>3, ManagerKept DEF FinishSetUp
  <1>3. CASE FailSetUp(e) \/ Unload(e)
    <2>1. PICK z \in {CleanedUp(entry[e]), NoEntry} : entry' = [entry EXCEPT ![e] = z]
      BY <1>3 DEF FailSetUp, Unload
    <2>2. EntryShaped(CleanedUp(entry[e])) /\ CleanedUp(entry[e]).manager = 0
      BY <1>s DEF CleanedUp, EntryShaped, EntryFields
    <2>3. EntryShaped(NoEntry) /\ NoEntry.manager = 0
      BY DEF NoEntry, EntryShaped, EntryFields
    <2>4. EntryShaped(z) /\ z.manager = 0
      BY <2>2, <2>3
    <2> QED BY <1>3, <2>1, <2>4, ManagerGone DEF FailSetUp, Unload
  <1>4. CASE Reload(e)
    <2> DEFINE x == [CleanedUp(entry[e]) EXCEPT !.phase = "starting", !.manager = made + 1]
    <2>1. entry' = [entry EXCEPT ![e] = x]
      BY <1>4 DEF Reload
    <2>2. EntryShaped(x)
      BY <1>s DEF CleanedUp, EntryShaped, EntryFields
    <2>3. x.phase = "starting" /\ x.manager = made + 1
      BY <1>s DEF CleanedUp, EntryShaped, EntryFields
    <2> HIDE DEF x
    <2> QED BY <1>4, <2>1, <2>2, <2>3, ManagerMade DEF Reload
  <1> QED BY <1>1, <1>2, <1>3, <1>4

\* Files are read and services answered without a change of managers.
LEMMA FileActions ==
  ASSUME IInv, NEW e \in Entries,
         \/ FinishLoadFile(e)
         \/ \E text \in Files : StartLoadFile(e, text) \/ LoadContent(e, text)
         \/ \E globals : Edited(e, globals) /\ UNCHANGED <<made, handlers, managed>>
  PROVE  IInv'
  <1>0. /\ entry = [f \in Entries |-> entry[f]]
        /\ entry[e].phase = "down" => entry[e].manager = 0
    BY DEF IInv, Types, Integrations
  <1>s. EntryShaped(entry[e])
    BY DEF IInv, Types, Integrations
  <1>1. CASE FinishLoadFile(e)
    <2>1. PICK text \in entry[e].reading :
            /\ IF ~LoadsFromFile(text) THEN ReadFails(e)
               ELSE IF entry[e].manager = 0
                    THEN /\ entry' = [entry EXCEPT ![e].parsed = Read(Document(text)),
                                                   ![e].shared = FALSE,
                                                   ![e].edited = FALSE, ![e].reading = {}]
                         /\ UNCHANGED managed
                    ELSE Loaded(e, Read(Document(text)))
            /\ UNCHANGED <<made, handlers, stored, hosted>>
      BY <1>1 DEF FinishLoadFile
    <2>2. CASE LoadsFromFile(text) /\ entry[e].manager # 0
      BY <2>1, <2>2, ManagerLoads
    <2>3. CASE ~LoadsFromFile(text)
      <3> DEFINE x == [entry[e] EXCEPT !.reading = {}]
      <3>1. entry' = [entry EXCEPT ![e] = x] /\ managed' = managed
        BY <2>1, <2>3 DEF ReadFails
      <3>2. EntryShaped(x)
        BY <1>s DEF EntryShaped, EntryFields
      <3>3. x.phase = entry[e].phase /\ x.manager = entry[e].manager
        BY <1>s DEF EntryShaped, EntryFields
      <3> HIDE DEF x
      <3> QED BY <1>0, <2>1, <3>1, <3>2, <3>3, ManagerKept
    <2>4. CASE LoadsFromFile(text) /\ entry[e].manager = 0
      <3> DEFINE x == [entry[e] EXCEPT !.parsed = Read(Document(text)), !.shared = FALSE,
                                       !.edited = FALSE, !.reading = {}]
      <3>1. entry' = [entry EXCEPT ![e] = x] /\ managed' = managed
        BY <2>1, <2>4
      <3>2. EntryShaped(x)
        BY <1>s DEF EntryShaped, EntryFields
      <3>3. x.phase = entry[e].phase /\ x.manager = entry[e].manager
        BY <1>s DEF EntryShaped, EntryFields
      <3> HIDE DEF x
      <3> QED BY <1>0, <2>1, <3>1, <3>2, <3>3, ManagerKept
    <2> QED BY <2>2, <2>3, <2>4
  <1>2. CASE \E text \in Files : StartLoadFile(e, text)
    <2>1. PICK text \in Files : StartLoadFile(e, text)
      BY <1>2
    <2> DEFINE x == [entry[e] EXCEPT !.reading = {text}]
    <2>2. entry' = [entry EXCEPT ![e] = x] /\ managed' = managed
      BY <2>1 DEF StartLoadFile
    <2>3. EntryShaped(x)
      BY <1>s DEF EntryShaped, EntryFields
    <2>4. x.phase = entry[e].phase /\ x.manager = entry[e].manager
      BY <1>s DEF EntryShaped, EntryFields
    <2> HIDE DEF x
    <2> QED BY <1>0, <2>1, <2>2, <2>3, <2>4, ManagerKept DEF StartLoadFile
  <1>3. CASE \E text \in Files : LoadContent(e, text)
    BY <1>3, ManagerLoads DEF LoadContent
  <1>4. CASE \E globals : Edited(e, globals) /\ UNCHANGED <<made, handlers, managed>>
    <2>1. PICK globals : Edited(e, globals) /\ UNCHANGED <<made, handlers, managed>>
      BY <1>4
    <2> DEFINE edited == [entry[e] EXCEPT !.parsed.globals = globals, !.edited = TRUE]
               x == IF entry[e].shared THEN [edited EXCEPT !.loaded.globals = globals] ELSE edited
    <2>2. entry' = [entry EXCEPT ![e] = x] /\ managed' = managed
      BY <2>1 DEF Edited
    <2>3. EntryShaped(x)
      BY <1>s DEF EntryShaped, EntryFields
    <2>4. x.phase = entry[e].phase /\ x.manager = entry[e].manager
      BY <1>s DEF EntryShaped, EntryFields
    <2> HIDE DEF x
    <2> QED BY <1>0, <2>1, <2>2, <2>3, <2>4, ManagerKept
  <1> QED BY <1>1, <1>2, <1>3, <1>4

LEMMA OwnersInit == Init => IInv
  <1> SUFFICES ASSUME Init PROVE IInv
    OBVIOUS
  <1>1. MaxManagers \in Nat
    BY IntegrationConstants
  <1>2. EntryShaped(NoEntry) /\ NoEntry.manager = 0
    BY DEF NoEntry, EntryShaped, EntryFields
  <1>3. Types
    BY <1>1, <1>2 DEF Init, Types, Integrations
  <1>4. Owners
    BY <1>2 DEF Init, Owners, Removed, Services
  <1> QED BY <1>3, <1>4 DEF IInv

LEMMA OwnersNext == IInv /\ [Next]_vars => IInv'
  <1> SUFFICES ASSUME IInv, [Next]_vars PROVE IInv'
    OBVIOUS
  <1>1. ASSUME UNCHANGED <<entry, made, handlers, managed>> PROVE IInv'
    BY <1>1 DEF IInv, Types, Integrations, Owners, Owned
  <1>2. CASE \E e \in Entries : SetUp(e) \/ FinishSetUp(e) \/ FailSetUp(e) \/ Unload(e) \/ Reload(e)
    BY <1>2, EntryActions
  <1>3. CASE \E e \in Entries : \/ FinishLoadFile(e)
                                \/ \E text \in Files : StartLoadFile(e, text) \/ LoadContent(e, text)
    BY <1>3, FileActions
  <1>4. CASE AddVariable \/ RemoveVariable
    <2>1. \E e \in Entries : \E globals : Edited(e, globals) /\ UNCHANGED <<made, handlers, managed>>
      BY <1>4 DEF AddVariable, RemoveVariable, Answering
    <2> QED BY <2>1, FileActions
  <1>5. CASE \E text \in Uploads : Import(text)
    BY <1>1, <1>5 DEF Import
  <1>6. CASE ExportAndImport \/ SetUpProgram \/ SetUpStored
    BY <1>1, <1>6 DEF ExportAndImport, Import, SetUpProgram, SetUpStored
  <1>7. CASE UNCHANGED vars
    BY <1>1, <1>7 DEF vars
  <1> QED BY <1>2, <1>3, <1>4, <1>5, <1>6, <1>7 DEF Next

LEMMA OwnersHold == Spec => []IInv
  BY OwnersInit, OwnersNext, PTL DEF Spec

\* However integrations are set up, fail to be, are reloaded and unloaded while files are
\* read for them, a manager without an integration manages no sensor and no service
\* that is taken away with an integration is answered for it (integration.py,
\* service_layer.py).
THEOREM NothingLeft == Spec => []NothingLeftBehind
  <1>1. IInv => NothingLeftBehind
    BY IntegrationConstants DEF IInv, Types, Owners, Owned, NothingLeftBehind
  <1> QED BY <1>1, OwnersHold, PTL
-----------------------------------------------------------------------------
(* What is loaded and stored *)

\* A configuration that no service has changed is sound, and so is the sensor set that
\* imports of what was looked at have left; whatever has made it, it can be exported.
Loads ==
  \A e \in Entries : /\ entry[e].reading \subseteq Files
                     /\ ~entry[e].edited => Sound(entry[e].parsed)
Stored == ConfigGiven(stored.config) /\ (stored.imported => Sound(stored.config))

LEMMA NothingSound == Sound(NoConfig) /\ ConfigGiven(NoConfig)
  <1>1. Keys(NoConfig) = {}
    BY DEF Keys, NoConfig, NoVariables
  <1>2. IsFiniteSet(Keys(NoConfig))
    BY <1>1, FS_EmptySet
  <1>3. NoConfig = [device |-> NoConfig.device, globals |-> NoConfig.globals,
                    sensors |-> NoConfig.sensors]
    BY DEF NoConfig
  <1>4. VariablesGiven(NoConfig.globals)
    BY DEF NoConfig, NoVariables, VariablesGiven
  <1> QED BY <1>1, <1>2, <1>3, <1>4 DEF Sound, ConfigGiven

\* One integration changes.
LEMMA LoadsKept ==
  ASSUME IInv, Loads, NEW e \in Entries, NEW x, entry' = [entry EXCEPT ![e] = x],
         x.reading \subseteq Files, ~x.edited => Sound(x.parsed)
  PROVE  Loads'
  <1>1. \A f \in Entries : entry'[f] = IF f = e THEN x ELSE entry[f]
    BY DEF IInv, Types, Integrations
  <1> QED BY <1>1 DEF Loads

\* What is loaded has been accepted.
LEMMA LoadsLoaded ==
  ASSUME IInv, Loads, NEW e \in Entries, NEW config, Sound(config), Loaded(e, config)
  PROVE  Loads'
  <1> DEFINE read == [entry[e] EXCEPT !.parsed = config, !.shared = FALSE, !.edited = FALSE,
                                      !.reading = {}]
             taken == [read EXCEPT !.loaded = config, !.shared = TRUE]
             done == [taken EXCEPT !.ready = TRUE]
             Fits(x) == x.reading = {} /\ x.parsed = config
  <1>1. Fits(read) /\ Fits(taken) /\ Fits(done)
    BY DEF IInv, Types, Integrations, EntryShaped, EntryFields
  <1>2. \E x : Fits(x) /\ entry' = [entry EXCEPT ![e] = x]
    <2> HIDE DEF Fits
    <2>1. CASE Ignored(e, config)
      BY <1>1, <2>1 DEF Loaded
    <2>2. CASE ~Ignored(e, config)
      BY <1>1, <2>2 DEF Loaded
    <2> QED BY <2>1, <2>2
  <1>3. PICK x : Fits(x) /\ entry' = [entry EXCEPT ![e] = x]
    BY <1>2
  <1> HIDE DEF read, taken, done
  <1> QED BY <1>3, LoadsKept

LEMMA LoadsActions ==
  ASSUME IInv, Loads, NEW e \in Entries,
         \/ SetUp(e) \/ FinishSetUp(e) \/ FailSetUp(e) \/ Unload(e) \/ Reload(e)
         \/ FinishLoadFile(e)
         \/ \E text \in Files : StartLoadFile(e, text) \/ LoadContent(e, text)
         \/ \E globals : Edited(e, globals)
  PROVE  Loads'
  <1>s. EntryShaped(entry[e]) /\ entry = [f \in Entries |-> entry[f]]
    BY DEF IInv, Types, Integrations
  <1>l. entry[e].reading \subseteq Files /\ (~entry[e].edited => Sound(entry[e].parsed))
    BY DEF Loads
  <1>t. \A text \in Files : TextGiven(text)
    BY IntegrationConstants
  <1>1. CASE SetUp(e)
    <2> DEFINE x == [entry[e] EXCEPT !.phase = "starting", !.manager = made + 1]
    <2>1. entry' = [entry EXCEPT ![e] = x]
      BY <1>1 DEF SetUp
    <2>2. x.reading = entry[e].reading /\ x.edited = entry[e].edited /\ x.parsed = entry[e].parsed
      BY <1>s DEF EntryShaped, EntryFields
    <2> HIDE DEF x
    <2> QED BY <1>l, <2>1, <2>2, LoadsKept
  <1>2. CASE FinishSetUp(e)
    <2> DEFINE x == [entry[e] EXCEPT !.phase = "up", !.listed = TRUE]
    <2>1. entry' = [entry EXCEPT ![e] = x]
      BY <1>2 DEF FinishSetUp
    <2>2. x.reading = entry[e].reading /\ x.edited = entry[e].edited /\ x.parsed = entry[e].parsed
      BY <1>s DEF EntryShaped, EntryFields
    <2> HIDE DEF x
    <2> QED BY <1>l, <2>1, <2>2, LoadsKept
  <1>3. CASE FailSetUp(e) \/ Unload(e)
    <2>1. PICK z \in {CleanedUp(entry[e]), NoEntry} : entry' = [entry EXCEPT ![e] = z]
      BY <1>3 DEF FailSetUp, Unload
    <2>2. /\ CleanedUp(entry[e]).reading = entry[e].reading
          /\ CleanedUp(entry[e]).edited = entry[e].edited
          /\ CleanedUp(entry[e]).parsed = entry[e].parsed
      BY <1>s DEF CleanedUp, EntryShaped, EntryFields
    <2>3. NoEntry.reading = {} /\ NoEntry.parsed = NoConfig
      BY DEF NoEntry
    <2> QED BY <1>l, <2>1, <2>2, <2>3, NothingSound, LoadsKept
  <1>4. CASE Reload(e)
    <2> DEFINE x == [CleanedUp(entry[e]) EXCEPT !.phase = "starting", !.manager = made + 1]
    <2>1. entry' = [entry EXCEPT ![e] = x]
      BY <1>4 DEF Reload
    <2>2. x.reading = entry[e].reading /\ x.edited = entry[e].edited /\ x.parsed = entry[e].parsed
      BY <1>s DEF CleanedUp, EntryShaped, EntryFields
    <2> HIDE DEF x
    <2> QED BY <1>l, <2>1, <2>2, LoadsKept
  <1>5. CASE FinishLoadFile(e)
    <2>1. PICK text \in entry[e].reading :
            IF ~LoadsFromFile(text) THEN ReadFails(e)
            ELSE IF entry[e].manager = 0
                 THEN /\ entry' = [entry EXCEPT ![e].parsed = Read(Document(text)),
                                                ![e].shared = FALSE,
                                                ![e].edited = FALSE, ![e].reading = {}]
                      /\ UNCHANGED managed
                 ELSE Loaded(e, Read(Document(text)))
      BY <1>5 DEF FinishLoadFile
    <2>2. text \in Files /\ TextGiven(text)
      BY <1>l, <1>t
    <2>3. LoadsFromFile(text) => Sound(Read(Document(text)))
      BY <2>2, ReadSound DEF LoadsFromFile
    <2>4. CASE ~LoadsFromFile(text)
      <3> DEFINE x == [entry[e] EXCEPT !.reading = {}]
      <3>1. entry' = [entry EXCEPT ![e] = x]
        BY <2>1, <2>4 DEF ReadFails
      <3>2. x.reading = {} /\ x.edited = entry[e].edited /\ x.parsed = entry[e].parsed
        BY <1>s DEF EntryShaped, EntryFields
      <3> HIDE DEF x
      <3> QED BY <1>l, <3>1, <3>2, LoadsKept
    <2>5. CASE LoadsFromFile(text) /\ entry[e].manager = 0
      <3> DEFINE x == [entry[e] EXCEPT !.parsed = Read(Document(text)), !.shared = FALSE,
                                       !.edited = FALSE, !.reading = {}]
      <3>1. entry' = [entry EXCEPT ![e] = x]
        BY <2>1, <2>5
      <3>2. x.reading = {} /\ x.parsed = Read(Document(text))
        BY <1>s DEF EntryShaped, EntryFields
      <3> HIDE DEF x
      <3> QED BY <2>3, <2>5, <3>1, <3>2, LoadsKept
    <2>6. CASE LoadsFromFile(text) /\ entry[e].manager # 0
      BY <2>1, <2>3, <2>6, LoadsLoaded
    <2> QED BY <2>4, <2>5, <2>6
  <1>6. CASE \E text \in Files : StartLoadFile(e, text)
    <2>1. PICK text \in Files : StartLoadFile(e, text)
      BY <1>6
    <2> DEFINE x == [entry[e] EXCEPT !.reading = {text}]
    <2>2. entry' = [entry EXCEPT ![e] = x]
      BY <2>1 DEF StartLoadFile
    <2>3. x.reading = {text} /\ x.edited = entry[e].edited /\ x.parsed = entry[e].parsed
      BY <1>s DEF EntryShaped, EntryFields
    <2> HIDE DEF x
    <2> QED BY <1>l, <2>2, <2>3, LoadsKept
  <1>7. CASE \E text \in Files : LoadContent(e, text)
    <2>1. PICK text \in Files : LoadContent(e, text)
      BY <1>7
    <2>2. Sound(Read(Document(text)))
      BY <1>t, <2>1, ReadSound DEF LoadContent, LoadsFromYaml, LoadsFromFile
    <2> QED BY <2>1, <2>2, LoadsLoaded DEF LoadContent
  <1>8. CASE \E globals : Edited(e, globals)
    <2>1. PICK globals : Edited(e, globals)
      BY <1>8
    <2> DEFINE edited == [entry[e] EXCEPT !.parsed.globals = globals, !.edited = TRUE]
               x == IF entry[e].shared THEN [edited EXCEPT !.loaded.globals = globals] ELSE edited
    <2>2. entry' = [entry EXCEPT ![e] = x]
      BY <2>1 DEF Edited
    <2>3. x.reading = entry[e].reading /\ x.edited
      BY <1>s DEF EntryShaped, EntryFields
    <2> HIDE DEF x
    <2> QED BY <1>l, <2>2, <2>3, LoadsKept
  <1> QED BY <1>1, <1>2, <1>3, <1>4, <1>5, <1>6, <1>7, <1>8

\* An import stores what it can of the document.
LEMMA StoredImported ==
  ASSUME NEW text, TextGiven(text), Import(text)
  PROVE  Stored'
  <1> DEFINE read == Read(Document(text))
             config == Imported(read)
             agreeing == {k \in Keys(config) : NoConflict(config.globals, config.sensors[k])}
  <1>1. Accepted(Document(text))
    BY DEF Import, LoadsFromYaml, LoadsFromFile
  <1>2. ConfigGiven(read) /\ Sound(read) /\ \A k \in Keys(read) : SensorNamed(read.sensors[k])
    BY <1>1, ReadSound, ConfigRead
  <1>3. \/ stored' = [there |-> TRUE, config |-> config, imported |-> LookedAt(read)]
        \/ \E some \in SUBSET agreeing :
             stored' = [there |-> TRUE, imported |-> FALSE,
                        config |-> [config EXCEPT !.sensors = Restrict(config.sensors, some)]]
    BY DEF Import
  <1> HIDE DEF read
  <1>4. ConfigGiven(config) /\ (LookedAt(read) => Sound(config))
    BY <1>2, ConfigImported, ImportedSound
  <1> HIDE DEF config
  <1>5. CASE stored' = [there |-> TRUE, config |-> config, imported |-> LookedAt(read)]
    BY <1>4, <1>5 DEF Stored
  <1>6. ASSUME NEW some \in SUBSET agreeing,
               stored' = [there |-> TRUE, imported |-> FALSE,
                          config |-> [config EXCEPT !.sensors = Restrict(config.sensors, some)]]
        PROVE  Stored'
    <2> DEFINE left == [config EXCEPT !.sensors = Restrict(config.sensors, some)]
    <2>1. config = [device |-> config.device, globals |-> config.globals, sensors |-> config.sensors]
          /\ VariablesGiven(config.globals)
          /\ IsFiniteSet(Keys(config)) /\ \A k \in Keys(config) : SensorRead(config.sensors[k])
      BY <1>4 DEF ConfigGiven
    <2>2. left = [device |-> config.device, globals |-> config.globals,
                  sensors |-> Restrict(config.sensors, some)]
      BY <2>1
    <2>3. some \subseteq Keys(config) /\ IsFiniteSet(some)
      BY <2>1, FS_Subset
    <2>4. Keys(left) = some /\ \A k \in some : left.sensors[k] = config.sensors[k]
      <3>1. left.sensors = [k \in some |-> config.sensors[k]]
        BY <2>2, <2>3 DEF Restrict, Keys
      <3> HIDE DEF left
      <3> QED BY <3>1 DEF Keys
    <2>5. left = [device |-> left.device, globals |-> left.globals, sensors |-> left.sensors]
          /\ left.globals = config.globals
      BY <2>2
    <2>6. stored'.config = left /\ stored'.imported = FALSE
      BY <1>6
    <2> HIDE DEF left
    <2>7. ConfigGiven(left)
      BY <2>1, <2>3, <2>4, <2>5 DEF ConfigGiven
    <2> QED BY <2>6, <2>7 DEF Stored
  <1> QED BY <1>3, <1>5, <1>6

\* A program's sensors are set beside what is stored.
LEMMA StoredProgram ==
  ASSUME Stored, SetUpProgram
  PROVE  Stored'
  <1> DEFINE old == stored.config
             config == [old EXCEPT !.sensors = Over(old.sensors, HostSensors)]
  <1>1. stored' = [there |-> TRUE, config |-> config,
                   imported |-> stored.there /\ config = old /\ stored.imported]
    BY DEF SetUpProgram
  <1>2. old = [device |-> old.device, globals |-> old.globals, sensors |-> old.sensors]
        /\ VariablesGiven(old.globals)
        /\ IsFiniteSet(Keys(old)) /\ \A k \in Keys(old) : SensorRead(old.sensors[k])
    BY DEF Stored, ConfigGiven
  <1>3. stored.imported => Sound(old)
    BY DEF Stored
  <1>4. stored'.config = config /\ (stored'.imported => config = old /\ stored.imported)
    BY <1>1
  <1> HIDE DEF old
  <1>5. config = [device |-> old.device, globals |-> old.globals,
                  sensors |-> Over(old.sensors, HostSensors)]
    BY <1>2
  <1> HIDE DEF config
  <1>6. config = [device |-> config.device, globals |-> config.globals, sensors |-> config.sensors]
        /\ config.globals = old.globals
    BY <1>5
  <1>7. /\ Keys(config) = Keys(old) \cup DOMAIN HostSensors
        /\ \A k \in Keys(old) : config.sensors[k] = old.sensors[k]
        /\ \A k \in DOMAIN HostSensors \ Keys(old) : config.sensors[k] = HostSensors[k]
    BY <1>5 DEF Keys, Over
  <1>8. ConfigGiven(config)
    <2>1. IsFiniteSet(Keys(config))
      BY <1>2, <1>7, IntegrationConstants, FS_Union
    <2>2. \A k \in Keys(config) : SensorRead(config.sensors[k])
      BY <1>2, <1>7, IntegrationConstants
    <2> QED BY <1>2, <1>6, <2>1, <2>2 DEF ConfigGiven
  <1> QED BY <1>3, <1>4, <1>8 DEF Stored

LEMMA SoundInit == Init => Loads /\ Stored
  BY NothingSound DEF Init, Loads, Stored, NoEntry, NothingStored

LEMMA SoundNext == IInv /\ Loads /\ Stored /\ [Next]_vars => (Loads /\ Stored)'
  <1> SUFFICES ASSUME IInv, Loads, Stored, [Next]_vars PROVE Loads' /\ Stored'
    OBVIOUS
  <1>1. ASSUME UNCHANGED entry PROVE Loads'
    BY <1>1 DEF Loads
  <1>2. ASSUME UNCHANGED stored PROVE Stored'
    BY <1>2 DEF Stored
  <1>3. CASE \E e \in Entries :
               \/ SetUp(e) \/ FinishSetUp(e) \/ FailSetUp(e) \/ Unload(e) \/ Reload(e)
               \/ FinishLoadFile(e)
               \/ \E text \in Files : StartLoadFile(e, text) \/ LoadContent(e, text)
    <2>1. UNCHANGED stored
      BY <1>3 DEF SetUp, FinishSetUp, FailSetUp, Unload, Reload, FinishLoadFile, StartLoadFile,
                  LoadContent
    <2> QED BY <1>2, <1>3, <2>1, LoadsActions
  <1>4. CASE AddVariable \/ RemoveVariable
    <2>1. (\E e \in Entries : \E globals : Edited(e, globals)) /\ UNCHANGED stored
      BY <1>4 DEF AddVariable, RemoveVariable, Answering
    <2> QED BY <1>2, <2>1, LoadsActions
  <1>5. ASSUME NEW text, TextGiven(text), Import(text) PROVE Loads' /\ Stored'
    BY <1>1, <1>5, StoredImported DEF Import
  <1>6. CASE \E text \in Uploads : Import(text)
    BY <1>5, <1>6, IntegrationConstants
  <1>7. CASE ExportAndImport
    <2>1. TextGiven(Exported(stored.config))
      BY TextExported DEF Stored
    <2> QED BY <1>5, <1>7, <2>1 DEF ExportAndImport
  <1>8. CASE SetUpProgram
    BY <1>1, <1>8, StoredProgram DEF SetUpProgram
  <1>9. CASE SetUpStored
    BY <1>1, <1>2, <1>9 DEF SetUpStored
  <1>10. CASE UNCHANGED vars
    BY <1>1, <1>2, <1>10 DEF vars
  <1> QED BY <1>3, <1>4, <1>6, <1>7, <1>8, <1>9, <1>10 DEF Next

\* Whatever is loaded, imported, exported and imported again, set up by a program or changed
\* by services: a configuration that no service has changed, and a sensor set that only
\* imports of texts that were looked at have made, names what exists, computes no variable
\* from itself and has no circle of attributes or handlers (schema_validator.py,
\* utils_config.py, alternate_state_circular_validator.py, storage_sensor_set_ops.py).
THEOREM LoadsHold == Spec => []LoadsAreSound
  <1>1. Loads /\ Stored => LoadsAreSound
    BY DEF Loads, Stored, LoadsAreSound
  <1> QED BY <1>1, SoundInit, SoundNext, OwnersHold, PTL DEF Spec
-----------------------------------------------------------------------------
(* Handlers, texts and variables that can be written *)

\* Handlers as a configuration has them: they can be written and read again.
HandlersSaid(h) == Handlers(h) = h /\ HandlersFit(h) /\ ~CircularHandlers(h)

\* What stands for no handler is left out once and for all.
LEMMA HandlersTwice ==
  ASSUME NEW h
  PROVE  Handlers(Handlers(h)) = Handlers(h)
  <1> DEFINE new == Handlers(h)
             out(g) == {a \in DOMAIN g : g[a].kind \in {"null", "NONE"}}
  <1>1. new = [a \in DOMAIN h \ out(h) |-> h[a]]
    BY DEF Handlers, Without, Restrict
  <1>2. Handlers(new) = [a \in DOMAIN new \ out(new) |-> new[a]]
    BY DEF Handlers, Without, Restrict
  <1> HIDE DEF new
  <1>3. out(new) = {} /\ DOMAIN new = DOMAIN h \ out(h) /\ new = [a \in DOMAIN new |-> new[a]]
    BY <1>1
  <1>4. Handlers(new) = new
    BY <1>2, <1>3
  <1> QED BY <1>4 DEF new

\* What is left of handlers of a document can be written as a sensor's.
LEMMA HandlersRead ==
  ASSUME NEW h, HandlersFit(h) \/ BesideFormula(h) \/ TextsBeside(h) \/ DOMAIN h = {}
  PROVE  HandlersFit(Handlers(h))
  <1>1. /\ DOMAIN Handlers(h) \subseteq DOMAIN h
        /\ \A a \in DOMAIN Handlers(h) : Handlers(h)[a] = h[a]
    BY DEF Handlers, Without, Restrict
  <1>2. \A a \in DOMAIN h : h[a].kind # "incomplete"
    BY DEF HandlersFit, BesideFormula, TextsBeside
  <1> QED BY <1>1, <1>2 DEF HandlersFit

\* A text that says something says something when it is imported.
LEMMA TextNotEmpty ==
  ASSUME NEW config, NEW k, NEW t, WordsGiven(t), ~Empty(t)
  PROVE  ~Empty(ImportedText(config, k, t))
  BY TextImported DEF Kept

\* The names that are left of a text that was looked at are known if they were before.
LEMMA NamesStayDefined ==
  ASSUME NEW config, NEW k, NEW t, NEW w, Kept(config, k, t, w), Clear(config, k, t),
         NEW declared, NamesDefined(t, declared)
  PROVE  NamesDefined(w, declared)
  <1>1. State \in FormulaFunctions
    BY IntegrationConstants
  <1> QED BY <1>1 DEF Kept, NamesDefined, IsFormulaExpression

\* A computed variable or another value as a configuration has it.
ValueSaid(v) ==
  /\ v.kind # "bare" /\ v.nested = TRUE /\ Handlers(v.handlers) = v.handlers
  /\ v.kind = "formula" => ~Empty(v.text) /\ HandlersSaid(v.handlers)

\* Variables that can be written and read again where names are declared.
Scope(variables, declared, globals) ==
  /\ variables = [v \in DOMAIN variables |-> variables[v]] /\ VariablesGiven(variables)
  /\ \A v \in DOMAIN variables : ValueSaid(variables[v])
  /\ VariablesValid(variables, declared)
  /\ ComputedDefined(variables, globals)

\* What is read of variables of a document can be written.
LEMMA ScopeRead ==
  ASSUME NEW variables, VariablesGiven(variables), NEW declared, NEW globals,
         VariablesValid(variables, declared), VariablesReadable(variables),
         ComputedDefined(variables, globals),
         \A v \in DOMAIN variables :
            LET h == variables[v].handlers
            IN  variables[v].kind = "formula" => HandlersFit(h) \/ TextsBeside(h) \/ DOMAIN h = {}
  PROVE  Scope(ReadVariables(variables), declared, globals)
  <1> DEFINE new == ReadVariables(variables)
  <1>1. /\ DOMAIN new = DOMAIN variables /\ VariablesGiven(new)
        /\ \A v \in DOMAIN variables : new[v].kind = variables[v].kind /\ new[v].text = variables[v].text
    BY VariablesRead
  <1>6. new = [v \in DOMAIN new |-> new[v]]
    BY DEF ReadVariables
  <1>2. \A v \in DOMAIN variables : ValueSaid(new[v])
    <2> SUFFICES ASSUME NEW v \in DOMAIN variables PROVE ValueSaid(new[v])
      OBVIOUS
    <2> DEFINE x == variables[v]
    <2>1. new[v] = [x EXCEPT !.handlers = Handlers(x.handlers), !.nested = TRUE]
      BY DEF ReadVariables, ReadVariable
    <2>2. x = [kind |-> x.kind, text |-> x.text, handlers |-> x.handlers, nested |-> x.nested]
      BY DEF VariablesGiven, ValueGiven
    <2>3. /\ x.kind # "bare"
          /\ x.kind = "formula" => ~Empty(x.text) /\ ~CircularHandlers(Handlers(x.handlers))
      BY DEF VariablesReadable
    <2>4. x.kind = "formula" =>
            HandlersFit(x.handlers) \/ TextsBeside(x.handlers) \/ DOMAIN x.handlers = {}
      OBVIOUS
    <2>5. Handlers(Handlers(x.handlers)) = Handlers(x.handlers)
      BY HandlersTwice
    <2> HIDE DEF x, new
    <2>6. new[v] = [kind |-> x.kind, text |-> x.text, handlers |-> Handlers(x.handlers), nested |-> TRUE]
      BY <2>1, <2>2
    <2>7. x.kind = "formula" => HandlersFit(Handlers(x.handlers))
      BY <2>4, HandlersRead
    <2> QED BY <2>3, <2>5, <2>6, <2>7 DEF ValueSaid, HandlersSaid
  <1> HIDE DEF new
  <1>3. VariablesValid(new, declared)
    BY <1>1 DEF VariablesValid, ValueAccepted
  <1>4. ComputedDefined(new, globals)
    BY <1>1 DEF ComputedDefined, ComputedIn
  <1>5. Scope(new, declared, globals)
    BY <1>1, <1>2, <1>3, <1>4, <1>6 DEF Scope
  <1> QED BY <1>5 DEF new

\* So can what is imported of them, of what was looked at.
LEMMA ScopeImported ==
  ASSUME NEW config, NEW k, NEW variables, NEW declared, NEW globals, NEW others,
         Scope(variables, declared, globals), DOMAIN others = DOMAIN globals,
         \A v \in DOMAIN variables : Clear(config, k, variables[v].text)
  PROVE  Scope(ImportedVariables(config, k, variables), declared, others)
  <1> DEFINE new == ImportedVariables(config, k, variables)
  <1>1. State \in FormulaFunctions /\ State \in PlainWords /\ State \in Reserved
    BY IntegrationConstants
  <1>2. DOMAIN new = DOMAIN variables /\ VariablesGiven(new)
    BY VariablesImported DEF Scope
  <1>9. new = [v \in DOMAIN new |-> new[v]]
    BY DEF ImportedVariables
  <1>3. ASSUME NEW v \in DOMAIN variables
        PROVE  LET x == variables[v]
                   words == {"name", "entity"}
               IN  /\ Kept(config, k, x.text, new[v].text)
                   /\ new[v].handlers = x.handlers /\ new[v].nested = x.nested
                   /\ \/ new[v].kind \in words /\ x.kind \in words
                      \/ new[v].kind = x.kind /\ new[v].kind \notin words
    <2>1. ValueGiven(variables[v])
      BY DEF Scope, VariablesGiven
    <2>2. new[v] = ImportedValue(config, k, variables[v])
      BY DEF ImportedVariables
    <2> HIDE DEF new
    <2> QED BY <2>1, <2>2, ValueImported
  <1>4. ASSUME NEW v \in DOMAIN variables
        PROVE  LET x == variables[v]
               IN  /\ WordsGiven(x.text) /\ Clear(config, k, x.text) /\ ValueSaid(x)
                   /\ new[v].text.names \subseteq x.text.names \cup {State}
                   /\ x.kind = "entity" => x.text.names = {}
                   /\ NameAllowed(v) /\ ValueAccepted(x, declared)
                   /\ x.kind = "text" => NamesDefined(x.text, declared)
                   /\ x.kind = "formula" =>
                        /\ x.text.names \subseteq DOMAIN variables \cup DOMAIN globals \cup FormulaFunctions
                        /\ v \notin x.text.names
    <2>1. WordsGiven(variables[v].text)
      BY DEF Scope, VariablesGiven, ValueGiven
    <2>2. new[v].text.names \subseteq variables[v].text.names \cup {State}
      BY <1>3 DEF Kept
    <2>3. variables[v].kind = "entity" => variables[v].text.names = {}
      BY DEF Scope, VariablesGiven, ValueGiven
    <2>4. variables[v].kind = "formula" =>
            /\ variables[v].text.names \subseteq DOMAIN variables \cup DOMAIN globals \cup FormulaFunctions
            /\ v \notin variables[v].text.names
      BY DEF Scope, ComputedDefined, ComputedIn
    <2> QED BY <2>1, <2>2, <2>3, <2>4 DEF Scope, VariablesValid
  <1> HIDE DEF new
  <1>5. ASSUME NEW v \in DOMAIN new PROVE ValueSaid(new[v])
    <2>1. new[v].kind = "formula" => ~Empty(new[v].text)
      <3>1. v \in DOMAIN variables
        BY <1>2
      <3>2. ~Empty(variables[v].text) => ~Empty(new[v].text)
        BY <1>3, <3>1 DEF Kept
      <3>3. new[v].kind = "formula" => variables[v].kind = "formula"
        BY <1>3, <3>1
      <3> QED BY <1>3, <1>4, <3>1, <3>2, <3>3 DEF ValueSaid
    <2> QED BY <1>2, <1>3, <1>4, <2>1 DEF ValueSaid
  <1>6. ASSUME NEW v \in DOMAIN new
        PROVE  /\ NameAllowed(v)
               /\ new[v].kind = "text" => NamesDefined(new[v].text, declared)
               /\ ValueAccepted(new[v], declared)
    <2>1. CASE new[v].kind \in {"name", "entity"} /\ variables[v].kind \in {"name", "entity"}
      <3>1. variables[v].text.names \subseteq declared \cup PlainWords
        BY <1>2, <1>4, <2>1 DEF ValueAccepted, PlainTexts
      <3>2. new[v].text.names \subseteq declared \cup PlainTexts(new[v].text)
        BY <1>1, <1>2, <1>3, <1>4, <3>1 DEF PlainTexts
      <3> QED BY <1>2, <1>4, <2>1, <3>2 DEF ValueAccepted
    <2>2. CASE new[v].kind = variables[v].kind /\ new[v].kind \notin {"name", "entity"}
      <3>1. new[v].kind = "text" => NamesDefined(new[v].text, declared)
        BY <1>2, <1>3, <1>4, <2>2, NamesStayDefined
      <3>2. new[v].kind = "formula" => ~Empty(new[v].text)
        BY <1>5 DEF ValueSaid
      <3> QED BY <1>2, <1>4, <2>2, <3>1, <3>2 DEF ValueAccepted
    <2> QED BY <1>2, <1>3, <2>1, <2>2
  <1>7. ComputedDefined(new, others)
    <2> SUFFICES ASSUME NEW v \in DOMAIN new, new[v].kind = "formula"
                 PROVE  /\ new[v].text.names \subseteq DOMAIN new \cup DOMAIN others \cup FormulaFunctions
                        /\ v \notin new[v].text.names
      BY DEF ComputedDefined, ComputedIn
    <2>1. variables[v].kind = "formula" /\ v # State
      BY <1>1, <1>2, <1>3, <1>4 DEF NameAllowed
    <2> QED BY <1>1, <1>2, <1>3, <1>4, <2>1
  <1>8. Scope(new, declared, others)
    BY <1>2, <1>5, <1>6, <1>7, <1>9 DEF Scope, VariablesValid
  <1> QED BY <1>8 DEF new

-----------------------------------------------------------------------------
(* What is read and imported can be written *)

\* Where fewer names depend on each other, the algorithm gets as far.
LEMMA OrderStays ==
  ASSUME NEW d, IsFiniteSet(DOMAIN d), InOrder(d) = DOMAIN d,
         NEW e, DOMAIN e = DOMAIN d, \A a \in DOMAIN d : e[a] \subseteq d[a]
  PROVE  InOrder(e) = DOMAIN e
  <1> DEFINE last == Cardinality(DOMAIN d)
  <1>1. last \in Nat /\ \E R : Rounds(d, last, R) /\ InOrder(d) = R[last]
    BY InOrderRounds
  <1>2. \E Q : Rounds(e, last, Q) /\ InOrder(e) = Q[last]
    BY InOrderRounds
  <1> HIDE DEF last
  <1>3. PICK R : Rounds(d, last, R) /\ InOrder(d) = R[last]
    BY <1>1
  <1>4. PICK Q : Rounds(e, last, Q) /\ InOrder(e) = Q[last]
    BY <1>2
  <1>5. last \in Nat
    BY <1>1
  <1>6. /\ R[0] = {}
        /\ \A n \in Nat : n + 1 <= last => R[n + 1] = Following(d, R[n])
    BY <1>3, <1>5, RoundSteps
  <1>7. /\ \A n \in Nat : n + 1 <= last => Q[n + 1] = Following(e, Q[n])
        /\ \A n \in 0 .. last : Q[n] \subseteq DOMAIN e
    BY <1>4, <1>5, RoundSteps
  <1>8. ASSUME NEW n \in Nat, n + 1 <= last, R[n] \subseteq Q[n]
        PROVE  R[n + 1] \subseteq Q[n + 1]
    <2>1. R[n + 1] = Following(d, R[n])
      BY <1>6, <1>8
    <2>2. Q[n + 1] = Following(e, Q[n])
      BY <1>7, <1>8
    <2> QED BY <1>8, <2>1, <2>2 DEF Following
  <1> DEFINE T == {n \in Nat : n <= last => R[n] \subseteq Q[n]}
  <1>9. 0 \in T
    BY <1>6
  <1>10. ASSUME NEW n \in T PROVE n + 1 \in T
    <2>1. n + 1 <= last => n <= last
      BY <1>5
    <2> QED BY <1>8, <2>1
  <1>11. T \in SUBSET Nat
    OBVIOUS
  <1>12. T = Nat
    <2> HIDE DEF T
    <2> QED BY <1>9, <1>10, <1>11, Induction
  <1>13. R[last] \subseteq Q[last] /\ Q[last] \subseteq DOMAIN e
    BY <1>5, <1>7, <1>12
  <1> QED BY <1>3, <1>4, <1>13

\* The attributes of a sensor of a configuration, those its formula attributes mention, and
\* what it has to be for it to be written and read again.
NamesOf(s) == DOMAIN s.attributes \cup DOMAIN s.literals

Needs(s) ==
  [a \in NamesOf(s) |->
     IF a \in DOMAIN s.attributes /\ IsFormulaExpression(s.attributes[a].text)
     THEN s.attributes[a].text.names \cap (NamesOf(s) \ {a}) ELSE {}]

AttributeSaid(s, a, outside, globals) ==
  LET own == s.attributes[a]
      declared == outside \cup DOMAIN s.variables \cup DOMAIN own.variables
  IN  /\ ~Empty(own.text) /\ HandlersSaid(own.handlers)
      /\ NamesDefined(own.text, declared \cup {State} \cup (NamesOf(s) \ {a}))
      /\ Scope(own.variables, declared, globals) /\ DOMAIN s.variables \subseteq DOMAIN own.variables

SensorSaid(s, outside, globals) ==
  /\ SensorRead(s) /\ HandlersSaid(s.handlers)
  /\ s.attributes = [a \in DOMAIN s.attributes |-> s.attributes[a]]
  /\ s.literals = [a \in DOMAIN s.literals |-> s.literals[a]]
  /\ ~Empty(s.formula) /\ NamesDefined(s.formula, outside \cup DOMAIN s.variables)
  /\ Scope(s.variables, outside \cup DOMAIN s.variables, globals)
  /\ DeviceClassKnown(s.meta) /\ StateClassFits(s.meta) /\ UnitFits(s.meta)
  /\ DOMAIN s.attributes \cap DOMAIN s.literals = {}
  /\ \A a \in NamesOf(s) : NameAllowed(a) /\ a \notin EngineNames
  /\ \A a \in DOMAIN s.attributes : AttributeSaid(s, a, outside, globals)
  /\ InOrder(Needs(s)) = NamesOf(s)

\* Variables are as valid where more names are declared.
LEMMA MoreDeclared ==
  ASSUME NEW variables, NEW declared, NEW more, declared \subseteq more,
         VariablesValid(variables, declared)
  PROVE  VariablesValid(variables, more)
  BY DEF VariablesValid, ValueAccepted, NamesDefined

\* What is read of a sensor that was accepted can be written.
LEMMA SensorSaidRead ==
  ASSUME NEW doc, Accepted(doc), NEW k \in DOMAIN doc.sensors, SensorGiven(doc.sensors[k])
  PROVE  SensorSaid(ReadSensor(doc, doc.sensors[k]), DOMAIN doc.sensors \cup DOMAIN doc.globals,
                    doc.globals)
  <1> DEFINE s == doc.sensors[k]
             r == ReadSensor(doc, s)
             outside == DOMAIN doc.sensors \cup DOMAIN doc.globals
  <1>1. /\ r.formula = s.formula /\ r.variables = ReadVariables(s.variables)
        /\ r.handlers = Handlers(s.handlers) /\ r.meta = s.meta
        /\ DOMAIN r.attributes = FormulaAttributes(s)
        /\ \A a \in FormulaAttributes(s) : r.attributes[a] = ReadAttribute(s, a)
        /\ DOMAIN r.literals = DOMAIN s.attributes \ FormulaAttributes(s)
        /\ FormulaAttributes(s) \subseteq DOMAIN s.attributes
        /\ r.attributes = [a \in DOMAIN r.attributes |-> r.attributes[a]]
        /\ r.literals = [a \in DOMAIN r.literals |-> r.literals[a]]
    BY DEF ReadSensor, FormulaAttributes
  <1>2. /\ FormulaValid(doc, s) /\ AttributesValid(doc, s) /\ FormulaReadable(doc, s) /\ SensorFits(s)
        /\ \A a \in FormulaAttributes(s) : AttributeReadable(doc, s, a)
        /\ VariablesValid(s.variables, outside \cup DOMAIN s.variables)
        /\ \A a \in FormulaAttributes(s) :
             VariablesValid(s.attributes[a].variables,
               outside \cup DOMAIN s.variables \cup DOMAIN s.attributes[a].variables)
        /\ DeviceClassKnown(s.meta) /\ StateClassFits(s.meta) /\ UnitFits(s.meta)
    BY DEF Accepted, Valid, DocumentFits, MeaningValid, ReferencesValid, Readable
  <1>3. SensorGiven(s) /\ SensorRead(r)
    BY SensorIsRead
  <1> HIDE DEF s, r, outside
  <1>4. VariablesGiven(s.variables) /\ IsFiniteSet(DOMAIN s.attributes)
    BY <1>3 DEF SensorGiven
  <1>5. DOMAIN r.variables = DOMAIN s.variables
    BY <1>1, <1>4, VariablesRead
  <1>6. ~Empty(r.formula) /\ NamesDefined(r.formula, outside \cup DOMAIN r.variables)
    BY <1>1, <1>2, <1>5 DEF FormulaValid, FormulaReadable, outside
  <1>7. HandlersSaid(r.handlers)
    <2>1. HandlersFit(s.handlers) \/ DOMAIN s.handlers = {}
      BY <1>2 DEF SensorFits
    <2>2. ~CircularHandlers(Handlers(s.handlers))
      BY <1>2 DEF FormulaReadable
    <2>3. HandlersFit(Handlers(s.handlers)) /\ Handlers(Handlers(s.handlers)) = Handlers(s.handlers)
      BY <2>1, HandlersTwice, HandlersRead
    <2>4. r.handlers = Handlers(s.handlers)
      BY <1>1
    <2> QED BY <2>2, <2>3, <2>4 DEF HandlersSaid
  <1>8. \A v \in DOMAIN s.variables :
          LET h == s.variables[v].handlers
          IN  s.variables[v].kind = "formula" => HandlersFit(h) \/ TextsBeside(h) \/ DOMAIN h = {}
    BY <1>2 DEF SensorFits, SensorVariableFits
  <1>9. Scope(r.variables, outside \cup DOMAIN r.variables, doc.globals)
    BY <1>1, <1>2, <1>4, <1>5, <1>8, ScopeRead DEF FormulaReadable
  <1>10. NamesOf(r) = DOMAIN s.attributes /\ DOMAIN r.attributes \cap DOMAIN r.literals = {}
    BY <1>1 DEF NamesOf
  <1>11. \A a \in NamesOf(r) : NameAllowed(a) /\ a \notin EngineNames
    BY <1>2, <1>10 DEF AttributesValid
  <1>12. InOrder(Needs(r)) = NamesOf(r)
    <2>1. \A a \in FormulaAttributes(s) : r.attributes[a].text = s.attributes[a].text
      <3> SUFFICES ASSUME NEW a \in FormulaAttributes(s)
                   PROVE  r.attributes[a].text = s.attributes[a].text
        OBVIOUS
      <3>1. r.attributes[a] = ReadAttribute(s, a)
        BY <1>1
      <3> QED BY <3>1 DEF ReadAttribute
    <2>2. Needs(r) = DependsOn(s)
      BY <1>1, <1>10, <2>1 DEF Needs, DependsOn
    <2>3. DOMAIN s.attributes \subseteq InOrder(DependsOn(s))
      BY <1>2 DEF AttributesValid, CircularDependencies, LeftOver
    <2>4. DOMAIN DependsOn(s) = DOMAIN s.attributes
      BY DEF DependsOn
    <2>5. InOrder(DependsOn(s)) \subseteq DOMAIN DependsOn(s)
      <3> DEFINE d == DependsOn(s)
      <3>1. IsFiniteSet(DOMAIN d)
        BY <1>4, <2>4
      <3> HIDE DEF d
      <3>2. PICK last \in Nat : \E R : Rounds(d, last, R) /\ InOrder(d) = R[last]
        BY <3>1, InOrderRounds
      <3>3. InOrder(d) \subseteq DOMAIN d
        BY <3>2 DEF Rounds
      <3> QED BY <3>3 DEF d
    <2> QED BY <1>10, <2>2, <2>3, <2>4, <2>5
  <1>13. ASSUME NEW a \in FormulaAttributes(s) PROVE AttributeSaid(r, a, outside, doc.globals)
    <2> DEFINE own == s.attributes[a]
               around == VariablesOf(s, a)
               declared == outside \cup DOMAIN s.variables \cup DOMAIN own.variables
    <2>1. /\ r.attributes[a].text = own.text /\ r.attributes[a].variables = ReadVariables(around)
          /\ r.attributes[a].handlers = Handlers(own.handlers)
      <3>1. r.attributes[a] = ReadAttribute(s, a)
        BY <1>1
      <3> QED BY <3>1 DEF ReadAttribute
    <2>2. /\ DOMAIN around = DOMAIN own.variables \cup DOMAIN s.variables /\ VariablesGiven(around)
          /\ \A v \in DOMAIN own.variables : around[v] = own.variables[v]
          /\ \A v \in DOMAIN s.variables \ DOMAIN own.variables : around[v] = s.variables[v]
      <3>1. a \in DOMAIN s.attributes
        BY <1>1
      <3> QED BY <1>3, <3>1, VariablesAround DEF VariablesOf, Over
    <2>3. /\ AttributeFits(own) /\ own.kind = "formula"
          /\ \A v \in DOMAIN own.variables : AttributeVariableFits(own.variables[v])
          /\ \A v \in DOMAIN s.variables : SensorVariableFits(s.variables[v])
      BY <1>1, <1>2 DEF SensorFits, AttributesFit, FormulaAttributes
    <2>4. AttributeReadable(doc, s, a) /\ NamesDefined(own.text, KnownTo(doc, s, a))
      BY <1>2 DEF AttributesValid, AttributeValid
    <2>5. VariablesValid(own.variables, declared) /\ VariablesValid(s.variables, declared)
      BY <1>2, MoreDeclared
    <2> HIDE DEF around
    <2>6. VariablesValid(around, declared)
      BY <2>2, <2>5 DEF VariablesValid
    <2>7. \A v \in DOMAIN around :
            LET h == around[v].handlers
            IN  around[v].kind = "formula" => HandlersFit(h) \/ TextsBeside(h) \/ DOMAIN h = {}
      BY <2>2, <2>3 DEF AttributeVariableFits, SensorVariableFits
    <2>8. Scope(ReadVariables(around), declared, doc.globals)
      <3>1. VariablesReadable(around) /\ ComputedDefined(around, doc.globals)
        BY <2>4 DEF AttributeReadable, around
      <3> HIDE DEF declared
      <3> QED BY <2>2, <2>6, <2>7, <3>1, ScopeRead
    <2>9. DOMAIN r.attributes[a].variables = DOMAIN own.variables \cup DOMAIN s.variables
      BY <2>1, <2>2, VariablesRead
    <2>10. HandlersSaid(Handlers(own.handlers))
      <3>1. HandlersFit(own.handlers) \/ BesideFormula(own.handlers) \/ DOMAIN own.handlers = {}
        BY <2>3 DEF AttributeFits
      <3> QED BY <2>4, <3>1, HandlersTwice, HandlersRead DEF HandlersSaid, AttributeReadable
    <2>11. declared = outside \cup DOMAIN r.variables \cup DOMAIN r.attributes[a].variables
      BY <1>5, <2>9
    <2>12. KnownTo(doc, s, a) = declared \cup {State} \cup (NamesOf(r) \ {a})
      BY <1>10 DEF KnownTo, outside
    <2>13. ~Empty(own.text)
      BY <2>4 DEF AttributeReadable
    <2> HIDE DEF declared
    <2> QED BY <1>5, <2>1, <2>4, <2>8, <2>9, <2>10, <2>11, <2>12, <2>13 DEF AttributeSaid
  <1>14. SensorSaid(r, outside, doc.globals)
    BY <1>1, <1>2, <1>3, <1>6, <1>7, <1>9, <1>10, <1>11, <1>12, <1>13 DEF SensorSaid
  <1> QED BY <1>14 DEF r, s, outside

\* The attributes of a sensor that is imported are a function.
LEMMA AttributesImported ==
  ASSUME NEW config, NEW k, SensorRead(config.sensors[k])
  PROVE  LET new == ImportedSensor(config, k).attributes
         IN  new = [a \in DOMAIN config.sensors[k].attributes |-> new[a]]
  <1> DEFINE s == config.sensors[k]
             r == ImportedSensor(config, k)
             attributes == ImportedAttributes(config, k, s.attributes)
  <1>1. r = [s EXCEPT !.entity = IdOf(k, s), !.formula = ImportedText(config, k, s.formula),
                      !.variables = ImportedVariables(config, k, s.variables),
                      !.attributes = attributes, !.literals = ImportedLiterals(config, k, s.literals)]
    BY DEF ImportedSensor
  <1>2. attributes = [a \in DOMAIN s.attributes |-> attributes[a]]
    BY DEF ImportedAttributes
  <1>3. s = [enabled |-> s.enabled, entity |-> s.entity, meta |-> s.meta, device |-> s.device,
             formula |-> s.formula, variables |-> s.variables, handlers |-> s.handlers,
             attributes |-> s.attributes, literals |-> s.literals]
    BY DEF SensorRead
  <1> HIDE DEF s, r, attributes
  <1>4. r.attributes = attributes
    BY <1>1, <1>3
  <1>5. r.attributes = [a \in DOMAIN s.attributes |-> r.attributes[a]]
    BY <1>2, <1>4
  <1> QED BY <1>5 DEF r, s

\* So can what is imported, of what was looked at.
LEMMA SensorSaidImported ==
  ASSUME NEW config, NEW k, NEW outside, NEW globals, NEW others, DOMAIN others = DOMAIN globals,
         LET s == config.sensors[k]
         IN  /\ SensorSaid(s, outside, globals)
             /\ Clear(config, k, s.formula)
             /\ \A v \in DOMAIN s.variables : Clear(config, k, s.variables[v].text)
             /\ \A a \in DOMAIN s.attributes :
                  LET own == s.attributes[a]
                  IN  /\ Clear(config, k, own.text)
                      /\ \A v \in DOMAIN own.variables : Clear(config, k, own.variables[v].text)
  PROVE  SensorSaid(ImportedSensor(config, k), outside, others)
  <1> DEFINE s == config.sensors[k]
             r == ImportedSensor(config, k)
  <1>1. SensorSaid(s, outside, globals)
    OBVIOUS
  <1>2. /\ Clear(config, k, s.formula)
        /\ \A v \in DOMAIN s.variables : Clear(config, k, s.variables[v].text)
        /\ \A a \in DOMAIN s.attributes : Clear(config, k, s.attributes[a].text)
        /\ \A a \in DOMAIN s.attributes : \A v \in DOMAIN s.attributes[a].variables :
             Clear(config, k, s.attributes[a].variables[v].text)
    OBVIOUS
  <1>3. /\ SensorRead(r)
        /\ r.formula = ImportedText(config, k, s.formula)
        /\ r.variables = ImportedVariables(config, k, s.variables)
        /\ r.handlers = s.handlers /\ r.meta = s.meta
        /\ DOMAIN r.literals = DOMAIN s.literals
        /\ r.literals = [a \in DOMAIN s.literals |-> r.literals[a]]
        /\ DOMAIN r.attributes = DOMAIN s.attributes
        /\ r.attributes = [a \in DOMAIN s.attributes |-> r.attributes[a]]
        /\ \A a \in DOMAIN s.attributes :
             /\ r.attributes[a].text = ImportedText(config, k, s.attributes[a].text)
             /\ r.attributes[a].variables = ImportedVariables(config, k, s.attributes[a].variables)
             /\ r.attributes[a].handlers = s.attributes[a].handlers
    <2>1. SensorRead(s)
      BY <1>1 DEF SensorSaid
    <2>2. ImportedLiterals(config, k, s.literals)
            = [a \in DOMAIN s.literals |-> ImportedLiterals(config, k, s.literals)[a]]
      BY DEF ImportedLiterals
    <2>3. r.literals = ImportedLiterals(config, k, s.literals)
      BY <2>1, SensorImported
    <2>4. r.literals = [a \in DOMAIN s.literals |-> r.literals[a]]
      BY <2>2, <2>3
    <2>5. r.attributes = [a \in DOMAIN s.attributes |-> r.attributes[a]]
      BY <2>1, AttributesImported
    <2> QED BY SMTT(30), <2>1, <2>4, <2>5, SensorImported
  <1> HIDE DEF s, r
  <1>4. State \in Reserved /\ State \notin NamesOf(s)
    BY <1>1, IntegrationConstants DEF SensorSaid, NameAllowed
  <1>5. /\ WordsGiven(s.formula)
        /\ \A a \in DOMAIN s.attributes : WordsGiven(s.attributes[a].text)
        /\ IsFiniteSet(NamesOf(s))
    <2>1. IsFiniteSet(DOMAIN s.attributes) /\ IsFiniteSet(DOMAIN s.literals)
      BY <1>1 DEF SensorSaid, SensorRead, SensorGiven
    <2>2. IsFiniteSet(NamesOf(s))
      BY <2>1, FS_Union DEF NamesOf
    <2> QED BY ZenonT(30), <1>1, <2>2 DEF SensorSaid, SensorRead, SensorGiven
  <1>6. DOMAIN r.variables = DOMAIN s.variables /\ NamesOf(r) = NamesOf(s)
    BY <1>3 DEF ImportedVariables, NamesOf
  <1>7. ~Empty(r.formula) /\ NamesDefined(r.formula, outside \cup DOMAIN r.variables)
    <2>1. ~Empty(s.formula) /\ NamesDefined(s.formula, outside \cup DOMAIN s.variables)
      BY <1>1 DEF SensorSaid
    <2>2. ~Empty(ImportedText(config, k, s.formula))
      BY <1>5, <2>1, TextNotEmpty
    <2>3. NamesDefined(ImportedText(config, k, s.formula), outside \cup DOMAIN s.variables)
      BY <1>2, <1>5, <2>1, TextImported, NamesStayDefined
    <2> QED BY <1>3, <1>6, <2>2, <2>3
  <1>8. Scope(r.variables, outside \cup DOMAIN r.variables, others)
    <2> DEFINE declared == outside \cup DOMAIN s.variables
    <2>1. Scope(s.variables, declared, globals)
      BY <1>1 DEF SensorSaid
    <2> HIDE DEF declared
    <2>2. Scope(r.variables, declared, others)
      BY <1>2, <1>3, <2>1, ScopeImported
    <2> QED BY <1>6, <2>2 DEF declared
  <1>9. ASSUME NEW a \in DOMAIN s.attributes PROVE AttributeSaid(r, a, outside, others)
    <2> DEFINE own == s.attributes[a]
               new == r.attributes[a]
               declared == outside \cup DOMAIN s.variables \cup DOMAIN own.variables
    <2>1. /\ ~Empty(own.text) /\ HandlersSaid(own.handlers)
          /\ NamesDefined(own.text, declared \cup {State} \cup (NamesOf(s) \ {a}))
          /\ Scope(own.variables, declared, globals) /\ DOMAIN s.variables \subseteq DOMAIN own.variables
      BY <1>1 DEF SensorSaid, AttributeSaid
    <2>2. /\ WordsGiven(own.text) /\ Clear(config, k, own.text)
          /\ \A v \in DOMAIN own.variables : Clear(config, k, own.variables[v].text)
      BY <1>2, <1>5
    <2>3. /\ new.text = ImportedText(config, k, own.text)
          /\ new.variables = ImportedVariables(config, k, own.variables)
          /\ new.handlers = own.handlers
      BY <1>3
    <2> HIDE DEF own, new
    <2>4. DOMAIN new.variables = DOMAIN own.variables
      BY <2>3 DEF ImportedVariables
    <2>5. declared = outside \cup DOMAIN r.variables \cup DOMAIN new.variables
      BY <1>6, <2>4
    <2> HIDE DEF declared
    <2>6. ~Empty(new.text)
      BY <2>1, <2>2, <2>3, TextNotEmpty
    <2>7. NamesDefined(new.text, declared \cup {State} \cup (NamesOf(s) \ {a}))
      <3>1. Kept(config, k, own.text, new.text)
        BY <2>2, <2>3, TextImported
      <3> QED BY <2>1, <2>2, <3>1, NamesStayDefined
    <2>8. Scope(new.variables, declared, others)
      BY <2>1, <2>2, <2>3, ScopeImported
    <2>9. HandlersSaid(new.handlers) /\ DOMAIN r.variables \subseteq DOMAIN new.variables
      BY <1>6, <2>1, <2>3, <2>4
    <2> QED BY <1>6, <2>5, <2>6, <2>7, <2>8, <2>9 DEF AttributeSaid, new
  <1>10. InOrder(Needs(r)) = NamesOf(r)
    <2> DEFINE d == Needs(s)
               e == Needs(r)
    <2>1. DOMAIN d = NamesOf(s) /\ DOMAIN e = NamesOf(s)
      BY <1>6 DEF Needs
    <2>2. ASSUME NEW a \in NamesOf(s) PROVE e[a] \subseteq d[a]
      <3>1. CASE a \in DOMAIN s.attributes /\ IsFormulaExpression(r.attributes[a].text)
        <4> DEFINE t == s.attributes[a].text
                   w == r.attributes[a].text
        <4>1. WordsGiven(t) /\ Clear(config, k, t) /\ w = ImportedText(config, k, t)
          BY <1>2, <1>3, <1>5, <3>1
        <4>2. IsFormulaExpression(t) /\ w.names \subseteq t.names \cup {State}
          <5> HIDE DEF t, w
          <5>1. /\ w.operators = t.operators /\ w.names \subseteq t.names \cup {State}
                /\ t.operators /\ w.ids = {} => t.ids = {}
            BY <4>1, TextImported DEF Kept
          <5> QED BY <3>1, <5>1 DEF IsFormulaExpression, w
        <4>3. e[a] = w.names \cap (NamesOf(s) \ {a}) /\ d[a] = t.names \cap (NamesOf(s) \ {a})
          BY <1>3, <1>6, <3>1, <4>2 DEF Needs
        <4> QED BY <1>4, <4>2, <4>3
      <3>2. CASE ~(a \in DOMAIN s.attributes /\ IsFormulaExpression(r.attributes[a].text))
        <4>1. e[a] = {}
          BY <1>3, <1>6, <3>2 DEF Needs
        <4> QED BY <4>1
      <3> QED BY <3>1, <3>2
    <2>3. InOrder(d) = DOMAIN d
      BY <1>1, <2>1 DEF SensorSaid
    <2> HIDE DEF d, e
    <2>4. InOrder(e) = DOMAIN e
      BY SMTT(30), <1>5, <2>1, <2>2, <2>3, OrderStays
    <2> QED BY <1>6, <2>1, <2>4 DEF e
  <1>11. SensorSaid(r, outside, others)
    BY <1>1, <1>3, <1>6, <1>7, <1>8, <1>9, <1>10 DEF SensorSaid
  <1> QED BY <1>11 DEF r

-----------------------------------------------------------------------------
(* What is imported is imported once and for all *)

\* After an import a sensor goes by the ids it went by and the same names.
LEMMA IdsTwice ==
  ASSUME NEW config, ConfigGiven(config), IdsApart(Imported(config)), NEW k \in Keys(config)
  PROVE  LET c == Imported(config)
             id(j) == IdOf(j, config.sensors[j])
         IN  /\ Keys(c) = Keys(config)
             /\ \A j \in Keys(config) : IdOf(j, c.sensors[j]) = id(j)
             /\ OwnIds(c, k) = {DefaultId[k], id(k)} /\ OwnIds(c, k) \subseteq OwnIds(config, k)
             /\ OwnNames(c, k) = OwnNames(config, k)
             /\ \A i, j \in Keys(config) : i # j => id(j) \notin {DefaultId[i], id(i)}
  <1> DEFINE c == Imported(config)
             id(j) == IdOf(j, config.sensors[j])
  <1>1. /\ Keys(c) = Keys(config)
        /\ \A j \in Keys(config) : c.sensors[j].entity = id(j) /\ IdOf(j, c.sensors[j]) = id(j)
    <2>1. Keys(c) = Keys(config) /\ \A j \in Keys(config) : c.sensors[j] = ImportedSensor(config, j)
      BY ConfigImported
    <2>2. \A j \in Keys(config) : ImportedSensor(config, j).entity = id(j)
      BY SensorImported DEF ConfigGiven
    <2> QED BY <2>1, <2>2 DEF IdOf
  <1>2. \A i \in Keys(config) : OwnIds(c, i) = {DefaultId[i], id(i)}
    BY <1>1 DEF OwnIds
  <1>3. OwnIds(c, k) \subseteq OwnIds(config, k) /\ OwnIds(c, k) \ {None} = OwnIds(config, k) \ {None}
    BY <1>2 DEF OwnIds, IdOf
  <1>4. OwnNames(c, k) = OwnNames(config, k)
    BY <1>3 DEF OwnNames
  <1>5. \A i, j \in Keys(config) : i # j => id(j) \notin OwnIds(c, i)
    BY <1>1 DEF IdsApart
  <1> QED BY <1>1, <1>2, <1>3, <1>4, <1>5

\* The sensor is left out once and for all.
LEMMA SelfTwice ==
  ASSUME NEW config, NEW k, NEW w, WordsGiven(w), w.ids \cap OwnIds(config, k) = {},
         w.names \cap OwnNames(config, k) \subseteq {State}
  PROVE  WithoutSelf(config, k, w) = w
  <1> DEFINE v == WithoutSelf(config, k, w)
             names == OwnNames(config, k)
             ids == OwnIds(config, k)
  <1>1. CASE NamesItself(config, k, w)
    <2>1. State \in w.names
      BY <1>1 DEF NamesItself
    <2>2. (w.names \ names) \cup {State} = w.names /\ w.ids \ ids = w.ids
      BY <2>1
    <2>3. v = [w EXCEPT !.names = w.names, !.ids = w.ids]
      BY <1>1, <2>2 DEF WithoutSelf
    <2> HIDE DEF v
    <2>4. v = w
      BY <2>3 DEF WordsGiven
    <2> QED BY <2>4 DEF v
  <1>2. CASE ~NamesItself(config, k, w)
    BY <1>2 DEF WithoutSelf
  <1> QED BY <1>1, <1>2

\* A text is imported once and for all where no sensor goes by the entity id of another.
LEMMA TextTwice ==
  ASSUME NEW config, ConfigGiven(config), IdsApart(Imported(config)),
         NEW k \in Keys(config), NEW t, WordsGiven(t)
  PROVE  ImportedText(Imported(config), k, ImportedText(config, k, t)) = ImportedText(config, k, t)
  <1> DEFINE c == Imported(config)
             u == WithoutSelf(config, k, t)
             w == ImportedText(config, k, t)
             x == ImportedText(c, k, w)
             id(j) == IdOf(j, config.sensors[j])
             others == Keys(config) \ {k}
             named == Named(config, k, u)
             meant == Meant(config, k, u)
             gone == {DefaultId[j] : j \in meant}
  <1>1. /\ Keys(c) = Keys(config) /\ \A j \in Keys(config) : IdOf(j, c.sensors[j]) = id(j)
        /\ OwnIds(c, k) = {DefaultId[k], id(k)} /\ OwnIds(c, k) \subseteq OwnIds(config, k)
        /\ OwnNames(c, k) = OwnNames(config, k)
        /\ \A i, j \in Keys(config) : i # j => id(j) \notin {DefaultId[i], id(i)}
    BY IdsTwice
  <1>2. /\ WordsGiven(u) /\ u.ids \cap OwnIds(config, k) = {}
        /\ u.names \cap OwnNames(config, k) \subseteq {State}
    BY SelfImported DEF Kept
  <1>3. /\ named = (u.names \cap others) \ FormulaFunctions
        /\ meant = named \cup {j \in others : DefaultId[j] \in u.ids}
        /\ Entities(config, meant) = {id(j) : j \in meant}
    BY DEF Named, Meant, Entities, Keys
  <1>4. w = [names |-> u.names \ named, ids |-> (u.ids \ gone) \cup Entities(config, meant),
             operators |-> u.operators, literal |-> u.literal]
    <2>1. w = WithEntities(config, k, u)
      BY DEF ImportedText
    <2> HIDE DEF u, w
    <2> QED BY <1>2, <2>1, OthersImported
  <1>5. State \in FormulaFunctions
    BY IntegrationConstants
  <1> DEFINE left == Meant(c, k, w)
  <1>6. x = WithEntities(c, k, WithoutSelf(c, k, w))
    BY DEF ImportedText
  <1>7. Named(c, k, w) = (w.names \cap others) \ FormulaFunctions
        /\ left = Named(c, k, w) \cup {j \in others : DefaultId[j] \in w.ids}
    BY <1>1 DEF Named, Meant, Keys
  <1>8. Entities(c, left) = {id(j) : j \in left}
    <2>1. left \subseteq Keys(config)
      BY <1>7
    <2> HIDE DEF left, c
    <2> QED BY <1>1, <2>1 DEF Entities
  <1>9. gone = {DefaultId[j] : j \in meant}
    OBVIOUS
  <1> HIDE DEF c, u, w, x, id, named, meant, gone, left
  <1>10. /\ w.names = u.names \ named /\ w.ids = (u.ids \ gone) \cup {id(j) : j \in meant}
         /\ WordsGiven(w)
    BY <1>3, <1>4 DEF WordsGiven
  <1>11. WithoutSelf(c, k, w) = w
    <2>1. w.ids \cap OwnIds(c, k) = {}
      <3>1. \A j \in meant : j \in Keys(config) /\ j # k
        BY <1>3
      <3> QED BY <1>1, <1>2, <1>10, <3>1
    <2>2. w.names \cap OwnNames(c, k) \subseteq {State}
      BY <1>1, <1>2, <1>10
    <2> QED BY <1>10, <2>1, <2>2, SelfTwice
  <1>12. Named(c, k, w) = {}
    BY <1>3, <1>7, <1>10
  <1>13. ASSUME NEW j \in left PROVE id(j) = DefaultId[j] /\ id(j) \in w.ids
    <2>1. j \in others /\ DefaultId[j] \in w.ids
      BY <1>7, <1>12
    <2>2. DefaultId[j] \notin u.ids \ gone
      BY <1>3, <1>9, <2>1
    <2>3. PICK i \in meant : DefaultId[j] = id(i)
      BY <1>10, <2>1, <2>2
    <2>4. i = j
      BY <1>1, <1>3, <2>1, <2>3
    <2> QED BY <2>1, <2>3, <2>4
  <1> DEFINE out == {DefaultId[j] : j \in left}
  <1>14. (w.ids \ out) \cup Entities(c, left) = w.ids
    BY <1>8, <1>13
  <1>15. x = [names |-> w.names \ Named(c, k, w), ids |-> (w.ids \ out) \cup Entities(c, left),
              operators |-> w.operators, literal |-> w.literal]
    BY <1>6, <1>10, <1>11, OthersImported DEF left
  <1> HIDE DEF out
  <1>16. x = w
    <2>1. w.names \ Named(c, k, w) = w.names
      BY <1>12
    <2> QED BY <1>10, <1>14, <1>15, <2>1 DEF WordsGiven
  <1> QED BY <1>16 DEF x, w, c

\* So is a value.
LEMMA ValueTwice ==
  ASSUME NEW config, ConfigGiven(config), IdsApart(Imported(config)),
         NEW k \in Keys(config), NEW v, ValueGiven(v)
  PROVE  ImportedValue(Imported(config), k, ImportedValue(config, k, v)) = ImportedValue(config, k, v)
  <1> DEFINE c == Imported(config)
             t == WithoutSelf(config, k, v.text)
             key == t.names \cap (Keys(config) \ {k})
             id(j) == IdOf(j, config.sensors[j])
             x == ImportedValue(config, k, v)
             y == ImportedValue(c, k, x)
             w == x.text
             left == WithoutSelf(c, k, w).names \cap (Keys(c) \ {k})
  <1>1. /\ Keys(c) = Keys(config)
        /\ OwnIds(c, k) = {DefaultId[k], id(k)} /\ OwnIds(c, k) \subseteq OwnIds(config, k)
        /\ OwnNames(c, k) = OwnNames(config, k)
        /\ \A i, j \in Keys(config) : i # j => id(j) \notin {DefaultId[i], id(i)}
    BY IdsTwice
  <1>2. /\ WordsGiven(t) /\ t.ids \cap OwnIds(config, k) = {}
        /\ t.names \cap OwnNames(config, k) \subseteq {State}
    BY SelfImported DEF ValueGiven, Kept
  <1>3. x = [kind |-> KindOf(config, k, v), text |-> TextOf(config, k, v),
             handlers |-> v.handlers, nested |-> v.nested]
    BY ValueParts
  <1>4. /\ ValueGiven(x)
        /\ \/ x.kind \in {"name", "entity"} /\ v.kind \in {"name", "entity"}
           \/ x.kind = v.kind /\ x.kind \notin {"name", "entity"}
    BY ValueImported
  <1>5. y = [kind |-> KindOf(c, k, x), text |-> TextOf(c, k, x),
             handlers |-> x.handlers, nested |-> x.nested]
    BY <1>4, ValueParts
  <1>6. /\ v.kind \notin {"name", "entity"} => w = t
        /\ v.kind \in {"name", "entity"} =>
             w.names = t.names \ key /\ w.ids = t.ids \cup Entities(config, key)
    <2>1. w = TextOf(config, k, v)
      BY <1>3
    <2> HIDE DEF w, t
    <2> QED BY <2>1 DEF TextOf, Keys, t
  <1>7. WithoutSelf(c, k, w) = w
    <2>1. WordsGiven(w)
      BY <1>4 DEF ValueGiven
    <2>2. Entities(config, key) = {id(j) : j \in key} /\ key \subseteq Keys(config) \ {k}
      BY DEF Entities
    <2> HIDE DEF c, t, x, w, key, id
    <2>3. Entities(config, key) \cap OwnIds(c, k) = {}
      BY <1>1, <2>2
    <2>4. w.ids \cap OwnIds(c, k) = {}
      BY <1>1, <1>2, <1>4, <1>6, <2>3
    <2>5. w.names \cap OwnNames(c, k) \subseteq {State}
      BY <1>1, <1>2, <1>4, <1>6
    <2> QED BY <2>1, <2>4, <2>5, SelfTwice
  <1>8. /\ KindOf(c, k, x) = IF x.kind \notin {"name", "entity"} THEN x.kind
                             ELSE IF left # {} \/ w.ids # {} THEN "entity" ELSE "name"
        /\ TextOf(c, k, x) = IF x.kind \notin {"name", "entity"} THEN w
                             ELSE [names |-> w.names \ left, ids |-> w.ids \cup Entities(c, left),
                                   operators |-> w.operators, literal |-> w.literal]
    <2> HIDE DEF c, x
    <2> QED BY <1>7 DEF KindOf, TextOf, Keys
  <1>9. x.kind \in {"name", "entity"} => left = {}
    <2>1. left = w.names \cap (Keys(config) \ {k})
      BY <1>1, <1>7
    <2> HIDE DEF c, t, x, w, left
    <2> QED BY <1>4, <1>6, <2>1
  <1>10. left = {} => Entities(c, left) = {}
    BY DEF Entities
  <1> HIDE DEF c, t, x, y, w, left
  <1>11. WordsGiven(w) /\ OneWord(x.kind, w)
    BY <1>4 DEF ValueGiven, OneWord, w
  <1>12. TextOf(c, k, x) = w
    <2>1. left = {} => w.names \ left = w.names /\ w.ids \cup Entities(c, left) = w.ids
      BY <1>10
    <2> QED BY <1>8, <1>9, <1>11, <2>1 DEF WordsGiven
  <1>13. KindOf(c, k, x) = x.kind
    BY <1>8, <1>9, <1>11 DEF OneWord
  <1>14. y = x
    BY <1>4, <1>5, <1>12, <1>13 DEF ValueGiven, w
  <1> QED BY <1>14 DEF y, x, c

\* So are variables.
LEMMA VariablesTwice ==
  ASSUME NEW config, ConfigGiven(config), IdsApart(Imported(config)),
         NEW k \in Keys(config), NEW variables, VariablesGiven(variables)
  PROVE  ImportedVariables(Imported(config), k, ImportedVariables(config, k, variables))
           = ImportedVariables(config, k, variables)
  <1> DEFINE c == Imported(config)
             new == ImportedVariables(config, k, variables)
  <1>1. new = [v \in DOMAIN variables |-> ImportedValue(config, k, variables[v])]
    BY DEF ImportedVariables
  <1>2. \A v \in DOMAIN variables : ValueGiven(variables[v])
    BY DEF VariablesGiven
  <1>3. ImportedVariables(c, k, new) = [v \in DOMAIN new |-> ImportedValue(c, k, new[v])]
    BY DEF ImportedVariables
  <1>4. \A v \in DOMAIN variables :
          ImportedValue(c, k, ImportedValue(config, k, variables[v])) = ImportedValue(config, k, variables[v])
    BY <1>2, ValueTwice
  <1> HIDE DEF new, c
  <1>5. ImportedVariables(c, k, new) = new
    BY <1>1, <1>3, <1>4
  <1> QED BY <1>5 DEF c, new

\* So is a sensor.
LEMMA SensorTwice ==
  ASSUME NEW config, ConfigGiven(config), IdsApart(Imported(config)), NEW k \in Keys(config)
  PROVE  ImportedSensor(Imported(config), k) = ImportedSensor(config, k)
  <1> DEFINE c == Imported(config)
             s == config.sensors[k]
             r == ImportedSensor(config, k)
             x == ImportedSensor(c, k)
  <1>1. c.sensors[k] = r
    BY ConfigImported
  <1>2. SensorRead(s) /\ SensorRead(r)
    BY SensorImported DEF ConfigGiven
  <1>3. /\ r.entity = IdOf(k, s)
        /\ r.formula = ImportedText(config, k, s.formula)
        /\ r.variables = ImportedVariables(config, k, s.variables)
        /\ r.literals = ImportedLiterals(config, k, s.literals)
        /\ DOMAIN r.attributes = DOMAIN s.attributes
        /\ \A a \in DOMAIN s.attributes :
             /\ r.attributes[a].text = ImportedText(config, k, s.attributes[a].text)
             /\ r.attributes[a].variables = ImportedVariables(config, k, s.attributes[a].variables)
    BY <1>2, SensorImported
  <1>4. r.attributes = [a \in DOMAIN s.attributes |-> r.attributes[a]]
    BY <1>2, AttributesImported
  <1>5. x = [r EXCEPT !.entity = IdOf(k, r), !.formula = ImportedText(c, k, r.formula),
                      !.variables = ImportedVariables(c, k, r.variables),
                      !.attributes = ImportedAttributes(c, k, r.attributes),
                      !.literals = ImportedLiterals(c, k, r.literals)]
    BY <1>1 DEF ImportedSensor
  <1>6. \A t : WordsGiven(t) => ImportedText(c, k, ImportedText(config, k, t)) = ImportedText(config, k, t)
    BY TextTwice
  <1>7. \A variables : VariablesGiven(variables) =>
          ImportedVariables(c, k, ImportedVariables(config, k, variables))
            = ImportedVariables(config, k, variables)
    BY VariablesTwice
  <1> HIDE DEF c, s, r, x
  <1>8. /\ WordsGiven(s.formula) /\ VariablesGiven(s.variables)
        /\ \A a \in DOMAIN s.attributes :
             WordsGiven(s.attributes[a].text) /\ VariablesGiven(s.attributes[a].variables)
        /\ \A a \in DOMAIN s.literals : WordsGiven(s.literals[a])
    BY <1>2 DEF SensorRead, SensorGiven
  <1>9. IdOf(k, r) = r.entity
    BY <1>3 DEF IdOf
  <1>10. ImportedText(c, k, r.formula) = r.formula
    BY <1>3, <1>6, <1>8
  <1>11. ImportedVariables(c, k, r.variables) = r.variables
    BY <1>3, <1>7, <1>8
  <1>12. ImportedLiterals(c, k, r.literals) = r.literals
    <2> DEFINE new == r.literals
    <2>1. new = [a \in DOMAIN s.literals |-> ImportedText(config, k, s.literals[a])]
      BY <1>3 DEF ImportedLiterals
    <2>2. ImportedLiterals(c, k, new) = [a \in DOMAIN new |-> ImportedText(c, k, new[a])]
      BY DEF ImportedLiterals
    <2> HIDE DEF new
    <2>3. DOMAIN new = DOMAIN s.literals
          /\ \A a \in DOMAIN s.literals : ImportedText(c, k, new[a]) = ImportedText(config, k, s.literals[a])
      BY <1>6, <1>8, <2>1
    <2>4. ImportedLiterals(c, k, new) = new
      BY <2>1, <2>2, <2>3
    <2> QED BY <2>4 DEF new
  <1>13. ImportedAttributes(c, k, r.attributes) = r.attributes
    <2> DEFINE new == r.attributes
    <2>1. new = [a \in DOMAIN s.attributes |-> new[a]] /\ DOMAIN new = DOMAIN s.attributes
      BY <1>3, <1>4
    <2>2. ImportedAttributes(c, k, new)
            = [a \in DOMAIN new |-> [new[a] EXCEPT !.text = ImportedText(c, k, new[a].text),
                                       !.variables = ImportedVariables(c, k, new[a].variables)]]
      BY DEF ImportedAttributes
    <2>3. ASSUME NEW a \in DOMAIN s.attributes
          PROVE  [new[a] EXCEPT !.text = ImportedText(c, k, new[a].text),
                                !.variables = ImportedVariables(c, k, new[a].variables)] = new[a]
      <3> DEFINE own == new[a]
                 y == [own EXCEPT !.text = ImportedText(c, k, own.text),
                                  !.variables = ImportedVariables(c, k, own.variables)]
      <3>1. ImportedText(c, k, own.text) = own.text
            /\ ImportedVariables(c, k, own.variables) = own.variables
        BY <1>3, <1>6, <1>7, <1>8
      <3>2. own = [text |-> own.text, variables |-> own.variables, handlers |-> own.handlers]
        BY <1>2, <2>1 DEF SensorRead
      <3>3. y = [own EXCEPT !.text = own.text, !.variables = own.variables]
        BY <3>1
      <3> HIDE DEF own, y
      <3>4. y = own
        BY <3>2, <3>3
      <3> QED BY <3>4 DEF y, own
    <2> HIDE DEF new
    <2>4. ImportedAttributes(c, k, new) = new
      BY <2>1, <2>2, <2>3
    <2> QED BY <2>4 DEF new
  <1>14. x = [r EXCEPT !.entity = r.entity, !.formula = r.formula, !.variables = r.variables,
                       !.attributes = r.attributes, !.literals = r.literals]
    BY <1>5, <1>9, <1>10, <1>11, <1>12, <1>13
  <1>15. r = [enabled |-> r.enabled, entity |-> r.entity, meta |-> r.meta, device |-> r.device,
              formula |-> r.formula, variables |-> r.variables, handlers |-> r.handlers,
              attributes |-> r.attributes, literals |-> r.literals]
    BY <1>2 DEF SensorRead
  <1>16. x = r
    BY <1>14, <1>15
  <1> QED BY <1>16 DEF x, r, c

\* What is imported is imported once and for all where no sensor goes by the id of another.
LEMMA ConfigTwice ==
  ASSUME NEW config, ConfigGiven(config), IdsApart(Imported(config))
  PROVE  Imported(Imported(config)) = Imported(config)
  <1> DEFINE c == Imported(config)
             x == Imported(c)
  <1>1. ConfigGiven(c) /\ Keys(c) = Keys(config)
        /\ \A k \in Keys(config) : c.sensors[k] = ImportedSensor(config, k)
    BY ConfigImported
  <1>2. x = [c EXCEPT !.globals = ImportedGlobals(c),
                      !.sensors = [k \in DOMAIN c.sensors |-> ImportedSensor(c, k)]]
    BY DEF Imported
  <1>3. /\ c.sensors = [k \in DOMAIN config.sensors |-> ImportedSensor(config, k)]
        /\ c.globals = ImportedGlobals(config)
    <2>1. config = [device |-> config.device, globals |-> config.globals, sensors |-> config.sensors]
      BY DEF ConfigGiven
    <2>2. c = [config EXCEPT !.globals = ImportedGlobals(config),
                 !.sensors = [k \in DOMAIN config.sensors |-> ImportedSensor(config, k)]]
      BY DEF Imported
    <2> HIDE DEF c
    <2> QED BY <2>1, <2>2
  <1>4. \A k \in Keys(config) : ImportedSensor(c, k) = ImportedSensor(config, k)
    BY SensorTwice
  <1>5. ImportedGlobals(c) = c.globals
    <2> DEFINE new == c.globals
    <2>1. new = [v \in DOMAIN new |-> new[v]]
      BY <1>3 DEF ImportedGlobals
    <2>2. \A v \in DOMAIN new : new[v].kind = "name" => new[v].text.names \cap DOMAIN c.sensors = {}
      <3>1. DOMAIN c.sensors = Keys(config)
        BY <1>1 DEF Keys
      <3>2. \A v \in DOMAIN ImportedGlobals(config) :
              ImportedGlobals(config)[v].kind = "name" =>
                ImportedGlobals(config)[v].text.names \cap Keys(config) = {}
        BY GlobalsImported DEF ConfigGiven
      <3> QED BY <1>3, <3>1, <3>2
    <2>3. \A v \in DOMAIN new : ImportedGlobals(c)[v] = new[v] /\ DOMAIN ImportedGlobals(c) = DOMAIN new
      BY ZenonT(30), <2>2 DEF ImportedGlobals
    <2>4. ImportedGlobals(c) = [v \in DOMAIN new |-> ImportedGlobals(c)[v]]
      BY DEF ImportedGlobals
    <2> QED BY <2>1, <2>3, <2>4
  <1> HIDE DEF c, x
  <1>6. [k \in DOMAIN c.sensors |-> ImportedSensor(c, k)] = c.sensors
    BY <1>1, <1>3, <1>4 DEF Keys
  <1>7. x = [c EXCEPT !.globals = c.globals, !.sensors = c.sensors]
    BY <1>2, <1>5, <1>6
  <1>8. x = c
    BY <1>1, <1>7 DEF ConfigGiven
  <1> QED BY <1>8 DEF x, c

-----------------------------------------------------------------------------
(* What is written is read as it was *)

\* The document of what is written has each sensor once.
LEMMA DocumentExported ==
  ASSUME NEW config, ConfigGiven(config)
  PROVE  LET doc == Document(Exported(config))
         IN  /\ ~DuplicateKeys(Exported(config))
             /\ doc.version = "1.0" /\ doc.device = config.device /\ doc.globals = config.globals
             /\ doc.sensors = [k \in Keys(config) |-> WrittenSensor(config, k)]
  <1> DEFINE S == Keys(config)
             keys == SetToSeq(S)
             n == Cardinality(S)
             text == Exported(config)
             q == text.sensors
             at(k) == CHOOSE i \in DOMAIN q :
                        q[i].key = k /\ \A j \in DOMAIN q : q[j].key = k => j <= i
  <1>1. /\ keys \in [1 .. n -> S] /\ n \in Nat
        /\ \A i, j \in 1 .. n : keys[i] = keys[j] => i = j
        /\ \A k \in S : \E i \in 1 .. n : keys[i] = k
    BY MembersInSequence DEF ConfigGiven
  <1>2. q = [i \in DOMAIN keys |-> WrittenSensor(config, keys[i])]
    BY DEF Exported, Keys
  <1>3. \A k : WrittenSensor(config, k).key = k
    BY DEF WrittenSensor
  <1>4. Document(text).sensors = [k \in {q[i].key : i \in DOMAIN q} |-> q[at(k)]]
    BY ZenonT(30) DEF Document, KeysOf, Range
  <1>5. DuplicateKeys(text) => \E i, j \in DOMAIN q : i # j /\ q[i].key = q[j].key
    BY DEF DuplicateKeys, KeysOf
  <1>6. /\ Document(text).version = "1.0" /\ Document(text).device = config.device
        /\ Document(text).globals = config.globals
    BY DEF Document, Exported
  <1> HIDE DEF S, keys, n, text
  <1>7. DOMAIN q = 1 .. n /\ \A i \in 1 .. n : q[i] = WrittenSensor(config, keys[i]) /\ q[i].key = keys[i]
    BY <1>1, <1>2, <1>3
  <1>8. {q[i].key : i \in DOMAIN q} = S
    BY <1>1, <1>7
  <1>9. ASSUME NEW k \in S PROVE q[at(k)] = WrittenSensor(config, k)
    <2>1. PICK i \in 1 .. n : keys[i] = k
      BY <1>1
    <2>2. i \in DOMAIN q /\ q[i].key = k /\ \A j \in DOMAIN q : q[j].key = k => j <= i
      BY <1>1, <1>7, <2>1
    <2>3. at(k) \in DOMAIN q /\ q[at(k)].key = k
      BY <2>2
    <2>4. keys[at(k)] = k
      BY <1>7, <2>3
    <2> QED BY <1>7, <2>3, <2>4
  <1>10. ~DuplicateKeys(text)
    BY <1>1, <1>5, <1>7
  <1>11. Document(text).sensors = [k \in S |-> WrittenSensor(config, k)]
    BY <1>4, <1>8, <1>9
  <1> QED BY <1>6, <1>10, <1>11 DEF text, S

\* Variables that can be written are read as they were.
LEMMA ScopeWritten ==
  ASSUME NEW variables, NEW declared, NEW globals, Scope(variables, declared, globals)
  PROVE  /\ WrittenVariables(variables) = variables /\ ReadVariables(variables) = variables
         /\ VariablesReadable(variables)
         /\ \A v \in DOMAIN variables : SensorVariableFits(variables[v])
  <1>1. ASSUME NEW v \in DOMAIN variables
        PROVE  /\ [variables[v] EXCEPT !.handlers = WrittenHandlers(variables[v].handlers)] = variables[v]
               /\ ReadVariable(variables[v]) = variables[v]
    <2> DEFINE x == variables[v]
               y == [x EXCEPT !.handlers = WrittenHandlers(x.handlers)]
               z == ReadVariable(x)
    <2>1. /\ x = [kind |-> x.kind, text |-> x.text, handlers |-> x.handlers, nested |-> x.nested]
          /\ x.nested = TRUE /\ Handlers(x.handlers) = x.handlers
      BY DEF Scope, VariablesGiven, ValueGiven, ValueSaid
    <2>2. y = [x EXCEPT !.handlers = x.handlers]
      BY DEF WrittenHandlers
    <2>3. z = [x EXCEPT !.handlers = x.handlers, !.nested = TRUE]
      BY <2>1 DEF ReadVariable
    <2> HIDE DEF x, y, z
    <2>4. y = x /\ z = x
      BY <2>1, <2>2, <2>3
    <2> QED BY <2>4 DEF x, y, z
  <1>2. WrittenVariables(variables) = variables /\ ReadVariables(variables) = variables
    <2>1. variables = [v \in DOMAIN variables |-> variables[v]]
      BY DEF Scope
    <2>2. WrittenVariables(variables) = [v \in DOMAIN variables |-> variables[v]]
      BY <1>1 DEF WrittenVariables
    <2>3. ReadVariables(variables) = [v \in DOMAIN variables |-> variables[v]]
      BY <1>1 DEF ReadVariables
    <2> QED BY <2>1, <2>2, <2>3
  <1>3. VariablesReadable(variables)
    BY DEF VariablesReadable, Scope, ValueSaid, HandlersSaid
  <1>4. \A v \in DOMAIN variables : SensorVariableFits(variables[v])
    BY DEF SensorVariableFits, Scope, ValueSaid, HandlersSaid
  <1> QED BY <1>2, <1>3, <1>4

\* An attribute that can be written, and is not taken for a literal, is read as it was.
LEMMA AttributeWritten ==
  ASSUME NEW s, NEW a \in DOMAIN s.attributes, NEW outside, NEW globals,
         AttributeSaid(s, a, outside, globals), Scope(s.variables, outside \cup DOMAIN s.variables, globals),
         ~TakenForLiteral(s.attributes[a]),
         LET own == s.attributes[a]
         IN  /\ own = [text |-> own.text, variables |-> own.variables, handlers |-> own.handlers]
             /\ \A v \in ComputedIn(own.variables) :
                  v \in DOMAIN s.variables /\ own.variables[v] = s.variables[v]
  PROVE  LET own == s.attributes[a]
             w == WrittenAttribute(own)
         IN  /\ w.kind = "formula" /\ w.text = own.text /\ w.handlers = own.handlers
             /\ DOMAIN w.variables \subseteq DOMAIN own.variables
             /\ DOMAIN own.variables = DOMAIN w.variables \cup DOMAIN s.variables
             /\ Over(w.variables, s.variables) = own.variables
             /\ AttributeFits(w) /\ \A v \in DOMAIN w.variables : AttributeVariableFits(w.variables[v])
             /\ VariablesValid(w.variables, outside \cup DOMAIN s.variables \cup DOMAIN w.variables)
  <1> DEFINE own == s.attributes[a]
             w == WrittenAttribute(own)
             left == DOMAIN own.variables \ ComputedIn(own.variables)
             declared == outside \cup DOMAIN s.variables \cup DOMAIN own.variables
  <1>1. /\ ~Empty(own.text) /\ HandlersSaid(own.handlers)
        /\ Scope(own.variables, declared, globals) /\ DOMAIN s.variables \subseteq DOMAIN own.variables
    BY DEF AttributeSaid
  <1>2. \A v \in DOMAIN own.variables \ left : v \in DOMAIN s.variables /\ own.variables[v] = s.variables[v]
    OBVIOUS
  <1>3. /\ w.kind = "formula" /\ w.text = own.text /\ w.handlers = own.handlers /\ w.nested = TRUE
        /\ w.variables = Without(own.variables, ComputedIn(own.variables))
    BY DEF WrittenAttribute, WrittenHandlers
  <1>4. /\ left \subseteq DOMAIN own.variables
        /\ \A v \in left : own.variables[v].kind # "formula"
    BY DEF ComputedIn
  <1>5. w.variables = [v \in left |-> own.variables[v]]
    BY <1>3 DEF Without, Restrict
  <1> HIDE DEF own, w, left
  <1>6. DOMAIN w.variables = left /\ \A v \in left : w.variables[v] = own.variables[v]
    BY <1>5
  <1>7. DOMAIN own.variables = DOMAIN w.variables \cup DOMAIN s.variables
    BY <1>1, <1>2, <1>4, <1>6
  <1>8. declared = outside \cup DOMAIN s.variables \cup DOMAIN w.variables
    BY <1>7
  <1> HIDE DEF declared
  <1>9. Over(w.variables, s.variables) = own.variables
    <2>1. own.variables = [v \in DOMAIN own.variables |-> own.variables[v]]
      BY <1>1 DEF Scope
    <2>2. Over(w.variables, s.variables)
            = [v \in DOMAIN own.variables |-> IF v \in left THEN w.variables[v] ELSE s.variables[v]]
      BY <1>6, <1>7 DEF Over
    <2>3. \A v \in DOMAIN own.variables :
            (IF v \in left THEN w.variables[v] ELSE s.variables[v]) = own.variables[v]
      BY <1>2, <1>6
    <2> QED BY <2>1, <2>2, <2>3
  <1>10. AttributeFits(w)
    BY <1>1, <1>3 DEF AttributeFits, HandlersSaid
  <1>11. \A v \in DOMAIN w.variables : AttributeVariableFits(w.variables[v])
    BY <1>1, <1>4, <1>6 DEF AttributeVariableFits, Scope, ValueSaid
  <1>12. VariablesValid(w.variables, declared)
    <2>1. VariablesValid(own.variables, declared)
      BY <1>1 DEF Scope
    <2> QED BY <1>4, <1>6, <2>1 DEF VariablesValid
  <1> QED BY <1>3, <1>4, <1>6, <1>7, <1>8, <1>9, <1>10, <1>11, <1>12 DEF own, w

\* A document with what is written of the sensors of a configuration.
Written(doc, config) ==
  /\ doc.version = "1.0" /\ doc.device = config.device /\ doc.globals = config.globals
  /\ doc.sensors = [k \in Keys(config) |-> WrittenSensor(config, k)]

Outside(config) == Keys(config) \cup DOMAIN config.globals

\* A sensor that a document can say is one of a configuration.
LEMMA SensorOfSaid ==
  ASSUME NEW s, NEW outside, NEW globals, SensorSaid(s, outside, globals)
  PROVE  /\ s.enabled \in BOOLEAN /\ HandlersSaid(s.handlers)
         /\ s = [enabled |-> s.enabled, entity |-> s.entity, meta |-> s.meta, device |-> s.device,
                 formula |-> s.formula, variables |-> s.variables, handlers |-> s.handlers,
                 attributes |-> s.attributes, literals |-> s.literals]
         /\ s.attributes = [a \in DOMAIN s.attributes |-> s.attributes[a]]
         /\ s.literals = [a \in DOMAIN s.literals |-> s.literals[a]]
  <1>1. /\ SensorRead(s) /\ HandlersSaid(s.handlers)
        /\ s.attributes = [a \in DOMAIN s.attributes |-> s.attributes[a]]
        /\ s.literals = [a \in DOMAIN s.literals |-> s.literals[a]]
    BY Zenon DEF SensorSaid
  <1>2. /\ SensorGiven(s)
        /\ s = [enabled |-> s.enabled, entity |-> s.entity, meta |-> s.meta, device |-> s.device,
                formula |-> s.formula, variables |-> s.variables, handlers |-> s.handlers,
                attributes |-> s.attributes, literals |-> s.literals]
    BY Zenon, <1>1 DEF SensorRead
  <1>3. s.enabled \in BOOLEAN
    BY Zenon, <1>2 DEF SensorGiven
  <1> QED BY Zenon, <1>1, <1>2, <1>3

\* What is written of a sensor is accepted and read as the sensor.
LEMMA SensorComesBack ==
  ASSUME NEW config, Writable(config), NEW doc, Written(doc, config), NEW k \in Keys(config),
         LET s == config.sensors[k]
         IN  /\ SensorSaid(s, Outside(config), config.globals)
             /\ s.device = config.device \/ s.device \notin {None, "null"}
  PROVE  LET w == WrittenSensor(config, k)
         IN  /\ SensorFits(w) /\ DeviceClassKnown(w.meta) /\ StateClassFits(w.meta) /\ UnitFits(w.meta)
             /\ FormulaValid(doc, w) /\ AttributesValid(doc, w)
             /\ VariablesValid(w.variables, Outside(config) \cup DOMAIN w.variables)
             /\ \A a \in FormulaAttributes(w) :
                  /\ VariablesValid(w.attributes[a].variables,
                       Outside(config) \cup DOMAIN w.variables \cup DOMAIN w.attributes[a].variables)
                  /\ AttributeReadable(doc, w, a)
             /\ FormulaReadable(doc, w)
             /\ ReadSensor(doc, w) = config.sensors[k]
  <1> DEFINE s == config.sensors[k]
             w == WrittenSensor(config, k)
             outside == Outside(config)
  <1>1. SensorSaid(s, outside, config.globals)
    OBVIOUS
  <1>2. /\ s.enabled
        /\ \A a \in DOMAIN s.attributes :
             /\ ~TakenForLiteral(s.attributes[a])
             /\ \A v \in ComputedIn(s.attributes[a].variables) :
                  v \in DOMAIN s.variables /\ s.attributes[a].variables[v] = s.variables[v]
             /\ DOMAIN s.attributes[a].variables \cap DOMAIN s.literals = {}
    BY DEF Writable, TakenForLiteral
  <1>3. /\ w.enabled = TRUE /\ w.unknownField = FALSE /\ w.entity = s.entity
        /\ w.device = WrittenDevice(config, s) /\ w.meta = s.meta /\ w.formula = s.formula
        /\ w.variables = WrittenVariables(s.variables) /\ w.handlers = s.handlers /\ w.nested = TRUE
        /\ w.attributes = WrittenAttributes(s)
    BY DEF WrittenSensor, WrittenHandlers
  <1>4. DOMAIN doc.sensors = Keys(config) /\ doc.globals = config.globals /\ doc.device = config.device
    BY DEF Written
  <1>5. s.device = config.device \/ s.device \notin {None, "null"}
    OBVIOUS
  <1> HIDE DEF s, w, outside
  <1>6. Scope(s.variables, outside \cup DOMAIN s.variables, config.globals)
    BY <1>1 DEF SensorSaid
  <1>7. /\ w.variables = s.variables /\ ReadVariables(w.variables) = s.variables
        /\ VariablesReadable(w.variables)
        /\ \A v \in DOMAIN w.variables : SensorVariableFits(w.variables[v])
    <2> DEFINE declared == outside \cup DOMAIN s.variables
    <2>1. Scope(s.variables, declared, config.globals)
      BY <1>6
    <2> HIDE DEF declared
    <2> QED BY <1>3, <2>1, ScopeWritten
  <1>8. /\ DOMAIN w.attributes = NamesOf(s)
        /\ \A a \in DOMAIN s.attributes : w.attributes[a] = WrittenAttribute(s.attributes[a])
        /\ \A a \in DOMAIN s.literals : w.attributes[a] = WrittenLiteral(s.literals[a])
    <2>1. DOMAIN s.attributes \cap DOMAIN s.literals = {}
      BY <1>1 DEF SensorSaid
    <2> QED BY <1>3, <2>1 DEF WrittenAttributes, Over, NamesOf
  <1>9. ASSUME NEW a \in DOMAIN s.attributes
        PROVE  /\ AttributeSaid(s, a, outside, config.globals)
               /\ w.attributes[a].kind = "formula" /\ w.attributes[a].text = s.attributes[a].text
               /\ w.attributes[a].handlers = s.attributes[a].handlers
               /\ DOMAIN w.attributes[a].variables \subseteq DOMAIN s.attributes[a].variables
               /\ DOMAIN s.attributes[a].variables
                    = DOMAIN w.attributes[a].variables \cup DOMAIN s.variables
               /\ VariablesOf(w, a) = s.attributes[a].variables
               /\ AttributeFits(w.attributes[a])
               /\ \A v \in DOMAIN w.attributes[a].variables :
                    AttributeVariableFits(w.attributes[a].variables[v])
               /\ VariablesValid(w.attributes[a].variables,
                    outside \cup DOMAIN s.variables \cup DOMAIN w.attributes[a].variables)
    <2>1. AttributeSaid(s, a, outside, config.globals)
      BY SMTT(30), <1>1 DEF SensorSaid
    <2>2. s.attributes[a] = [text |-> s.attributes[a].text, variables |-> s.attributes[a].variables,
                             handlers |-> s.attributes[a].handlers]
      BY <1>1 DEF SensorSaid, SensorRead
    <2>3. w.attributes[a] = WrittenAttribute(s.attributes[a])
      BY <1>8
    <2>4. VariablesOf(w, a) = Over(w.attributes[a].variables, s.variables)
      BY <1>7 DEF VariablesOf
    <2>5. ~TakenForLiteral(s.attributes[a]) /\ \A v \in ComputedIn(s.attributes[a].variables) :
            v \in DOMAIN s.variables /\ s.attributes[a].variables[v] = s.variables[v]
      BY <1>2
    <2> DEFINE own == s.attributes[a]
               new == WrittenAttribute(own)
    <2>6. /\ new.kind = "formula" /\ new.text = own.text /\ new.handlers = own.handlers
          /\ DOMAIN new.variables \subseteq DOMAIN own.variables
          /\ DOMAIN own.variables = DOMAIN new.variables \cup DOMAIN s.variables
          /\ Over(new.variables, s.variables) = own.variables
          /\ AttributeFits(new) /\ \A v \in DOMAIN new.variables : AttributeVariableFits(new.variables[v])
          /\ VariablesValid(new.variables, outside \cup DOMAIN s.variables \cup DOMAIN new.variables)
      BY <1>6, <2>1, <2>2, <2>5, AttributeWritten
    <2>7. w.attributes[a] = new
      BY <2>3
    <2> HIDE DEF new
    <2> QED BY <2>1, <2>4, <2>6, <2>7
  <1>10. FormulaAttributes(w) = DOMAIN s.attributes /\ NamesOf(s) \ DOMAIN s.attributes = DOMAIN s.literals
    <2>1. DOMAIN s.attributes \cap DOMAIN s.literals = {}
      BY <1>1 DEF SensorSaid
    <2>2. \A a \in DOMAIN s.literals : w.attributes[a].kind # "formula"
      <3> SUFFICES ASSUME NEW a \in DOMAIN s.literals PROVE w.attributes[a].kind # "formula"
        OBVIOUS
      <3>1. w.attributes[a] = WrittenLiteral(s.literals[a])
        BY <1>8
      <3> QED BY <3>1 DEF WrittenLiteral
    <2> QED BY <1>8, <1>9, <2>1, <2>2 DEF FormulaAttributes, NamesOf
  <1>11. ASSUME NEW a \in DOMAIN s.literals
         PROVE  /\ w.attributes[a].kind = "literal" /\ w.attributes[a].text = s.literals[a]
                /\ DOMAIN w.attributes[a].variables = {}
    <2>1. w.attributes[a] = WrittenLiteral(s.literals[a])
      BY <1>8
    <2> QED BY <2>1 DEF WrittenLiteral, NoVariables
  <1>12. SensorFits(w)
    <2>1. FieldsFit(w)
      BY <1>1, <1>3 DEF SensorSaid, FieldsFit
    <2>2. w.device # "null"
      BY <1>3, <1>5, IntegrationConstants DEF WrittenDevice
    <2>3. w.nested /\ HandlersFit(w.handlers)
      BY <1>1, <1>3 DEF SensorSaid, HandlersSaid
    <2>4. AttributesFit(w.attributes)
      <3> SUFFICES ASSUME NEW a \in NamesOf(s)
                   PROVE  /\ w.attributes[a].kind \in {"literal", "formula"}
                          /\ AttributeFits(w.attributes[a])
                          /\ \A v \in DOMAIN w.attributes[a].variables :
                               AttributeVariableFits(w.attributes[a].variables[v])
        BY <1>8 DEF AttributesFit
      <3>1. CASE a \in DOMAIN s.attributes
        BY <1>9, <3>1
      <3>2. CASE a \in DOMAIN s.literals
        BY <1>11, <3>2 DEF AttributeFits
      <3> QED BY <3>1, <3>2 DEF NamesOf
    <2> QED BY <1>7, <2>1, <2>2, <2>3, <2>4 DEF SensorFits
  <1>13. DeviceClassKnown(w.meta) /\ StateClassFits(w.meta) /\ UnitFits(w.meta)
    BY <1>1, <1>3 DEF SensorSaid
  <1>14. FormulaValid(doc, w)
    BY <1>1, <1>3, <1>4, <1>7 DEF FormulaValid, SensorSaid, outside, Outside
  <1>15. AttributesValid(doc, w)
    <2>1. ScopesDisjoint(w)
      <3> SUFFICES ASSUME NEW a \in DOMAIN s.attributes
                   PROVE  DOMAIN w.attributes[a].variables
                            \cap {b \in NamesOf(s) : w.attributes[b].kind # "formula"} = {}
        BY <1>8, <1>10 DEF ScopesDisjoint
      <3>1. {b \in NamesOf(s) : w.attributes[b].kind # "formula"} \subseteq DOMAIN s.literals
        BY <1>9, <1>10
      <3>2. DOMAIN w.attributes[a].variables \cap DOMAIN s.literals = {}
        BY <1>2, <1>9
      <3> QED BY <3>1, <3>2
    <2>2. ~CircularDependencies(w)
      <3>1. DependsOn(w) = Needs(s)
        <4>1. DependsOn(w)
                = [a \in NamesOf(s) |->
                     IF a \in DOMAIN s.attributes /\ IsFormulaExpression(w.attributes[a].text)
                     THEN w.attributes[a].text.names \cap (NamesOf(s) \ {a}) ELSE {}]
          BY <1>8, <1>10 DEF DependsOn
        <4>2. \A a \in DOMAIN s.attributes : w.attributes[a].text = s.attributes[a].text
          BY <1>9
        <4> QED BY <4>1, <4>2 DEF Needs
      <3>2. InOrder(Needs(s)) = NamesOf(s)
        BY <1>1 DEF SensorSaid
      <3> QED BY <1>8, <3>1, <3>2 DEF CircularDependencies, LeftOver
    <2>3. \A a \in DOMAIN w.attributes : NameAllowed(a) /\ a \notin EngineNames
      BY <1>1, <1>8 DEF SensorSaid
    <2>4. ASSUME NEW a \in DOMAIN s.attributes PROVE AttributeValid(doc, w, a)
      <3> DEFINE own == s.attributes[a]
                 new == w.attributes[a]
                 known == outside \cup DOMAIN s.variables \cup DOMAIN own.variables
                            \cup {State} \cup (NamesOf(s) \ {a})
      <3>1. NamesDefined(own.text, known)
        BY <1>9 DEF AttributeSaid
      <3>2. new.text = own.text /\ DOMAIN own.variables = DOMAIN new.variables \cup DOMAIN s.variables
        BY <1>9
      <3>3. KnownTo(doc, w, a) = known
        BY <1>4, <1>7, <1>8, <3>2 DEF KnownTo, outside, Outside
      <3> HIDE DEF known
      <3> QED BY <3>1, <3>2, <3>3 DEF AttributeValid
    <2> QED BY <1>10, <2>1, <2>2, <2>3, <2>4 DEF AttributesValid
  <1>16. VariablesValid(w.variables, outside \cup DOMAIN w.variables)
    BY <1>6, <1>7 DEF Scope
  <1>17. ASSUME NEW a \in DOMAIN s.attributes
         PROVE  /\ VariablesValid(w.attributes[a].variables,
                     outside \cup DOMAIN w.variables \cup DOMAIN w.attributes[a].variables)
                /\ AttributeReadable(doc, w, a)
                /\ ReadAttribute(w, a) = s.attributes[a]
    <2> DEFINE own == s.attributes[a]
               new == w.attributes[a]
               declared == outside \cup DOMAIN s.variables \cup DOMAIN own.variables
    <2>1. new.text = own.text /\ new.handlers = own.handlers /\ VariablesOf(w, a) = own.variables
      BY <1>9
    <2>2. /\ ~Empty(own.text) /\ HandlersSaid(own.handlers) /\ Scope(own.variables, declared, config.globals)
      BY <1>9 DEF AttributeSaid
    <2>3. own = [text |-> own.text, variables |-> own.variables, handlers |-> own.handlers]
      BY <1>1 DEF SensorSaid, SensorRead
    <2>4. VariablesValid(new.variables, outside \cup DOMAIN w.variables \cup DOMAIN new.variables)
      BY <1>7, <1>9
    <2> HIDE DEF own, declared
    <2>5. VariablesReadable(own.variables) /\ ReadVariables(own.variables) = own.variables
      BY <2>2, ScopeWritten
    <2>6. AttributeReadable(doc, w, a)
      BY <1>4, <2>1, <2>2, <2>5 DEF AttributeReadable, Scope, HandlersSaid
    <2>7. ReadAttribute(w, a) = [text |-> own.text, variables |-> own.variables, handlers |-> own.handlers]
      BY <2>1, <2>2, <2>5 DEF ReadAttribute, HandlersSaid
    <2> QED BY <2>3, <2>4, <2>6, <2>7 DEF own
  <1>18. FormulaReadable(doc, w)
    BY <1>1, <1>3, <1>4, <1>6, <1>7 DEF FormulaReadable, SensorSaid, HandlersSaid, Scope
  <1>19. ReadSensor(doc, w) = s
    <2> DEFINE r == ReadSensor(doc, w)
               attributes == [a \in FormulaAttributes(w) |-> ReadAttribute(w, a)]
               literals == [a \in DOMAIN w.attributes \ FormulaAttributes(w) |-> w.attributes[a].text]
               device == IF w.device \in {None, "null"} THEN doc.device ELSE w.device
    <2>1. r = [enabled |-> w.enabled, entity |-> w.entity, meta |-> w.meta, device |-> device,
               formula |-> w.formula, variables |-> ReadVariables(w.variables),
               handlers |-> Handlers(w.handlers), attributes |-> attributes, literals |-> literals]
      BY DEF ReadSensor
    <2>2. attributes = s.attributes
      <3>1. s.attributes = [a \in DOMAIN s.attributes |-> s.attributes[a]]
        BY <1>1, SensorOfSaid
      <3>2. attributes = [a \in DOMAIN s.attributes |-> s.attributes[a]]
        BY <1>10, <1>17
      <3> QED BY <3>1, <3>2
    <2>3. literals = s.literals
      <3>1. s.literals = [a \in DOMAIN s.literals |-> s.literals[a]]
        BY <1>1, SensorOfSaid
      <3>2. literals = [a \in DOMAIN s.literals |-> s.literals[a]]
        BY <1>8, <1>10, <1>11
      <3> QED BY <3>1, <3>2
    <2>4. device = s.device
      BY <1>3, <1>4, <1>5 DEF WrittenDevice
    <2>5. Handlers(w.handlers) = s.handlers
      <3>1. HandlersSaid(s.handlers)
        BY <1>1, SensorOfSaid
      <3> QED BY <1>3, <3>1 DEF HandlersSaid
    <2>6. s.enabled = TRUE
      <3>1. s.enabled \in BOOLEAN
        BY <1>1, SensorOfSaid
      <3>2. s.enabled
        BY <1>2
      <3> QED BY <3>1, <3>2
    <2>7. s = [enabled |-> s.enabled, entity |-> s.entity, meta |-> s.meta, device |-> s.device,
               formula |-> s.formula, variables |-> s.variables, handlers |-> s.handlers,
               attributes |-> s.attributes, literals |-> s.literals]
      BY <1>1, SensorOfSaid
    <2> HIDE DEF attributes, literals, device, r
    <2>8. r = s
      BY <1>3, <1>7, <2>1, <2>2, <2>3, <2>4, <2>5, <2>6, <2>7
    <2> QED BY <2>8 DEF r
  <1> QED BY <1>10, <1>12, <1>13, <1>14, <1>15, <1>16, <1>17, <1>18, <1>19 DEF s, w, outside

\* What is accepted, was looked at, is imported and can be written comes back as it was.
LEMMA ComesBack ==
  ASSUME NEW text, TextGiven(text), Accepted(Document(text)), LookedAt(Read(Document(text))),
         Writable(Imported(Read(Document(text))))
  PROVE  LET config == Imported(Read(Document(text)))
         IN  LoadsFromYaml(Exported(config)) /\ Imported(Read(Document(Exported(config)))) = config
  <1> DEFINE first == Document(text)
             read == Read(first)
             c == Imported(read)
             doc == Document(Exported(c))
             outside == DOMAIN first.sensors \cup DOMAIN first.globals
  <1>1. /\ ConfigGiven(read) /\ Keys(read) = DOMAIN first.sensors
        /\ read.globals = first.globals /\ read.device = first.device
        /\ \A k \in Keys(read) : read.sensors[k] = ReadSensor(first, first.sensors[k])
    BY ConfigRead DEF Read, Keys
  <1>2. /\ ConfigGiven(c) /\ Keys(c) = Keys(read) /\ DOMAIN c.globals = DOMAIN read.globals
        /\ \A k \in Keys(c) : c.sensors[k] = ImportedSensor(read, k)
    BY <1>1, ConfigImported
  <1>3. /\ c.device = read.device /\ c.globals = ImportedGlobals(read)
        /\ c.sensors = [k \in DOMAIN c.sensors |-> c.sensors[k]]
    <2>1. read = [device |-> read.device, globals |-> read.globals, sensors |-> read.sensors]
      BY <1>1 DEF ConfigGiven
    <2>2. c = [read EXCEPT !.globals = ImportedGlobals(read),
                           !.sensors = [k \in DOMAIN read.sensors |-> ImportedSensor(read, k)]]
      BY DEF Imported
    <2> HIDE DEF read, c
    <2> QED BY <2>1, <2>2
  <1>4. /\ ~DuplicateKeys(Exported(c)) /\ Written(doc, c)
    BY <1>2, DocumentExported DEF Written
  <1>5. Outside(c) = outside
    BY <1>1, <1>2 DEF Outside
  <1>6. ASSUME NEW k \in Keys(c)
        PROVE  /\ SensorSaid(c.sensors[k], Outside(c), c.globals)
               /\ c.sensors[k].device = c.device \/ c.sensors[k].device \notin {None, "null"}
    <2> DEFINE s == read.sensors[k]
    <2>1. SensorGiven(first.sensors[k])
      BY <1>1, <1>2, DocumentGiven
    <2>2. SensorSaid(s, outside, first.globals)
      BY <1>1, <1>2, <2>1, SensorSaidRead
    <2>3. /\ Clear(read, k, s.formula)
          /\ \A v \in DOMAIN s.variables : Clear(read, k, s.variables[v].text)
          /\ \A a \in DOMAIN s.attributes :
               LET own == s.attributes[a]
               IN  /\ Clear(read, k, own.text)
                   /\ \A v \in DOMAIN own.variables : Clear(read, k, own.variables[v].text)
      BY <1>2 DEF LookedAt, Clear
    <2>4. s.device = first.device \/ s.device \notin {None, "null"}
      <3>1. s.device = IF first.sensors[k].device \in {None, "null"} THEN first.device
                       ELSE first.sensors[k].device
        <4>1. s = ReadSensor(first, first.sensors[k])
          BY <1>1, <1>2
        <4> HIDE DEF s
        <4> QED BY <4>1 DEF ReadSensor
      <3> QED BY <3>1
    <2>5. DOMAIN c.globals = DOMAIN first.globals
      BY <1>1, <1>2
    <2>6. SensorRead(s)
      BY <1>1, <1>2 DEF ConfigGiven
    <2>7. c.sensors[k] = ImportedSensor(read, k)
      BY <1>2
    <2> HIDE DEF first, read, c, outside
    <2>8. SensorSaid(ImportedSensor(read, k), outside, c.globals)
      BY <2>2, <2>3, <2>5, SensorSaidImported
    <2>9. ImportedSensor(read, k).device = s.device
      BY <2>6, SensorImported
    <2> QED BY <1>1, <1>3, <1>5, <2>4, <2>7, <2>8, <2>9
  <1>7. GlobalsFit(c.globals) /\ VariablesValid(c.globals, outside)
    <2>1. GlobalsFit(first.globals) /\ VariablesValid(first.globals, outside)
      BY DEF Accepted, Valid, DocumentFits, MeaningValid, ReferencesValid, GlobalsValid
    <2>2. VariablesGiven(read.globals)
      BY <1>1 DEF ConfigGiven
    <2>3. /\ DOMAIN c.globals = DOMAIN first.globals
          /\ \A v \in DOMAIN c.globals : \/ c.globals[v] = first.globals[v]
                                         \/ c.globals[v].kind = "entity"
      <3> DEFINE new == ImportedGlobals(read)
      <3>1. \A v \in DOMAIN new : new[v] = read.globals[v] \/ new[v].kind = "entity"
        BY <2>2, GlobalsImported
      <3> QED BY <1>1, <1>2, <1>3, <3>1
    <2> HIDE DEF first, c, outside
    <2>4. GlobalsFit(c.globals)
      BY <2>1, <2>3 DEF GlobalsFit
    <2>5. VariablesValid(c.globals, outside)
      BY <2>1, <2>3 DEF VariablesValid, ValueAccepted
    <2> QED BY <2>4, <2>5
  <1>8. Keys(c) # {} /\ Writable(c)
    BY <1>1, <1>2 DEF Accepted, Valid, DocumentFits
  <1>9. IdsApart(c)
    BY <1>8 DEF Writable
  <1>10. Imported(c) = c
    BY <1>1, <1>9, ConfigTwice
  <1> HIDE DEF first, read, c, doc, outside
  <1>11. /\ doc.version = "1.0" /\ doc.device = c.device /\ doc.globals = c.globals
         /\ DOMAIN doc.sensors = Keys(c)
         /\ \A k \in Keys(c) : doc.sensors[k] = WrittenSensor(c, k)
    BY <1>4 DEF Written
  <1>12. ASSUME NEW k \in Keys(c)
         PROVE  LET w == doc.sensors[k]
                IN  /\ SensorFits(w)
                    /\ DeviceClassKnown(w.meta) /\ StateClassFits(w.meta) /\ UnitFits(w.meta)
                    /\ FormulaValid(doc, w) /\ AttributesValid(doc, w)
                    /\ VariablesValid(w.variables, Outside(c) \cup DOMAIN w.variables)
                    /\ \A a \in FormulaAttributes(w) :
                         /\ VariablesValid(w.attributes[a].variables,
                              Outside(c) \cup DOMAIN w.variables \cup DOMAIN w.attributes[a].variables)
                         /\ AttributeReadable(doc, w, a)
                    /\ FormulaReadable(doc, w)
                    /\ ReadSensor(doc, w) = c.sensors[k]
    <2>1. doc.sensors[k] = WrittenSensor(c, k)
      BY <1>11
    <2> QED BY <1>4, <1>6, <1>8, <2>1, SensorComesBack
  <1>13. DOMAIN doc.sensors \cup DOMAIN doc.globals = Outside(c)
    BY <1>11 DEF Outside
  <1>14. DocumentFits(doc)
    BY <1>7, <1>8, <1>11, <1>12 DEF DocumentFits
  <1>15. MeaningValid(doc)
    <2>1. GlobalsValid(doc)
      BY <1>5, <1>7, <1>11, <1>13 DEF GlobalsValid
    <2>2. ReferencesValid(doc)
      BY <1>11, <1>12, <1>13, <2>1 DEF ReferencesValid
    <2> QED BY <1>11, <1>12, <2>2 DEF MeaningValid
  <1>16. Readable(doc)
    BY <1>11, <1>12 DEF Readable
  <1>17. LoadsFromYaml(Exported(c))
    BY <1>4, <1>11, <1>14, <1>15, <1>16 DEF LoadsFromYaml, LoadsFromFile, Accepted, Valid, doc
  <1>18. Read(doc) = c
    <2>1. c = [device |-> c.device, globals |-> c.globals, sensors |-> c.sensors]
      BY <1>2 DEF ConfigGiven
    <2>2. Read(doc) = [device |-> doc.device, globals |-> doc.globals,
                       sensors |-> [k \in DOMAIN doc.sensors |-> ReadSensor(doc, doc.sensors[k])]]
      BY DEF Read
    <2>3. [k \in DOMAIN doc.sensors |-> ReadSensor(doc, doc.sensors[k])] = [k \in Keys(c) |-> c.sensors[k]]
      BY <1>11, <1>12
    <2>4. c.sensors = [k \in Keys(c) |-> c.sensors[k]]
      BY <1>3 DEF Keys
    <2> QED BY <1>11, <2>1, <2>2, <2>3, <2>4
  <1> QED BY <1>10, <1>17, <1>18 DEF c, read, first, doc
-----------------------------------------------------------------------------
(* What is stored comes back *)

\* What only imports of what was looked at have made is such an import.
Imports ==
  stored.there /\ stored.imported =>
    \E text : /\ TextGiven(text) /\ Accepted(Document(text)) /\ LookedAt(Read(Document(text)))
              /\ stored.config = Imported(Read(Document(text)))

\* An import makes it so, or marks the set.
LEMMA ImportsImported ==
  ASSUME NEW text, TextGiven(text), Import(text)
  PROVE  Imports'
  <1> DEFINE read == Read(Document(text))
             config == Imported(read)
  <1>1. Accepted(Document(text))
    BY DEF Import, LoadsFromYaml, LoadsFromFile
  <1>2. \/ stored' = [there |-> TRUE, config |-> config, imported |-> LookedAt(read)]
        \/ \E left : stored' = [there |-> TRUE, imported |-> FALSE, config |-> left]
    BY DEF Import
  <1> HIDE DEF config
  <1>3. stored'.imported => stored'.config = config /\ LookedAt(read)
    BY <1>2
  <1> QED BY <1>1, <1>3 DEF Imports, config

\* Nothing is stored at first.
LEMMA ImportsInit == Init => Imports
  BY DEF Init, NothingStored, Imports

\* Nothing but imports and a program's sensors changes what is stored.
LEMMA ImportsNext == Stored /\ Imports /\ [Next]_vars => Imports'
  <1> SUFFICES ASSUME Stored, Imports, [Next]_vars PROVE Imports'
    OBVIOUS
  <1>1. ASSUME UNCHANGED stored PROVE Imports'
    BY <1>1 DEF Imports
  <1>2. CASE \E e \in Entries :
               \/ SetUp(e) \/ FinishSetUp(e) \/ FailSetUp(e) \/ Unload(e) \/ Reload(e)
               \/ FinishLoadFile(e)
               \/ \E text \in Files : StartLoadFile(e, text) \/ LoadContent(e, text)
    BY <1>1, <1>2 DEF SetUp, FinishSetUp, FailSetUp, Unload, Reload, FinishLoadFile,
                      StartLoadFile, LoadContent
  <1>3. CASE AddVariable \/ RemoveVariable \/ SetUpStored \/ UNCHANGED vars
    BY <1>1, <1>3 DEF AddVariable, RemoveVariable, SetUpStored, vars
  <1>4. CASE \E text \in Uploads : Import(text)
    BY <1>4, ImportsImported, IntegrationConstants
  <1>5. CASE ExportAndImport
    <2>1. TextGiven(Exported(stored.config))
      BY TextExported DEF Stored
    <2> QED BY <1>5, <2>1, ImportsImported DEF ExportAndImport
  <1>6. CASE SetUpProgram
    <2>1. PICK config : stored' = [there |-> TRUE, config |-> config,
            imported |-> stored.there /\ config = stored.config /\ stored.imported]
      BY <1>6 DEF SetUpProgram
    <2>2. stored'.imported => stored.there /\ stored.imported /\ stored'.config = stored.config
      BY <2>1
    <2> QED BY <2>2 DEF Imports
  <1> QED BY <1>2, <1>3, <1>4, <1>5, <1>6 DEF Next

\* Whatever documents are imported, written and imported again: a sensor set that only imports
\* of texts that were looked at have made, in which no sensor goes by the entity id of another and
\* which a document can say, is written as one that is accepted and imported as the same sensor
\* set (storage_yaml_handler.py, config_manager.py, storage_sensor_set_ops.py).
THEOREM RoundTripHolds == Spec => []RoundTrip
  <1>1. Imports => RoundTrip
    <2> SUFFICES ASSUME Imports, stored.there, stored.imported, Writable(stored.config)
                 PROVE  /\ LoadsFromYaml(Exported(stored.config))
                        /\ Imported(Read(Document(Exported(stored.config)))) = stored.config
      BY DEF RoundTrip
    <2>1. PICK text : /\ TextGiven(text) /\ Accepted(Document(text))
                      /\ LookedAt(Read(Document(text)))
                      /\ stored.config = Imported(Read(Document(text)))
      BY DEF Imports
    <2> QED BY <2>1, ComesBack
  <1> QED BY <1>1, ImportsInit, ImportsNext, SoundInit, SoundNext, OwnersHold, PTL DEF Spec
=============================================================================
