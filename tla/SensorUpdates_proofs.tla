----------------------- MODULE SensorUpdates_proofs -----------------------
(***************************************************************************)
(* Proofs about SensorUpdates.  Types, the last good value and the registry*)
(* of removed sensors follow step by step; that cycles settle rests on an  *)
(* invariant of the running cycle: whoever is done reads only sensors that *)
(* are done, or that no later step of the cycle updates.                   *)
(***************************************************************************)
EXTENDS SensorUpdates, TLAPS

-----------------------------------------------------------------------------
(* What one update comes to *)

\* The outcome of an update: its kind, its value and the new count of errors.
LEMMA OutcomeType ==
  ASSUME TypeOK, NEW o \in Objects
  PROVE  /\ Outcome(o).kind \in {"ok", "unknown", "failed"}
         /\ Outcome(o).kind = "ok" => Outcome(o).value \in Values
         /\ Outcome(o).kind # "ok" => Outcome(o).value = None
         /\ Outcome(o).errors \in 0..MaxFatal
<1> DEFINE u == o[1]
<1> DEFINE value == Result(o, [x \in Inputs(o) |-> StateOf(x)])
<1>1. u \in Uids
  BY DEF Objects
<1>2. errors[u] \in 0..MaxFatal /\ MaxFatal \in Nat \ {0}
  BY <1>1, UpdatesConstants DEF TypeOK
<1>3. ASSUME ~Faulty(o), Alternates(o) = {}  PROVE value \in Values
  <2>1. \A x \in Inputs(o) : StateOf(x) \in States
    BY <1>1, UpdatesConstants DEF Inputs, StateOf, TypeOK
  <2>2. \A x \in Inputs(o) : StateOf(x) \in Values
    BY <2>1, <1>3 DEF Faulty, Alternates, States
  <2>3. [x \in Inputs(o) |-> StateOf(x)] \in [Uses[o] \cup Reads[o] -> Values]
    BY <2>2 DEF Inputs
  <2> QED
    BY <2>3, ResultsAreValues
<1>4. CASE Open(u)
  BY <1>4, <1>2 DEF Outcome
<1>5. CASE ~Open(u) /\ (Faulty(o) \/ Unset(o))
  <2>1. errors[u] + 1 \in 0..MaxFatal
    BY <1>5, <1>2 DEF Open
  <2> QED
    BY <1>5, <2>1 DEF Outcome
<1>6. CASE ~Open(u) /\ ~Faulty(o) /\ ~Unset(o) /\ Alternates(o) # {}
  BY <1>6, <1>2 DEF Outcome
<1>7. CASE ~Open(u) /\ ~Faulty(o) /\ ~Unset(o) /\ Alternates(o) = {}
  BY <1>7, <1>2, <1>3 DEF Outcome
<1> QED
  BY <1>4, <1>5, <1>6, <1>7

LEMMA OwnState ==
  ASSUME TypeOK, NEW o \in Objects PROVE StateOf(Own[o]) \in States
BY UpdatesConstants DEF StateOf, TypeOK

\* The types an update touches.
LEMMA UpdateType ==
  ASSUME TypeOK, NEW o \in Objects, Update(o)
  PROVE  /\ native' \in [Objects -> Values \cup {None}]
         /\ available' \in [Objects -> BOOLEAN]
         /\ last' \in [Objects -> Values \cup {Unavailable, Unknown, None}]
         /\ derived' \in [Objects -> Values \cup {None}]
         /\ errors' \in [Uids -> 0..MaxFatal]
         /\ published' \in [Uids -> States]
<1> DEFINE out == Outcome(o)
<1>0. o[1] \in Uids
  BY DEF Objects
<1>1. /\ out.kind \in {"ok", "unknown", "failed"}
      /\ out.kind = "ok" => out.value \in Values
      /\ out.kind # "ok" => out.value = None
      /\ out.errors \in 0..MaxFatal
  BY OutcomeType
<1> HIDE DEF out
<1>2. native' \in [Objects -> Values \cup {None}] /\ available' \in [Objects -> BOOLEAN]
  BY <1>1 DEF Update, TypeOK, out
<1>3. LastGood(o, out) \in Values \cup {Unavailable, Unknown, None}
  BY <1>1, OwnState DEF LastGood, Seeded, TypeOK, States
<1>4. last' \in [Objects -> Values \cup {Unavailable, Unknown, None}]
  BY <1>3 DEF Update, TypeOK, out
<1>5. derived' \in [Objects -> Values \cup {None}]
  BY <1>1 DEF Update, TypeOK, out, Derivations
<1>6. errors' \in [Uids -> 0..MaxFatal]
  BY <1>0, <1>1 DEF Update, TypeOK, out
<1>7. published' \in [Uids -> States]
  BY <1>2, <1>0 DEF Update, Shows, Shown, TypeOK, States
<1> QED
  BY <1>2, <1>4, <1>5, <1>6, <1>7

\* What the manager is told keeps the registry's type and registers no sensor
\* that is not managed.
LEMMA LearntType ==
  ASSUME TypeOK, NEW o \in Objects
  PROVE  /\ Learnt(o, Outcome(o)) \in [Uids -> Values \cup {None, Missing}]
         /\ \A v \in Uids : v # o[1] \/ v \notin Managed => Learnt(o, Outcome(o))[v] = registry[v]
         /\ \A v \in Uids : registry[v] # Missing => Learnt(o, Outcome(o))[v] # Missing
<1> DEFINE out == Outcome(o)
<1>1. o[1] \in Uids /\ Missing \notin Values
  BY UpdatesConstants DEF Objects
<1>2. out.kind = "ok" => out.value \in Values
  BY OutcomeType
<1>3. registry \in [Uids -> Values \cup {None, Missing}]
  BY DEF TypeOK
<1> HIDE DEF out
<1>4. Learnt(o, out) \in [Uids -> Values \cup {None, Missing}]
  BY <1>1, <1>2, <1>3 DEF Learnt, Tells
<1>5. \A v \in Uids : v # o[1] \/ v \notin Managed => Learnt(o, out)[v] = registry[v]
  BY <1>1, <1>3 DEF Learnt, Tells
<1>6. \A v \in Uids : registry[v] # Missing => Learnt(o, out)[v] # Missing
  BY <1>1, <1>2, <1>3 DEF Learnt, Tells
<1> QED
  BY <1>4, <1>5, <1>6 DEF out
-----------------------------------------------------------------------------
(* Types *)

LEMMA InitTypes == Init => TypeOK
<1> SUFFICES ASSUME Init PROVE TypeOK
  OBVIOUS
<1>2. \A u \in Uids : made[u] \in 0..MaxMade[u] /\ managed[u] \in 0..made[u]
  <2>1. \A u \in Uids : MaxMade[u] \in Nat /\ made[u] = 0 /\ managed[u] = 0
    BY UpdatesConstants DEF Init
  <2>2. \A n \in Nat : 0 \in 0..n
    OBVIOUS
  <2> QED
    BY <2>1, <2>2
<1> USE UpdatesConstants DEF Init
<1>1. reading \in [Entities -> States]
  OBVIOUS
<1>3. made = [u \in Uids |-> made[u]] /\ managed = [u \in Uids |-> managed[u]]
  OBVIOUS
<1>4. /\ place \in [Objects -> {"none", "queued", "live", "rejected", "gone"}]
      /\ native \in [Objects -> Values \cup {None}] /\ available \in [Objects -> BOOLEAN]
      /\ last \in [Objects -> Values \cup {Unavailable, Unknown, None}]
      /\ derived \in [Objects -> Values \cup {None}]
  OBVIOUS
<1>5. /\ published \in [Uids -> States]
      /\ registry \in [Uids -> Values \cup {None, Missing}]
      /\ errors \in [Uids -> 0..MaxFatal]
      /\ cycle = None
  BY DEF States
<1> QED
  BY <1>1, <1>2, <1>3, <1>4, <1>5 DEF TypeOK

\* The object of a managed sensor exists.
LEMMA ObjectExists ==
  ASSUME TypeOK, NEW u \in Managed
  PROVE  Object(u) \in Objects /\ Object(u)[1] = u
<1>1. managed[u] \in 1..MaxMade[u] /\ u \in Uids
  <2>1. u \in Uids /\ managed[u] # 0
    BY DEF Managed
  <2>2. made[u] \in 0..MaxMade[u] /\ managed[u] \in 0..made[u] /\ MaxMade[u] \in Nat
    BY <2>1, UpdatesConstants DEF TypeOK
  <2> QED
    BY <2>1, <2>2
<1> QED
  BY <1>1 DEF Object, Objects

\* Kept types make up the type invariant.
LEMMA CycleType ==
  ASSUME TypeOK, cycle # None
  PROVE  /\ cycle.given \in SUBSET Uids /\ cycle.done \in SUBSET Uids
         /\ cycle.edges \in [Uids -> SUBSET Uids]
BY DEF TypeOK

LEMMA StepTypes == TypeOK /\ [Next]_vars => TypeOK'
<1> SUFFICES ASSUME TypeOK, [Next]_vars PROVE TypeOK'
  OBVIOUS
<1> USE DEF TypeOK, life, shown
<1>1. CASE UNCHANGED vars
  BY <1>1 DEF vars
<1>2. ASSUME NEW o \in Objects, Poll(o) PROVE TypeOK'
  <2>1. Update(o) /\ UNCHANGED <<reading, life, cycle>> /\ registry' = Learnt(o, Outcome(o))
    BY <1>2 DEF Poll
  <2>2. registry' \in [Uids -> Values \cup {None, Missing}]
    BY <2>1, LearntType
  <2> QED
    BY <2>1, <2>2, UpdateType
<1>3. ASSUME NEW o \in Objects, AddToHass(o) PROVE TypeOK'
  <2>1. native' \in [Objects -> Values \cup {None}]
    BY <1>3, UpdatesConstants DEF AddToHass
  <2>2. o[1] \in Uids
    BY DEF Objects
  <2>3. published' \in [Uids -> States]
    BY <1>3, <2>1, <2>2 DEF AddToHass, Shown, States
  <2> QED
    BY <1>3, <2>1, <2>3 DEF AddToHass
<1>4. ASSUME NEW o \in Objects, RejectByHass(o) PROVE TypeOK'
  BY <1>4 DEF RejectByHass
<1>5. ASSUME NEW o \in Objects, RemoveFromHass(o) PROVE TypeOK'
  <2>1. o[1] \in Uids
    BY DEF Objects
  <2> QED
    BY <1>5, <2>1 DEF RemoveFromHass, States
<1>6. ASSUME NEW given \in SUBSET Uids, StartCycle(given) PROVE TypeOK'
  <2>1. \A u \in Uids : Edges(Object(u)) \in SUBSET Uids
    BY DEF Edges, Registered
  <2> QED
    BY <1>6, <2>1 DEF StartCycle
<1>7. CASE EndCycle
  BY <1>7 DEF EndCycle
<1>8. ASSUME NEW u \in Uids, UpdateNext(u) PROVE TypeOK'
  <2>1. cycle' \in [given : SUBSET Uids, done : SUBSET Uids, edges : [Uids -> SUBSET Uids]]
    BY <1>8 DEF UpdateNext, Idle
  <2>2. CASE u \notin Managed
    BY <1>8, <2>1, <2>2 DEF UpdateNext
  <2>3. CASE u \in Managed
    <3>1. Object(u) \in Objects /\ Object(u)[1] = u
      BY <2>3, ObjectExists
    <3>2. Update(Object(u)) /\ UNCHANGED <<reading, life>>
      BY <1>8, <2>3 DEF UpdateNext
    <3>3. Learnt(Object(u), Outcome(Object(u))) \in [Uids -> Values \cup {None, Missing}]
      BY <3>1, LearntType
    <3>4. native' \in [Objects -> Values \cup {None}]
      BY <3>1, <3>2, UpdateType
    <3>5. registry' \in [Uids -> Values \cup {None, Missing}]
      BY <1>8, <2>3, <3>1, <3>3, <3>4 DEF UpdateNext
    <3> QED
      BY <2>1, <3>1, <3>2, <3>5, UpdateType
  <2> QED
    BY <2>2, <2>3
<1>9. ASSUME NEW u \in Uids, Create(u) PROVE TypeOK'
  <2>1. made[u] + 1 \in 1..MaxMade[u] /\ MaxMade[u] \in Nat /\ made[u] \in Nat
    BY <1>9, UpdatesConstants DEF Create
  <2>2. \A v \in Uids : made'[v] \in 0..MaxMade[v] /\ managed'[v] \in 0..made'[v]
    BY <1>9, <2>1 DEF Create
  <2>3. made' = [v \in Uids |-> made'[v]] /\ managed' = [v \in Uids |-> managed'[v]]
    BY <1>9 DEF Create
  <2>4. registry' \in [Uids -> Values \cup {None, Missing}]
    <3>1. (CHOOSE v \in Values : TRUE) \in Values
      BY UpdatesConstants
    <3> QED
      BY <1>9, <3>1 DEF Create
  <2> QED
    BY <1>9, <2>2, <2>3, <2>4 DEF Create
<1>10. ASSUME NEW u \in Uids, Remove(u) PROVE TypeOK'
  <2>1. \A v \in Uids : made[v] \in 0..MaxMade[v] /\ managed'[v] \in 0..made[v]
    BY <1>10, UpdatesConstants DEF Remove
  <2>2. managed' = [v \in Uids |-> managed'[v]]
    BY <1>10 DEF Remove
  <2>3. registry' \in [Uids -> Values \cup {None, Missing}]
    BY <1>10 DEF Remove
  <2> QED
    BY <1>10, <2>1, <2>2, <2>3 DEF Remove
<1>11. ASSUME NEW e \in Entities, NEW s \in Observed, SetReading(e, s) PROVE TypeOK'
  BY <1>11, UpdatesConstants DEF SetReading
<1> QED
  BY <1>1, <1>2, <1>3, <1>4, <1>5, <1>6, <1>7, <1>8, <1>9, <1>10, <1>11 DEF Next, CycleStep

\* The type of every variable holds in every reachable state.
THEOREM TypesHold == Spec => []TypeOK
BY InitTypes, StepTypes, PTL DEF Spec
-----------------------------------------------------------------------------
(* The registry of removed sensors, and last good values *)

\* No step gives a sensor that is and stays removed a new value in the registry.
LEMMA RemovedStep ==
  ASSUME TypeOK, [Next]_vars, NEW u \in Uids \ Managed, managed'[u] = 0
  PROVE  registry'[u] = registry[u]
<1> USE DEF life, shown
<1>0. managed[u] = 0 /\ registry \in [Uids -> Values \cup {None, Missing}]
  BY DEF Managed, TypeOK
<1>1. CASE UNCHANGED vars
  BY <1>1 DEF vars
<1>2. ASSUME NEW o \in Objects, Poll(o) PROVE registry'[u] = registry[u]
  BY <1>2, LearntType DEF Poll
<1>3. ASSUME NEW o \in Objects, AddToHass(o) \/ RejectByHass(o) \/ RemoveFromHass(o)
      PROVE registry'[u] = registry[u]
  BY <1>3 DEF AddToHass, RejectByHass, RemoveFromHass
<1>4. ASSUME NEW given \in SUBSET Uids, StartCycle(given) PROVE registry'[u] = registry[u]
  BY <1>4 DEF StartCycle
<1>5. CASE EndCycle
  BY <1>5 DEF EndCycle
<1>6. ASSUME NEW w \in Uids, UpdateNext(w) PROVE registry'[u] = registry[u]
  <2>1. CASE w \notin Managed
    BY <1>6, <2>1 DEF UpdateNext
  <2>2. CASE w \in Managed
    <3>1. Object(w) \in Objects /\ w # u
      BY <2>2, ObjectExists
    <3>2. /\ Learnt(Object(w), Outcome(Object(w)))[u] = registry[u]
          /\ Learnt(Object(w), Outcome(Object(w))) \in [Uids -> Values \cup {None, Missing}]
      BY <3>1, LearntType
    <3> QED
      BY <1>6, <2>2, <3>1, <3>2 DEF UpdateNext
  <2> QED
    BY <2>1, <2>2
<1>7. ASSUME NEW w \in Uids, Create(w) PROVE registry'[u] = registry[u]
  <2>1. w # u
    <3>1. made[w] + 1 # 0
      BY DEF TypeOK
    <3> QED
      BY <1>7, <3>1 DEF Create, TypeOK
  <2> QED
    BY <1>7, <2>1, <1>0 DEF Create
<1>8. ASSUME NEW w \in Uids, Remove(w) PROVE registry'[u] = registry[u]
  BY <1>8, <1>0 DEF Remove, Managed
<1>9. ASSUME NEW e \in Entities, NEW s \in Observed, SetReading(e, s)
      PROVE registry'[u] = registry[u]
  BY <1>9 DEF SetReading
<1> QED
  BY <1>1, <1>2, <1>3, <1>4, <1>5, <1>6, <1>7, <1>8, <1>9 DEF Next, CycleStep

\* The objects of removed sensors, polled as they may be, write nothing for the
\* others to read (_on_sensor_updated).
THEOREM RemovalHolds == Spec => RemovedStayOut
<1>1. TypeOK /\ [Next]_vars
        => [\A u \in Uids \ Managed : managed'[u] = 0 => registry'[u] = registry[u]]_vars
  BY RemovedStep
<1> QED
  BY <1>1, TypesHold, PTL DEF Spec, RemovedStayOut

\* Attributes are derived from the last good value.
DerivedFromLast == \A o \in Objects : derived[o] # None => derived[o] = last[o]

\* No step loses a last good value or pairs it with another's attributes.
LEMMA LastGoodStep ==
  ASSUME TypeOK, DerivedFromLast, [Next]_vars, NEW o \in Objects
  PROVE  /\ last[o] # None => last'[o] # None
         /\ derived'[o] # None => derived'[o] = last'[o]
<1> DEFINE Kept == /\ last[o] # None => last'[o] # None
                   /\ derived'[o] # None => derived'[o] = last'[o]
<1> USE DEF life, shown
<1>1. ASSUME UNCHANGED <<last, derived>> PROVE Kept
  BY <1>1 DEF DerivedFromLast
<1>2. ASSUME NEW p \in Objects, Update(p) PROVE Kept
  <2> DEFINE out == Outcome(p)
  <2>1. out.kind = "ok" => out.value \in Values /\ None \notin Values
    BY OutcomeType, UpdatesConstants DEF States
  <2>2. /\ last' = [last EXCEPT ![p] = LastGood(p, out)]
        /\ \E d \in IF out.kind = "ok" THEN Derivations(p, out.value) ELSE {derived[p]} :
             derived' = [derived EXCEPT ![p] = d]
    BY <1>2 DEF Update
  <2>3. StateOf(Own[p]) \in States
    BY OwnState
  <2> HIDE DEF out
  <2>4. Seeded(p) = last[p] \/ (last[p] = None /\ derived[p] = None /\ Seeded(p) # None)
    BY <2>3, UpdatesConstants DEF Seeded, DerivedFromLast
  <2>5. last \in [Objects -> Values \cup {Unavailable, Unknown, None}]
        /\ derived \in [Objects -> Values \cup {None}]
    BY DEF TypeOK
  <2>6. CASE p = o
    <3>1. CASE out.kind = "ok"
      BY <2>1, <2>2, <2>5, <2>6, <3>1 DEF LastGood, Derivations
    <3>2. CASE out.kind # "ok"
      BY <2>2, <2>4, <2>5, <2>6, <3>2 DEF LastGood, DerivedFromLast
    <3> QED
      BY <3>1, <3>2
  <2>7. CASE p # o
    BY <2>2, <2>5, <2>7 DEF DerivedFromLast
  <2> QED
    BY <2>6, <2>7
<1>3. ASSUME NEW u \in Uids, UpdateNext(u) PROVE Kept
  <2>1. CASE u \notin Managed
    BY <1>1, <1>3, <2>1 DEF UpdateNext
  <2>2. CASE u \in Managed
    BY <1>2, <1>3, <2>2, ObjectExists DEF UpdateNext
  <2> QED
    BY <2>1, <2>2
<1> HIDE DEF Kept
<1>4. ASSUME NEW p \in Objects, Poll(p) \/ AddToHass(p) \/ RejectByHass(p) \/ RemoveFromHass(p)
      PROVE Kept
  BY <1>1, <1>2, <1>4 DEF Poll, AddToHass, RejectByHass, RemoveFromHass
<1>5. ASSUME NEW u \in Uids, Create(u) \/ Remove(u) PROVE Kept
  BY <1>1, <1>5 DEF Create, Remove
<1>6. ASSUME UNCHANGED vars PROVE Kept
  BY <1>1, <1>6 DEF vars
<1>7. ASSUME EndCycle PROVE Kept
  BY <1>1, <1>7 DEF EndCycle
<1>8. ASSUME NEW given \in SUBSET Uids, StartCycle(given) PROVE Kept
  BY <1>1, <1>8 DEF StartCycle
<1>9. ASSUME NEW e \in Entities, NEW s \in Observed, SetReading(e, s) PROVE Kept
  BY <1>1, <1>9 DEF SetReading
<1>10. Kept
  BY <1>3, <1>4, <1>5, <1>6, <1>7, <1>8, <1>9 DEF Next, CycleStep
<1> QED
  BY <1>10 DEF Kept

\* Whatever fails, an object that has a last good value keeps one, with the
\* attributes derived from it (_handle_main_result).
THEOREM LastGoodHolds == Spec => LastGoodSurvives
<1>1. Init => DerivedFromLast
  BY DEF Init, DerivedFromLast
<1>2. TypeOK /\ DerivedFromLast /\ [Next]_vars => DerivedFromLast'
  BY LastGoodStep DEF DerivedFromLast
<1>3. TypeOK /\ DerivedFromLast /\ [Next]_vars
        => [\A o \in Objects : /\ last[o] # None => last'[o] # None
                               /\ derived'[o] # None => derived'[o] = last'[o]]_vars
  BY LastGoodStep
<1> QED
  BY <1>1, <1>2, <1>3, TypesHold, PTL DEF Spec, LastGoodSurvives
-----------------------------------------------------------------------------
(* Cycles settle *)

\* What an update comes to depends on what is read, named and counted only.
LEMMA OutcomeStable ==
  ASSUME NEW o \in Objects, reading' = reading,
         \A v \in Reads[o] : published'[v] = published[v],
         \A v \in Named[o] : registry'[v] = registry[v],
         errors'[o[1]] = errors[o[1]]
  PROVE  Outcome(o)' = Outcome(o)
<1>1. \A x \in Inputs(o) : StateOf(x)' = StateOf(x)
  <2>1. \A x \in Uses[o] : x \in Entities
    BY UpdatesConstants
  <2> QED
    BY <2>1 DEF Inputs, StateOf
<1>2. /\ Faulty(o)' = Faulty(o) /\ Alternates(o)' = Alternates(o)
      /\ Alternates(o) # {} => Alternate(o)' = Alternate(o)
  <2>1. Faulty(o)' = Faulty(o) /\ Alternates(o)' = Alternates(o)
    BY <1>1 DEF Faulty, Alternates, Inputs
  <2>2. \A x \in Alternates(o) : StateOf(x)' = StateOf(x)
    BY <1>1 DEF Alternates
  <2> QED
    BY <2>1, <2>2 DEF Alternate
<1>3. Unset(o)' = Unset(o) /\ Open(o[1])' = Open(o[1])
  BY DEF Unset, Open
<1>4. [x \in Inputs(o) |-> StateOf(x)]' = [x \in Inputs(o) |-> StateOf(x)]
  BY <1>1 DEF Inputs
<1> QED
  BY <1>2, <1>3, <1>4 DEF Outcome

\* Evaluated again right after its update, a sensor comes to the same, but for
\* the count of errors.
LEMMA OutcomeAfter ==
  ASSUME TypeOK, NEW o \in Objects, reading' = reading,
         \A v \in Reads[o] : published'[v] = published[v],
         \A v \in Named[o] : registry'[v] = registry[v],
         errors'[o[1]] = Outcome(o).errors
  PROVE  /\ Outcome(o).kind = "failed" <=> Outcome(o)'.kind = "failed"
         /\ Outcome(o).kind # "failed" => Outcome(o)'.value = Outcome(o).value
<1>1. \A x \in Inputs(o) : StateOf(x)' = StateOf(x)
  <2>1. \A x \in Uses[o] : x \in Entities
    BY UpdatesConstants
  <2> QED
    BY <2>1 DEF Inputs, StateOf
<1>2. /\ Faulty(o)' = Faulty(o) /\ Alternates(o)' = Alternates(o)
      /\ Alternates(o) # {} => Alternate(o)' = Alternate(o)
  <2>1. Faulty(o)' = Faulty(o) /\ Alternates(o)' = Alternates(o)
    BY <1>1 DEF Faulty, Alternates, Inputs
  <2>2. \A x \in Alternates(o) : StateOf(x)' = StateOf(x)
    BY <1>1 DEF Alternates
  <2> QED
    BY <2>1, <2>2 DEF Alternate
<1>3. Unset(o)' = Unset(o)
  BY DEF Unset
<1>4. [x \in Inputs(o) |-> StateOf(x)]' = [x \in Inputs(o) |-> StateOf(x)]
  BY <1>1 DEF Inputs
<1>5. errors[o[1]] \in 0..MaxFatal /\ MaxFatal \in Nat \ {0}
  BY UpdatesConstants DEF TypeOK, Objects
<1>6. CASE Open(o[1])
  <2>1. Outcome(o).kind = "failed" /\ Outcome(o).errors = errors[o[1]]
    BY <1>6 DEF Outcome
  <2>2. Open(o[1])'
    BY <1>6, <2>1 DEF Open
  <2> QED
    BY <2>1, <2>2 DEF Outcome
<1>7. CASE ~Open(o[1]) /\ (Faulty(o) \/ Unset(o))
  <2>1. Outcome(o).kind = "failed"
    BY <1>7 DEF Outcome
  <2>2. Outcome(o)'.kind = "failed"
    BY <1>2, <1>3, <1>7 DEF Outcome
  <2> QED
    BY <2>1, <2>2
<1>8. CASE ~Open(o[1]) /\ ~Faulty(o) /\ ~Unset(o)
  <2>1. Outcome(o).errors = 0
    BY <1>8 DEF Outcome
  <2>2. ~Open(o[1])'
    BY <1>5, <2>1 DEF Open
  <2> QED
    BY <1>2, <1>3, <1>4, <1>8, <2>2 DEF Outcome
<1> QED
  BY <1>6, <1>7, <1>8

\* The sensor is settled: it shows what its formula comes to, and so does the
\* registry.
Settled(u) == Correct(Object(u)) /\ registry[u] = native[Object(u)]

\* What is managed is registered; the sensors of a cycle know of every managed
\* sensor they read or name; who is done waits for nobody, and is settled.
CycleInv ==
  /\ \A u \in Managed : registry[u] # Missing
  /\ cycle # None =>
       /\ cycle.given \subseteq Managed
       /\ \A u \in cycle.given :
            /\ (Seen[Object(u)] \cup Named[Object(u)]) \cap Managed \subseteq cycle.edges[u]
            /\ u \in cycle.done => cycle.edges[u] \subseteq cycle.done \ {u}
       /\ \A u \in cycle.given \cap cycle.done :
            Seen[Object(u)] = Reads[Object(u)] => Settled(u)

\* Another sensor's update leaves a sensor settled that does not read it.
LEMMA StaysSettled ==
  ASSUME TypeOK, NEW w \in Managed, Update(Object(w)), UNCHANGED <<reading, life>>,
         \A v \in Uids : v # w => registry'[v] = registry[v],
         NEW u \in Managed, u # w, Settled(u),
         w \notin Reads[Object(u)], w \notin Named[Object(u)]
  PROVE  Settled(u)'
<1>0. PICK o \in Objects : o = Object(u)
  BY ObjectExists
<1>1. o \in Objects /\ o[1] = u /\ Object(w) \in Objects /\ Object(w)[1] = w
  BY <1>0, ObjectExists
<1>2. o # Object(w) /\ Object(u)' = o /\ u \in Uids /\ w \in Uids
  BY <1>0, <1>1 DEF Object, life, Managed
<1>3. native'[o] = native[o] /\ available'[o] = available[o] /\ errors'[u] = errors[u]
  BY <1>1, <1>2 DEF Update, TypeOK
<1>4. \A v \in Uids : v # w => published'[v] = published[v]
  BY <1>1 DEF Update, Shows, TypeOK
<1>5. Reads[o] \subseteq Uids /\ Named[o] \subseteq Uids
  BY <1>1, UpdatesConstants
<1>6. Outcome(o)' = Outcome(o)
  <2>1. \A v \in Reads[o] : published'[v] = published[v]
    BY <1>0, <1>4, <1>5
  <2>2. \A v \in Named[o] : registry'[v] = registry[v]
    BY <1>0, <1>5
  <2> QED
    BY <1>1, <1>3, <2>1, <2>2, OutcomeStable
<1>7. registry'[u] = registry[u]
  BY <1>2
<1>8. Correct(o)' <=> Correct(o)
  BY <1>3, <1>6 DEF Correct
<1> QED
  BY <1>0, <1>2, <1>3, <1>7, <1>8 DEF Settled, Correct

\* An update settles a sensor that does not read or name itself.
LEMMA Settles ==
  ASSUME TypeOK, NEW w \in Managed, Update(Object(w)), UNCHANGED <<reading, life>>,
         \A v \in Uids : v # w => registry'[v] = registry[v],
         registry'[w] = native'[Object(w)],
         w \notin Reads[Object(w)], w \notin Named[Object(w)]
  PROVE  Settled(w)'
<1>0. PICK o \in Objects : o = Object(w)
  BY ObjectExists
<1>1. o \in Objects /\ o[1] = w /\ w \in Uids
  BY <1>0, ObjectExists DEF Managed
<1>2. Object(w)' = o
  BY <1>0 DEF Object, life
<1>3. \A v \in Uids : v # w => published'[v] = published[v]
  BY <1>0, <1>1 DEF Update, Shows, TypeOK
<1>4. Reads[o] \subseteq Uids /\ Named[o] \subseteq Uids
  BY <1>1, UpdatesConstants
<1>5. errors'[o[1]] = Outcome(o).errors
  BY <1>0, <1>1 DEF Update, TypeOK
<1>6. /\ Outcome(o).kind = "failed" <=> Outcome(o)'.kind = "failed"
      /\ Outcome(o).kind # "failed" => Outcome(o)'.value = Outcome(o).value
  <2>1. \A v \in Reads[o] : published'[v] = published[v]
    BY <1>0, <1>3, <1>4
  <2>2. \A v \in Named[o] : registry'[v] = registry[v]
    BY <1>0, <1>4
  <2> QED
    BY <1>1, <1>5, <2>1, <2>2, OutcomeAfter
<1>7. /\ available'[o] = (Outcome(o).kind # "failed")
      /\ Outcome(o).kind # "failed" => native'[o] = Outcome(o).value
  BY <1>0, <1>1 DEF Update, TypeOK
<1>8. Correct(o)'
  BY <1>6, <1>7 DEF Correct
<1>9. registry'[w] = native'[o]
  BY <1>0
<1> QED
  BY <1>2, <1>8, <1>9 DEF Settled, Correct

\* A step of the cycle settles its sensor and unsettles none that is done.
LEMMA UpdateNextKeeps ==
  ASSUME TypeOK, CycleInv, NEW w \in Uids, UpdateNext(w)
  PROVE  CycleInv'
<1>1. /\ cycle # None /\ w \notin cycle.done /\ cycle.edges[w] \subseteq cycle.done
      /\ cycle' = [cycle EXCEPT !.done = @ \cup {w}]
      /\ UNCHANGED <<reading, life>>
  BY DEF UpdateNext, Idle, Due
<1>2. /\ cycle \in [given : SUBSET Uids, done : SUBSET Uids, edges : [Uids -> SUBSET Uids]]
      /\ cycle'.given = cycle.given /\ cycle'.edges = cycle.edges
      /\ cycle'.done = cycle.done \cup {w}
      /\ Managed' = Managed /\ \A u \in Uids : Object(u)' = Object(u)
      /\ Managed \subseteq Uids
  BY <1>1 DEF TypeOK, life, Managed, Object
<1>3. \A u \in cycle.given :
        /\ (Seen[Object(u)] \cup Named[Object(u)]) \cap Managed \subseteq cycle.edges[u]
        /\ u \in cycle.done \cup {w} => cycle.edges[u] \subseteq (cycle.done \cup {w}) \ {u}
  BY <1>1, <1>2 DEF CycleInv
<1>4. CASE w \notin Managed
  <2>1. UNCHANGED <<shown, registry, errors>>
    BY <1>4 DEF UpdateNext
  <2>2. \A u \in Uids : Settled(u) => Settled(u)'
    <3>1. \A o : Outcome(o)' = Outcome(o)
      BY <1>1, <2>1 DEF Outcome, Inputs, StateOf, Faulty, Alternates, Alternate, Unset, Open, shown
    <3> QED
      BY <1>2, <2>1, <3>1 DEF Settled, Correct, shown
  <2>3. w \notin cycle.given
    BY <1>1, <1>4 DEF CycleInv
  <2> QED
    BY <1>1, <1>2, <1>3, <2>1, <2>2, <2>3 DEF CycleInv
<1>5. CASE w \in Managed
  <2> DEFINE learnt == Learnt(Object(w), Outcome(Object(w)))
  <2>1. Object(w) \in Objects /\ Object(w)[1] = w
    BY <1>5, ObjectExists
  <2>2. /\ learnt \in [Uids -> Values \cup {None, Missing}]
        /\ \A v \in Uids : v # w => learnt[v] = registry[v]
        /\ \A v \in Uids : registry[v] # Missing => learnt[v] # Missing
    BY <2>1, LearntType
  <2>3. /\ Update(Object(w))
        /\ registry' = IF learnt[w] = Missing THEN learnt ELSE [learnt EXCEPT ![w] = native'[Object(w)]]
    BY <1>5 DEF UpdateNext
  <2>4. native' \in [Objects -> Values \cup {None}]
    BY <2>1, <2>3, UpdateType
  <2> HIDE DEF learnt
  <2>5. learnt[w] # Missing
    BY <1>5, <2>2 DEF CycleInv
  <2>6. registry'[w] = native'[Object(w)] /\ \A v \in Uids : v # w => registry'[v] = registry[v]
    BY <2>2, <2>3, <2>5
  <2>7. \A u \in Managed' : registry'[u] # Missing
    BY <1>2, <2>1, <2>4, <2>6, UpdatesConstants DEF CycleInv, States
  <2>8. ASSUME NEW u \in cycle.given, u \in cycle.done \cup {w}, Seen[Object(u)] = Reads[Object(u)]
        PROVE  Settled(u)'
    <3>1. u \in Managed
      BY <1>1, <2>8 DEF CycleInv
    <3>2. w \notin cycle.edges[u]
      BY <1>1, <2>8 DEF CycleInv
    <3>3. w \notin Reads[Object(u)] /\ w \notin Named[Object(u)]
      BY <1>3, <1>5, <2>8, <3>2
    <3>4. CASE u = w
      BY <1>1, <1>5, <2>3, <2>6, <3>3, <3>4, Settles
    <3>5. CASE u # w
      <4>1. Settled(u)
        BY <1>1, <2>8, <3>5 DEF CycleInv
      <4> QED
        BY <1>1, <1>5, <2>3, <2>6, <3>1, <3>3, <3>5, <4>1, StaysSettled
    <3> QED
      BY <3>4, <3>5
  <2>9. cycle'.given \subseteq Managed'
    BY <1>1, <1>2 DEF CycleInv
  <2> QED
    BY <1>2, <1>3, <2>7, <2>8, <2>9 DEF CycleInv
<1> QED
  BY <1>4, <1>5

\* Outside a cycle only registrations matter.
LEMMA CycleStepKeeps ==
  ASSUME TypeOK, CycleInv, [Next]_vars
  PROVE  CycleInv'
<1> USE DEF life, shown
<1>0. Managed \subseteq Uids /\ registry \in [Uids -> Values \cup {None, Missing}]
      /\ \A u \in Managed : registry[u] # Missing
  BY DEF Managed, TypeOK, CycleInv
<1>1. CASE UNCHANGED vars
  <2>1. /\ \A o : Outcome(o)' = Outcome(o)
        /\ \A u : Object(u)' = Object(u)
        /\ Managed' = Managed
    BY <1>1 DEF vars, Outcome, Inputs, StateOf, Faulty, Alternates, Alternate, Unset, Open, Object, Managed
  <2>2. \A u : Settled(u) => Settled(u)'
    BY <1>1, <2>1 DEF vars, Settled, Correct
  <2> QED
    BY <1>1, <2>1, <2>2 DEF vars, CycleInv
<1>2. ASSUME cycle' = None, Managed' = Managed,
             \A u \in Managed : registry'[u] # Missing
      PROVE  CycleInv'
  BY <1>2 DEF CycleInv
<1>3. ASSUME NEW o \in Objects, Poll(o) PROVE CycleInv'
  <2>1. \A u \in Managed : registry'[u] # Missing
    BY <1>0, <1>3, LearntType DEF Poll
  <2> QED
    BY <1>2, <1>3, <2>1 DEF Poll, Idle, Managed
<1>4. ASSUME NEW o \in Objects, AddToHass(o) \/ RejectByHass(o) \/ RemoveFromHass(o)
      PROVE CycleInv'
  BY <1>0, <1>2, <1>4 DEF AddToHass, RejectByHass, RemoveFromHass, Idle, Managed
<1>5. ASSUME NEW given \in SUBSET Uids, StartCycle(given) PROVE CycleInv'
  <2>1. /\ cycle' = [given |-> given, done |-> {},
                     edges |-> [u \in Uids |-> IF u \in given THEN Edges(Object(u)) ELSE {}]]
        /\ Managed' = Managed /\ registry' = registry /\ \A u \in Uids : Object(u)' = Object(u)
        /\ given \subseteq Managed
    BY <1>5 DEF StartCycle, Managed, Object
  <2>2. \A u \in given : (Seen[Object(u)] \cup Named[Object(u)]) \cap Managed \subseteq Edges(Object(u))
    BY <1>0 DEF Edges, Registered
  <2> QED
    BY <1>0, <2>1, <2>2 DEF CycleInv
<1>6. CASE EndCycle
  BY <1>0, <1>2, <1>6 DEF EndCycle, Managed
<1>7. ASSUME NEW w \in Uids, UpdateNext(w) PROVE CycleInv'
  BY <1>7, UpdateNextKeeps
<1>8. ASSUME NEW w \in Uids, Create(w) PROVE CycleInv'
  <2>1. (CHOOSE v \in Values : TRUE) # Missing
    BY UpdatesConstants
  <2>2. \A u \in Managed' : registry'[u] # Missing
    BY <1>0, <1>8, <2>1 DEF Create, Managed, TypeOK
  <2> QED
    BY <1>8, <2>2 DEF CycleInv, Create, Idle
<1>9. ASSUME NEW w \in Uids, Remove(w) PROVE CycleInv'
  <2>1. \A u \in Managed' : u # w /\ registry'[u] = registry[u] /\ u \in Managed
    BY <1>9, <1>0 DEF Remove, Managed, TypeOK
  <2> QED
    BY <1>0, <1>9, <2>1 DEF CycleInv, Remove, Idle
<1>10. ASSUME NEW e \in Entities, NEW s \in Observed, SetReading(e, s) PROVE CycleInv'
  BY <1>0, <1>2, <1>10 DEF SetReading, Idle, Managed
<1> QED
  BY <1>1, <1>3, <1>4, <1>5, <1>6, <1>7, <1>8, <1>9, <1>10 DEF Next, CycleStep

\* However the sensors refer to each other and whichever are asked for, a cycle
\* reads nothing before it is updated (_update_sensors_in_order).
THEOREM SettlingHolds == Spec => CyclesSettle
<1> DEFINE AtEnd ==
      EndCycle =>
        \A u \in cycle.given \cap cycle.done :
          Seen[Object(u)] = Reads[Object(u)] =>
            /\ Correct(Object(u))
            /\ registry[u] = native[Object(u)]
<1>1. Init => CycleInv
  BY DEF Init, CycleInv, Managed
<1>2. TypeOK /\ CycleInv /\ [Next]_vars => CycleInv'
  BY CycleStepKeeps
<1>3. CycleInv => AtEnd
  BY DEF CycleInv, EndCycle, Idle, Settled
<1>4. TypeOK /\ CycleInv /\ [Next]_vars => [AtEnd]_vars
  BY <1>3
<1> QED
  BY <1>1, <1>2, <1>4, TypesHold, PTL DEF Spec, CyclesSettle
=============================================================================
