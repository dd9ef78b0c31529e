--------------------------- MODULE SensorUpdates ---------------------------
(***************************************************************************)
(* How sensors get their values (sensor_manager.py, DynamicSensor): each   *)
(* is polled by Home Assistant, and update cycles of the manager evaluate  *)
(* many in the order of what they read.  A sensor reads entities, and      *)
(* other sensors through the states Home Assistant shows for them; what it *)
(* computes goes to its own state, its last good value and attributes, and *)
(* to the evaluator's registry.  Meanwhile sensors are replaced, removed,  *)
(* added and rejected: an object the manager has forgotten may stay live.  *)
(*                                                                         *)
(* An update, and a whole cycle of them, runs without a suspension point;  *)
(* a cycle is a sequence of small steps that excludes all others.          *)
(***************************************************************************)
EXTENDS Naturals

CONSTANTS
  Uids,
  Entities,
  Uses,      \* Objects -> the entities named in the formula's text
  Reads,     \* Objects -> the sensors it reads by their entity ids
  Named,     \* Objects -> the sensors it still names by their keys
  Seen,      \* Objects -> the sensors in Reads whose object id is their key
  Own,       \* Objects -> the sensor or entity that has the entity id of its
             \* configuration: the sensor itself, unless the id was taken
  Values,
  Result(_, _), \* what an object's formula computes from what it reads
  Missing,
  Unavailable, Unknown, \* states without a value
  MaxFatal,  \* max_fatal_errors
  Observed,  \* bound: the states the entities take
  Restored,  \* bound: the values Home Assistant restores
  MaxMade,   \* bound: Uids -> how often a sensor is created
  None

States == Values \cup {Unavailable, Unknown, Missing}

\* The DynamicSensor objects, numbered for each unique id.
Objects == UNION {{u} \X (1..MaxMade[u]) : u \in Uids}

ASSUME UpdatesConstants ==
  /\ Uses \in [Objects -> SUBSET Entities]
  /\ Reads \in [Objects -> SUBSET Uids] /\ Named \in [Objects -> SUBSET Uids]
  /\ Seen \in [Objects -> SUBSET Uids] /\ \A o \in Objects : Seen[o] \subseteq Reads[o]
  /\ Own \in [Objects -> Uids \cup Entities]
  /\ MaxFatal \in Nat \ {0} /\ MaxMade \in [Uids -> Nat]
  /\ Observed \subseteq States /\ Restored \subseteq Values
  /\ Values # {} /\ None \notin States /\ Missing # Unavailable
  /\ Unknown # Missing /\ Unknown # Unavailable
  /\ Values \cap {Missing, Unavailable, Unknown} = {}
  /\ None \notin Entities /\ Uids \cap Entities = {}

ASSUME ResultsAreValues ==
  \A o \in Objects : \A read \in [Uses[o] \cup Reads[o] -> Values] :
    Result(o, read) \in Values

VARIABLES
  reading,   \* Entities -> States
  managed,   \* _sensors_by_unique_id: the number of the object, 0 if there is none
  made,
  place,     \* none, queued, live, rejected or gone
  native,    \* _attr_native_value
  available, \* _attr_available
  last,      \* the attribute last_valid_state
  derived,   \* the value the calculated attributes were derived from
  published, \* Uids -> the state Home Assistant shows
  registry,  \* the evaluator's registry: Missing if not registered
  errors,    \* fatal errors under the formula's name, the unique id
  cycle      \* the update cycle under way

shown == <<native, available, last, derived, published>>
life == <<managed, made, place>>
vars == <<reading, life, shown, registry, errors, cycle>>

Registered == {u \in Uids : registry[u] # Missing}
Managed == {u \in Uids : managed[u] # 0}
Object(u) == <<u, managed[u]>>
-----------------------------------------------------------------------------
(* What an update comes to *)

StateOf(x) == IF x \in Entities THEN reading[x] ELSE published[x]
Inputs(o) == Uses[o] \cup Reads[o]

Open(u) == errors[u] = MaxFatal
Faulty(o) == \E x \in Inputs(o) : StateOf(x) = Missing
Alternates(o) == {x \in Inputs(o) : StateOf(x) \in {Unavailable, Unknown}}

\* The first of them in the context decides, an order the model leaves open.
Alternate(o) == StateOf(CHOOSE x \in Alternates(o) : TRUE)

\* A registered sensor without a value is an error of the sensor that names it.
Unset(o) == \E v \in Named[o] : registry[v] = None

\* An entity without a value is an evaluation that succeeds, but an unavailable
\* one leaves the sensor unavailable.  The registered value of a named sensor is
\* looked up but not put into the context, so the expression fails, and that is
\* an alternate state.
Outcome(o) ==
  LET u == o[1]
      value == Result(o, [x \in Inputs(o) |-> StateOf(x)])
  IN  CASE Open(u) -> [kind |-> "failed", value |-> None, errors |-> errors[u]]
        [] ~Open(u) /\ (Faulty(o) \/ Unset(o)) ->
             [kind |-> "failed", value |-> None, errors |-> errors[u] + 1]
        [] ~Open(u) /\ ~Faulty(o) /\ ~Unset(o) /\ Alternates(o) # {} ->
             [kind |-> IF Alternate(o) = Unavailable THEN "failed" ELSE "unknown",
              value |-> None, errors |-> 0]
        [] OTHER -> IF Named[o] # {}
                    THEN [kind |-> "unknown", value |-> None, errors |-> 0]
                    ELSE [kind |-> "ok", value |-> value, errors |-> 0]

\* The last good value is seeded, while there is none, with what is shown under
\* the sensor's own entity id, which the code takes for the backing entity: every
\* sensor has one by then.  Any state will do, the word "unavailable" too.
Seeded(o) ==
  LET shownState == StateOf(Own[o])
  IN  IF last[o] = None /\ shownState # Missing THEN shownState ELSE last[o]

\* Mistake: the attributes of the last success are kept when they cannot be
\* evaluated again.
Derivations_Kept(o, value) == {value, derived[o]}

\* They are cleared first; if one of them fails, all may be lost.
Derivations(o, value) == {value, None}

Shown(o) ==
  IF ~available'[o] THEN Unavailable ELSE IF native'[o] = None THEN Unknown ELSE native'[o]

Shows(o) ==
  published' = IF place[o] # "live" THEN published
               ELSE [published EXCEPT ![o[1]] = Shown(o)]

\* Mistake: the evaluator is told about sensors that are no longer managed.
Tells_Anyway(o, value) == TRUE

\* _on_sensor_updated registers a value for a sensor that is managed, whichever
\* of its objects it comes from.
Tells(o, value) == o[1] \in Managed

Learnt(o, out) ==
  IF out.kind = "ok" /\ Tells(o, out.value)
  THEN [registry EXCEPT ![o[1]] = out.value] ELSE registry

\* Mistake: the attributes are rebuilt without the last good value.
LastGood_Dropped(o, out) == IF out.kind = "ok" THEN None ELSE Seeded(o)

LastGood(o, out) == IF out.kind = "ok" THEN out.value ELSE Seeded(o)

\* _async_update_sensor: a failure keeps the value but makes it unavailable.
Update(o) ==
  LET out == Outcome(o)
  IN  /\ native' = IF out.kind = "failed" THEN native ELSE [native EXCEPT ![o] = out.value]
      /\ available' = [available EXCEPT ![o] = out.kind # "failed"]
      /\ last' = [last EXCEPT ![o] = LastGood(o, out)]
      /\ \E d \in IF out.kind = "ok" THEN Derivations(o, out.value) ELSE {derived[o]} :
           derived' = [derived EXCEPT ![o] = d]
      /\ errors' = [errors EXCEPT ![o[1]] = out.errors]
      /\ Shows(o)

Idle == cycle = None

\* Mistake: a sensor that is unavailable is not updated any more.
Poll_Available(o) ==
  /\ Idle /\ place[o] = "live" /\ available[o]
  /\ Update(o)
  /\ registry' = Learnt(o, Outcome(o))
  /\ UNCHANGED <<reading, life, cycle>>

Poll(o) ==
  /\ Idle /\ place[o] = "live"
  /\ Update(o)
  /\ registry' = Learnt(o, Outcome(o))
  /\ UNCHANGED <<reading, life, cycle>>
-----------------------------------------------------------------------------
(* Update cycles *)

\* What the order takes into account, of the sensors that are asked for.
Edges(o) == (Seen[o] \cup Named[o]) \cap Registered

\* All managed sensors, or those that use entities that have changed, and the
\* sensors they read.
StartCycle(given) ==
  /\ Idle /\ given \subseteq Managed /\ given # {}
  /\ cycle' = [given |-> given, done |-> {},
               edges |-> [u \in Uids |-> IF u \in given THEN Edges(Object(u)) ELSE {}]]
  /\ UNCHANGED <<reading, life, shown, registry, errors>>

Listed == cycle.given \cup UNION {cycle.edges[u] : u \in cycle.given}

\* Mistake: the order is that of the dictionary.
Due_Any == Listed \ cycle.done

Due == {u \in Listed \ cycle.done : cycle.edges[u] \subseteq cycle.done}

\* The registry takes the object's value, whatever became of the update.
UpdateNext(u) ==
  /\ ~Idle /\ u \in Due
  /\ cycle' = [cycle EXCEPT !.done = @ \cup {u}]
  /\ IF u \notin Managed THEN UNCHANGED <<shown, registry, errors>>
     ELSE LET o == Object(u)
              learnt == Learnt(o, Outcome(o))
          IN  /\ Update(o)
              /\ registry' = IF learnt[u] = Missing THEN learnt
                             ELSE [learnt EXCEPT ![u] = native'[o]]
  /\ UNCHANGED <<reading, life>>

\* Sensors in a cycle of references are passed over.
EndCycle ==
  /\ ~Idle /\ Due = {}
  /\ cycle' = None
  /\ UNCHANGED <<reading, life, shown, registry, errors>>
-----------------------------------------------------------------------------
(* The objects *)

\* A load makes the sensor, or makes it again; it is registered with 0.0, for
\* which any value stands.
Create(u) ==
  /\ Idle /\ made[u] < MaxMade[u]   \* the bound
  /\ made' = [made EXCEPT ![u] = @ + 1]
  /\ managed' = [managed EXCEPT ![u] = made[u] + 1]
  /\ place' = [place EXCEPT ![<<u, made[u] + 1>>] = "queued"]
  /\ registry' = [registry EXCEPT ![u] = CHOOSE v \in Values : TRUE]
  /\ UNCHANGED <<reading, shown, errors, cycle>>

\* remove_sensor; with its backing entities, the sensor stays registered.
Remove(u) ==
  /\ Idle /\ u \in Managed
  /\ managed' = [managed EXCEPT ![u] = 0]
  /\ \E r \in {Missing, registry[u]} : registry' = [registry EXCEPT ![u] = r]
  /\ UNCHANGED <<reading, made, place, shown, errors, cycle>>

LiveObjects(u) == {o \in Objects : o[1] = u /\ place[o] = "live"}

\* async_added_to_hass restores the state shown before, over what a cycle has
\* computed meanwhile.
AddToHass(o) ==
  /\ Idle /\ place[o] = "queued" /\ LiveObjects(o[1]) = {}
  /\ place' = [place EXCEPT ![o] = "live"]
  /\ \E restored \in Restored \cup {native[o]} : native' = [native EXCEPT ![o] = restored]
  /\ UNCHANGED <<reading, managed, made, available, last, derived, registry, errors, cycle>>
  /\ published' = [published EXCEPT ![o[1]] = Shown(o)]

RejectByHass(o) ==
  /\ Idle /\ place[o] = "queued" /\ LiveObjects(o[1]) # {}
  /\ place' = [place EXCEPT ![o] = "rejected"]
  /\ UNCHANGED <<reading, managed, made, shown, registry, errors, cycle>>

\* Home Assistant goes on showing an entity it knows, as unavailable.
RemoveFromHass(o) ==
  /\ Idle /\ place[o] = "live"
  /\ place' = [place EXCEPT ![o] = "gone"]
  /\ published' = [published EXCEPT ![o[1]] = Unavailable]
  /\ UNCHANGED <<reading, managed, made, native, available, last, derived, registry, errors, cycle>>

SetReading(e, s) ==
  /\ Idle
  /\ reading' = [reading EXCEPT ![e] = s]
  /\ UNCHANGED <<life, shown, registry, errors, cycle>>

Init ==
  /\ reading \in [Entities -> Observed]
  /\ managed = [u \in Uids |-> 0] /\ made = [u \in Uids |-> 0]
  /\ place = [o \in Objects |-> "none"]
  /\ native = [o \in Objects |-> None] /\ available = [o \in Objects |-> TRUE]
  /\ last = [o \in Objects |-> None] /\ derived = [o \in Objects |-> None]
  /\ published = [u \in Uids |-> Missing]
  /\ registry = [u \in Uids |-> Missing]
  /\ errors = [u \in Uids |-> 0]
  /\ cycle = None

CycleStep == EndCycle \/ \E u \in Uids : UpdateNext(u)

Next ==
  \/ \E o \in Objects : Poll(o) \/ AddToHass(o) \/ RejectByHass(o) \/ RemoveFromHass(o)
  \/ \E given \in SUBSET Uids : StartCycle(given)
  \/ CycleStep
  \/ \E u \in Uids : Create(u) \/ Remove(u)
  \/ \E e \in Entities, s \in Observed : SetReading(e, s)

Spec == Init /\ [][Next]_vars

\* A cycle is one call; Home Assistant polls again and again between them.
FairSpec ==
  Spec /\ WF_vars(CycleStep) /\ \A o \in Objects : SF_vars(Poll(o))
-----------------------------------------------------------------------------
(* Properties *)

TypeOK ==
  /\ reading \in [Entities -> States]
  /\ \A u \in Uids : made[u] \in 0..MaxMade[u] /\ managed[u] \in 0..made[u]
  /\ made = [u \in Uids |-> made[u]] /\ managed = [u \in Uids |-> managed[u]]
  /\ place \in [Objects -> {"none", "queued", "live", "rejected", "gone"}]
  /\ native \in [Objects -> Values \cup {None}] /\ available \in [Objects -> BOOLEAN]
  /\ last \in [Objects -> Values \cup {Unavailable, Unknown, None}]
  /\ derived \in [Objects -> Values \cup {None}]
  /\ published \in [Uids -> States]
  /\ registry \in [Uids -> Values \cup {None, Missing}]
  /\ errors \in [Uids -> 0..MaxFatal]
  /\ cycle = None \/ cycle \in [given : SUBSET Uids, done : SUBSET Uids,
                                edges : [Uids -> SUBSET Uids]]

\* An object shows what its formula comes to now.
Correct(o) ==
  LET out == Outcome(o)
  IN  /\ available[o] = (out.kind # "failed")
      /\ out.kind # "failed" => native[o] = out.value

\* When a cycle ends, every sensor that was asked for, was updated, and reads
\* only sensors the order knows of shows what its formula comes to over the
\* states shown at the end, and so does the registry: nothing was read before
\* it was updated (_update_sensors_in_order).  A sensor in a circle of references
\* is never updated by a cycle.
CyclesSettle ==
  [][EndCycle =>
       \A u \in cycle.given \cap cycle.done :
         Seen[Object(u)] = Reads[Object(u)] =>
           /\ Correct(Object(u))
           /\ registry[u] = native[Object(u)]]_vars

\* A sensor that is not managed gets no new value in the registry, though its
\* object may still be polled (_on_sensor_updated looks the sensor up).
RemovedStayOut ==
  [][\A u \in Uids \ Managed : managed'[u] = 0 => registry'[u] = registry[u]]_vars

\* Once a sensor has a last good value it keeps one, through failures, unknown
\* states, restores and lost attributes; and the attributes it shows were derived
\* from that very value (_handle_main_result, _evaluate_attributes).
LastGoodSurvives ==
  [][\A o \in Objects : /\ last[o] # None => last'[o] # None
                        /\ derived'[o] # None => derived'[o] = last'[o]]_vars

\* When the entities stop changing and no sensor is made, removed or added any
\* more, every live sensor comes to show what its formula computes over the
\* states of the others, or that it failed too often (architecture_overview.md).
Converges ==
  \A r \in [Entities -> Observed] :
    (<>[](reading = r)) /\ <>[][UNCHANGED life]_vars
      => <>[](\A u \in Uids : \A o \in LiveObjects(u) : Correct(o))
=============================================================================
