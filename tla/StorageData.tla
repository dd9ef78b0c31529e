---------------------------- MODULE StorageData ----------------------------
(***************************************************************************)
(* The contents of StorageManager._data: which sensor is stored in which   *)
(* sensor set, with which configuration, and what each sensor set carries. *)
(* Everything here is a pure operator on such contents; SensorStorage says *)
(* when they are applied, saved and indexed.                               *)
(*                                                                         *)
(* A configuration keeps only what the storage layer tells apart: the      *)
(* sensor's own entity_id, the entity each formula variable names, and the *)
(* entities that occur in the text of its formulas.  Python dictionaries   *)
(* are total functions with Absent where a key is missing.                 *)
(***************************************************************************)
EXTENDS Integers, FiniteSets

CONSTANTS
  Uids,      \* unique_id values of sensors
  SetIds,    \* sensor_set_id values
  Entities,  \* Home Assistant entity ids
  Vars,      \* names of formula variables and global variables
  Absent,    \* no such key, no such value
  Garbled,   \* an entity id of a formula that is no longer one
  PrefixOf   \* <<e, f>>: the id e is a proper substring of the id f

ASSUME UidsFinite == IsFiniteSet(Uids)

Bindings == [Vars -> Entities \cup {Absent}]

Configs == [entity_id : Entities \cup {Absent},
            variables : Bindings,
            formula   : SUBSET (Entities \cup {Garbled})]

StoredSensor == [sensor_set_id : SetIds, config : Configs]

SetData == [sensor_count : Nat, globals : Bindings \cup {Absent}]

\* A bulk request: the configuration it stores for each sensor it names.
Batches == [Uids -> Configs \cup {Absent}]

Keys(batch) == {u \in Uids : batch[u] # Absent}

\* version stands for the updated_at stamps: it grows with every change.
StorageContents == [sensors : [Uids -> StoredSensor \cup {Absent}],
                    sets    : [SetIds -> SetData \cup {Absent}],
                    version : Nat]

ASSUME AbsentIsNothing ==
  /\ Absent \notin Entities \cup Bindings \cup Configs \cup StoredSensor \cup SetData
                        \cup StorageContents
  /\ Garbled \notin Entities
  /\ PrefixOf \subseteq Entities \X Entities

NoBindings == [v \in Vars |-> Absent]

EmptyContents == [sensors |-> [u \in Uids |-> Absent],
                  sets    |-> [s \in SetIds |-> Absent],
                  version |-> 0]
-----------------------------------------------------------------------------
(* Reading *)

HasSensor(d, u) == d.sensors[u] # Absent

SetExists(d, s) == d.sets[s] # Absent

SensorsOf(d, s) ==
  {u \in Uids : HasSensor(d, u) /\ d.sensors[u].sensor_set_id = s}

GetSensorCount(d, s) == Cardinality(SensorsOf(d, s))

GlobalsOf(d, s) ==
  IF SetExists(d, s) /\ d.sets[s].globals # Absent
  THEN d.sets[s].globals ELSE NoBindings

\* A formula variable may repeat a global variable, never contradict it.
Agree(bindings, globals) ==
  \A v \in Vars : Absent \in {bindings[v], globals[v]} \/ bindings[v] = globals[v]

\* Mistake: the globals of the set are not looked up.
ValidIn_NoGlobals(d, s, c) == Agree(c.variables, NoBindings)

ValidIn(d, s, c) == Agree(c.variables, GlobalsOf(d, s))

NoGlobalConflict(d, s, g) ==
  \A u \in SensorsOf(d, s) : Agree(d.sensors[u].config.variables, g)

\* EntityIndex.add_sensor_entities and add_global_entities: the text of a
\* formula contributes nothing.
EntitiesOf(c) ==
  ({c.entity_id} \cup {c.variables[v] : v \in Vars}) \ {Absent}

\* Mistake: a variable without an entity is indexed too.
EntitiesIn_WithAbsent(g) == {g[v] : v \in Vars}

EntitiesIn(g) == {g[v] : v \in Vars} \ {Absent}

IndexOf(d, s) ==
  EntitiesIn(GlobalsOf(d, s))
    \cup UNION {EntitiesOf(d.sensors[u].config) : u \in SensorsOf(d, s)}
-----------------------------------------------------------------------------
(* Changing *)

Touch(d) == [d EXCEPT !.version = @ + 1]

Recounted(d, s) ==
  [d EXCEPT !.sets[s].sensor_count = GetSensorCount(d, s)]

\* async_store_sensor: the sensor may have been in another set, whose count
\* is left as it was.
Stored(d, s, u, c) ==
  Recounted([d EXCEPT !.sensors[u] = [sensor_set_id |-> s, config |-> c]], s)

Updated(d, u, c) == [d EXCEPT !.sensors[u].config = c]

\* async_store_sensors_bulk, before the sensor count is taken again.
BatchStored(d, s, batch) ==
  [d EXCEPT !.sensors = [u \in Uids |->
     IF batch[u] = Absent THEN @[u]
     ELSE [sensor_set_id |-> s, config |-> batch[u]]]]

\* async_delete_sensor and _remove_sensor_direct
Removed(d, u) ==
  LET s  == d.sensors[u].sensor_set_id
      d1 == [d EXCEPT !.sensors[u] = Absent]
  IN  IF SetExists(d1, s) THEN Recounted(d1, s) ELSE d1

SetCreated(d, s, g) ==
  [d EXCEPT !.sets[s] = [sensor_count |-> 0, globals |-> g]]

\* Mistake: the sensors of the set stay.
SetDeleted_SetOnly(d, s) == [d EXCEPT !.sets[s] = Absent]

SetDeleted(d, s) ==
  [d EXCEPT !.sensors = [u \in Uids |-> IF u \in SensorsOf(d, s) THEN Absent ELSE @[u]],
            !.sets[s] = Absent]

GlobalsSet(d, s, g) == [d EXCEPT !.sets[s].globals = g]

Swap(e, old, new) == IF e = old THEN new ELSE e

RenamedBindings(b, old, new) == [v \in Vars |-> Swap(b[v], old, new)]

\* formula.replace(old, new) replaces every occurrence of the text of old,
\* the ones inside a longer entity id included.
RenamedText(text, old, new) ==
  {IF <<old, e>> \in PrefixOf THEN Garbled ELSE Swap(e, old, new) : e \in text}

RenamedConfig(c, old, new) ==
  [entity_id |-> Swap(c.entity_id, old, new),
   variables |-> RenamedBindings(c.variables, old, new),
   formula   |-> RenamedText(c.formula, old, new)]

\* _update_sensor_configurations and _update_global_settings of the listener.
RenamedSensor(x, old, new) ==
  IF x = Absent THEN Absent
  ELSE [x EXCEPT !.config = RenamedConfig(@, old, new)]

RenamedSet(x, old, new) ==
  IF x = Absent THEN Absent
  ELSE [x EXCEPT !.globals =
          IF @ = Absent THEN Absent ELSE RenamedBindings(@, old, new)]

Renamed(d, old, new) ==
  [d EXCEPT !.sensors = [u \in Uids |-> RenamedSensor(@[u], old, new)],
            !.sets    = [s \in SetIds |-> RenamedSet(@[s], old, new)]]
=============================================================================
