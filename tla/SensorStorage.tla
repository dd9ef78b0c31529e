--------------------------- MODULE SensorStorage ---------------------------
(***************************************************************************)
(* StorageManager, the SensorSet handles it caches, and the                *)
(* EntityRegistryListener, on one asyncio event loop.                      *)
(*                                                                         *)
(* Every operation changes _data at once, in memory, and then awaits       *)
(* async_save, which takes _lock, takes a snapshot of _data and hands it   *)
(* to Home Assistant's Store.  While an operation waits (for the lock or   *)
(* for the write) every other operation, and every entity-registry event,  *)
(* may run.  What an operation does after its save, rebuilding the entity  *)
(* index or making its next change, runs with no suspension in between:    *)
(* `turn' names the task that has the loop to itself.                      *)
(*                                                                         *)
(* An operation is a program, a sequence of steps: changes, each followed  *)
(* by a save, and what the code does when a save has returned.             *)
(***************************************************************************)
EXTENDS StorageData, SequencesExt

CONSTANTS
  Clients,       \* tasks that call the storage API
  Listeners,     \* tasks the registry listener creates
  NewConfigs,    \* the configurations callers store
  NewGlobals,    \* the global variables callers set
  NewBatches,    \* the requests of bulk stores
  Modifications, \* the SensorSetModification requests
  Imports,       \* the Config objects imported
  Ops,           \* the operations an instance exercises
  MaxOps, MaxRenames, MaxFailures, MaxRestarts \* bounds of an instance

Tasks == Clients \cup Listeners

Bound == [ops |-> MaxOps, renames |-> MaxRenames,
          failures |-> MaxFailures, restarts |-> MaxRestarts]

ModificationShape ==
  [globals : Bindings \cup {Absent},
   rename  : [old : Entities, new : Entities] \cup {Absent},
   remove  : SUBSET Uids, update : Batches, add : Batches]

ImportShape == [globals : Bindings, sensors : Batches, replace : BOOLEAN]

ASSUME StorageConstants ==
  /\ {MaxOps, MaxRenames, MaxFailures, MaxRestarts} \subseteq Nat
  /\ NewConfigs \subseteq Configs
  /\ NewGlobals \subseteq Bindings
  /\ NewBatches \subseteq Batches
  /\ Modifications \subseteq ModificationShape
  /\ Imports \subseteq ImportShape
  /\ Absent \notin Tasks

VARIABLES
  data,      \* StorageManager._data
  disk,      \* what Home Assistant's Store last wrote
  index,     \* the EntityIndex of each cached SensorSet, Absent if not cached
  holder,    \* the task inside `async with self._lock', or Absent
  waiters,   \* the tasks queued for the lock, in order
  snap,      \* the contents the holder is writing
  task,      \* what is left of each task's program
  turn,      \* the task that runs before the loop does anything else
  registry,  \* the entity ids Home Assistant knows
  acked,     \* the newest version a completed save has promised
  torn,      \* the sets whose index misses what no operation has yet put right
  used       \* how much of each bound has been used

vars == <<data, disk, index, holder, waiters, snap, task, turn, registry,
          acked, torn, used>>

Idle == [left |-> <<>>, needs |-> 0, busy |-> FALSE, direct |-> FALSE]

Running(program) == [left |-> program, needs |-> 0, busy |-> TRUE, direct |-> FALSE]

\* An operation that rebuilds no index after its saves.
Direct(program) == [left |-> program, needs |-> 0, busy |-> TRUE, direct |-> TRUE]

\* Its last change made the given version.
Saving(x, version) == [x EXCEPT !.left = Tail(@), !.needs = version]

Use(k) == /\ used[k] < Bound[k]
          /\ used' = [used EXCEPT ![k] = @ + 1]
-----------------------------------------------------------------------------
(* The steps programs are made of: changes, which are saved; "index", which*)
(* rebuilds the indexes of some sets; "registry", which renames an entity  *)
(* in Home Assistant's registry; and "config", the start of               *)
(* async_from_config.                                                      *)

StepShape ==
       [op : {"create", "globals"}, set : SetIds, globals : Bindings]
  \cup [op : {"delete", "drop"}, set : SetIds]
  \cup [op : {"store"}, set : SetIds, uid : Uids, config : Configs]
  \cup [op : {"update", "write"}, uid : Uids, config : Configs]
  \cup [op : {"remove"}, uid : Uids]
  \cup [op : {"bulk"}, set : SetIds, batch : Batches]
  \cup [op : {"rename", "registry"}, old : Entities, new : Entities]
  \cup [op : {"index"}, sets : SUBSET SetIds]
  \cup [op : {"config"}, set : SetIds, import : ImportShape]

IsChange(step) == step.op \notin {"index", "registry", "config"}

\* The checks an operation makes before it changes anything.
Accepts(d, ch) ==
  \/ ch.op = "create" /\ ~SetExists(d, ch.set)
  \/ ch.op = "delete" /\ SetExists(d, ch.set)
  \/ ch.op = "drop" /\ SetExists(d, ch.set) /\ d.sets[ch.set].globals # Absent
  \/ ch.op = "store" /\ SetExists(d, ch.set) /\ ValidIn(d, ch.set, ch.config)
  \/ /\ ch.op = "bulk" /\ SetExists(d, ch.set)
     /\ \A u \in Keys(ch.batch) : ValidIn(d, ch.set, ch.batch[u])
  \/ /\ ch.op = "update" /\ HasSensor(d, ch.uid)
     /\ ValidIn(d, d.sensors[ch.uid].sensor_set_id, ch.config)
  \/ ch.op \in {"write", "remove"} /\ HasSensor(d, ch.uid)
  \/ /\ ch.op = "globals" /\ SetExists(d, ch.set)
     /\ NoGlobalConflict(d, ch.set, ch.globals)
  \/ ch.op = "rename"

Changed(d, ch) ==
  CASE ch.op = "create"              -> SetCreated(d, ch.set, ch.globals)
    [] ch.op = "delete"              -> SetDeleted(d, ch.set)
    [] ch.op = "drop"                -> GlobalsSet(d, ch.set, Absent)
    [] ch.op = "store"               -> Stored(d, ch.set, ch.uid, ch.config)
    [] ch.op = "bulk"                -> Recounted(BatchStored(d, ch.set, ch.batch), ch.set)
    [] ch.op \in {"update", "write"} -> Updated(d, ch.uid, ch.config)
    [] ch.op = "remove"              -> Removed(d, ch.uid)
    [] ch.op = "globals"             -> GlobalsSet(d, ch.set, ch.globals)
    [] ch.op = "rename"              -> Renamed(d, ch.old, ch.new)

\* The listener saves nothing when no stored configuration held the old id.
Skips(d, ch) == ch.op = "rename" /\ Renamed(d, ch.old, ch.new) = d

\* Mistake: the handle whose index is rebuilt is another one.
IndexStep_Nothing(S) == [op |-> "index", sets |-> {}]

IndexStep(S) == [op |-> "index", sets |-> S]

\* One change for each member of S, in the order of the caller's list.
Each(S, F(_)) == LET q == SetToSeq(S) IN [i \in DOMAIN q |-> F(q[i])]

Writes(batch) ==
  Each(Keys(batch),
       LAMBDA u : [op |-> "write", uid |-> u, config |-> batch[u]])

Removals(S) == Each(S, LAMBDA u : [op |-> "remove", uid |-> u])

Stores(s, batch) ==
  Each(Keys(batch),
       LAMBDA u : [op |-> "store", set |-> s, uid |-> u, config |-> batch[u]])
-----------------------------------------------------------------------------
(* SensorSet.async_modify *)

\* _apply_entity_id_changes_deferred and its twin that works on copies: the
\* text of a formula is left as it is.
Moved(c, rename) ==
  IF rename = Absent THEN c
  ELSE [c EXCEPT !.entity_id = Swap(@, rename.old, rename.new),
                 !.variables = RenamedBindings(@, rename.old, rename.new)]

\* build_final_sensor_list and apply_entity_id_changes_to_sensors
FinalSensors(d, s, m) ==
  [u \in Uids |->
     IF m.update[u] # Absent THEN Moved(m.update[u], m.rename)
     ELSE IF m.add[u] # Absent THEN Moved(m.add[u], m.rename)
     ELSE IF u \in SensorsOf(d, s) \ m.remove
          THEN Moved(d.sensors[u].config, m.rename)
     ELSE Absent]

\* validate_modification
ValidModification(d, s, m) ==
  /\ Keys(m.add) \cap SensorsOf(d, s) = {}
  /\ m.remove \cup Keys(m.update) \subseteq SensorsOf(d, s)
  /\ m.remove \cap Keys(m.update) = {}
  /\ m.globals # Absent =>
       LET final == FinalSensors(d, s, m)
       IN  \A u \in Keys(final) : Agree(final[u].variables, m.globals)

\* rebuild_entity_index_for_modification: the index of the state to come.
FinalIndex(d, s, m) ==
  LET final == FinalSensors(d, s, m)
      g     == IF m.globals = Absent THEN GlobalsOf(d, s) ELSE m.globals
  IN  EntitiesIn(g) \cup UNION {EntitiesOf(final[u]) : u \in Keys(final)}

\* The sensors are read once, before the first save; what is written later
\* is a copy of what they were then.
RenamedCopies(d, s, m) ==
  [u \in Uids |->
     IF u \in SensorsOf(d, s) /\ Moved(d.sensors[u].config, m.rename) # d.sensors[u].config
     THEN Moved(d.sensors[u].config, m.rename) ELSE Absent]

ModifyProgram(d, s, m) ==
  (IF m.globals = Absent THEN <<>>
   ELSE <<[op |-> "globals", set |-> s, globals |-> m.globals]>>)
  \o Writes(RenamedCopies(d, s, m))
  \o Removals(m.remove)
  \o Writes(m.update)
  \o Stores(s, m.add)
  \o (IF m.rename = Absent THEN <<>>
      ELSE <<[op |-> "registry", old |-> m.rename.old, new |-> m.rename.new]>>)

\* async_from_yaml
ImportProgram(d, s, i) ==
  (IF i.replace /\ SetExists(d, s) THEN <<[op |-> "delete", set |-> s]>> ELSE <<>>)
  \o <<[op |-> "config", set |-> s, import |-> i]>>

\* async_from_config, which looks for the set after the deletion was saved.
FromConfig(d, s, i) ==
  (IF ~SetExists(d, s) THEN <<[op |-> "create", set |-> s, globals |-> i.globals]>>
   ELSE IF i.globals = NoBindings THEN <<>>
   ELSE <<[op |-> "globals", set |-> s, globals |-> i.globals], IndexStep({s})>>)
  \o Stores(s, i.sensors)
  \o <<IndexStep({s})>>
-----------------------------------------------------------------------------
Init ==
  /\ data = EmptyContents /\ disk = EmptyContents
  /\ index = [s \in SetIds |-> Absent]
  /\ holder = Absent /\ waiters = <<>> /\ snap = Absent
  /\ task = [t \in Tasks |-> Idle] /\ turn = Absent
  /\ registry \in SUBSET Entities
  /\ acked = 0 /\ torn = {}
  /\ used = [k \in DOMAIN Bound |-> 0]

\* get_sensor_set makes a handle for a set it has not cached, with an index
\* that is empty when the set does not exist.
Cached(S) ==
  [s \in SetIds |-> IF s \notin S \/ index[s] # Absent THEN index[s]
                    ELSE IF SetExists(data, s) THEN IndexOf(data, s) ELSE {}]

\* The entities of a set in contents d that neither its cached index nor the
\* set as it is accounts for.
Untracked(d, s) == IF index[s] = Absent THEN {} ELSE IndexOf(d, s) \ (index[s] \cup IndexOf(data, s))

\* A caller of the operation, when the event loop lets it start.
Ready(t, op) == turn = Absent /\ ~task[t].busy /\ op \in Ops /\ Use("ops")

\* Its coroutine runs until its first save.
Begin(t, call) ==
  /\ task' = [task EXCEPT ![t] = call]
  /\ turn' = t
  /\ UNCHANGED <<data, disk, holder, waiters, snap, registry, acked>>

\* StorageManager's own operations leave the indexes alone.
Call(t, change) ==
  /\ Accepts(data, change)
  /\ Begin(t, Direct(<<change>>))
  /\ UNCHANGED <<index, torn>>

\* The operations of a SensorSet handle rebuild its index after the save.
CallOnSet(t, s, change) ==
  /\ SetExists(data, s) /\ Accepts(data, change)
  /\ Begin(t, Running(<<change, IndexStep({s})>>))
  /\ index' = Cached({s}) /\ UNCHANGED torn

\* A caller takes the handle of a set, which need not exist yet.
GetSensorSet(t) == \E s \in SetIds :
  /\ Ready(t, "get")
  /\ index' = Cached({s})
  /\ UNCHANGED <<data, disk, holder, waiters, snap, task, turn, registry, acked, torn>>

CreateSensorSet(t) == \E s \in SetIds, g \in NewGlobals :
  /\ Ready(t, "create")
  /\ Call(t, [op |-> "create", set |-> s, globals |-> g])

DeleteSensorSet(t) == \E s \in SetIds :
  /\ Ready(t, "delete")
  /\ Call(t, [op |-> "delete", set |-> s])

AddSensor(t) == \E s \in SetIds, u \in Uids, c \in NewConfigs :
  /\ Ready(t, "add")
  /\ CallOnSet(t, s, [op |-> "store", set |-> s, uid |-> u, config |-> c])

UpdateSensor(t) == \E s \in SetIds, c \in NewConfigs : \E u \in SensorsOf(data, s) :
  /\ Ready(t, "update")
  /\ CallOnSet(t, s, [op |-> "update", uid |-> u, config |-> c])

RemoveSensor(t) == \E s \in SetIds : \E u \in SensorsOf(data, s) :
  /\ Ready(t, "remove")
  /\ CallOnSet(t, s, [op |-> "remove", uid |-> u])

\* StorageManager.async_update_sensor called past the SensorSet, as
\* SensorManager does when it persists resolved configurations.
PersistSensor(t) == \E u \in Uids, c \in NewConfigs :
  /\ Ready(t, "persist")
  /\ Call(t, [op |-> "update", uid |-> u, config |-> c])

\* async_replace_sensors stores the new sensors and rebuilds no index.
ReplaceSensors(t) == \E s \in SetIds, b \in NewBatches :
  /\ Ready(t, "replace")
  /\ Accepts(data, [op |-> "bulk", set |-> s, batch |-> b])
  /\ Begin(t, Direct(<<[op |-> "bulk", set |-> s, batch |-> b]>>))
  /\ index' = Cached({s}) /\ UNCHANGED torn

\* An exception leaves a call that has changed the memory and saved nothing.
Fail(s) ==
  /\ index' = Cached({s}) /\ torn' = torn \cup {s}
  /\ UNCHANGED <<disk, holder, waiters, snap, task, turn, registry, acked>>

\* The bulk store validates as it goes: the sensors before the first invalid
\* one stay in memory, unsaved and uncounted.
ReplaceSensorsRejected(t) == \E s \in SetIds, b \in NewBatches :
  \E done \in SUBSET {u \in Keys(b) : ValidIn(data, s, b[u])} :
    /\ Ready(t, "replace")
    /\ SetExists(data, s)
    /\ \E u \in Keys(b) : ~ValidIn(data, s, b[u])
    /\ data' = Touch(BatchStored(data, s, [u \in Uids |-> IF u \in done THEN b[u] ELSE Absent]))
    /\ Fail(s)

SetGlobalSettings(t) == \E s \in SetIds, g \in NewGlobals :
  /\ Ready(t, "globals")
  /\ CallOnSet(t, s, [op |-> "globals", set |-> s, globals |-> g])

DeleteGlobalSettings(t) == \E s \in SetIds :
  /\ Ready(t, "globals")
  /\ CallOnSet(t, s, [op |-> "drop", set |-> s])

\* async_set_global_variable, and async_delete_global_variable of a variable
\* that is there for e = Absent.
WithVariable(s, v, e) == [GlobalsOf(data, s) EXCEPT ![v] = e]

HasVariable(s, v) == GlobalsOf(data, s)[v] # Absent

SetGlobalVariable(t) ==
  \E s \in SetIds, v \in Vars, e \in Entities \cup {Absent} :
    /\ Ready(t, "variable")
    /\ e = Absent => HasVariable(s, v)
    /\ CallOnSet(t, s, [op |-> "globals", set |-> s, globals |-> WithVariable(s, v, e)])

\* The variable is written into the live dictionary before the validation
\* that rejects it.
SetGlobalVariableRejected(t) ==
  \E s \in SetIds, v \in Vars, e \in Entities \cup {Absent} :
    /\ Ready(t, "variable")
    /\ SetExists(data, s)
    /\ e = Absent => HasVariable(s, v)
    /\ ~NoGlobalConflict(data, s, WithVariable(s, v, e))
    /\ data' = IF data.sets[s].globals = Absent THEN data
               ELSE Touch(GlobalsSet(data, s, WithVariable(s, v, e)))
    /\ Fail(s)

\* async_modify: the index is that of the final state before anything is
\* saved, and nothing rebuilds it afterwards.  From here on it does not track
\* what is stored and is to be removed.
ModifySensorSet(t) == \E s \in SetIds, m \in Modifications :
  /\ Ready(t, "modify")
  /\ SetExists(data, s)
  /\ ValidModification(data, s, m)
  /\ Begin(t, Direct(ModifyProgram(data, s, m)))
  /\ index' = [index EXCEPT ![s] = FinalIndex(data, s, m)]
  /\ torn' = IF IndexOf(data, s) \subseteq index'[s] THEN torn \ {s} ELSE torn \cup {s}

ImportYaml(t) == \E s \in SetIds, i \in Imports :
  /\ Ready(t, "import")
  /\ Begin(t, Running(ImportProgram(data, s, i)))
  /\ UNCHANGED <<index, torn>>

Operation(t) ==
  \/ CreateSensorSet(t) \/ DeleteSensorSet(t) \/ GetSensorSet(t)
  \/ AddSensor(t) \/ UpdateSensor(t) \/ RemoveSensor(t)
  \/ PersistSensor(t) \/ ReplaceSensors(t) \/ ReplaceSensorsRejected(t)
  \/ SetGlobalSettings(t) \/ DeleteGlobalSettings(t)
  \/ SetGlobalVariable(t) \/ SetGlobalVariableRejected(t)
  \/ ModifySensorSet(t) \/ ImportYaml(t)
-----------------------------------------------------------------------------
(* Running a program. *)

Step(t) == Head(task[t].left)

Return(t) == [task EXCEPT ![t] = Idle]

Advance(t) == [task EXCEPT ![t].left = Tail(@)]

\* The sets whose index is yet to be rebuilt by a task.
Awaited(t) ==
  UNION {LET step == task[t].left[i]
         IN  IF step.op = "index" THEN step.sets
             ELSE IF step.op = "config" THEN {step.set} ELSE {} : i \in DOMAIN task[t].left}

MyTurn(t) == turn = t /\ task[t].left # <<>>

\* A change to contents d by a call that rebuilds no index may name entities
\* that the handle of the set does not track.
Torn(t, d) == torn \cup {s \in SetIds : task[t].direct /\ Untracked(d, s) # {}}

\* Mistake: a save that finds the lock taken leaves the writing to the holder.
Change_Coalesced(t) ==
  /\ MyTurn(t) /\ IsChange(Step(t))
  /\ Accepts(data, Step(t)) /\ ~Skips(data, Step(t))
  /\ data' = Touch(Changed(data, Step(t)))
  /\ task' = Advance(t)
  /\ waiters' = waiters
  /\ IF holder = Absent /\ waiters = <<>>
     THEN holder' = t /\ snap' = data' /\ turn' = Absent
     ELSE turn' = t /\ UNCHANGED <<holder, snap>>
  /\ torn' = Torn(t, data')
  /\ UNCHANGED <<disk, index, registry, acked, used>>

\* Mistake: the snapshot is taken before the change.
Change_OldSnapshot(t) ==
  /\ MyTurn(t) /\ IsChange(Step(t))
  /\ Accepts(data, Step(t)) /\ ~Skips(data, Step(t))
  /\ data' = Touch(Changed(data, Step(t)))
  /\ task' = [task EXCEPT ![t] = Saving(@, data'.version)]
  /\ turn' = Absent
  /\ IF holder = Absent /\ waiters = <<>>
     THEN holder' = t /\ snap' = data /\ waiters' = waiters
     ELSE waiters' = Append(waiters, t) /\ UNCHANGED <<holder, snap>>
  /\ torn' = Torn(t, data')
  /\ UNCHANGED <<disk, index, registry, acked, used>>

\* async_save when nobody has the lock or waits for it takes both the lock
\* and the snapshot at once; otherwise the task queues.
Change(t) ==
  /\ MyTurn(t) /\ IsChange(Step(t))
  /\ Accepts(data, Step(t)) /\ ~Skips(data, Step(t))
  /\ data' = Touch(Changed(data, Step(t)))
  /\ task' = [task EXCEPT ![t] = Saving(@, data'.version)]
  /\ turn' = Absent
  /\ IF holder = Absent /\ waiters = <<>>
     THEN holder' = t /\ snap' = data' /\ waiters' = waiters
     ELSE waiters' = Append(waiters, t) /\ UNCHANGED <<holder, snap>>
  /\ torn' = Torn(t, data')
  /\ UNCHANGED <<disk, index, registry, acked, used>>

Skip(t) ==
  /\ MyTurn(t) /\ IsChange(Step(t))
  /\ Accepts(data, Step(t)) /\ Skips(data, Step(t))
  /\ task' = Advance(t)
  /\ UNCHANGED <<data, disk, index, holder, waiters, snap, turn, registry, acked, torn, used>>

\* A check fails: the exception leaves the operation, what it did so far stays.
Reject(t) ==
  /\ MyTurn(t) /\ IsChange(Step(t))
  /\ ~Accepts(data, Step(t))
  /\ task' = Return(t) /\ turn' = Absent /\ torn' = torn \cup Awaited(t)
  /\ UNCHANGED <<data, disk, index, holder, waiters, snap, registry, acked, used>>

\* rebuild_entity_index raises for a set that no longer exists.
RebuildIndex(t) ==
  /\ MyTurn(t) /\ Step(t).op = "index"
  /\ index' = [s \in SetIds |-> IF s \in Step(t).sets /\ SetExists(data, s)
                                THEN IndexOf(data, s) ELSE index[s]]
  /\ IF \A s \in Step(t).sets : SetExists(data, s)
     THEN task' = Advance(t) /\ turn' = turn /\ torn' = torn \ Step(t).sets
     ELSE /\ task' = Return(t) /\ turn' = Absent
          /\ torn' = {s \in torn \cup Awaited(t) : s \in Step(t).sets => ~SetExists(data, s)}
  /\ UNCHANGED <<data, disk, holder, waiters, snap, registry, acked, used>>

StartConfig(t) ==
  /\ MyTurn(t) /\ Step(t).op = "config"
  /\ LET s == Step(t).set
     IN  /\ index' = IF SetExists(data, s) THEN Cached({s}) ELSE index
         /\ task' = [task EXCEPT ![t].left = FromConfig(data, s, Step(t).import)]
  /\ UNCHANGED <<data, disk, holder, waiters, snap, turn, registry, acked, torn, used>>

\* The program is over and control is back in the event loop.
Finish(t) ==
  /\ turn = t /\ task[t].left = <<>>
  /\ task' = Return(t) /\ turn' = Absent
  /\ UNCHANGED <<data, disk, index, holder, waiters, snap, registry, acked, torn, used>>
-----------------------------------------------------------------------------
(* async_save *)

\* Mistake: the task that gets the lock stays in the queue.
Acquire_StaysQueued(t) ==
  /\ turn = Absent /\ holder = Absent
  /\ waiters # <<>> /\ t = Head(waiters)
  /\ holder' = t /\ waiters' = waiters /\ snap' = data
  /\ UNCHANGED <<data, disk, index, task, turn, registry, acked, torn, used>>

\* The lock is handed over in the order it was asked for.
Acquire(t) ==
  /\ turn = Absent /\ holder = Absent
  /\ waiters # <<>> /\ t = Head(waiters)
  /\ holder' = t /\ waiters' = Tail(waiters) /\ snap' = data
  /\ UNCHANGED <<data, disk, index, task, turn, registry, acked, torn, used>>

\* Mistake: what changed during the write counts as saved.
Saved_TooMuch(t) ==
  /\ turn = Absent /\ holder = t
  /\ disk' = snap
  /\ holder' = Absent /\ snap' = Absent
  /\ acked' = data.version
  /\ turn' = t
  /\ UNCHANGED <<data, index, waiters, task, registry, torn, used>>

Saved(t) ==
  /\ turn = Absent /\ holder = t
  /\ disk' = snap
  /\ holder' = Absent /\ snap' = Absent
  /\ acked' = IF acked < task[t].needs THEN task[t].needs ELSE acked
  /\ turn' = t
  /\ UNCHANGED <<data, index, waiters, task, registry, torn, used>>

\* Mistake: nobody tells the caller.
SaveFailed_Silently(t) ==
  /\ turn = Absent /\ holder = t
  /\ Use("failures")
  /\ holder' = Absent /\ snap' = Absent
  /\ UNCHANGED <<data, disk, index, waiters, task, turn, registry, acked, torn>>

SaveFailed(t) ==
  /\ turn = Absent /\ holder = t
  /\ Use("failures")
  /\ holder' = Absent /\ snap' = Absent
  /\ task' = Return(t) /\ torn' = torn \cup Awaited(t)
  /\ UNCHANGED <<data, disk, index, waiters, turn, registry, acked>>

\* Mistake: a load that finds no storage version starts from nothing.
Restart_Empty ==
  /\ turn = Absent /\ Use("restarts")
  /\ data' = EmptyContents
  /\ index' = [s \in SetIds |-> Absent]
  /\ holder' = Absent /\ waiters' = <<>> /\ snap' = Absent
  /\ task' = [t \in Tasks |-> Idle]
  /\ UNCHANGED <<disk, turn, registry, acked, torn>>

\* Mistake: the write of the last process is not waited for.
Restart_WriteSurvives ==
  /\ turn = Absent /\ Use("restarts")
  /\ data' = disk
  /\ index' = [s \in SetIds |-> Absent]
  /\ waiters' = <<>>
  /\ task' = [t \in Tasks |-> Idle]
  /\ UNCHANGED <<disk, holder, snap, turn, registry, acked, torn>>

\* The process ends at any moment; async_load reads what was last written.
Restart ==
  /\ turn = Absent /\ Use("restarts")
  /\ data' = disk
  /\ index' = [s \in SetIds |-> Absent]
  /\ holder' = Absent /\ waiters' = <<>> /\ snap' = Absent
  /\ task' = [t \in Tasks |-> Idle] /\ torn' = {}
  /\ UNCHANGED <<disk, turn, registry, acked>>
-----------------------------------------------------------------------------
(* EntityRegistryListener *)

\* _handle_entity_registry_updated looks the old id up in the indexes, which
\* caches a SensorSet for every stored set, and lets a new task l follow the
\* rename only if one of them tracks it.  The task runs at once, up to its
\* save.  rest is what the other tasks are after the event.
Event(l, old, new, rest) ==
  LET stored   == {s \in SetIds : SetExists(data, s)}
      tracking == {s \in stored : old \in Cached(stored)[s]}
  IN  /\ index' = Cached(stored)
      /\ IF tracking = {}
         THEN task' = rest /\ turn' = Absent
         ELSE /\ ~task[l].busy
              /\ turn' = l
              /\ task' = [rest EXCEPT ![l] =
                   Running(<<[op |-> "rename", old |-> old, new |-> new],
                             IndexStep(tracking)>>)]

InRegistry(old, new) ==
  /\ old \in registry /\ new \notin registry
  /\ registry' = (registry \ {old}) \cup {new}

\* A user, or another integration, renames an entity.
RenameEntity(l) == \E old, new \in Entities :
  /\ turn = Absent /\ Use("renames")
  /\ InRegistry(old, new)
  /\ Event(l, old, new, task)
  /\ UNCHANGED <<data, disk, holder, waiters, snap, acked, torn>>

\* _apply_entity_registry_changes of async_modify.
RenameInRegistry(t, l) ==
  /\ MyTurn(t) /\ Step(t).op = "registry"
  /\ InRegistry(Step(t).old, Step(t).new)
  /\ Event(l, Step(t).old, Step(t).new, Return(t))
  /\ UNCHANGED <<data, disk, holder, waiters, snap, acked, torn, used>>

\* The entity is not registered, or the new id is taken: logged and ignored.
NotInRegistry(t) ==
  /\ MyTurn(t) /\ Step(t).op = "registry"
  /\ Step(t).old \notin registry \/ Step(t).new \in registry
  /\ task' = Return(t) /\ turn' = Absent
  /\ UNCHANGED <<data, disk, index, holder, waiters, snap, registry, acked, torn, used>>
-----------------------------------------------------------------------------
Proceed(t) == \/ Change(t) \/ Skip(t) \/ Reject(t) \/ RebuildIndex(t) \/ StartConfig(t)
              \/ Finish(t) \/ NotInRegistry(t) \/ \E l \in Listeners : RenameInRegistry(t, l)

Next ==
  \/ \E t \in Clients : Operation(t)
  \/ \E t \in Tasks : Proceed(t) \/ Acquire(t) \/ Saved(t) \/ SaveFailed(t)
  \/ \E l \in Listeners : RenameEntity(l)
  \/ Restart

\* The event loop resumes whatever is ready, and Home Assistant completes
\* the writes it is given.
Fairness == \A t \in Tasks : WF_vars(Proceed(t) \/ Acquire(t) \/ Saved(t) \/ SaveFailed(t))

Spec == Init /\ [][Next]_vars

FairSpec == Spec /\ Fairness
-----------------------------------------------------------------------------
(* Properties *)

TypeOK ==
  /\ data \in StorageContents /\ disk \in StorageContents
  /\ snap \in StorageContents \cup {Absent}
  /\ index \in [SetIds -> (SUBSET Entities) \cup {Absent}]
  /\ holder \in Tasks \cup {Absent} /\ turn \in Tasks \cup {Absent}
  /\ waiters \in Seq(Tasks)
  /\ task \in [Tasks -> [left : Seq(StepShape), needs : Nat, busy : BOOLEAN, direct : BOOLEAN]]
  /\ registry \subseteq Entities
  /\ acked \in Nat /\ torn \subseteq SetIds
  /\ used \in [DOMAIN Bound -> Nat]

SensorsHaveSets(d) ==
  \A u \in Uids : HasSensor(d, u) => SetExists(d, d.sensors[u].sensor_set_id)

\* No stored sensor is left without its sensor set: not in memory, not in a
\* write under way, not on disk, whatever operations overlap and wherever
\* the process stops (async_delete_sensor_set, async_store_sensor, async_load).
NoOrphanSensors ==
  /\ SensorsHaveSets(data) /\ SensorsHaveSets(disk)
  /\ snap # Absent => SensorsHaveSets(snap)

\* When async_save has returned to an operation, what the operation changed
\* is on disk and no later write takes it away again.
Durable == acked <= disk.version

\* The lock does what it is for: a task is at its turn, inside async_save,
\* queued for it once, or elsewhere, and only a task with a call under way is
\* in one of these places.
InOnePlace ==
  /\ \A t \in Tasks : t \in {turn, holder} => task[t].busy
  /\ holder # Absent => holder # turn
  /\ \A i \in DOMAIN waiters :
       /\ task[waiters[i]].busy /\ waiters[i] \notin {turn, holder}
       /\ \A j \in DOMAIN waiters : waiters[i] = waiters[j] => i = j

\* The disk is behind the write under way, the write behind the memory, and
\* the write holds what its task has changed: a call never gets the answer
\* of a save that was too early for it.
VersionsOrdered ==
  /\ disk.version <= data.version
  /\ \A t \in Tasks : task[t].needs <= data.version
  /\ snap = Absent <=> holder = Absent
  /\ snap # Absent => /\ disk.version <= snap.version /\ snap.version <= data.version
                      /\ task[holder].needs <= snap.version

\* A write never replaces what is on disk by something older.
DiskMovesForward == [][disk'.version >= disk.version]_vars

AllQuiet == \A t \in Tasks : ~task[t].busy

\* When nothing is under way and no save has failed, the last write holds
\* everything the operations changed: no change waits for somebody else's save.
\* Two operations are not among them: a rejected bulk store and a rejected single
\* global variable change memory, raise, and leave the writing to a later save.
SavedWhenQuiet ==
  AllQuiet /\ used.failures = 0 => data = disk

\* When nothing is under way, the index of a sensor set tracks every entity its
\* sensors and globals name in variables, unless nothing has rebuilt it since
\*  - a call raised that had changed the set or was to rebuild the index,
\*  - a call that rebuilds none (creation of the set, StorageManager's
\*    async_update_sensor, async_replace_sensors, async_modify) stored the name of
\*    an entity it did not track, or
\*  - async_modify made it stop tracking an entity that was still stored
\* (SensorSet.rebuild_entity_index, StorageManager.get_sensor_set).
IndexComplete ==
  AllQuiet =>
    \A s \in SetIds \ torn : SetExists(data, s) /\ index[s] # Absent =>
                               IndexOf(data, s) \subseteq index[s]

\* No variable of a stored sensor of set s contradicts a global variable of it.
AgreesIn(d, s) == NoGlobalConflict(d, s, GlobalsOf(d, s))

GlobalsAgree(s) ==
  /\ AgreesIn(data, s) /\ AgreesIn(disk, s)
  /\ snap # Absent => AgreesIn(snap, s)

\* The steps that store what nobody has validated: a rejected global variable
\* stays in the live dictionary, and async_modify writes a sensor of which only
\* the new globals, if there are any, have been compared with its variables.
Unvalidated(s) ==
  \/ \E t \in Clients : SetGlobalVariableRejected(t) /\ data'.sets[s] # data.sets[s]
  \/ \E t \in Tasks : /\ Change(t)
                      /\ Step(t).op = "write" /\ Step(t).uid \in SensorsOf(data, s)

\* Wherever the variables of the stored sensors agree with the globals of their
\* set, in memory, in a write under way and on disk, every step of every
\* operation keeps it so, but for the two that store what nobody has validated
\* (_validate_against_global_settings, validate_no_global_conflicts).
GlobalsStayAgreed == [][\A s \in SetIds : GlobalsAgree(s) => GlobalsAgree(s)' \/ Unvalidated(s)]_vars

\* The storage layer keeps what a write-behind store promises: it never
\* writes anything but a copy of _data, one copy at a time.
Store == INSTANCE WriteBehindStore
           WITH Contents <- StorageContents, Initial <- EmptyContents, None <- Absent,
                mem <- data, pending <- snap, stable <- disk, promised <- acked

ImplementsStore == Store!WSpec

\* Every call of the storage API and every task of the listener ends.
CallsReturn == \A t \in Tasks : task[t].busy ~> ~task[t].busy
=============================================================================
