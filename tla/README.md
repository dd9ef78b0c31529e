# Formal models of ha-synthetic-sensors

TLA+ modules, TLC configurations and machine-checked proofs about
`ha-synthetic-sensors`, a Python package that gives Home Assistant (HA)
integrations sensors whose values are formulas over other entities. Paths below
are relative to `src/ha_synthetic_sensors/` in the repository.

Contents: [1 The system](#1-the-system) · [2 What runs concurrently](#2-what-runs-concurrently) ·
[3 Modules](#3-modules-and-the-code) · [4 Runs](#4-runs) · [5 Proofs](#5-proofs) ·
[6 Disagreements](#6-where-code-and-documentation-disagree) ·
[7 Not modelled](#7-what-is-not-modelled) · [8 What could follow](#8-what-could-follow) · [9 Running it](#9-running-it)

## 1 The system

An integration stores *sensor sets* (named groups of sensor configurations with
global settings) or loads a configuration file, turns it into a `Config`, loads
that into a `SensorManager`, and the manager makes one HA entity for each enabled
sensor. HA adds the entities and polls them; each poll evaluates the sensor's
formula. The manager also evaluates many sensors at once, in an *update cycle*,
when entities change.

| Component | State it keeps | Operations | What makes it correct | Module |
|---|---|---|---|---|
| Sensor storage `storage_manager.py`, `storage_sensor_ops.py`, `storage_sensor_set_ops.py`, `storage_validator.py`, `sensor_set*.py` | `_data` (sensors, sets), `_lock`, HA's `Store` on disk, cached `SensorSet` handles | create and delete a set; add, update, remove, replace, modify sensors; global settings; YAML import; save, load | no sensor without its set; a returned call is on disk; the disk never goes back; globals and variables agree | `SensorStorage` |
| Entity index, registry listener `entity_index.py`, `sensor_set_entity_index.py`, `entity_registry_listener.py` | an index of entity ids per set handle | rebuild; on a rename: look up, rewrite, save | every referenced entity is tracked, so every rename is followed | `SensorStorage` |
| Sensor manager `sensor_manager.py` | current config, sensors by unique id and by entity id, the data provider's entities, the evaluator's registries | load, reload, add and remove one sensor | tracking and registries agree; a load leaves what its configuration says; no sensor entity that a variable of another managed sensor names is unregistered | `SensorManager` |
| Sensor entity (`DynamicSensor`) | value, availability, attributes, last good value | poll, update cycle, join and leave HA | what is shown follows the formula; the last good value survives failures | `SensorUpdates` |
| Evaluation front door `evaluator.py`, `evaluator_error_handler.py`, `evaluator_cache.py`, `cache.py` | fatal error counts, result cache, update-cycle flag | evaluate a formula; start and end a cycle; clear | a formula is given up for the errors of its name only; an answer is what its formula, or one of the same id, comes to now; recovery | `FormulaEvaluation` |
| Variable resolution, alternate states, core evaluation `evaluator_phases/variable_resolution/`, `context_building/`, `utils_config.py`, `alternate_state_*.py`, `core_formula_evaluator.py` | global settings, numbers of sensors, the breaker of computed variables | one evaluation, name by name | the answer is made of what the text means; the handler fits what went wrong | `VariableResolution` |
| Dependencies and order `evaluator_phases/dependency_management/`, `dependency_resolver.py`, `pre_evaluation/` | dependency graphs | order, cycle detection, context of attributes | nothing is evaluated before what it reads; cycles are real | `EvaluationOrder` |
| Cross-sensor references `cross_sensor_reference_*.py`, `formula_reference_resolver.py` | pending registrations, key/id mappings, resolved configuration | detect, register ids, rewrite all formulas when complete | the rewriting happens, with the ids of the sensors that were meant | `References`, `CrossSensorReferences` |
| Configuration loading, schema validation, YAML export `config_manager.py`, `schema_validator.py`, `storage_yaml_handler.py`, `alternate_state_circular_validator.py` | none | validate, read, import, export | what is loaded means something; what is exported can be imported | `ConfigurationDocuments`, `ConfigurationFormats` |
| Integration and services `integration.py`, `service_layer.py`, `__init__.py` | table of entries, the parts of one entry, registered services | set up, unload, reload, load files, services | a failing or interrupted step leaves nothing behind | `Integration` |
| Collections, domain caches `collection_resolver.py`, `constants_entities.py` | compiled patterns, known domains | resolve patterns | patterns follow the registry | - |
| Friendly-name listener, entity change handler | friendly names, callbacks | follow renames | a second writer of `_data` stays consistent | - |
| Formula functions, metadata, device association, type analysis | little or none | pure conversions | unit tests reach these | - |

They interact by direct calls. The storage calls the listeners' re-index and
the entity change handler (which clears evaluator caches); HA calls the
listeners (registry and state events), the entities (polls, additions) and the
services; the manager registers sensors with the evaluator, which hands their
values to other sensors.

## 2 What runs concurrently

Everything runs on one asyncio event loop, so a step is whatever runs between
two real suspensions. Those are `Store.async_save` and `async_load`, the lock
around them, the hand-over of entities to HA, and the start of tasks from
events. Most functions are `async` yet never suspend: a whole
`load_configuration` is atomic, and so is everything an operation on the storage
does after its save. The hard behaviours are therefore

- operations and registry events *while a save waits or is under way*; an
  integration unloaded or reloaded *while a file is being read* for it;
- work prepared before a suspension and used after it (copies of configurations in
  `async_modify`, the index of the state to come, the ids HA will give);
- polls and update cycles in any order, over sensors that fail, recover, are
  replaced or removed while HA still polls their objects;
- failures in the middle of a sequence: a rejected sensor in a bulk store, a
  failing save, an entity id that cannot be built in the middle of a load, a
  set-up that fails after half of it is made;
- crashes between the change in memory and the save;
- long legal sequences: counters that only a success resets, loads that
  start from what failed loads left, imports of exports of imports;
- objects that outlive what they stand for: set handles, removed entities that
  HA still has, cached results, tables of entity ids.

`PROJECT.json` lists each hazard at its line, with the properties that cover it.

## 3 Modules and the code

    StorageData  <--  SensorStorage  <--  MCSensorStorage,  SensorStorage_proofs
                           |  implements
                           v
                      WriteBehindStore

    FormulaEvaluation   <--  MCFormulaEvaluation,   FormulaEvaluation_proofs
    SensorManager       <--  MCSensorManager,       SensorManager_proofs
    EvaluationOrder     <--  MCEvaluationOrder,     EvaluationOrder_proofs
    SensorUpdates       <--  MCSensorUpdates,       SensorUpdates_proofs
    VariableResolution  <--  MCVariableResolution,  VariableResolution_proofs
    References  <--  CrossSensorReferences  <--  MCCrossSensorReferences, CrossSensorReferences_proofs
    ConfigurationDocuments  <--  ConfigurationFormats  <--  Integration  <--  MCIntegration, Integration_proofs

A sensor's evaluation is modelled at three distances: what it does to one
sensor's breaker and to the cache (`FormulaEvaluation`), what it does to the
sensors that read each other (`SensorUpdates`), and what becomes of each name in
it (`VariableResolution`). Each leaves to the others what it does not need: an
outcome is an input of one and the result of another.

### StorageData, SensorStorage, WriteBehindStore

`StorageData` is the contents of `_data` and pure operators on it: storing,
deleting, counting, renaming, the entities an index tracks, the conflict checks.
A configuration keeps what the storage tells apart: its own `entity_id`, the
entity each variable names, and the entities in the text of its formulas. The
listener renames text with `str.replace`, so an id inside a longer one makes that
one `Garbled`. `updated_at` stamps are one growing `version`.

`SensorStorage` runs the operations. An operation is a *program* of steps (a
change followed by a save; an index rebuild; a registry update) built when the
caller starts it from what it reads then, as the code does:

| Variable | Code |
|---|---|
| `data`, `disk` | `StorageManager._data`; what `Store` last wrote |
| `holder`, `waiters` | `_lock` and the FIFO of tasks in `async with self._lock` |
| `snap` | `json_safe_data`, the copy under way to the disk |
| `index` | `_entity_index` of the cached handle of each set, `Absent` if not cached; empty for a handle made before its set |
| `task`, `turn` | the coroutines of callers and listener tasks (the steps `left`, the version the call `needs` on disk, whether it is `busy` or `direct`: rebuilds no index); the one that has the loop |
| `registry` | HA's entity registry |
| `acked` | the newest change a returned `async_save` covered |
| `torn` | history: the sets whose cached index a call has left behind the data |
| `used` | bounds only |

Each public operation is an action (`CreateSensorSet` ... `ImportYaml`, with
`...Rejected` for those that leave something behind when they raise). `Change`
is the body of one step up to its save: with the lock free it takes lock and
copy at once, as `asyncio.Lock` does without contention, otherwise it queues.
`Saved` and `SaveFailed` are HA's answers, `Restart` a crash at any moment
followed by `async_load`, `RenameEntity` a registry event whose listener task
runs up to its save before anything else. A call that raises halfway leaves
the index as it was, and several calls rebuild none (the creation of a set whose
handle is already there, `StorageManager.async_update_sensor`,
`async_replace_sensors`, `async_modify`): `torn` says
of which sets they have stored the name of an entity that is not tracked
(`Untracked`), so that `IndexComplete` can say of all others that theirs is complete,
and of these once something has rebuilt it. What is stored without having been
compared with the globals is named in the same way (`Unvalidated`), so that
`GlobalsStayAgreed` speaks of every other step.

`WriteBehindStore` is what a caller may rely on: memory changes, writes take a
copy one at a time and land whole or not at all, a crash goes back to what last
landed, and what was promised is never ahead of the disk. `SensorStorage`
implements it with `mem <- data`, `pending <- snap`, `stable <- disk`,
`promised <- acked`.

### FormulaEvaluation

One action `Evaluate(f, c)` per call of `evaluate_formula`, with its exits as
disjuncts in the order of the code: circular reference (`FailCircular`), open
breaker (`Skip`), cached result (`Serve`), an entity that is missing or invalid
(`FailDependency`), a formula that is one name with an alternate state
(`Reflect`), the computation (`Compute`). The check of dependencies ahead of the
evaluation is not there: the code always gives it an empty set
(`dependency_management_phase.py:111`). A value is named by everything that went
into it (formula, the caller's context, globals, readings), so a stale answer
shows as a different value. `fatal` is `_error_count` by display *name*, which
several formulas may have (`Name`, `evaluator.py:366`); `streak` is a history
variable, the formulas whose errors a name's count is made of, which lets the
properties say whose errors opened a breaker. Results are kept by `Id`, which all
texts given to the service `evaluate_formula` share (`temp_eval`, `service_layer.py:415`):
an answer's history `fresh` is what each formula of that id would have come to.
Only numbers are cached. A lookup key has the context the caller passed, a stored key also what evaluation added, which is why
results of formulas that read globals or entities are never found again. Formulas
with `Hidden` readings stand for collection patterns, whose entities are in no
key. `SetReading`, `StartCycle`, `EndCycle`, `ClearCache` are what happens around
evaluations.

### SensorManager

A load is a `job` of small steps, because it walks over Python sets in any order
and may stop in between; nothing else runs until it is over (`Idle`).
`Load`/`Reload` are the beginning of `load_configuration` and
`reload_configuration`, with the removal of the sensors that are gone;
`Register` is the registration of all listed sensors by the first load;
`MakeNew`, `RemoveKnown`, `MakeAgain` the rest of `_create_all_sensors` and
`_update_existing_sensors`; `...Fails` the exits by an exception, which restore
the old configuration. `AddSensor`, `RemoveSensor` and `RegisterProviders` are
the operations on one sensor with its backing entities. A sensor counts as a user
of the entities its `Variables` name as far as they are of the `SensorDomain`
(`Uses`): a removal looks at values that start with `sensor.` only
(`sensor_manager.py:1821`), and takes any other entity away with the sensor whose state
token it is behind, whoever else reads it.

An *instance* `<<u, n>>` is the n-th `DynamicSensor` object made for unique id
`u`. It is `made`, `queued` for HA, `live` there (perhaps under another entity
id) or `rejected`, because HA still has an older object with that unique id:
removing a sensor from the manager does not remove its entity. `managed`,
`byEntity` and `registry` are `_sensors_by_unique_id`, `_sensors_by_entity_id`
and the evaluator's two registries, which always change together.

### SensorUpdates

An object `<<u, n>>` is again the n-th `DynamicSensor` of unique id `u`. `Poll` is
`async_update` by HA; `StartCycle`, `UpdateNext`, `EndCycle` are
`async_update_sensors` in the order of what the sensors read, small steps that
exclude all others because the code does not suspend. `Outcome` is what
`_async_update_sensor` gets from the evaluator: failed, unknown or a value, with
the new error count. `Update` is what it leaves: `native` and `available`, the
attribute `last` (`last_valid_state`) and what the calculated attributes were
`derived` from, and the state HA shows, `published`, which other sensors read when
they name the sensor by entity id. `registry` is what they read when they name it
by key. `last` is first `Seeded` from what HA shows for the sensor's `Own`
configured entity id, which may be another sensor's or an entity's, and never from
its backing entity (`sensor_manager.py:655`).
`Create`, `Remove`, `AddToHass` (with the restored value), `RejectByHass`,
`RemoveFromHass` are the lives of the objects: one the manager has forgotten may
still be polled.

### VariableResolution

One evaluation of a main formula is a `job`: `Begin` asks the breaker and builds
the context (globals, simple variables), `ResolveComputed` and `NextPass` go
through the computed variables as often as a pass gets on (`utils_config.py`),
`GiveUp`, `Fail`, `AnswerState` and `Evaluate` end it. A formula is a sequence of
operands: names, entity ids, attributes of a variable's entity, `state`, ids of
sensors. A number is the set of operands it was made of, so that `AnswersAreMeant`
can compare what was computed with what the text means (`Meaning`, `Known`,
defined independently of the order the code goes by). Every value is a number, a text or an alternate
state; `Handled` chooses the handler as `alternate_state_processor.py` does.
`errors` has one count for each sensor and one that the computed variables of all
sensors share.

### EvaluationOrder

Six walks over a graph of names, one per value of `task`: the manager's report of
cycles and order of sensors, the order and evaluation of one sensor's attributes,
the validator before an evaluation, the detector over a whole graph, and two of
`DependencyResolver`. The validator knows an attribute by its `Title`, "sensor -
attribute", and looks in the formulas for names among the titles: it sees no read of
one attribute by another, but does find an attribute that reads itself
(`circular_reference_validator.py:70-74`, `NamesItself`). The depth-first searches are
their explicit stack (`calls`), the topological sorts their queue; Python's sets are walked in any order.

### References, CrossSensorReferences

`References` is what an import and a completion of the registrations make of
references, as operators on documents; a formula is the set of names in its text,
a name is a bare key or an entity id. `CrossSensorReferences` is the life around
them: `Import` and `Reimport` (the set's own export) register every sensor with
HA's entity registry and store the document with the ids it gave; `Create` starts
a round that waits for all sensors that refer or are referred to; `HassAdds` is
`async_added_to_hass`, whose last registration runs `PhaseThree`: rewriting,
replacing the running configurations, storing. `Rename` is the user's, with the
listener's rewriting of the storage, `Restart` a new manager. `meant` and `clear`
are history: what each stored reference was meant to be, and whether anything so far could mean
two things.

### ConfigurationDocuments, ConfigurationFormats, Integration

`ConfigurationDocuments` is `schema_validator.py` as a predicate over documents:
the shape, then names, circular attributes, classes and units.
`ConfigurationFormats` is the way from a text to a configuration (`Read`,
`Accepted`), from there to the stored one (`Imported`) and back to a text
((`Exported`). A text is its names, its entity ids, whether it has operators, and whether
it is a `literal` (a number with a sign, a text in quotes), which an export of an attribute
cannot tell from a formula (`TakenForLiteral`). An import puts `state` for all names of the
sensor, its key and what follows "sensor." in its ids (`OwnNames`), whatever else has the
name, and entity ids for the keys of others in formulas; a computed variable keeps the
keys of others (`ImportedValue`). The order of attributes (`InOrder`) is Kahn's algorithm as a function of the
round, the search of circles among handlers (`CircleFrom`) a way that comes back.
`Integration` runs them: entries that are set up, fail to be, are unloaded and
reloaded and share one set of services; loads whose file is read in one step and
managed in another; services that change a configuration; the stored set imported,
exported, imported again and set up. An entry's record has the parts of one
`SyntheticSensorsIntegration`; manager n and services layer n are made together.
`stored.imported` is history: whether only imports have made the set, of texts the
schema looked at (`LookedAt`, section 6).

## 4 Runs

A run checks what its `.cfg` lists. Passing runs finish within two minutes; each
of their properties is shown to have teeth by a *mutant*, a plausible mistake in
the code (the operators marked "Mistake:" in the modules) that makes TLC find it
violated.

| Run | Instance | Shows |
|---|---|---|
| `storage_operations` | 2 callers, 2 sets, 1 sensor, 3 operations of a set or imports, 1 rename, 1 failing save, 1 restart | types; `NoOrphanSensors`, `InOnePlace`, `VersionsOrdered`, `Durable`, `SavedWhenQuiet`, `DiskMovesForward`; `ImplementsStore` |
| `storage_index` | 2 callers, 1 set, 2 sensors, 3 of all twelve operations, among them variables that contradict each other, imports and bulk stores rejected halfway, handles of no set yet; 1 rename, 1 failing save | `IndexComplete`, `GlobalsStayAgreed` |
| `storage_calls` | 2 callers, imports, bulk stores, modifications with renames, direct updates, 1 failing save | `CallsReturn`, under fairness |
| `evaluation_breaker` | 2 polled sensors with an entity each, one named in the text and one behind a variable, a circular and an ill-formed formula of the same display name, limit 3 | `SkipsAreEarned`, `BreakerLatches`, `FaultsStop`, `RecoversFromUnavailability`, under fairness |
| `evaluation_cache` | texts of the service, all of one id, with a context, a global, a collection, and a sensor with an entity; 2 entities with 2 values; a cache of 2 | types with the cache bound; `FreshAnswers`, `AnswersFreshInCycle` |
| `manager_loads` | 2 sensors, each naming in variables what the other's state token reads, of the domain `sensor` and not; 5 configurations, 3 entity ids, a device that comes and goes, 2 objects per sensor | types; `ManagedAreRegistered`, `LookupsAgree`, `LoadsKeepUp`, `KeepsNeeded` |
| `sensor_updates` | a sensor over an entity, one that reads it by entity id and, made again, by key and with that entity's id; limit 1 | `CyclesSettle`, `RemovedStayOut`, `LastGoodSurvives` |
| `sensor_convergence` | the same two, made once, an entity that comes and goes, a restored value; limit 2 | `Converges`, under fairness |
| `evaluation_order` | every graph over three names, two of which end in the same part, each of the six walks, every order of Python's sets | `OrderRespectsReads`, `OmittedAreReported`, `CyclesAreReal`, `ReadsAreEvaluated` |
| `resolution` | 4 sensors: computed variables over a missing entity, out of order, with the same text, handlers of all kinds, state and a self-reference; 3 entities with every reading; 3 sets of globals; limit 2 | `AnswersAreMeant`, `HandlersFit`, `FailuresHaveACause` |
| `cross_references` | 2 sensors, 4 documents (mutual by key and id, by the id that is taken, disabled, alone), 2 rounds, 1 rename | `ReferencesKept`; `CompletionResolves`; `Completes`, under fairness |
| `configuration` | about seventy documents, each good or wrong in one way, also ids and variables with the names of other sensors and attributes that are literals; 2 entries, 2 managers; a program's sensor; one global variable edited by services | `LoadsAreSound`, `NothingLeftBehind`, `RoundTrip` |

**Why these bounds.** The storage hazards need two callers (one inside a save,
one that interferes), a listener task as the third, and two sets where a sensor
moves between sets or a set is deleted under a writer; a restart and a failing
save combine with every earlier step because their counters are independent of
the operations'. `storage_index` selects no
operations: what leaves an index incomplete or a variable unvalidated is in `torn` and
`Unvalidated`, so three calls of any kind are enough for one that leaves something
behind, one that meets it and one that puts it right. A restart, which clears all
handles, is left to `storage_operations`. `storage_operations` leaves out the
bulk store and the single global variable: when they are rejected, what they have changed in
memory waits for somebody else's save. `storage_calls` has only
the renames that `async_modify` makes itself, since the listener slot of the bound
does not stand in for the unlimited tasks of the code. The breaker's limit 3 is more than the two kinds of
error that can interleave; a cache of two entries meets eviction with and without
expired ones. Two objects per sensor are a recreated one and the one it replaces;
five configurations cover a sensor changed, disabled, dropped, and the empty list,
which `load_configuration` refuses. Two sensors reading one another are enough for
updates, since what a sensor reads of another is that one's published state or
registered number only; three names give every three names give every kind of cycle, self-references,
and a node that leads into a cycle it is not in. The four sensors of `resolution`
share no variable but the breaker of computed variables, which `total` and
`share` both trip. Two sensors and an entity id that another integration has make
ids differ from keys, in both orders of registration. In `configuration` the
integrations and the stored set share no variable and no property relates them,
so each is explored with the other as it is initially (`NoIntegrationMade`,
`NoSetTouched`); the entries are interchangeable (`SYMMETRY`, no liveness is
checked there); a manager replaced and the one that replaces it are two.

All bounds are in the `.cfg` files; the guards they add are `Use(...)` in
SensorStorage, the saturation of counts at `MaxFatal` (counts past the limit are
not told apart by the code), `made[u] < MaxMade`, `MaxRounds`, `MaxRenames`,
`MaxManagers`, and the two of `configuration` above. `storage_*`,
`evaluation_order` and `configuration` switch deadlock checking off: an
exploration that has used its bounds, or has done its one walk, stops.

**Fairness.** `storage_calls`: weak fairness for each task's next step: the
event loop resumes what is ready, `asyncio.Lock` wakes waiters in order, and HA
completes or fails each write; which of the two is left open. Nothing is assumed
of callers, renames or crashes. `evaluation_breaker`: weak fairness of the
evaluation of each sensor's own formula, since HA polls every entity for as long
as it is there. `sensor_convergence`: weak fairness of the steps of a cycle, which
are one call, and strong fairness of each object's poll, which is disabled during
cycles only for as long as the call takes. `cross_references`: weak
fairness of HA adding the entities it was handed. Nothing is assumed of entities,
cycles, users or services; `Converges` says of itself that entities and objects
stop changing.

## 5 Proofs

TLAPS checks these for every value of the constants that satisfies the named
assumptions (`UidsFinite`, `AbsentIsNothing`, `StorageConstants`;
`EvaluationConstants`, `ReadingsDiffer`; `ManagerConstants`; `OrderConstants`;
`UpdatesConstants`, `ResultsAreValues`; `ResolutionConstants`; `ReferencesConstants`,
`CrossConstants`; `IntegrationConstants`), which say that the constants have their
types and that "no value" markers are not values. `ResolutionConstants` also has
what the parsers guarantee: a sensor's variables differ in their names (a mapping
in YAML), computed variables name no attributes, and global settings are finite;
`IntegrationConstants` that documents and a program's sensors are finite mappings with
their fields, that handlers mention states with a token of their own, that values that
are names or entity ids are one word, that `state` is a plain reserved word that formulas
may hold, and that the marker for no value is not the text "null".
TLC evaluates all of them on every run. Two theorems have a premise of their own:
`SavedHolds` is about instances without the two operations that change memory and
then raise without a save (section 6), `LookupsHold` about sensors that do not share entity ids.

| Theorem | Statement |
|---|---|
| `SensorStorage_proofs!TypesHold`, `NoSensorOrphaned`, `SavedChangesLast`, `LockExcludes`, `WritesAreRecent` | `[]TypeOK`, `[]NoOrphanSensors`, `[]Durable`, `[]InOnePlace`, `[]VersionsOrdered` |
| `SavedHolds` | `[]SavedWhenQuiet`, without the rejected bulk store and the single global variable |
| `GlobalsHold` | `GlobalsStayAgreed`, for all operations |
| `IndexHolds` | `[]IndexComplete`, for all operations |
| `StorageWritesBehind`, `DiskNeverOlder` | `Spec` implements `WriteBehindStore`; `DiskMovesForward` |
| `FormulaEvaluation_proofs!TypesHold`, `BreakersLatch` | `[]TypeOK`, `BreakerLatches` |
| `SkippedForOwnErrors` | `[]SkipsAreEarned`, whatever formulas share a display name |
| `AnswersAreFresh`, `CyclesAreFresh` | `[]FreshAnswers`, whatever formulas share an id; `AnswersFreshInCycle` |
| `SensorManager_proofs!TypesHold`, `AllRegistered` | `[]TypeOK`, `[]ManagedAreRegistered` |
| `LoadsStayInStep`, `NeededStay` | `LoadsKeepUp`; `KeepsNeeded` |
| `LookupsHold` | `[]LookupsAgree`, if no entity id is used for two sensors |
| `EvaluationOrder_proofs!TypesHold`, `OrderIsSound` | `[]TypeOK`, `[]OrderRespectsReads`, for every graph |
| `OmittedHold`, `CyclesHold`, `ReadsHold` | `[]OmittedAreReported`, `[]CyclesAreReal`, `[]ReadsAreEvaluated`, for every graph |
| `SensorUpdates_proofs!TypesHold`, `RemovalHolds`, `LastGoodHolds` | `[]TypeOK`, `RemovedStayOut`, `LastGoodSurvives` |
| `SettlingHolds` | `CyclesSettle`, for any sensors that read each other in any way |
| `VariableResolution_proofs!TypesHold`, `FailuresHold` | `[]TypeOK`, `[]FailuresHaveACause` |
| `AnswersHold`, `HandlersHold` | `[]AnswersAreMeant`, `[]HandlersFit`, for any formulas, computed variables in any order, handlers and readings |
| `CrossSensorReferences_proofs!TypesHold`, `RegistrationsHold` | `[]TypeOK`; what is live or no longer pending has its id known |
| `CompletionHolds`, `ReferencesHold` | `CompletionResolves`; `[]ReferencesKept`, for any documents and ids |
| `Integration_proofs!NothingLeft`, `LoadsHold`, `RoundTripHolds` | `[]NothingLeftBehind`, `[]LoadsAreSound`, `[]RoundTrip`, for every document |

**Storage.** `IInv` is the conjunction of the five invariants; none is inductive
alone. That no sensor is orphaned on disk needs the copy under way to be free of
orphans, since it becomes the disk. That a returned save is durable needs the copy
to be at least as new as what its task changed (`VersionsOrdered`), and that needs
the queue and the lock to hold each task once (`InOnePlace`), or a task could
queue, be overtaken by its own change and be told of an older write. The program
steps are typed first (`ProgramTypes`, `ModifyProgramType`, `ImportTypes`); each
change maps contents to contents that keep types and sets (`ChangedKeeps`). The
refinement follows step by step: changes are `Mutate` or `BeginWrite`, the rest
stutters.

Three more properties rest on it. *Saved when quiet*: with no failed save and nobody
in the queue, a write under way holds what memory holds, or else the disk does
(`MemoryIsSaved`). *Globals*: a step that changes memory keeps the variables
of the stored sensors in agreement with the globals (`ChangedAgrees`; a rejected bulk store
keeps a part of what was validated, `RejectedBulkAgrees`), unless it is one of the
two of `Unvalidated`; a copy and the disk take over what was in agreement before
(`GlobalsKept`). *Index*: each set's index covers its data,
or is `torn`, or a program under way has yet to rebuild it (`IndexesAccounted`). A
program either rebuilds no index: then all its steps are plain, and each adds to `torn` what
it leaves untracked (`PlainSteps`, `ChangeAccounts`). Or each of its steps that makes an
index stale is followed by one that rebuilds it (`Orderly`), and a rename, which looks its
sets up in the indexes, knows all of them since it runs before anything else changes
(`FitsIn`). The index of a handle made before its set is complete as long as nothing of
the set is stored (`MissingIndex`, `CachedFresh`); that the set is then created is a step
like any other.

**Evaluation.** Types need to bound the cache through eviction (`EvictedType`:
even the rounded tenth of few entries makes room). Freshness needs `CacheSound`:
every entry that a bare caller's context can hit was computed, by a formula of its id,
from that context and hidden readings only. It holds because the stored key records what
evaluation added. Skipping is earned because count and streak move together, name by
name, and only formulas of that name get into its streak (`CountsAreOwn`).

**Manager.** `JobSound` says that the sets of a load under way come from its
configuration; `Progress` that a sensor is at any time still to be made, still to
be updated, or already as the configuration wants it. At `Finish` the first two
are empty, which is `LoadsKeepUp`. The lookups need where entity ids come from
(`IdsKnown`): an object keeps the configured id or one HA assigns for it, so two
sensors never compete for a key under the premise `OwnIds`. The invariant about a
load's new objects (`FreshMade`) is what lets `Finish` hand over the right ones.
That no sensor entity another sensor's variable names is unregistered, nor one behind a
state token (`NeededStay`), follows from what a removal counts as orphaned.

**Order.** The search keeps a stack of distinct names, each an edge of the one
below (`StackSound`); the path sliced out of it is then a cycle. A reported sensor
waits for one that is reported or about to be (`ReportsGrounded`), so that none
of them ever becomes ready, which is why reports and order cannot overlap. The
queue holds only what is ready (`QueueReady`), which gives the order. The converse
directions need what the search has *settled* (`SettledSound`): settled names lead to
settled ones, and every set of them has one that leads out of it. So a search that
collects nothing has seen a graph without cycles; and a set of sensors that the sort
could not order has, unless one of them is reported, a member whose reads all left
the set, which contradicts that it never became ready. The validator sees no read of one attribute by
another, so what it raises is an attribute that names itself, and of what it lets pass nothing
is claimed. Reachability is the least set
closed under reading (`Reach`), so that no path has to be taken apart.

**Updates.** `CycleInv` says that who is done waits for nobody and is settled: it
shows what its formula comes to over what is shown now. A later update of another
sensor unsettles it only if it reads that one, and then it would not have been due. That an update,
evaluated again right after itself, comes to the same (`Outcome` up to the count
of errors) needs that a sensor does not read itself. The last good value needs
`DerivedFromLast`.

**Resolution.** That an evaluation which gives up has a cause needs what its passes
leave behind: while no computed variable of a pass was resolved, each one put off is
`Blocked`, by something absent from its text or by the open breaker, and blocked it
stays (`JobSound`), since nothing it reads changes before the evaluation ends; what
the failure itself takes out of the registry only adds to what is absent. Handlers
and expressions never fail: they answer (`HandledIsNoFailure`).

That answers are those meant relates what the passes leave in the context to
`Known`, which goes through the computed variables in the order they are written.
An evaluation is `InOrder`, the first k computed variables gone through and the context
`Shows` them: every operand that means a number has an entry, and every entry `Fits`
(its number is the one meant, and whatever else it holds has a cause: a reading, a
computed variable that means nothing). Or it is `PutOff`: a blocked one is left over,
which no later pass can resolve, and the evaluation ends in a failure whatever its
context has.
`ExpressionFits` and `AnswerFits` carry this to the answer, and `KnownLater` over
its publication, which may give other sensors' texts a meaning but none another one.
`Known` is a recursive function; what it is at each number follows from a fact about
the numbers alone, that a set of numbers with 0 and each successor is all of them
(`Induction`, from the well-foundedness of `Nat`), so no schema is instantiated.

**References.** A completion knows every id it needs because each sensor of the round
is pending or has registered (`PendingIsSound`), and ids of the live ones are current
because a renamed sensor is not live until it is added again (`LiveAreKnown`). What
the rewriting leaves is a fact of the operators alone (`InFormulaResolves`). That no
sensor goes back holds only if the pending round is the last (`LastHasReferences`).
What is stored is what was meant (`Kept`) as long as everything so far was `clear`:
the entity ids of sensors differ (`IdsDistinct`), every import leaves the token of its
sensor for each name of it (`ImportKeeps`), a completion resolves keys to ids
(`CompletionKeeps`) and a renaming moves an id in the registry and in every text at
once. The last claimant of an id is the one of greatest rank among finitely many
(`LastOfProps`). The proof found two ways to be unclear that the run's documents do
not have, a reference to itself by another id than its own, and a name that ends in
the key of a sensor of another document: they became conditions of `Plain`.

**Integration.** Nothing is left behind because each manager that is not 0 belongs to one
entry at most, one without an entry manages nothing, and a service that is ever taken
away is answered by a layer whose manager has an entry (`Owners`): a clean-up clears all
of them, whoever has registered them since. That what is loaded is sound is a fact of the
operators: if Kahn's algorithm gets to all attributes, any set of them has one that depends on
none of the set, the one of the least round (`InOrderSound`); among handlers that all
refer to each other ways go on as long as one likes, so one of as many steps as there are
handlers comes back (`WaysGoOn`, `HandlersSound`). An import renames the sensor in its texts to
`state` and others to entity ids, so it adds no name but `state`, which no variable and no
attribute has (`Kept`, `SelfImported`, `OthersImported`, `SensorNamed`). Whatever is stored can be written as a
document with its fields (`TextExported`), so that the argument holds for imports of exports
of imports. The proof needed `LookedAt`: without it `LoadsAreSound` and `RoundTrip` are false
(section 6), which the documents of the run did not show until one was added.

That an export comes back as it was follows a sensor through the four conversions. What
is accepted can, when read, be written again (`SensorSaidRead`), and still can after the
import (`SensorSaidImported`), which takes names away from the attributes that formulas
depend on: with fewer of them Kahn's algorithm gets as far (`OrderStays`). An import imported
again stays as it is when no sensor goes by another's id (`ConfigTwice`): its texts name
the sensor by nothing but `state` (`SelfTwice`), have no id made from the key of another that
is not that one's (`IdsTwice`), and its values stay (`ValueTwice`). What is
written has each sensor once (`DocumentExported`), is accepted and is read as the sensor it
was written from (`SensorComesBack`). The invariant (`Imports`) is that a set which only imports have
made is the import of some text that was accepted and looked at; which one does not matter,
so an import of an export needs no induction. The proof did not go through without
`IdsApart` in `Writable`: a sensor whose entity id is `sensor.` and the key of another is renamed to `state`
in that one's texts by a second import (section 6). TLC found the same once a document
with such an id was added to the run.

**Only model-checked.** `CallsReturn`, `FaultsStop`,
`RecoversFromUnavailability`, `Converges` and `Completes` are liveness under fairness,
outside the prover's reach.

## 6 Where code and documentation disagree

Seen while modelling; the models have them as the code does, and the properties
above are stated so that they leave these cases out (a premise such as `clear`,
`Sound`, `Writable` or `Ordered`), name them (`torn`, `Unvalidated`, formulas of the same
name or id), or are checked without the operations in question (`SavedWhenQuiet`).

*Storage.*
- `async_replace_sensors` never rebuilds the index (`sensor_set.py:501`), so after
  a first set-up nothing is tracked; `docs/Dev/reference_value_architecture.md:400`
  has the index follow. It deletes nothing either, though its docstring says it
  replaces all.
- A rename that arrives while the save of a new sensor is under way is dropped
  (`sensor_set.py:113`), since the index is rebuilt after it.
- A rejected global variable stays in memory, next to the variables it contradicts, and
  the next save writes it (`sensor_set_global_settings.py:228`; `docs/cookbook.md:162`).
  `async_modify` stores sensors whose variables it compares with new globals at most.
- A handle that was cached before its set exists, or that outlives a deleted one, keeps
  its index when the set is created (`storage_manager.py:587-592`, `sensor_set.py:88-90`);
  `async_modify` builds the index of the final state before a validation that may
  reject the modification.

*Manager.*
- `reload_configuration` removes every sensor and recreates none
  (`sensor_manager.py:1099`, docstring at `:1092`).
- The duplicate check of `load_configuration` compares ids only: a load that changes
  only formulas is ignored. A listed sensor that becomes enabled is not created.
- Sensors made before a load fails midway are never handed to HA: the next load
  finds them managed. A sensor made again is rejected by HA while the old
  entity lives.
- `remove_sensor_with_backing_entities` leaves the sensor in the evaluator's
  registry. It takes a backing entity away that other sensors still read, if they name it in
  their formula's text or if it is of another domain than `sensor` (`sensor_manager.py:1821`).

*Evaluation.*
- An entity named in a formula's text that is missing for `max_fatal_errors` polls at startup
  makes the sensor dead for good (`architecture_overview.md:235` has it wait).
- The `evaluate_formula` service gives every text the id `temp_eval`
  (`service_layer.py:415`), so the cache may answer one text with another's value.
- The check of dependencies before an evaluation never sees any
  (`dependency_management_phase.py:111`, `dependency_extractor.py:20`;
  `docs/Dev/state_and_entity_design_guide.md:892`).
- An entity named in the text that is missing is a fatal error; one that a
  variable names leaves its id as text, and the sensor is unknown or shows the id.
- An expression that fails with a syntax error becomes an alternate state and
  counts as a success, which resets the count of fatal errors. Error counts are
  kept by display name (`evaluator.py:366`): sensors and computed variables of one name
  are given up for each other's errors, and revived by each other's successes.
- `start_update_cycle` by-passes the result cache where its comment says it clears
  it; results of main formulas are never found in it anyway.

*Variables and alternate states.*
- All computed variables count their errors as one formula: one sensor's missing
  entity stops those of every sensor, for good.
- A computed variable that names a later one gets a wrong answer instead of waiting (docstring
  `utils_config.py:373`); one of the same text as an earlier one takes its value;
  its own handlers are never reached.
- Without handler the state is unknown where the log says unavailable; the handler
  for none is chosen even when it is not given, so the fallback is not.
- A sensor that names another by key is always unknown
  (`variable_resolution_phase.py:512`); if that one has no value it is an error, and
  five polls open its breaker. `sensor.<key>` of a sensor with a backing entity
  reads the last number of the registry, unlike `state`.

*Sensors and order.*
- Any state of a backing entity, "unavailable" too, becomes the last good value.
  A restored state may overwrite what a cycle has computed. A cycle registers the
  stale value of an unavailable sensor as good.
- One failing attribute loses all. Attribute names with underscores are matched by
  their last part (`generic_dependency_manager.py:379`), so nothing orders what reads them.
- The validator before an evaluation looks for attributes by their titles, "sensor - attribute"
  (`circular_reference_validator.py:70-74`, `config_manager.py:468`, `:513`): circles of several
  attributes are never found there. A main formula would be refused as a self-reference if
  the sensor's own display name had a " - " and the formula the name behind it; the model has display
  names without.
- The last good value a sensor starts with is the state of its own configured entity id,
  whoever has it by then, not that of its backing entity (`sensor_manager.py:655-670`).
- A read through an entity id that is not the key gives no edge in the order.

*References.*
- Only `create_sensors` starts the registrations; a round with a disabled or
  rejected sensor never completes, and an older one may put old configurations
  back. Renaming between registration and completion leaves stale ids.
- An entity id of another domain that ends in a sensor's key is rewritten
  (`storage_sensor_set_ops.py:560`, `formula_reference_resolver.py:75`).

*Configuration and integration.*
- The configuration manager is always built without a path (`integration.py:90`):
  the service `reload_config` always fails; `add_variable` changes the configuration, then
  fails to save it, so nothing that caches it is told.
- The service `validate_config` reports every document invalid, because results
  have no key "warnings".
- `load_config` accepts a key that is there twice (the last wins), `load_from_yaml`
  does not, but at an indentation of two spaces only.
- An export loses what `Writable` says: disabled sensors become enabled, computed variables
  of attributes go. An attribute without variables whose formula has no operators, is a
  number such as "-5", or is a text in quotes, whatever is in it, becomes a literal value
  (`storage_yaml_handler.py:248-270`).
  An inherited variable with the name of a literal attribute, or a device
  identifier of null, is written and then refused.
- `sensor.<key>` counts as a reference of a sensor to itself even when it is the entity
  id of another sensor (`storage_sensor_set_ops.py:343`). An export of a set that has
  both is accepted, and its import may mean another sensor (`IdsApart`).
- What follows "sensor." in a sensor's explicit entity id becomes `state` wherever it stands
  bare, also where it is the name of a variable or the key of another sensor
  (`storage_sensor_set_ops.py:530-537`, `:558-564`). Computed variables keep the keys of other
  sensors (`formula_reference_resolver.py:409-412`).
- Names beside an entity id in a formula are not checked (`schema_validator.py:841`). If
  the id is the sensor's own, the import puts `state` in its place: the stored formula then
  has unknown names that the schema does look at, and its export is refused.
- Circular attributes without operators, a circle of two computed variables, and a
  second reference in a handler's text are not found.
- Unloading one entry takes away the services of all, but leaves two that answer
  for what is gone (`update_sensor`, `validate_config`). A failed reload keeps the
  entry in the table, so that the next set-up does nothing and succeeds
  (`integration.py:484`).

## 7 What is not modelled

*Storage*: `async_clear_all_data`, `async_unload`, a failing `async_load`, device
identifiers and metadata, attribute variables in conflicts, self-references of
attributes in the index, the friendly-name listener (`friendly_name_listener.py:128`),
which writes by a task of its own, and the check for the last entity of a domain.

*Evaluation*: routing of entities to the data provider, statistics, collection
functions, metadata, contexts that a caller prepares together with a sensor's
own, computed variables of attributes, attributes of the backing entity.
`update_circuit_breaker_config` and `clear_cache(formula)` have no effect on the
modelled state. What expressions compute is data. The cache of compiled
expressions evicts its newest entry at its limit (`formula_compilation_cache.py:143`),
which costs time and changes no answer.

*Manager and sensors*: in the instances of `SensorUpdates`, circles of sensors, which no
cycle updates (`CyclesSettle` is about what a cycle has done; `SettlingHolds` has them);
`_sensor_states`, names and device data of the entity,
formulas over a sensor's own previous value in `SensorUpdates`,
`async_force_update_formula` and the `AttributeDependencyManager` (no caller); the
validation of cross-sensor dependencies after a first load, which finds only
registered names and so rejects nothing.

*References*: references in the formulas of computed variables, which no conversion
touches but that to `state` (`ConfigurationFormats` has them), and in global settings; the plan and CRUD variants of the
reassignment (no caller), `analyze_dependency_order` and `validate_references` (no
caller).

*Configuration and integration*: merging an import into an existing set; entity ids given
other than suggested (`CrossSensorReferences` has these); categories, intervals and
device fields; patterns of names; entity ids of another domain than `sensor` that end in a
key, which an import takes for that sensor's (section 6, *References*); services that evaluate, validate or
report only, as they change nothing modelled; clean-ups that fail themselves;
the registration of backing entities.

Whole components: section 1, those without a module; `PROJECT.json` gives each
its reason. HA itself, PyYAML and the expression library are external.

## 8 What could follow

- Which of the calls in `torn` are ever called on a handle in use, from the integration's side.
- The friendly-name listener as another writer of `SensorStorage`.
- Collections against registry events, once patterns are cached across evaluations.

## 9 Running it

    tlasany SensorStorage.tla
    tlc -workers 2 -config storage_operations.cfg MCSensorStorage
    tlc -workers 2 -config evaluation_cache.cfg MCFormulaEvaluation
    tlc -workers 2 -config manager_loads.cfg MCSensorManager
    tlc -workers 2 -config sensor_updates.cfg MCSensorUpdates
    tlc -workers 2 -config evaluation_order.cfg MCEvaluationOrder
    tlc -workers 2 -config resolution.cfg MCVariableResolution
    tlc -workers 2 -config cross_references.cfg MCCrossSensorReferences
    tlc -workers 2 -config configuration.cfg MCIntegration
    tlapm Integration_proofs.tla

`PROJECT.json` has the runs, the mutants, the map from definitions to source
lines, the hazards and the theorems.
