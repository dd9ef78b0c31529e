--------------------------- MODULE SensorManager ---------------------------
(***************************************************************************)
(* The life of the sensors (sensor_manager.py): configurations are loaded, *)
(* updated and reloaded, sensors added and removed one by one, handed to   *)
(* Home Assistant, which adds them later and may give them another entity  *)
(* id, and registered with the evaluator, where other sensors find their   *)
(* values (evaluator_sensor_registry.py, sensor_registry_phase.py).        *)
(*                                                                         *)
(* A load runs without a suspension point.  It is a job of small steps     *)
(* here, because it walks over sets in any order and may fail in between;  *)
(* nothing else runs until it is over.                                     *)
(***************************************************************************)
EXTENDS Integers, FiniteSets

CONSTANTS
  Uids,         \* unique ids, the keys of the sensors
  EntityIds,
  Formulas,     \* what else a configuration says of a sensor
  Configs,      \* the configurations loaded
  NeedsDevice,  \* sensors whose entity id is built from the name of a device
  Assigns,      \* what Home Assistant may make of a suggested entity id
  Backings,     \* entities of the integration's data provider
  Variables,    \* Uids -> the entities that its formulas' variables name
  SensorDomain, \* the entities whose id starts with "sensor."
  StateOf,      \* Uids -> the backing entity of the state token, or None
  MaxMade,      \* bound: how often one sensor is created
  None

Entries == [enabled : BOOLEAN, entity : EntityIds, formula : Formulas]

Listed(c) == {u \in Uids : c[u] # None}
Enabled(c) == {u \in Listed(c) : c[u].enabled}

\* The DynamicSensor objects, numbered for each unique id.
Instances == Uids \X (1..MaxMade)

\* A created sensor waits for Home Assistant, is live there, or was rejected.
Places == {"made", "queued", "live", "rejected"}
Sensors == [conf : Entries, entity : EntityIds, place : Places]

ASSUME ManagerConstants ==
  /\ Configs \subseteq [Uids -> Entries \cup {None}]
  /\ NeedsDevice \subseteq Uids
  /\ Assigns \in [EntityIds -> SUBSET EntityIds]
  /\ StateOf \in [Uids -> Backings \cup {None}]
  /\ MaxMade \in Nat
  /\ None \notin Entries /\ None \notin Configs
  /\ None \notin EntityIds /\ None \notin Instances /\ None \notin Sensors
  /\ None \notin Backings

VARIABLES
  current,   \* _current_config
  setup,     \* _setup_complete
  managed,   \* _sensors_by_unique_id: the number of the object, 0 if there is none
  byEntity,  \* _sensors_by_entity_id
  registry,  \* the entity ids in the evaluator's sensor registries
  providers, \* _registered_entities
  made,      \* objects created so far
  sensor,    \* the objects: their configuration, entity id and place
  device,    \* the device of the sensors is in the device registry
  job        \* the load under way

vars == <<current, setup, managed, byEntity, registry, providers, made, sensor, device, job>>

Managed == {u \in Uids : managed[u] # 0}
Object(u) == <<u, managed[u]>>
Entity(u) == sensor[Object(u)].entity

Idle == job = None
-----------------------------------------------------------------------------
(* Creating and removing one sensor *)

\* The entity id of a sensor without an explicit one needs its device.
CanCreate(u) == u \in NeedsDevice => device

\* _create_sensor_entity and the tracking of what it returns.
Make(u, entry, place) ==
  LET new == <<u, made[u] + 1>>
  IN  /\ made' = [made EXCEPT ![u] = @ + 1]
      /\ sensor' = [sensor EXCEPT ![new] =
                      [conf |-> entry, entity |-> entry.entity, place |-> place]]
      /\ managed' = [managed EXCEPT ![u] = made[u] + 1]
      /\ byEntity' = [byEntity EXCEPT ![entry.entity] = new]
      /\ registry' = [registry EXCEPT ![u] = entry.entity]

\* Mistake: a lookup by entity id goes on finding the removed sensor.
Untracked_KeepsLookup(R) ==
  /\ managed' = [u \in Uids |-> IF u \in R THEN 0 ELSE managed[u]]
  /\ UNCHANGED byEntity

\* Mistake: a sensor Home Assistant has yet to add stays tracked.
Untracked_LiveOnly(R) ==
  LET S == {u \in R \cap Managed : sensor[Object(u)].place # "queued"}
  IN  /\ managed' = [u \in Uids |-> IF u \in S THEN 0 ELSE managed[u]]
      /\ byEntity' = [e \in EntityIds |->
                        IF \E u \in S : Entity(u) = e THEN None ELSE byEntity[e]]

\* The sensor's entry is looked up by the entity id it has now.
Untracked(R) ==
  /\ managed' = [u \in Uids |-> IF u \in R THEN 0 ELSE managed[u]]
  /\ byEntity' = [e \in EntityIds |->
                    IF \E u \in R \cap Managed : Entity(u) = e THEN None ELSE byEntity[e]]

\* remove_sensor, for each of a set; it ignores a sensor that is not managed.
Removed(R) ==
  /\ Untracked(R)
  /\ registry' = [u \in Uids |-> IF u \in R \cap Managed THEN None ELSE registry[u]]
-----------------------------------------------------------------------------
(* Loading a configuration *)

\* Two configurations that list the same sensors under the same entity ids.
Same(c, d) ==
  /\ Listed(c) = Listed(d)
  /\ \A u \in Listed(c) : c[u].entity = d[u].entity

Ignored(c, M) ==
  \/ setup /\ current = None
  \/ setup /\ current # None /\ M # {} /\ Same(current, c)

Before == IF current = None THEN {} ELSE Listed(current)

\* What the manager manages is what c says, and Home Assistant has been told.
InStep(c) ==
  /\ Managed = Enabled(c)
  /\ \A u \in Managed : /\ sensor[Object(u)].conf = c[u]
                        /\ sensor[Object(u)].place # "made"

\* Mistake: a sensor that Home Assistant has yet to add is not updated.
Job_LiveOnly(c, M, reload) ==
  [old |-> current, reload |-> reload, stage |-> IF current = None THEN "register" ELSE "make",
   make |-> (Enabled(c) \ Before) \ M,
   update |-> {u \in Before \cap Listed(c) \cap M : sensor[Object(u)].place # "queued"},
   remake |-> {}, fresh |-> {},
   inStep |-> IF current = None THEN Managed = {} ELSE InStep(current)]

\* A load of c while M is managed: new sensors are made and handed over
\* together, known ones that are managed are removed and made again.
Job(c, M, reload) ==
  [old |-> current, reload |-> reload, stage |-> IF current = None THEN "register" ELSE "make",
   make |-> (Enabled(c) \ Before) \ M, update |-> Before \cap Listed(c) \cap M,
   remake |-> {}, fresh |-> {},
   inStep |-> IF current = None THEN Managed = {} ELSE InStep(current)]

Begin(c, M, reload) ==
  IF Ignored(c, M) \/ Listed(c) = {}
    THEN UNCHANGED <<current, job>>
    ELSE /\ \A u \in Enabled(c) : made[u] < MaxMade   \* the bound
         /\ current' = c
         /\ job' = Job(c, M, reload)

Load(c) ==
  /\ Idle
  /\ LET gone == IF Ignored(c, Managed) \/ Listed(c) = {} THEN {} ELSE Before \ Listed(c)
     IN  Removed(gone) /\ Begin(c, Managed \ gone, FALSE)
  /\ UNCHANGED <<setup, providers, made, sensor, device>>

Reload(c) ==
  /\ Idle
  /\ Removed(Uids) /\ Begin(c, {}, TRUE)
  /\ UNCHANGED <<setup, providers, made, sensor, device>>

\* The old configuration comes back; after a first load there is none.
Fail ==
  /\ current' = IF job.old = None THEN current ELSE job.old
  /\ setup' = IF job.old = None THEN FALSE ELSE setup
  /\ job' = None

\* The first load registers the disabled sensors too.
Register ==
  /\ ~Idle /\ job.stage = "register"
  /\ \A u \in Listed(current) : CanCreate(u)
  /\ registry' = [u \in Uids |-> IF u \in Listed(current) THEN current[u].entity ELSE registry[u]]
  /\ job' = [job EXCEPT !.stage = "make"]
  /\ UNCHANGED <<current, setup, managed, byEntity, providers, made, sensor, device>>

RegisterFails ==
  /\ ~Idle /\ job.stage = "register"
  /\ \E u \in Listed(current) : ~CanCreate(u)
  /\ \E R \in SUBSET {u \in Listed(current) : CanCreate(u)} :
       registry' = [u \in Uids |-> IF u \in R THEN current[u].entity ELSE registry[u]]
  /\ Fail
  /\ UNCHANGED <<managed, byEntity, providers, made, sensor, device>>

MakeNew(u) ==
  /\ ~Idle /\ job.stage = "make" /\ u \in job.make /\ CanCreate(u)
  /\ Make(u, current[u], "made")
  /\ job' = [job EXCEPT !.make = @ \ {u}, !.fresh = @ \cup {u}]
  /\ UNCHANGED <<current, setup, providers, device>>

RemoveKnown(u) ==
  /\ ~Idle /\ job.make = {} /\ job.remake = {} /\ u \in job.update
  /\ Removed({u})
  /\ job' = [job EXCEPT !.update = @ \ {u}, !.remake = {u} \cap Enabled(current)]
  /\ UNCHANGED <<current, setup, providers, made, sensor, device>>

MakeAgain(u) ==
  /\ ~Idle /\ u \in job.remake /\ CanCreate(u)
  /\ Make(u, current[u], "queued")
  /\ job' = [job EXCEPT !.remake = {}]
  /\ UNCHANGED <<current, setup, providers, device>>

MakeFails ==
  /\ ~Idle /\ job.stage = "make"
  /\ \E u \in job.make \cup job.remake : ~CanCreate(u)
  /\ Fail
  /\ UNCHANGED <<managed, byEntity, registry, providers, made, sensor, device>>

Done == ~Idle /\ job.stage = "make" /\ job.make = {} /\ job.update = {} /\ job.remake = {}

\* Only the first load insists on a sensor.  It validates the cross-sensor
\* dependencies too, which rejects nothing: all of them are registered sensors.
Invalid == job.old = None /\ Managed = {}

FinishFails ==
  /\ Done /\ Invalid
  /\ Fail
  /\ UNCHANGED <<managed, byEntity, registry, providers, made, sensor, device>>

Finish ==
  /\ Done /\ ~Invalid
  /\ sensor' = [i \in Instances |->
                  IF i[1] \in job.fresh /\ i = Object(i[1])
                  THEN [sensor[i] EXCEPT !.place = "queued"] ELSE sensor[i]]
  /\ setup' = (setup \/ job.old = None)
  /\ job' = None
  /\ UNCHANGED <<current, managed, byEntity, registry, providers, made, device>>
-----------------------------------------------------------------------------
(* One sensor with its backing entities *)

\* What the code looks for among the registered entities: entities of another
\* domain, and those named in the text of a formula only, are not.
Uses(u) == Variables[u] \cap SensorDomain

\* Mistake: an entity of Home Assistant's is taken for one of the provider.
Extract_Any(u) == Uses(u) \cup ({StateOf[u]} \ {None})

\* Variables count while they are registered, the state token always.
Extract(u) == (Uses(u) \cap providers) \cup ({StateOf[u]} \ {None})

\* add_sensor_with_backing_entities registers before it can fail.
AddSensor(u, entry) ==
  /\ Idle
  /\ providers' = providers \cup Extract(u)
  /\ entry.enabled /\ u \notin Managed /\ CanCreate(u)
  /\ made[u] < MaxMade   \* the bound
  /\ Make(u, entry, "queued")
  /\ UNCHANGED <<current, setup, device, job>>

AddOnlyRegisters(u, entry) ==
  /\ Idle
  /\ providers' = providers \cup Extract(u)
  /\ ~entry.enabled \/ u \in Managed \/ ~CanCreate(u)
  /\ UNCHANGED <<current, setup, managed, byEntity, registry, made, sensor, device, job>>

\* Mistake: the state tokens of the other sensors do not count.
Orphans_Variables(u) == Extract(u) \ UNION {Uses(v) : v \in Managed \ {u}}

Orphans(u) == Extract(u) \ UNION {Extract(v) : v \in Managed \ {u}}

\* remove_sensor_with_backing_entities leaves the sensor registered with the
\* evaluator, and raises, with the sensor gone, rather than register nothing.
RemoveSensor(u) ==
  /\ Idle /\ u \in Managed
  /\ Untracked({u})
  /\ \E cleanUp \in BOOLEAN :
       providers' = IF cleanUp /\ providers \ Orphans(u) # {}
                    THEN providers \ Orphans(u) ELSE providers
  /\ UNCHANGED <<current, setup, registry, made, sensor, device, job>>

\* register_data_provider_entities refuses an empty set.
RegisterProviders(S) ==
  /\ Idle /\ S # {}
  /\ providers' = S
  /\ UNCHANGED <<current, setup, managed, byEntity, registry, made, sensor, device, job>>

CleanUpAll ==
  /\ Idle
  /\ Removed(Uids)
  /\ UNCHANGED <<current, setup, providers, made, sensor, device, job>>
-----------------------------------------------------------------------------
(* Home Assistant and the updates *)

Live(u) == {i \in Instances : i[1] = u /\ i[2] <= made[u] /\ sensor[i].place = "live"}

\* An unexpected entity id is taken over; the manager is not told.
HassAdds(i, e) ==
  /\ Idle /\ i[2] <= made[i[1]] /\ sensor[i].place = "queued"
  /\ Live(i[1]) = {} /\ e \in Assigns[sensor[i].entity]
  /\ sensor' = [sensor EXCEPT ![i] = [@ EXCEPT !.entity = e, !.place = "live"]]
  /\ UNCHANGED <<current, setup, managed, byEntity, registry, providers, made, device, job>>

\* Home Assistant does not add a second sensor with the same unique id.
HassRejects(i) ==
  /\ Idle /\ i[2] <= made[i[1]] /\ sensor[i].place = "queued"
  /\ Live(i[1]) # {}
  /\ sensor' = [sensor EXCEPT ![i] = [@ EXCEPT !.place = "rejected"]]
  /\ UNCHANGED <<current, setup, managed, byEntity, registry, providers, made, device, job>>

DeviceChanges ==
  /\ Idle
  /\ device' = ~device
  /\ UNCHANGED <<current, setup, managed, byEntity, registry, providers, made, sensor, job>>
-----------------------------------------------------------------------------
Init ==
  /\ current = None /\ setup = FALSE
  /\ managed = [u \in Uids |-> 0] /\ byEntity = [e \in EntityIds |-> None]
  /\ registry = [u \in Uids |-> None] /\ providers = {}
  /\ made = [u \in Uids |-> 0]
  /\ sensor = [i \in Instances |-> None]
  /\ device \in BOOLEAN
  /\ job = None

LoadStep ==
  \/ Register \/ RegisterFails \/ MakeFails \/ FinishFails \/ Finish
  \/ \E u \in Uids : MakeNew(u) \/ RemoveKnown(u) \/ MakeAgain(u)

Next ==
  \/ \E c \in Configs : Load(c) \/ Reload(c)
  \/ LoadStep
  \/ \E c \in Configs : \E u \in Listed(c) : AddSensor(u, c[u]) \/ AddOnlyRegisters(u, c[u])
  \/ \E u \in Uids : RemoveSensor(u)
  \/ \E S \in SUBSET Backings : RegisterProviders(S)
  \/ CleanUpAll
  \/ \E i \in Instances : HassRejects(i) \/ \E e \in EntityIds : HassAdds(i, e)
  \/ DeviceChanges

Spec == Init /\ [][Next]_vars
-----------------------------------------------------------------------------
(* Properties *)

Jobs == [old : Configs \cup {None}, reload : BOOLEAN, stage : {"register", "make"},
         make : SUBSET Uids, update : SUBSET Uids, remake : SUBSET Uids,
         fresh : SUBSET Uids, inStep : BOOLEAN]

\* The type of every variable; a sensor in byEntity has been created.
TypeOK ==
  /\ current \in Configs \cup {None} /\ setup \in BOOLEAN
  /\ made \in [Uids -> 0..MaxMade]
  /\ managed \in [Uids -> 0..MaxMade] /\ \A u \in Uids : managed[u] <= made[u]
  /\ byEntity \in [EntityIds -> Instances \cup {None}]
  /\ \A e \in EntityIds : byEntity[e] # None => byEntity[e][2] <= made[byEntity[e][1]]
  /\ providers \subseteq Backings
  /\ registry \in [Uids -> EntityIds \cup {None}]
  /\ sensor \in [Instances -> Sensors \cup {None}]
  /\ \A i \in Instances : sensor[i] # None <=> i[2] <= made[i[1]]
  /\ device \in BOOLEAN /\ job \in Jobs \cup {None}

\* Through loads that fail midway, reloads and removals, every managed sensor
\* is known to the evaluator: its value can be updated (the update of one that
\* is not raises) and other sensors can refer to it.
ManagedAreRegistered == \A u \in Managed : registry[u] # None

\* When no two sensors share an entity id, get_sensor_by_entity_id finds every
\* managed sensor under the one it was created with; a removed sensor is only
\* found if Home Assistant renamed it.
LookupsAgree ==
  /\ \A u \in Managed : byEntity[sensor[Object(u)].conf.entity] = Object(u)
  /\ \A e \in EntityIds :
       byEntity[e] # None =>
         byEntity[e] = Object(byEntity[e][1]) \/ sensor[byEntity[e]].entity # e

NewlyEnabled(c, d) == (Listed(c) \cap Enabled(d)) \ Enabled(c)

\* A load that succeeds, begun when the manager was in step with the previous
\* configuration, leaves it in step with the new one: exactly the enabled
\* sensors, each with its new configuration and handed to Home Assistant; not
\* so when a sensor that was listed as disabled is enabled.
LoadsKeepUp ==
  [][Finish /\ job.inStep /\ ~job.reload
       /\ (job.old # None => NewlyEnabled(job.old, current) = {})
     => InStep(current)']_vars

\* Removing a sensor with its backing entities does not unregister the entity
\* behind the state token of a sensor still managed, nor one of the domain
\* sensor that a variable of such a sensor names, whichever of the two ways the
\* removed sensor read it.  An entity of another domain is not kept: it goes
\* with the sensor whose state token it is behind, whoever else reads it.
KeepsNeeded ==
  [][(\E u \in Uids : RemoveSensor(u))
     => \A v \in Managed \ {w \in Uids : managed'[w] = 0} :
          providers \cap (Uses(v) \cup {StateOf[v]}) \subseteq providers']_vars
=============================================================================
