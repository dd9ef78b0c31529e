------------------------ MODULE SensorStorage_proofs ------------------------
(***************************************************************************)
(* SensorStorage keeps its types, its sensors keep their sets, saved       *)
(* changes stay saved, and the storage layer is a write-behind store, for  *)
(* every number of callers, sensors, sets, entities and saves.  When all   *)
(* is quiet memory is saved and the indexes are complete, and variables    *)
(* keep agreeing with the globals, but for what the code leaves undone.    *)
(***************************************************************************)
EXTENDS SensorStorage, FiniteSetTheorems, SequenceTheorems, TLAPS

-----------------------------------------------------------------------------
(* What the operators of StorageData return and preserve *)

\* Every stored sensor has its set.
SensorsInSets(d) ==
  \A u \in Uids : HasSensor(d, u) => SetExists(d, d.sensors[u].sensor_set_id)

\* What every change of the storage layer does to the contents d: the result
\* e is well formed, and no sensor of it has lost its set.
Keeps(d, e) ==
  /\ e \in StorageContents
  /\ e.version = d.version
  /\ SensorsInSets(d) => SensorsInSets(e)

\* The parts of a well-formed contents.
LEMMA Parts ==
  ASSUME NEW d \in StorageContents
  PROVE  /\ d = [sensors |-> d.sensors, sets |-> d.sets, version |-> d.version]
         /\ d.sensors \in [Uids -> StoredSensor \cup {Absent}]
         /\ d.sets \in [SetIds -> SetData \cup {Absent}]
         /\ d.version \in Nat
  BY DEF StorageContents

\* GetSensorCount returns a number (get_sensor_count).
LEMMA CountType == ASSUME NEW d, NEW s PROVE GetSensorCount(d, s) \in Nat
  <1>1. SensorsOf(d, s) \subseteq Uids
    BY DEF SensorsOf
  <1>2. IsFiniteSet(SensorsOf(d, s))
    BY <1>1, UidsFinite, FS_Subset
  <1> QED BY <1>2, FS_CardinalityType DEF GetSensorCount

LEMMA TouchType ==
  ASSUME NEW d \in StorageContents
  PROVE  /\ Touch(d) \in StorageContents
         /\ Touch(d).version = d.version + 1
         /\ Touch(d).sensors = d.sensors
         /\ Touch(d).sets = d.sets
  BY DEF Touch, StorageContents

\* Counting again changes neither the sensors nor which sets there are.
LEMMA RecountedType ==
  ASSUME NEW d \in StorageContents, NEW s \in SetIds, SetExists(d, s)
  PROVE  /\ Recounted(d, s) \in StorageContents
         /\ Recounted(d, s).sensors = d.sensors
         /\ \A r \in SetIds : SetExists(Recounted(d, s), r) <=> SetExists(d, r)
         /\ Recounted(d, s).version = d.version
  <1> DEFINE x == [d.sets[s] EXCEPT !.sensor_count = GetSensorCount(d, s)]
             e == [d.sets EXCEPT ![s] = x]
  <1>1. d.sets[s] \in SetData
    BY Parts DEF SetExists
  <1>2. x \in SetData
    BY <1>1, CountType DEF SetData
  <1>3. e \in [SetIds -> SetData \cup {Absent}]
    BY <1>2, Parts
  <1>4. Recounted(d, s) = [d EXCEPT !.sets = e]
    BY DEF Recounted
  <1> HIDE DEF e
  <1>5. Recounted(d, s) = [sensors |-> d.sensors, sets |-> e, version |-> d.version]
    BY <1>4, Parts
  <1>6. Recounted(d, s) \in StorageContents
    BY <1>3, <1>5, Parts DEF StorageContents
  <1>7. \A r \in SetIds : e[r] # Absent <=> d.sets[r] # Absent
    BY <1>1, <1>2, Parts, AbsentIsNothing DEF e
  <1> QED BY <1>5, <1>6, <1>7 DEF SetExists

COROLLARY RecountedKeeps ==
  ASSUME NEW d \in StorageContents, NEW s \in SetIds, SetExists(d, s)
  PROVE  Keeps(d, Recounted(d, s))
  <1>1. ASSUME NEW u \in Uids, HasSensor(d, u)
        PROVE  d.sensors[u].sensor_set_id \in SetIds
    BY <1>1, Parts DEF HasSensor, StoredSensor
  <1> QED BY <1>1, RecountedType DEF Keeps, SensorsInSets, HasSensor

\* Replacing stored sensors by sensors of existing sets.
LEMMA SensorsKeep ==
  ASSUME NEW d \in StorageContents,
         NEW f \in [Uids -> StoredSensor \cup {Absent}],
         NEW e, e = [d EXCEPT !.sensors = f],
         \A u \in Uids : f[u] # Absent =>
           \/ SetExists(d, f[u].sensor_set_id)
           \/ HasSensor(d, u) /\ f[u].sensor_set_id = d.sensors[u].sensor_set_id
  PROVE  Keeps(d, e) /\ e.sets = d.sets /\ e.sensors = f
  <1>1. e = [sensors |-> f, sets |-> d.sets, version |-> d.version]
    BY Parts
  <1>2. e \in StorageContents
    BY <1>1, Parts DEF StorageContents
  <1>3. SensorsInSets(d) => SensorsInSets(e)
    BY <1>1 DEF SensorsInSets, HasSensor, SetExists
  <1> QED BY <1>1, <1>2, <1>3 DEF Keeps

\* Replacing the data of sets, without removing a set that has sensors.
LEMMA SetsKeep ==
  ASSUME NEW d \in StorageContents,
         NEW f \in [SetIds -> SetData \cup {Absent}],
         NEW e, e = [d EXCEPT !.sets = f],
         \A s \in SetIds : SetExists(d, s) => f[s] # Absent
  PROVE  Keeps(d, e) /\ e.sets = f /\ e.sensors = d.sensors
  <1>1. e = [sensors |-> d.sensors, sets |-> f, version |-> d.version]
    BY Parts
  <1>2. e \in StorageContents
    BY <1>1, Parts DEF StorageContents
  <1>3. ASSUME NEW u \in Uids, HasSensor(d, u)
        PROVE  d.sensors[u].sensor_set_id \in SetIds
    BY <1>3, Parts DEF HasSensor, StoredSensor
  <1>4. SensorsInSets(d) => SensorsInSets(e)
    BY <1>1, <1>3 DEF SensorsInSets, HasSensor, SetExists
  <1> QED BY <1>1, <1>2, <1>4 DEF Keeps

LEMMA KeepsTransitive ==
  ASSUME NEW c, NEW d, NEW e, Keeps(c, d), Keeps(d, e)
  PROVE  Keeps(c, e)
  BY DEF Keeps

-----------------------------------------------------------------------------
(* The changes, one by one. *)

LEMMA StoredKeeps ==
  ASSUME NEW d \in StorageContents, NEW s \in SetIds, NEW u \in Uids, NEW c \in Configs,
         SetExists(d, s)
  PROVE  Keeps(d, Stored(d, s, u, c))
  <1> DEFINE x == [sensor_set_id |-> s, config |-> c]
             f == [d.sensors EXCEPT ![u] = x]
             e == [d EXCEPT !.sensors = f]
  <1>1. x \in StoredSensor /\ x.sensor_set_id = s
    BY DEF StoredSensor
  <1>2. f \in [Uids -> StoredSensor \cup {Absent}]
    BY <1>1, Parts
  <1>3. \A w \in Uids : f[w] # Absent =>
           \/ SetExists(d, f[w].sensor_set_id)
           \/ HasSensor(d, w) /\ f[w].sensor_set_id = d.sensors[w].sensor_set_id
    BY <1>1, Parts DEF HasSensor
  <1> HIDE DEF f
  <1>4. Keeps(d, e) /\ e.sets = d.sets
    BY <1>2, <1>3, SensorsKeep
  <1> HIDE DEF e
  <1>5. Keeps(e, Recounted(e, s))
    BY <1>4, RecountedKeeps DEF Keeps, SetExists
  <1>6. Stored(d, s, u, c) = Recounted(e, s)
    BY DEF Stored, e, f
  <1> QED BY <1>4, <1>5, <1>6, KeepsTransitive

LEMMA UpdatedKeeps ==
  ASSUME NEW d \in StorageContents, NEW u \in Uids, NEW c \in Configs, HasSensor(d, u)
  PROVE  Keeps(d, Updated(d, u, c))
  <1> DEFINE x == [d.sensors[u] EXCEPT !.config = c]
             f == [d.sensors EXCEPT ![u] = x]
             e == [d EXCEPT !.sensors = f]
  <1>1. d.sensors[u] \in StoredSensor
    BY Parts DEF HasSensor
  <1>2. x \in StoredSensor /\ x.sensor_set_id = d.sensors[u].sensor_set_id
    BY <1>1 DEF StoredSensor
  <1> HIDE DEF x
  <1>3. f \in [Uids -> StoredSensor \cup {Absent}]
    BY <1>2, Parts
  <1>4. \A w \in Uids : f[w] # Absent =>
           \/ SetExists(d, f[w].sensor_set_id)
           \/ HasSensor(d, w) /\ f[w].sensor_set_id = d.sensors[w].sensor_set_id
    BY <1>2, Parts DEF HasSensor
  <1>5. Updated(d, u, c) = e
    BY DEF Updated, x
  <1> HIDE DEF f
  <1> QED BY <1>3, <1>4, <1>5, SensorsKeep

LEMMA BatchKeeps ==
  ASSUME NEW d \in StorageContents, NEW s \in SetIds, NEW b \in Batches, SetExists(d, s)
  PROVE  /\ Keeps(d, BatchStored(d, s, b))
         /\ Keeps(d, Recounted(BatchStored(d, s, b), s))
  <1> DEFINE x(u) == [sensor_set_id |-> s, config |-> b[u]]
             f == [u \in Uids |-> IF b[u] = Absent THEN d.sensors[u] ELSE x(u)]
             e == [d EXCEPT !.sensors = f]
  <1>1. ASSUME NEW u \in Uids, b[u] # Absent
        PROVE  x(u) \in StoredSensor /\ x(u).sensor_set_id = s
    BY <1>1 DEF StoredSensor, Batches
  <1> HIDE DEF x
  <1>2. f \in [Uids -> StoredSensor \cup {Absent}]
    BY <1>1, Parts
  <1>3. \A w \in Uids : f[w] # Absent =>
           \/ SetExists(d, f[w].sensor_set_id)
           \/ HasSensor(d, w) /\ f[w].sensor_set_id = d.sensors[w].sensor_set_id
    BY <1>1 DEF HasSensor
  <1>4. BatchStored(d, s, b) = e
    BY DEF BatchStored, x
  <1> HIDE DEF f
  <1>5. Keeps(d, e) /\ e.sets = d.sets
    BY <1>2, <1>3, SensorsKeep
  <1> HIDE DEF e
  <1>6. Keeps(e, Recounted(e, s))
    BY <1>5, RecountedKeeps DEF Keeps, SetExists
  <1> QED BY <1>4, <1>5, <1>6, KeepsTransitive

LEMMA RemovedKeeps ==
  ASSUME NEW d \in StorageContents, NEW u \in Uids, HasSensor(d, u)
  PROVE  Keeps(d, Removed(d, u))
  <1> DEFINE s == d.sensors[u].sensor_set_id
             f == [d.sensors EXCEPT ![u] = Absent]
             e == [d EXCEPT !.sensors = f]
  <1>1. s \in SetIds
    BY Parts DEF HasSensor, StoredSensor
  <1>2. f \in [Uids -> StoredSensor \cup {Absent}]
    BY Parts
  <1>3. \A w \in Uids : f[w] # Absent =>
           HasSensor(d, w) /\ f[w].sensor_set_id = d.sensors[w].sensor_set_id
    BY Parts DEF HasSensor
  <1>4. Removed(d, u) = IF SetExists(e, s) THEN Recounted(e, s) ELSE e
    BY DEF Removed
  <1> HIDE DEF f, s
  <1>5. Keeps(d, e)
    BY <1>2, <1>3, SensorsKeep
  <1> HIDE DEF e
  <1>6. SetExists(e, s) => Keeps(e, Recounted(e, s))
    BY <1>1, <1>5, RecountedKeeps DEF Keeps
  <1> QED BY <1>4, <1>5, <1>6, KeepsTransitive

LEMMA CreatedKeeps ==
  ASSUME NEW d \in StorageContents, NEW s \in SetIds, NEW g \in Bindings
  PROVE  Keeps(d, SetCreated(d, s, g))
  <1> DEFINE x == [sensor_count |-> 0, globals |-> g]
             f == [d.sets EXCEPT ![s] = x]
  <1>1. x \in SetData /\ x # Absent
    BY AbsentIsNothing DEF SetData
  <1>2. SetCreated(d, s, g) = [d EXCEPT !.sets = f]
    BY DEF SetCreated
  <1> HIDE DEF x
  <1>3. f \in [SetIds -> SetData \cup {Absent}]
    BY <1>1, Parts
  <1>4. \A r \in SetIds : SetExists(d, r) => f[r] # Absent
    BY <1>1, Parts DEF SetExists
  <1> HIDE DEF f
  <1> QED BY <1>2, <1>3, <1>4, SetsKeep

LEMMA GlobalsSetKeeps ==
  ASSUME NEW d \in StorageContents, NEW s \in SetIds, NEW g \in Bindings \cup {Absent},
         SetExists(d, s)
  PROVE  Keeps(d, GlobalsSet(d, s, g))
  <1> DEFINE x == [d.sets[s] EXCEPT !.globals = g]
             f == [d.sets EXCEPT ![s] = x]
  <1>1. d.sets[s] \in SetData
    BY Parts DEF SetExists
  <1>2. x \in SetData
    BY <1>1 DEF SetData
  <1>3. x # Absent
    BY <1>2, AbsentIsNothing
  <1>4. GlobalsSet(d, s, g) = [d EXCEPT !.sets = f]
    BY DEF GlobalsSet
  <1> HIDE DEF x
  <1>5. f \in [SetIds -> SetData \cup {Absent}]
    BY <1>2, Parts
  <1>6. \A r \in SetIds : SetExists(d, r) => f[r] # Absent
    BY <1>3, Parts DEF SetExists
  <1> HIDE DEF f
  <1> QED BY <1>4, <1>5, <1>6, SetsKeep

\* Deleting a set takes its sensors with it: none is left behind.
LEMMA DeletedKeeps ==
  ASSUME NEW d \in StorageContents, NEW s \in SetIds
  PROVE  Keeps(d, SetDeleted(d, s))
  <1> DEFINE f == [u \in Uids |-> IF u \in SensorsOf(d, s) THEN Absent ELSE d.sensors[u]]
             g == [d.sets EXCEPT ![s] = Absent]
             e == SetDeleted(d, s)
  <1>1. e = [sensors |-> f, sets |-> g, version |-> d.version]
    <2> DEFINE d1 == [d EXCEPT !.sensors = f]
    <2>1. SetDeleted(d, s) = [d1 EXCEPT !.sets = g]
      BY DEF SetDeleted
    <2> HIDE DEF f, g
    <2>2. d1 = [sensors |-> f, sets |-> d.sets, version |-> d.version]
      BY Parts
    <2> HIDE DEF d1
    <2> QED BY <2>1, <2>2
  <1>2. f \in [Uids -> StoredSensor \cup {Absent}] /\ g \in [SetIds -> SetData \cup {Absent}]
    BY Parts
  <1>3. e \in StorageContents
    BY <1>1, <1>2, Parts DEF StorageContents
  <1>4. ASSUME SensorsInSets(d), NEW u \in Uids, HasSensor(e, u)
        PROVE  SetExists(e, e.sensors[u].sensor_set_id)
    <2> DEFINE r == d.sensors[u].sensor_set_id
    <2>1. u \notin SensorsOf(d, s) /\ e.sensors[u] = d.sensors[u] /\ HasSensor(d, u)
      BY <1>1, <1>4 DEF HasSensor
    <2>2. r # s
      BY <2>1 DEF SensorsOf
    <2>3. r \in SetIds
      BY <2>1, Parts DEF HasSensor, StoredSensor
    <2>4. d.sets[r] # Absent
      BY <1>4, <2>1 DEF SensorsInSets, SetExists
    <2>5. g[r] = d.sets[r]
      BY <2>2, <2>3, Parts
    <2> QED BY <1>1, <2>1, <2>4, <2>5 DEF SetExists
  <1> QED BY <1>1, <1>3, <1>4 DEF Keeps, SensorsInSets

-----------------------------------------------------------------------------
(* A rename touches references only: which sensors and sets there are, and *)
(* which set a sensor is in, stays as it is.                               *)

LEMMA RenamedBindingsType ==
  ASSUME NEW b \in Bindings, NEW old \in Entities, NEW new \in Entities
  PROVE  RenamedBindings(b, old, new) \in Bindings
  BY DEF RenamedBindings, Swap, Bindings

LEMMA RenamedConfigType ==
  ASSUME NEW c \in Configs, NEW old \in Entities, NEW new \in Entities
  PROVE  RenamedConfig(c, old, new) \in Configs
  <1> DEFINE text == RenamedText(c.formula, old, new)
             named == RenamedBindings(c.variables, old, new)
             own  == Swap(c.entity_id, old, new)
  <1>1. /\ c.variables \in Bindings
        /\ c.entity_id \in Entities \cup {Absent}
        /\ c.formula \subseteq Entities \cup {Garbled}
    BY DEF Configs
  <1>2. own \in Entities \cup {Absent}
    BY <1>1 DEF Swap
  <1>3. named \in Bindings
    BY <1>1, RenamedBindingsType
  <1>4. text \subseteq Entities \cup {Garbled}
    BY <1>1 DEF RenamedText, Swap
  <1>5. RenamedConfig(c, old, new) = [entity_id |-> own, variables |-> named, formula |-> text]
    BY DEF RenamedConfig
  <1> HIDE DEF text, named, own
  <1> QED BY <1>2, <1>3, <1>4, <1>5 DEF Configs

LEMMA RenamedSensorType ==
  ASSUME NEW x \in StoredSensor \cup {Absent}, NEW old \in Entities, NEW new \in Entities
  PROVE  /\ RenamedSensor(x, old, new) \in StoredSensor \cup {Absent}
         /\ RenamedSensor(x, old, new) = Absent <=> x = Absent
         /\ x # Absent => RenamedSensor(x, old, new).sensor_set_id = x.sensor_set_id
  <1>1. CASE x = Absent
    BY <1>1 DEF RenamedSensor
  <1>2. CASE x # Absent
    <2> DEFINE c == RenamedConfig(x.config, old, new)
               y == [x EXCEPT !.config = c]
    <2>1. x \in StoredSensor /\ x.config \in Configs
      BY <1>2 DEF StoredSensor
    <2>2. c \in Configs
      BY <2>1, RenamedConfigType
    <2>3. RenamedSensor(x, old, new) = y
      BY <1>2 DEF RenamedSensor
    <2> HIDE DEF c
    <2>4. y \in StoredSensor /\ y.sensor_set_id = x.sensor_set_id
      BY <2>1, <2>2 DEF StoredSensor
    <2> QED BY <1>2, <2>3, <2>4, AbsentIsNothing
  <1> QED BY <1>1, <1>2

LEMMA RenamedSetType ==
  ASSUME NEW x \in SetData \cup {Absent}, NEW old \in Entities, NEW new \in Entities
  PROVE  /\ RenamedSet(x, old, new) \in SetData \cup {Absent}
         /\ RenamedSet(x, old, new) = Absent <=> x = Absent
  <1>1. CASE x = Absent
    BY <1>1 DEF RenamedSet
  <1>2. CASE x # Absent
    <2> DEFINE g == IF x.globals = Absent THEN Absent ELSE RenamedBindings(x.globals, old, new)
               y == [x EXCEPT !.globals = g]
    <2>1. x \in SetData /\ x.globals \in Bindings \cup {Absent}
      BY <1>2 DEF SetData
    <2>2. g \in Bindings \cup {Absent}
      BY <2>1, RenamedBindingsType
    <2>3. RenamedSet(x, old, new) = y
      BY <1>2 DEF RenamedSet
    <2> HIDE DEF g
    <2>4. y \in SetData
      BY <2>1, <2>2 DEF SetData
    <2> QED BY <1>2, <2>3, <2>4, AbsentIsNothing
  <1> QED BY <1>1, <1>2

LEMMA RenamedKeeps ==
  ASSUME NEW d \in StorageContents, NEW old \in Entities, NEW new \in Entities
  PROVE  Keeps(d, Renamed(d, old, new))
  <1> DEFINE f == [u \in Uids |-> RenamedSensor(d.sensors[u], old, new)]
             g == [s \in SetIds |-> RenamedSet(d.sets[s], old, new)]
             d1 == [d EXCEPT !.sensors = f]
             e == [d1 EXCEPT !.sets = g]
  <1>1. f \in [Uids -> StoredSensor \cup {Absent}] /\ g \in [SetIds -> SetData \cup {Absent}]
    BY Parts, RenamedSensorType, RenamedSetType
  <1>2. \A u \in Uids : f[u] # Absent =>
          HasSensor(d, u) /\ f[u].sensor_set_id = d.sensors[u].sensor_set_id
    BY Parts, RenamedSensorType DEF HasSensor
  <1>3. \A s \in SetIds : SetExists(d, s) => g[s] # Absent
    BY Parts, RenamedSetType DEF SetExists
  <1>4. Renamed(d, old, new) = [d EXCEPT !.sensors = f, !.sets = g]
    BY DEF Renamed
  <1> HIDE DEF f, g
  <1>5. Keeps(d, d1) /\ d1.sets = d.sets /\ d1.sensors = f
    BY <1>1, <1>2, SensorsKeep
  <1>6. Renamed(d, old, new) = e
    BY <1>4, Parts
  <1> HIDE DEF d1
  <1>7. Keeps(d1, e)
    BY <1>1, <1>3, <1>5, SetsKeep DEF Keeps, SetExists
  <1> QED BY <1>5, <1>6, <1>7, KeepsTransitive
-----------------------------------------------------------------------------
(* What each change leaves in the contents, as far as the entity index and *)
(* the validation of globals look at them.                                 *)

SameSets(d, e) ==
  \A r \in SetIds : /\ SetExists(e, r) <=> SetExists(d, r)
                    /\ GlobalsOf(e, r) = GlobalsOf(d, r)

SensorIn(s, c) == [sensor_set_id |-> s, config |-> c]

LEMMA GlobalsOfParts ==
  ASSUME NEW d \in StorageContents, NEW r \in SetIds
  PROVE  /\ GlobalsOf(d, r) \in Bindings
         /\ SetExists(d, r) => d.sets[r] \in SetData /\ d.sets[r].globals \in Bindings \cup {Absent}
  <1>1. NoBindings \in Bindings
    BY DEF NoBindings, Bindings
  <1>2. SetExists(d, r) => d.sets[r] \in SetData /\ d.sets[r].globals \in Bindings \cup {Absent}
    BY Parts DEF SetExists, SetData
  <1> QED BY <1>1, <1>2 DEF GlobalsOf

LEMMA TouchEffect ==
  ASSUME NEW d \in StorageContents
  PROVE  SameSets(d, Touch(d)) /\ Touch(d).sensors = d.sensors
  BY TouchType DEF SameSets, SetExists, GlobalsOf

LEMMA RecountedEffect ==
  ASSUME NEW d \in StorageContents, NEW s \in SetIds, SetExists(d, s)
  PROVE  SameSets(d, Recounted(d, s)) /\ Recounted(d, s).sensors = d.sensors
  <1> DEFINE x == [d.sets[s] EXCEPT !.sensor_count = GetSensorCount(d, s)]
             f == [d.sets EXCEPT ![s] = x]
  <1>1. d.sets[s] \in SetData /\ d.sets \in [SetIds -> SetData \cup {Absent}]
    BY Parts DEF SetExists
  <1>2. x \in SetData /\ x.globals = d.sets[s].globals
    BY <1>1, CountType DEF SetData
  <1>3. Recounted(d, s) = [d EXCEPT !.sets = f]
    BY DEF Recounted
  <1>4. \A r \in SetIds : /\ f[r] # Absent <=> d.sets[r] # Absent
                          /\ f[r] # Absent => f[r].globals = d.sets[r].globals
    BY <1>1, <1>2, AbsentIsNothing
  <1> HIDE DEF f
  <1>5. Recounted(d, s).sets = f /\ Recounted(d, s).sensors = d.sensors
    BY <1>3, Parts
  <1> QED BY <1>4, <1>5 DEF SameSets, SetExists, GlobalsOf

LEMMA StoredEffect ==
  ASSUME NEW d \in StorageContents, NEW s \in SetIds, NEW u \in Uids, NEW c \in Configs,
         SetExists(d, s)
  PROVE  /\ SameSets(d, Stored(d, s, u, c))
         /\ Stored(d, s, u, c).sensors = [d.sensors EXCEPT ![u] = SensorIn(s, c)]
  <1> DEFINE f == [d.sensors EXCEPT ![u] = SensorIn(s, c)]
             e == [d EXCEPT !.sensors = f]
  <1>1. SensorIn(s, c) \in StoredSensor /\ SensorIn(s, c).sensor_set_id = s
    BY DEF StoredSensor, SensorIn
  <1>2. f \in [Uids -> StoredSensor \cup {Absent}]
    BY <1>1, Parts
  <1>3. \A v \in Uids : f[v] = IF v = u THEN SensorIn(s, c) ELSE d.sensors[v]
    BY Parts
  <1>4. Stored(d, s, u, c) = Recounted(e, s)
    BY Parts DEF Stored, SensorIn
  <1> HIDE DEF f
  <1>5. e \in StorageContents /\ e.sensors = f /\ e.sets = d.sets
    BY <1>2, Parts DEF StorageContents
  <1> HIDE DEF e
  <1>6. SetExists(e, s) /\ SameSets(d, e)
    BY <1>5 DEF SetExists, SameSets, GlobalsOf
  <1> QED BY <1>4, <1>5, <1>6, RecountedEffect DEF f, SameSets

LEMMA BatchEffect ==
  ASSUME NEW d \in StorageContents, NEW s \in SetIds, NEW b \in Batches
  PROVE  /\ SameSets(d, BatchStored(d, s, b))
         /\ BatchStored(d, s, b).sensors =
              [u \in Uids |-> IF b[u] = Absent THEN d.sensors[u] ELSE SensorIn(s, b[u])]
  BY Parts DEF BatchStored, SensorIn, SameSets, SetExists, GlobalsOf

LEMMA UpdatedEffect ==
  ASSUME NEW d \in StorageContents, NEW u \in Uids, NEW c \in Configs, HasSensor(d, u)
  PROVE  /\ SameSets(d, Updated(d, u, c))
         /\ Updated(d, u, c).sensors =
              [d.sensors EXCEPT ![u] = SensorIn(d.sensors[u].sensor_set_id, c)]
  <1>1. d.sensors[u] \in StoredSensor
    BY Parts DEF HasSensor
  <1>2. [d.sensors[u] EXCEPT !.config = c] = SensorIn(d.sensors[u].sensor_set_id, c)
    BY <1>1 DEF StoredSensor, SensorIn
  <1>3. Updated(d, u, c) =
          [d EXCEPT !.sensors = [d.sensors EXCEPT ![u] = [d.sensors[u] EXCEPT !.config = c]]]
    BY Parts DEF Updated
  <1> QED BY <1>2, <1>3, Parts DEF SameSets, SetExists, GlobalsOf

LEMMA RemovedEffect ==
  ASSUME NEW d \in StorageContents, NEW u \in Uids, HasSensor(d, u)
  PROVE  SameSets(d, Removed(d, u)) /\ Removed(d, u).sensors = [d.sensors EXCEPT ![u] = Absent]
  <1> DEFINE s == d.sensors[u].sensor_set_id
             f == [d.sensors EXCEPT ![u] = Absent]
             e == [d EXCEPT !.sensors = f]
  <1>1. s \in SetIds
    BY Parts DEF HasSensor, StoredSensor
  <1>2. f \in [Uids -> StoredSensor \cup {Absent}]
    BY Parts
  <1>3. Removed(d, u) = IF SetExists(e, s) THEN Recounted(e, s) ELSE e
    BY Parts DEF Removed
  <1> HIDE DEF f
  <1>4. e \in StorageContents /\ e.sensors = f /\ e.sets = d.sets
    BY <1>2, Parts DEF StorageContents
  <1> HIDE DEF e, s
  <1>5. SameSets(d, e)
    BY <1>4 DEF SetExists, SameSets, GlobalsOf
  <1> QED BY <1>1, <1>3, <1>4, <1>5, RecountedEffect DEF f, SameSets

LEMMA CreatedEffect ==
  ASSUME NEW d \in StorageContents, NEW s \in SetIds, NEW g \in Bindings
  PROVE  LET e == SetCreated(d, s, g)
         IN  /\ e.sensors = d.sensors /\ SetExists(e, s) /\ GlobalsOf(e, s) = g
             /\ \A r \in SetIds \ {s} : /\ SetExists(e, r) <=> SetExists(d, r)
                                        /\ GlobalsOf(e, r) = GlobalsOf(d, r)
  <1> DEFINE x == [sensor_count |-> 0, globals |-> g]
             f == [d.sets EXCEPT ![s] = x]
  <1>1. x \in SetData /\ x # Absent /\ x.globals = g /\ g # Absent
    BY AbsentIsNothing DEF SetData
  <1>2. SetCreated(d, s, g) = [d EXCEPT !.sets = f]
    BY Parts DEF SetCreated
  <1>3. \A r \in SetIds : f[r] = IF r = s THEN x ELSE d.sets[r]
    BY Parts
  <1> HIDE DEF f, x
  <1>4. SetCreated(d, s, g).sets = f /\ SetCreated(d, s, g).sensors = d.sensors
    BY <1>2, Parts
  <1> QED BY <1>1, <1>3, <1>4 DEF SetExists, GlobalsOf

LEMMA DeletedEffect ==
  ASSUME NEW d \in StorageContents, NEW s \in SetIds
  PROVE  LET e == SetDeleted(d, s)
         IN  /\ e.sensors = [u \in Uids |-> IF u \in SensorsOf(d, s) THEN Absent ELSE d.sensors[u]]
             /\ ~SetExists(e, s)
             /\ \A r \in SetIds \ {s} : /\ SetExists(e, r) <=> SetExists(d, r)
                                        /\ GlobalsOf(e, r) = GlobalsOf(d, r)
  <1> DEFINE f == [u \in Uids |-> IF u \in SensorsOf(d, s) THEN Absent ELSE d.sensors[u]]
             g == [d.sets EXCEPT ![s] = Absent]
  <1>1. SetDeleted(d, s) = [d EXCEPT !.sensors = f, !.sets = g]
    BY DEF SetDeleted
  <1>2. \A r \in SetIds : g[r] = IF r = s THEN Absent ELSE d.sets[r]
    BY Parts
  <1> HIDE DEF f, g
  <1>3. SetDeleted(d, s).sets = g /\ SetDeleted(d, s).sensors = f
    BY <1>1, Parts
  <1> QED BY <1>2, <1>3 DEF SetExists, GlobalsOf, f

LEMMA GlobalsSetEffect ==
  ASSUME NEW d \in StorageContents, NEW s \in SetIds, SetExists(d, s),
         NEW g \in Bindings \cup {Absent}
  PROVE  LET e == GlobalsSet(d, s, g)
         IN  /\ e.sensors = d.sensors
             /\ GlobalsOf(e, s) = IF g = Absent THEN NoBindings ELSE g
             /\ \A r \in SetIds : /\ SetExists(e, r) <=> SetExists(d, r)
                                  /\ r # s => GlobalsOf(e, r) = GlobalsOf(d, r)
  <1> DEFINE x == [d.sets[s] EXCEPT !.globals = g]
             f == [d.sets EXCEPT ![s] = x]
  <1>1. d.sets[s] \in SetData
    BY GlobalsOfParts
  <1>2. x \in SetData /\ x # Absent /\ x.globals = g
    BY <1>1, AbsentIsNothing DEF SetData
  <1>3. GlobalsSet(d, s, g) = [d EXCEPT !.sets = f]
    BY Parts DEF GlobalsSet
  <1>4. \A r \in SetIds : f[r] = IF r = s THEN x ELSE d.sets[r]
    BY Parts
  <1> HIDE DEF f, x
  <1>5. GlobalsSet(d, s, g).sets = f /\ GlobalsSet(d, s, g).sensors = d.sensors
    BY <1>3, Parts
  <1> QED BY <1>2, <1>4, <1>5 DEF SetExists, GlobalsOf

LEMMA RenamedEffect ==
  ASSUME NEW d \in StorageContents, NEW old \in Entities, NEW new \in Entities
  PROVE  LET e == Renamed(d, old, new)
         IN  /\ e.sensors = [u \in Uids |-> RenamedSensor(d.sensors[u], old, new)]
             /\ \A r \in SetIds :
                  /\ SetExists(e, r) <=> SetExists(d, r)
                  /\ GlobalsOf(e, r) = RenamedBindings(GlobalsOf(d, r), old, new)
  <1> DEFINE f == [u \in Uids |-> RenamedSensor(d.sensors[u], old, new)]
             g == [s \in SetIds |-> RenamedSet(d.sets[s], old, new)]
  <1>1. Renamed(d, old, new) = [d EXCEPT !.sensors = f, !.sets = g]
    BY DEF Renamed
  <1>2. ASSUME NEW r \in SetIds
        PROVE  /\ g[r] = Absent <=> d.sets[r] = Absent
               /\ d.sets[r] # Absent =>
                    g[r].globals = IF d.sets[r].globals = Absent THEN Absent
                                   ELSE RenamedBindings(d.sets[r].globals, old, new)
    <2>1. g[r] = RenamedSet(d.sets[r], old, new)
      OBVIOUS
    <2>2. d.sets[r] # Absent => d.sets[r] \in SetData
      BY Parts
    <2>3. g[r] = Absent <=> d.sets[r] = Absent
      BY <2>1, Parts, RenamedSetType
    <2> QED BY <2>1, <2>2, <2>3 DEF RenamedSet, SetData
  <1>3. RenamedBindings(NoBindings, old, new) = NoBindings
    BY AbsentIsNothing DEF RenamedBindings, NoBindings, Swap
  <1>4. \A r \in SetIds : SetExists(d, r) /\ d.sets[r].globals # Absent =>
          RenamedBindings(d.sets[r].globals, old, new) # Absent
    BY GlobalsOfParts, RenamedBindingsType, AbsentIsNothing
  <1> HIDE DEF f, g
  <1>5. Renamed(d, old, new).sensors = f /\ Renamed(d, old, new).sets = g
    BY <1>1, Parts
  <1>6. ASSUME NEW r \in SetIds
        PROVE  GlobalsOf(Renamed(d, old, new), r) = RenamedBindings(GlobalsOf(d, r), old, new)
    BY <1>2, <1>3, <1>4, <1>5 DEF GlobalsOf, SetExists
  <1> QED BY <1>2, <1>5, <1>6 DEF SetExists, f
-----------------------------------------------------------------------------
(* The variables of the sensors agree with the globals of their sets.      *)

LEMMA AgreementBySensors ==
  ASSUME NEW d, NEW r
  PROVE  AgreesIn(d, r) <=> \A u \in Uids : HasSensor(d, u) /\ d.sensors[u].sensor_set_id = r =>
                                            ValidIn(d, r, d.sensors[u].config)
  BY DEF AgreesIn, NoGlobalConflict, SensorsOf, ValidIn

\* A change keeps the agreement in a set when it leaves its globals alone and
\* every sensor it puts into the set is valid there.
LEMMA SensorsAgree ==
  ASSUME NEW d \in StorageContents, NEW e, SameSets(d, e), NEW r \in SetIds, AgreesIn(d, r),
         \A u \in Uids : HasSensor(e, u) /\ e.sensors[u].sensor_set_id = r =>
           \/ HasSensor(d, u) /\ e.sensors[u] = d.sensors[u]
           \/ ValidIn(d, r, e.sensors[u].config)
  PROVE  AgreesIn(e, r)
  <1> SUFFICES ASSUME NEW u \in Uids, HasSensor(e, u), e.sensors[u].sensor_set_id = r
               PROVE  ValidIn(e, r, e.sensors[u].config)
    BY AgreementBySensors
  <1>1. ValidIn(d, r, e.sensors[u].config)
    BY AgreementBySensors
  <1> QED BY <1>1 DEF ValidIn, SameSets

\* Nor does anything change for a set whose globals and sensors stay as they are.
LEMMA SameAgrees ==
  ASSUME NEW d, NEW e, NEW r, AgreesIn(d, r), GlobalsOf(e, r) = GlobalsOf(d, r),
         \A u \in Uids : HasSensor(e, u) /\ e.sensors[u].sensor_set_id = r =>
                           HasSensor(d, u) /\ e.sensors[u] = d.sensors[u]
  PROVE  AgreesIn(e, r)
  BY AgreementBySensors DEF ValidIn

LEMMA AbsentAgrees == \A b \in Bindings : Agree(b, NoBindings)
  BY DEF Agree, NoBindings

\* Renaming on both sides makes no contradiction.
LEMMA RenamedAgree ==
  ASSUME NEW b \in Bindings, NEW g \in Bindings, Agree(b, g),
         NEW old \in Entities, NEW new \in Entities
  PROVE  Agree(RenamedBindings(b, old, new), RenamedBindings(g, old, new))
  <1> SUFFICES ASSUME NEW v \in Vars
               PROVE  \/ Absent \in {Swap(b[v], old, new), Swap(g[v], old, new)}
                      \/ Swap(b[v], old, new) = Swap(g[v], old, new)
    BY DEF Agree, RenamedBindings
  <1>1. old # Absent
    BY AbsentIsNothing
  <1>2. Absent \in {b[v], g[v]} \/ b[v] = g[v]
    BY DEF Agree
  <1> QED BY <1>1, <1>2 DEF Swap

LEMMA RenameAgrees ==
  ASSUME NEW d \in StorageContents, NEW r \in SetIds, AgreesIn(d, r),
         NEW old \in Entities, NEW new \in Entities
  PROVE  AgreesIn(Renamed(d, old, new), r)
  <1> DEFINE e == Renamed(d, old, new)
  <1>1. /\ e.sensors = [u \in Uids |-> RenamedSensor(d.sensors[u], old, new)]
        /\ GlobalsOf(e, r) = RenamedBindings(GlobalsOf(d, r), old, new)
    BY RenamedEffect
  <1> HIDE DEF e
  <1> SUFFICES ASSUME NEW u \in Uids, HasSensor(e, u), e.sensors[u].sensor_set_id = r
               PROVE  ValidIn(e, r, e.sensors[u].config)
    BY AgreementBySensors DEF e
  <1> DEFINE x == d.sensors[u]
  <1>2. x \in StoredSensor /\ HasSensor(d, u)
    BY <1>1, Parts DEF HasSensor, RenamedSensor
  <1>3. x.config \in Configs /\ x.config.variables \in Bindings
    BY <1>2 DEF StoredSensor, Configs
  <1>4. x # Absent /\ e.sensors[u] = [x EXCEPT !.config = RenamedConfig(x.config, old, new)]
    BY <1>1, <1>2 DEF RenamedSensor, HasSensor
  <1>5. /\ x.sensor_set_id = r
        /\ e.sensors[u].config = RenamedConfig(x.config, old, new)
    BY <1>2, <1>4 DEF StoredSensor
  <1>6. e.sensors[u].config.variables = RenamedBindings(x.config.variables, old, new)
    BY <1>5 DEF RenamedConfig
  <1>7. Agree(x.config.variables, GlobalsOf(d, r))
    BY <1>2, <1>5, AgreementBySensors DEF ValidIn
  <1> QED BY <1>1, <1>3, <1>6, <1>7, RenamedAgree, GlobalsOfParts DEF ValidIn

LEMMA TouchAgrees ==
  ASSUME NEW d \in StorageContents, NEW r \in SetIds, AgreesIn(d, r)
  PROVE  AgreesIn(Touch(d), r)
  BY TouchEffect, SameAgrees DEF HasSensor, SameSets
-----------------------------------------------------------------------------
(* What an index tracks. *)

\* A set tracks no more than before when its globals are the same and no
\* sensor of it is new or different.
LEMMA IndexShrinks ==
  ASSUME NEW d, NEW e, NEW s, GlobalsOf(e, s) = GlobalsOf(d, s),
         \A u \in Uids : HasSensor(e, u) /\ e.sensors[u].sensor_set_id = s =>
                           HasSensor(d, u) /\ e.sensors[u] = d.sensors[u]
  PROVE  IndexOf(e, s) \subseteq IndexOf(d, s)
  <1>1. \A u \in SensorsOf(e, s) : u \in SensorsOf(d, s) /\ e.sensors[u] = d.sensors[u]
    BY DEF SensorsOf
  <1> QED BY <1>1 DEF IndexOf

LEMMA TouchIndex ==
  ASSUME NEW d \in StorageContents, NEW s \in SetIds
  PROVE  IndexOf(Touch(d), s) = IndexOf(d, s)
  BY TouchEffect DEF SameSets, IndexOf, SensorsOf, HasSensor

\* A set that does not track the renamed entity is not touched by the rename.
LEMMA RenameIndex ==
  ASSUME NEW d \in StorageContents, NEW s \in SetIds,
         NEW old \in Entities, NEW new \in Entities, old \notin IndexOf(d, s)
  PROVE  IndexOf(Renamed(d, old, new), s) = IndexOf(d, s)
  <1> DEFINE e == Renamed(d, old, new)
  <1>1. /\ e.sensors = [u \in Uids |-> RenamedSensor(d.sensors[u], old, new)]
        /\ GlobalsOf(e, s) = RenamedBindings(GlobalsOf(d, s), old, new)
    BY RenamedEffect
  <1> HIDE DEF e
  <1>2. old # Absent
    BY AbsentIsNothing
  <1>3. ASSUME NEW b \in Bindings, \A v \in Vars : b[v] # old
        PROVE  RenamedBindings(b, old, new) = b
    BY <1>3 DEF RenamedBindings, Swap, Bindings
  <1>4. \A v \in Vars : GlobalsOf(d, s)[v] # old
    BY <1>2 DEF IndexOf, EntitiesIn
  <1>5. GlobalsOf(e, s) = GlobalsOf(d, s)
    BY <1>1, <1>3, <1>4, GlobalsOfParts
  <1>6. SensorsOf(e, s) = SensorsOf(d, s)
    <2>1. \A u \in Uids : /\ HasSensor(e, u) <=> HasSensor(d, u)
                          /\ HasSensor(d, u) => e.sensors[u].sensor_set_id = d.sensors[u].sensor_set_id
      <3> SUFFICES ASSUME NEW u \in Uids
                   PROVE  /\ HasSensor(e, u) <=> HasSensor(d, u)
                          /\ HasSensor(d, u) => e.sensors[u].sensor_set_id = d.sensors[u].sensor_set_id
        OBVIOUS
      <3>1. e.sensors[u] = RenamedSensor(d.sensors[u], old, new)
        BY <1>1
      <3>2. d.sensors[u] \in StoredSensor \cup {Absent}
        BY Parts
      <3> QED BY <3>1, <3>2, RenamedSensorType DEF HasSensor
    <2> QED BY <2>1 DEF SensorsOf
  <1>7. ASSUME NEW u \in SensorsOf(d, s)
        PROVE  EntitiesOf(e.sensors[u].config) = EntitiesOf(d.sensors[u].config)
    <2> DEFINE x == d.sensors[u]
    <2>1. u \in Uids /\ x \in StoredSensor /\ x # Absent
      BY Parts DEF SensorsOf, HasSensor
    <2>2. x.config \in Configs /\ x.config.variables \in Bindings
      BY <2>1 DEF StoredSensor, Configs
    <2>3. old \notin EntitiesOf(x.config)
      BY DEF IndexOf
    <2>4. x.config.entity_id # old /\ \A v \in Vars : x.config.variables[v] # old
      BY <1>2, <2>3 DEF EntitiesOf
    <2>5. e.sensors[u] = [x EXCEPT !.config = RenamedConfig(x.config, old, new)]
      BY <1>1, <2>1 DEF RenamedSensor
    <2>6. e.sensors[u].config = RenamedConfig(x.config, old, new)
      BY <2>1, <2>5 DEF StoredSensor
    <2>7. /\ e.sensors[u].config.entity_id = x.config.entity_id
          /\ e.sensors[u].config.variables = x.config.variables
      BY <1>3, <2>2, <2>4, <2>6 DEF RenamedConfig, Swap
    <2> QED BY <2>7 DEF EntitiesOf
  <1>8. {EntitiesOf(e.sensors[u].config) : u \in SensorsOf(e, s)}
          = {EntitiesOf(d.sensors[u].config) : u \in SensorsOf(d, s)}
    BY <1>6, <1>7
  <1> QED BY <1>5, <1>8 DEF IndexOf, e
-----------------------------------------------------------------------------
(* The invariant *)

\* What holds in every reachable state, strong enough to be kept by a step.
IInv == TypeOK /\ NoOrphanSensors /\ InOnePlace /\ VersionsOrdered /\ Durable

LEMMA SameOrphans == ASSUME NEW d PROVE SensorsHaveSets(d) <=> SensorsInSets(d)
  BY DEF SensorsHaveSets, SensorsInSets

-----------------------------------------------------------------------------
(* Programs are sequences of steps. *)

LEMMA SetToSeqType == ASSUME NEW S, IsFiniteSet(S) PROVE SetToSeq(S) \in Seq(S)
  <1>1. Cardinality(S) \in Nat
    BY FS_CardinalityType
  <1>2. PICK f : f \in Bijection(1..Cardinality(S), S)
    BY FS_CardinalityType DEF ExistsBijection
  <1> DEFINE P(g) == g \in [1..Cardinality(S) -> S] /\ IsInjective(g)
  <1>3. P(f)
    BY <1>2 DEF Bijection, Injection, IsInjective
  <1>4. SetToSeq(S) = CHOOSE g : P(g)
    BY DEF SetToSeq
  <1>5. P(SetToSeq(S))
    BY <1>3, <1>4
  <1> QED BY <1>1, <1>5

LEMMA KeysType ==
  ASSUME NEW b \in Batches
  PROVE  /\ SetToSeq(Keys(b)) \in Seq(Uids)
         /\ \A i \in DOMAIN SetToSeq(Keys(b)) :
              SetToSeq(Keys(b))[i] \in Uids /\ b[SetToSeq(Keys(b))[i]] \in Configs
  <1>1. Keys(b) \subseteq Uids /\ \A u \in Keys(b) : b[u] \in Configs
    BY DEF Keys, Batches
  <1>2. IsFiniteSet(Keys(b))
    BY <1>1, UidsFinite, FS_Subset
  <1>3. SetToSeq(Keys(b)) \in Seq(Keys(b))
    BY <1>2, SetToSeqType
  <1> HIDE DEF Keys
  <1> QED BY <1>1, <1>3

\* The steps that leave the indexes alone.
PlainSteps == {step \in StepShape : step.op \notin {"index", "config"}}

LEMMA PlainPrograms == \A p \in Seq(PlainSteps) : p \in Seq(StepShape)
  BY DEF PlainSteps

LEMMA ProgramTypes ==
  /\ \A b \in Batches : Writes(b) \in Seq(PlainSteps)
  /\ \A b \in Batches, s \in SetIds : Stores(s, b) \in Seq(PlainSteps)
  /\ \A S \in SUBSET Uids : Removals(S) \in Seq(PlainSteps)
  <1>1. ASSUME NEW b \in Batches PROVE Writes(b) \in Seq(PlainSteps)
    <2> DEFINE q == SetToSeq(Keys(b))
               w(i) == [op |-> "write", uid |-> q[i], config |-> b[q[i]]]
    <2>1. Writes(b) = [i \in DOMAIN q |-> w(i)]
      BY DEF Writes, Each
    <2>2. q \in Seq(Uids) /\ \A i \in DOMAIN q : q[i] \in Uids /\ b[q[i]] \in Configs
      BY KeysType
    <2> HIDE DEF q
    <2>3. \A i \in DOMAIN q : w(i) \in PlainSteps
      BY <2>2 DEF StepShape, PlainSteps
    <2> HIDE DEF w
    <2> QED BY <2>1, <2>2, <2>3
  <1>2. ASSUME NEW b \in Batches, NEW s \in SetIds PROVE Stores(s, b) \in Seq(PlainSteps)
    <2> DEFINE q == SetToSeq(Keys(b))
               w(i) == [op |-> "store", set |-> s, uid |-> q[i], config |-> b[q[i]]]
    <2>1. Stores(s, b) = [i \in DOMAIN q |-> w(i)]
      BY DEF Stores, Each
    <2>2. q \in Seq(Uids) /\ \A i \in DOMAIN q : q[i] \in Uids /\ b[q[i]] \in Configs
      BY KeysType
    <2> HIDE DEF q
    <2>3. \A i \in DOMAIN q : w(i) \in PlainSteps
      BY <2>2 DEF StepShape, PlainSteps
    <2> HIDE DEF w
    <2> QED BY <2>1, <2>2, <2>3
  <1>3. ASSUME NEW S \in SUBSET Uids PROVE Removals(S) \in Seq(PlainSteps)
    <2> DEFINE q == SetToSeq(S)
               w(i) == [op |-> "remove", uid |-> q[i]]
    <2>1. Removals(S) = [i \in DOMAIN q |-> w(i)]
      BY DEF Removals, Each
    <2>2. IsFiniteSet(S)
      BY UidsFinite, FS_Subset
    <2>3. q \in Seq(S)
      BY <2>2, SetToSeqType
    <2> HIDE DEF q
    <2>4. \A i \in DOMAIN q : w(i) \in PlainSteps
      BY <2>3 DEF StepShape, PlainSteps
    <2> HIDE DEF w
    <2> QED BY <2>1, <2>3, <2>4
  <1> QED BY <1>1, <1>2, <1>3

LEMMA MovedType ==
  ASSUME NEW c \in Configs, NEW r \in [old : Entities, new : Entities] \cup {Absent}
  PROVE  Moved(c, r) \in Configs
  <1>1. CASE r = Absent
    BY <1>1 DEF Moved
  <1>2. CASE r # Absent
    <2> DEFINE own == Swap(c.entity_id, r.old, r.new)
               bs  == RenamedBindings(c.variables, r.old, r.new)
    <2>1. r.old \in Entities /\ r.new \in Entities
      BY <1>2
    <2>2. c.entity_id \in Entities \cup {Absent} /\ c.variables \in Bindings
      BY DEF Configs
    <2>3. own \in Entities \cup {Absent}
      BY <2>1, <2>2 DEF Swap
    <2>4. bs \in Bindings
      BY <2>1, <2>2, RenamedBindingsType
    <2> DEFINE c1 == [c EXCEPT !.entity_id = own]
    <2>5. Moved(c, r) = [c1 EXCEPT !.variables = bs]
      BY <1>2 DEF Moved
    <2> HIDE DEF own, bs
    <2>6. c1 \in Configs
      BY <2>3 DEF Configs
    <2> HIDE DEF c1
    <2> QED BY <2>4, <2>5, <2>6 DEF Configs
  <1> QED BY <1>1, <1>2

LEMMA SensorConfigType ==
  ASSUME NEW d \in StorageContents, NEW s, NEW u \in SensorsOf(d, s)
  PROVE  u \in Uids /\ d.sensors[u].config \in Configs
  BY Parts DEF SensorsOf, HasSensor, StoredSensor

LEMMA ModificationParts ==
  ASSUME NEW m \in ModificationShape
  PROVE  /\ m.globals \in Bindings \cup {Absent}
         /\ m.rename \in [old : Entities, new : Entities] \cup {Absent}
         /\ m.remove \in SUBSET Uids
         /\ m.update \in Batches /\ m.add \in Batches
         /\ \A u \in Uids : /\ m.update[u] \in Configs \cup {Absent}
                            /\ m.add[u] \in Configs \cup {Absent}
  BY DEF ModificationShape, Batches

LEMMA RenamedCopiesType ==
  ASSUME NEW d \in StorageContents, NEW s \in SetIds, NEW m \in ModificationShape
  PROVE  RenamedCopies(d, s, m) \in Batches
  <1> DEFINE x(u) == IF u \in SensorsOf(d, s) /\ Moved(d.sensors[u].config, m.rename) # d.sensors[u].config
                     THEN Moved(d.sensors[u].config, m.rename) ELSE Absent
  <1>1. \A u \in Uids : x(u) \in Configs \cup {Absent}
    BY SensorConfigType, ModificationParts, MovedType
  <1>2. RenamedCopies(d, s, m) = [u \in Uids |-> x(u)]
    BY DEF RenamedCopies
  <1> HIDE DEF x
  <1> QED BY <1>1, <1>2 DEF Batches

LEMMA FinalSensorsType ==
  ASSUME NEW d \in StorageContents, NEW s \in SetIds, NEW m \in ModificationShape
  PROVE  FinalSensors(d, s, m) \in Batches
  <1> DEFINE x(u) == IF m.update[u] # Absent THEN Moved(m.update[u], m.rename)
                     ELSE IF m.add[u] # Absent THEN Moved(m.add[u], m.rename)
                     ELSE IF u \in SensorsOf(d, s) \ m.remove
                          THEN Moved(d.sensors[u].config, m.rename)
                     ELSE Absent
  <1>1. \A u \in Uids : x(u) \in Configs \cup {Absent}
    BY SensorConfigType, ModificationParts, MovedType
  <1>2. FinalSensors(d, s, m) = [u \in Uids |-> x(u)]
    BY DEF FinalSensors
  <1> HIDE DEF x
  <1> QED BY <1>1, <1>2 DEF Batches

LEMMA GlobalsOfType ==
  ASSUME NEW d \in StorageContents, NEW s \in SetIds
  PROVE  GlobalsOf(d, s) \in Bindings
  <1>1. NoBindings \in Bindings
    BY DEF NoBindings, Bindings
  <1>2. SetExists(d, s) => d.sets[s].globals \in Bindings \cup {Absent}
    BY Parts DEF SetExists, SetData
  <1> QED BY <1>1, <1>2 DEF GlobalsOf

LEMMA EntitiesTypes ==
  /\ \A c \in Configs : EntitiesOf(c) \subseteq Entities
  /\ \A g \in Bindings : EntitiesIn(g) \subseteq Entities
  BY DEF EntitiesOf, EntitiesIn, Configs, Bindings

\* An index holds entity ids and nothing else.
LEMMA IndexTypes ==
  ASSUME NEW d \in StorageContents, NEW s \in SetIds
  PROVE  /\ IndexOf(d, s) \in SUBSET Entities
         /\ \A m \in ModificationShape : FinalIndex(d, s, m) \in SUBSET Entities
  <1>1. IndexOf(d, s) \in SUBSET Entities
    BY SensorConfigType, GlobalsOfType, EntitiesTypes DEF IndexOf
  <1>2. ASSUME NEW m \in ModificationShape PROVE FinalIndex(d, s, m) \in SUBSET Entities
    <2> DEFINE final == FinalSensors(d, s, m)
               g     == IF m.globals = Absent THEN GlobalsOf(d, s) ELSE m.globals
    <2>1. \A u \in Keys(final) : final[u] \in Configs
      BY FinalSensorsType DEF Keys, Batches
    <2>2. g \in Bindings
      BY GlobalsOfType, ModificationParts
    <2>3. FinalIndex(d, s, m) = EntitiesIn(g) \cup UNION {EntitiesOf(final[u]) : u \in Keys(final)}
      BY DEF FinalIndex
    <2> HIDE DEF final, g
    <2> QED BY <2>1, <2>2, <2>3, EntitiesTypes
  <1> QED BY <1>1, <1>2

LEMMA ModifyProgramType ==
  ASSUME NEW d \in StorageContents, NEW s \in SetIds, NEW m \in ModificationShape
  PROVE  ModifyProgram(d, s, m) \in Seq(PlainSteps)
  <1> DEFINE first == IF m.globals = Absent THEN <<>>
                      ELSE <<[op |-> "globals", set |-> s, globals |-> m.globals]>>
             last  == IF m.rename = Absent THEN <<>>
                      ELSE <<[op |-> "registry", old |-> m.rename.old, new |-> m.rename.new]>>
  <1>1. first \in Seq(PlainSteps)
    <2>1. CASE m.globals = Absent
      BY <2>1
    <2>2. CASE m.globals # Absent
      <3>1. [op |-> "globals", set |-> s, globals |-> m.globals] \in PlainSteps
        BY <2>2, ModificationParts DEF StepShape, PlainSteps
      <3> QED BY <2>2, <3>1
    <2> QED BY <2>1, <2>2
  <1>2. last \in Seq(PlainSteps)
    <2>1. CASE m.rename = Absent
      BY <2>1
    <2>2. CASE m.rename # Absent
      <3>1. [op |-> "registry", old |-> m.rename.old, new |-> m.rename.new] \in PlainSteps
        BY <2>2, ModificationParts DEF StepShape, PlainSteps
      <3> QED BY <2>2, <3>1
    <2> QED BY <2>1, <2>2
  <1>3. /\ Writes(RenamedCopies(d, s, m)) \in Seq(PlainSteps)
        /\ Removals(m.remove) \in Seq(PlainSteps)
        /\ Writes(m.update) \in Seq(PlainSteps)
        /\ Stores(s, m.add) \in Seq(PlainSteps)
    BY ProgramTypes, RenamedCopiesType, ModificationParts
  <1>4. ModifyProgram(d, s, m) =
          first \o Writes(RenamedCopies(d, s, m)) \o Removals(m.remove) \o Writes(m.update)
            \o Stores(s, m.add) \o last
    BY DEF ModifyProgram
  <1> HIDE DEF first, last
  <1> QED BY <1>1, <1>2, <1>3, <1>4

LEMMA ImportTypes ==
  ASSUME NEW d \in StorageContents, NEW s \in SetIds, NEW i \in ImportShape
  PROVE  /\ ImportProgram(d, s, i) \in Seq(StepShape)
         /\ FromConfig(d, s, i) \in Seq(StepShape)
  <1>1. i.globals \in Bindings /\ i.sensors \in Batches
    BY DEF ImportShape
  <1>2. /\ [op |-> "create", set |-> s, globals |-> i.globals] \in StepShape
        /\ [op |-> "globals", set |-> s, globals |-> i.globals] \in StepShape
        /\ [op |-> "delete", set |-> s] \in StepShape
        /\ [op |-> "config", set |-> s, import |-> i] \in StepShape
        /\ IndexStep({s}) \in StepShape
    BY <1>1 DEF StepShape, IndexStep
  <1>3. Stores(s, i.sensors) \in Seq(StepShape)
    BY <1>1, ProgramTypes, PlainPrograms
  <1>4. ImportProgram(d, s, i) \in Seq(StepShape)
    BY <1>2 DEF ImportProgram
  <1>5. FromConfig(d, s, i) \in Seq(StepShape)
    BY <1>2, <1>3 DEF FromConfig
  <1> QED BY <1>4, <1>5

-----------------------------------------------------------------------------
(* One step of a program. *)

\* The fields a step has.
LEMMA StepParts ==
  ASSUME NEW ch \in StepShape
  PROVE  /\ ch.op \in {"create", "globals"} => ch.set \in SetIds /\ ch.globals \in Bindings
         /\ ch.op \in {"delete", "drop", "store", "bulk", "config"} => ch.set \in SetIds
         /\ ch.op \in {"store", "update", "write"} => ch.uid \in Uids /\ ch.config \in Configs
         /\ ch.op = "remove" => ch.uid \in Uids
         /\ ch.op = "bulk" => ch.batch \in Batches
         /\ ch.op \in {"rename", "registry"} => ch.old \in Entities /\ ch.new \in Entities
         /\ ch.op = "index" => ch.sets \in SUBSET SetIds
         /\ ch.op = "config" => ch.import \in ImportShape
         /\ ch.op \in {"create", "globals", "delete", "drop", "store", "update", "write",
                       "remove", "bulk", "rename", "registry", "index", "config"}
  BY DEF StepShape

\* An accepted change keeps the contents well formed and orphans no sensor.
LEMMA ChangedKeeps ==
  ASSUME NEW d \in StorageContents, NEW ch \in StepShape, Accepts(d, ch), IsChange(ch)
  PROVE  Keeps(d, Changed(d, ch))
  <1>1. CASE ch.op = "create"
    <2>1. Changed(d, ch) = SetCreated(d, ch.set, ch.globals)
      BY <1>1 DEF Changed
    <2> QED BY <1>1, <2>1, StepParts, CreatedKeeps
  <1>2. CASE ch.op = "delete"
    <2>1. Changed(d, ch) = SetDeleted(d, ch.set)
      BY <1>2 DEF Changed
    <2> QED BY <1>2, <2>1, StepParts, DeletedKeeps
  <1>3. CASE ch.op = "drop"
    <2>1. Changed(d, ch) = GlobalsSet(d, ch.set, Absent)
      BY <1>3 DEF Changed
    <2>2. SetExists(d, ch.set)
      BY <1>3 DEF Accepts
    <2> QED BY <1>3, <2>1, <2>2, StepParts, GlobalsSetKeeps
  <1>4. CASE ch.op = "store"
    <2>1. Changed(d, ch) = Stored(d, ch.set, ch.uid, ch.config)
      BY <1>4 DEF Changed
    <2>2. SetExists(d, ch.set)
      BY <1>4 DEF Accepts
    <2> QED BY <1>4, <2>1, <2>2, StepParts, StoredKeeps
  <1>5. CASE ch.op = "bulk"
    <2>1. Changed(d, ch) = Recounted(BatchStored(d, ch.set, ch.batch), ch.set)
      BY <1>5 DEF Changed
    <2>2. SetExists(d, ch.set)
      BY <1>5 DEF Accepts
    <2> QED BY <1>5, <2>1, <2>2, StepParts, BatchKeeps
  <1>6. CASE ch.op \in {"update", "write"}
    <2>1. Changed(d, ch) = Updated(d, ch.uid, ch.config)
      BY <1>6 DEF Changed
    <2>2. HasSensor(d, ch.uid)
      BY <1>6 DEF Accepts
    <2> QED BY <1>6, <2>1, <2>2, StepParts, UpdatedKeeps
  <1>7. CASE ch.op = "remove"
    <2>1. Changed(d, ch) = Removed(d, ch.uid)
      BY <1>7 DEF Changed
    <2>2. HasSensor(d, ch.uid)
      BY <1>7 DEF Accepts
    <2> QED BY <1>7, <2>1, <2>2, StepParts, RemovedKeeps
  <1>8. CASE ch.op = "globals"
    <2>1. Changed(d, ch) = GlobalsSet(d, ch.set, ch.globals)
      BY <1>8 DEF Changed
    <2>2. SetExists(d, ch.set)
      BY <1>8 DEF Accepts
    <2> QED BY <1>8, <2>1, <2>2, StepParts, GlobalsSetKeeps
  <1>9. CASE ch.op = "rename"
    <2>1. Changed(d, ch) = Renamed(d, ch.old, ch.new)
      BY <1>9 DEF Changed
    <2> QED BY <1>9, <2>1, StepParts, RenamedKeeps
  <1> QED BY <1>1, <1>2, <1>3, <1>4, <1>5, <1>6, <1>7, <1>8, <1>9, StepParts DEF IsChange

\* The memory grows from d to e.
Grows(d, e) ==
  /\ e \in StorageContents
  /\ e.version = d.version + 1
  /\ SensorsInSets(d) => SensorsInSets(e)

LEMMA TouchGrows ==
  ASSUME NEW d \in StorageContents, NEW e, Keeps(d, e)
  PROVE  Grows(d, Touch(e))
  BY TouchType DEF Keeps, Grows, SensorsInSets, HasSensor, SetExists

-----------------------------------------------------------------------------
(* What a call does: it starts a program, or it ends at once, with or      *)
(* without a change of the memory.                                         *)

TaskState == [left : Seq(StepShape), needs : Nat, busy : BOOLEAN, direct : BOOLEAN]

LEMMA TaskStates ==
  /\ Idle \in TaskState /\ ~Idle.busy /\ Idle.needs = 0 /\ Idle.left = <<>> /\ ~Idle.direct
  /\ \A p \in Seq(StepShape) : /\ Running(p) \in TaskState /\ Running(p).busy
                               /\ Direct(p) \in TaskState /\ Direct(p).busy
                               /\ Running(p).needs = 0 /\ Direct(p).needs = 0
  /\ \A x \in TaskState : /\ x.left \in Seq(StepShape) /\ x.needs \in Nat /\ x.busy \in BOOLEAN
                          /\ x.left # <<>> => Head(x.left) \in StepShape
  /\ \A x \in TaskState, p \in Seq(StepShape) :
       /\ [x EXCEPT !.left = p] \in TaskState
       /\ [x EXCEPT !.left = p].busy = x.busy /\ [x EXCEPT !.left = p].needs = x.needs
  BY DEF TaskState, Idle, Running, Direct

\* What a task is once it has changed something.
LEMMA SavingState ==
  ASSUME NEW x \in TaskState, x.left # <<>>, NEW n \in Nat
  PROVE  /\ Saving(x, n) \in TaskState /\ Saving(x, n).left = Tail(x.left)
         /\ Saving(x, n).busy = x.busy /\ Saving(x, n).needs = n
         /\ Saving(x, n).direct = x.direct
  <1>1. x.left \in Seq(StepShape)
    BY DEF TaskState
  <1>2. Tail(x.left) \in Seq(StepShape)
    BY <1>1
  <1> QED BY <1>2 DEF TaskState, Saving

Called(t) ==
  /\ turn = Absent /\ ~task[t].busy
  /\ \E program \in Seq(StepShape) : Begin(t, Running(program)) \/ Begin(t, Direct(program))

CallEnds ==
  /\ turn = Absent
  /\ Grows(data, data') \/ data' = data
  /\ UNCHANGED <<disk, holder, waiters, snap, task, turn, registry, acked>>

SidesTyped ==
  /\ torn \subseteq SetIds
  /\ index \in [SetIds -> (SUBSET Entities) \cup {Absent}]
  /\ used \in [DOMAIN Bound -> Nat]

LEMMA CachedType ==
  ASSUME TypeOK, NEW S
  PROVE  Cached(S) \in [SetIds -> (SUBSET Entities) \cup {Absent}]
  BY IndexTypes DEF Cached, TypeOK

LEMMA UseType == ASSUME TypeOK, NEW k, Use(k) PROVE used' \in [DOMAIN Bound -> Nat]
  <1> DEFINE D == DOMAIN Bound
  <1>1. used \in [D -> Nat] /\ used' = [used EXCEPT ![k] = used[k] + 1]
    BY DEF Use, TypeOK
  <1> HIDE DEF D
  <1>2. \A n \in Nat : n + 1 \in Nat
    OBVIOUS
  <1>3. k \in D => used[k] + 1 \in Nat
    BY <1>1, <1>2
  <1>4. used' \in [D -> Nat]
    BY <1>1, <1>3
  <1> QED BY <1>4 DEF D

LEMMA CallEffect ==
  ASSUME TypeOK, NEW t, NEW op, Ready(t, op), NEW ch \in StepShape, NEW s \in SetIds,
         Call(t, ch) \/ CallOnSet(t, s, ch)
  PROVE  Called(t) /\ SidesTyped'
  <1>1. IndexStep({s}) \in StepShape
    BY DEF IndexStep, StepShape
  <1>2. used' \in [DOMAIN Bound -> Nat] /\ turn = Absent /\ ~task[t].busy
    BY UseType DEF Ready
  <1>3. CASE Call(t, ch)
    <2>1. <<ch>> \in Seq(StepShape)
      OBVIOUS
    <2>2. Begin(t, Direct(<<ch>>)) /\ UNCHANGED <<index, torn>>
      BY <1>3 DEF Call
    <2>3. SidesTyped'
      BY <1>2, <2>2 DEF SidesTyped, TypeOK, Begin
    <2> QED BY <1>2, <2>1, <2>2, <2>3 DEF Called
  <1>4. CASE CallOnSet(t, s, ch)
    <2>1. <<ch, IndexStep({s})>> \in Seq(StepShape)
      BY <1>1
    <2>2. Begin(t, Running(<<ch, IndexStep({s})>>)) /\ index' = Cached({s}) /\ UNCHANGED torn
      BY <1>4 DEF CallOnSet
    <2>3. SidesTyped'
      BY <1>2, <2>2, CachedType DEF SidesTyped, Begin, TypeOK
    <2> QED BY <1>2, <2>1, <2>2, <2>3 DEF Called
  <1> QED BY <1>3, <1>4

LEMMA WithVariableType ==
  ASSUME TypeOK, NEW s \in SetIds, NEW v \in Vars, NEW e \in Entities \cup {Absent}
  PROVE  WithVariable(s, v, e) \in Bindings
  BY GlobalsOfType DEF WithVariable, Bindings, TypeOK

LEMMA OperationEffect ==
  ASSUME TypeOK, NEW t \in Clients, Operation(t)
  PROVE  (Called(t) \/ CallEnds) /\ SidesTyped'
  <1>0. data \in StorageContents
    BY DEF TypeOK
  <1>1. CASE CreateSensorSet(t)
    <2>1. PICK s \in SetIds, g \in NewGlobals :
            Ready(t, "create") /\ Call(t, [op |-> "create", set |-> s, globals |-> g])
      BY <1>1 DEF CreateSensorSet
    <2>2. [op |-> "create", set |-> s, globals |-> g] \in StepShape
      BY StorageConstants DEF StepShape
    <2> QED BY <2>1, <2>2, CallEffect
  <1>2. CASE DeleteSensorSet(t)
    <2>1. PICK s \in SetIds : Ready(t, "delete") /\ Call(t, [op |-> "delete", set |-> s])
      BY <1>2 DEF DeleteSensorSet
    <2>2. [op |-> "delete", set |-> s] \in StepShape
      BY DEF StepShape
    <2> QED BY <2>1, <2>2, CallEffect
  <1>3. CASE AddSensor(t)
    <2>1. PICK s \in SetIds, u \in Uids, c \in NewConfigs :
            /\ Ready(t, "add")
            /\ CallOnSet(t, s, [op |-> "store", set |-> s, uid |-> u, config |-> c])
      BY <1>3 DEF AddSensor
    <2>2. [op |-> "store", set |-> s, uid |-> u, config |-> c] \in StepShape
      BY StorageConstants DEF StepShape
    <2> QED BY <2>1, <2>2, CallEffect
  <1>4. CASE UpdateSensor(t)
    <2>0. PICK s \in SetIds : \E c \in NewConfigs : \E u \in SensorsOf(data, s) :
            /\ Ready(t, "update")
            /\ CallOnSet(t, s, [op |-> "update", uid |-> u, config |-> c])
      BY <1>4 DEF UpdateSensor
    <2>1. PICK c \in NewConfigs, u \in SensorsOf(data, s) :
            /\ Ready(t, "update")
            /\ CallOnSet(t, s, [op |-> "update", uid |-> u, config |-> c])
      BY <2>0
    <2>2. [op |-> "update", uid |-> u, config |-> c] \in StepShape
      BY StorageConstants, <1>0, SensorConfigType DEF StepShape
    <2> QED BY <2>1, <2>2, CallEffect
  <1>5. CASE RemoveSensor(t)
    <2>0. PICK s \in SetIds : \E u \in SensorsOf(data, s) :
            Ready(t, "remove") /\ CallOnSet(t, s, [op |-> "remove", uid |-> u])
      BY <1>5 DEF RemoveSensor
    <2>1. PICK u \in SensorsOf(data, s) :
            Ready(t, "remove") /\ CallOnSet(t, s, [op |-> "remove", uid |-> u])
      BY <2>0
    <2>2. [op |-> "remove", uid |-> u] \in StepShape
      BY <1>0, SensorConfigType DEF StepShape
    <2> QED BY <2>1, <2>2, CallEffect
  <1>6. CASE PersistSensor(t)
    <2>1. PICK u \in Uids, c \in NewConfigs :
            Ready(t, "persist") /\ Call(t, [op |-> "update", uid |-> u, config |-> c])
      BY <1>6 DEF PersistSensor
    <2>2. [op |-> "update", uid |-> u, config |-> c] \in StepShape
      BY StorageConstants DEF StepShape
    <2>3. Begin(t, Direct(<<[op |-> "update", uid |-> u, config |-> c]>>)) /\ UNCHANGED <<index, torn>>
      BY <2>1 DEF Call
    <2>4. SidesTyped'
      BY <2>1, <2>3, UseType DEF SidesTyped, TypeOK, Ready, Begin
    <2>5. <<[op |-> "update", uid |-> u, config |-> c]>> \in Seq(StepShape)
      BY <2>2
    <2> QED BY <2>1, <2>3, <2>4, <2>5 DEF Called, Ready
  <1>7. CASE ReplaceSensors(t)
    <2>1. PICK s \in SetIds, b \in NewBatches :
            /\ Ready(t, "replace")
            /\ Begin(t, Direct(<<[op |-> "bulk", set |-> s, batch |-> b]>>))
            /\ index' = Cached({s}) /\ UNCHANGED torn
      BY <1>7 DEF ReplaceSensors
    <2>2. [op |-> "bulk", set |-> s, batch |-> b] \in StepShape
      BY StorageConstants DEF StepShape
    <2>3. <<[op |-> "bulk", set |-> s, batch |-> b]>> \in Seq(StepShape)
      BY <2>2
    <2>4. SidesTyped'
      BY <2>1, UseType, CachedType DEF SidesTyped, Ready, Begin, TypeOK
    <2> QED BY <2>1, <2>3, <2>4 DEF Called, Ready
  <1>8. CASE ReplaceSensorsRejected(t)
    <2>1. PICK s \in SetIds, b \in NewBatches :
            \E done \in SUBSET {u \in Keys(b) : ValidIn(data, s, b[u])} :
              /\ Ready(t, "replace")
              /\ SetExists(data, s)
              /\ data' = Touch(BatchStored(data, s,
                                 [u \in Uids |-> IF u \in done THEN b[u] ELSE Absent]))
              /\ Fail(s)
      BY <1>8 DEF ReplaceSensorsRejected
    <2>2. PICK done \in SUBSET {u \in Keys(b) : ValidIn(data, s, b[u])} :
              /\ Ready(t, "replace")
              /\ SetExists(data, s)
              /\ data' = Touch(BatchStored(data, s,
                                 [u \in Uids |-> IF u \in done THEN b[u] ELSE Absent]))
              /\ Fail(s)
      BY <2>1
    <2> DEFINE f == [u \in Uids |-> IF u \in done THEN b[u] ELSE Absent]
    <2>3. b \in Batches
      BY StorageConstants
    <2>4. f \in Batches
      BY <2>3 DEF Batches
    <2>5. data' = Touch(BatchStored(data, s, f))
      BY <2>2
    <2> HIDE DEF f
    <2>6. Grows(data, data')
      BY <1>0, <2>2, <2>4, <2>5, BatchKeeps, TouchGrows
    <2>7. SidesTyped'
      BY <2>2, UseType, CachedType DEF SidesTyped, Ready, Fail, TypeOK
    <2> QED BY <2>2, <2>6, <2>7 DEF CallEnds, Ready, Fail
  <1>9. CASE SetGlobalSettings(t)
    <2>1. PICK s \in SetIds, g \in NewGlobals :
            Ready(t, "globals") /\ CallOnSet(t, s, [op |-> "globals", set |-> s, globals |-> g])
      BY <1>9 DEF SetGlobalSettings
    <2>2. [op |-> "globals", set |-> s, globals |-> g] \in StepShape
      BY StorageConstants DEF StepShape
    <2> QED BY <2>1, <2>2, CallEffect
  <1>10. CASE DeleteGlobalSettings(t)
    <2>1. PICK s \in SetIds :
            Ready(t, "globals") /\ CallOnSet(t, s, [op |-> "drop", set |-> s])
      BY <1>10 DEF DeleteGlobalSettings
    <2>2. [op |-> "drop", set |-> s] \in StepShape
      BY DEF StepShape
    <2> QED BY <2>1, <2>2, CallEffect
  <1>11. CASE SetGlobalVariable(t)
    <2>1. PICK s \in SetIds, v \in Vars, e \in Entities \cup {Absent} :
            /\ Ready(t, "variable")
            /\ CallOnSet(t, s, [op |-> "globals", set |-> s, globals |-> WithVariable(s, v, e)])
      BY <1>11 DEF SetGlobalVariable
    <2>2. [op |-> "globals", set |-> s, globals |-> WithVariable(s, v, e)] \in StepShape
      BY WithVariableType DEF StepShape
    <2> QED BY <2>1, <2>2, CallEffect
  <1>12. CASE SetGlobalVariableRejected(t)
    <2>1. PICK s \in SetIds, v \in Vars, e \in Entities \cup {Absent} :
            /\ Ready(t, "variable")
            /\ SetExists(data, s)
            /\ data' = IF data.sets[s].globals = Absent THEN data
                       ELSE Touch(GlobalsSet(data, s, WithVariable(s, v, e)))
            /\ Fail(s)
      BY <1>12 DEF SetGlobalVariableRejected
    <2>2. Keeps(data, GlobalsSet(data, s, WithVariable(s, v, e)))
      BY <1>0, <2>1, WithVariableType, GlobalsSetKeeps
    <2>3. Grows(data, data') \/ data' = data
      BY <1>0, <2>1, <2>2, TouchGrows
    <2>4. SidesTyped'
      BY <2>1, UseType, CachedType DEF SidesTyped, Ready, Fail, TypeOK
    <2> QED BY <2>1, <2>3, <2>4 DEF CallEnds, Ready, Fail
  <1>13. CASE ModifySensorSet(t)
    <2>1. PICK s \in SetIds, m \in Modifications :
            /\ Ready(t, "modify")
            /\ Begin(t, Direct(ModifyProgram(data, s, m)))
            /\ index' = [index EXCEPT ![s] = FinalIndex(data, s, m)]
            /\ torn' \in {torn \ {s}, torn \cup {s}}
      BY <1>13 DEF ModifySensorSet
    <2>2. m \in ModificationShape
      BY StorageConstants
    <2>3. ModifyProgram(data, s, m) \in Seq(StepShape)
      BY <1>0, <2>2, ModifyProgramType, PlainPrograms
    <2>4. FinalIndex(data, s, m) \in SUBSET Entities
      BY <1>0, <2>2, IndexTypes
    <2>5. SidesTyped'
      BY <2>1, <2>4, UseType DEF SidesTyped, Ready, TypeOK, Begin
    <2> QED BY <2>1, <2>3, <2>5 DEF Called, Ready
  <1>14. CASE ImportYaml(t)
    <2>1. PICK s \in SetIds, i \in Imports :
            /\ Ready(t, "import")
            /\ Begin(t, Running(ImportProgram(data, s, i)))
            /\ UNCHANGED <<index, torn>>
      BY <1>14 DEF ImportYaml
    <2>2. ImportProgram(data, s, i) \in Seq(StepShape)
      BY <1>0, ImportTypes, StorageConstants
    <2>3. SidesTyped'
      BY <2>1, UseType DEF SidesTyped, Ready, TypeOK, Begin
    <2> QED BY <2>1, <2>2, <2>3 DEF Called, Ready
  <1>15. CASE GetSensorSet(t)
    <2>1. PICK s \in SetIds : Ready(t, "get") /\ index' = Cached({s})
      BY <1>15 DEF GetSensorSet
    <2>2. UNCHANGED <<data, disk, holder, waiters, snap, task, turn, registry, acked, torn>>
      BY <1>15 DEF GetSensorSet
    <2>3. SidesTyped'
      BY <2>1, <2>2, UseType, CachedType DEF SidesTyped, Ready, TypeOK
    <2> QED BY <2>1, <2>2, <2>3 DEF CallEnds, Ready
  <1> QED BY <1>1, <1>2, <1>3, <1>4, <1>5, <1>6, <1>7, <1>8, <1>9, <1>10, <1>11, <1>12,
             <1>13, <1>14, <1>15 DEF Operation

-----------------------------------------------------------------------------
(* Steps that move tasks along and leave the stored contents, the lock and *)
(* the write under way alone.                                              *)

\* t neither writes nor waits to write.
Elsewhere(t) == t # holder /\ \A i \in DOMAIN waiters : waiters[i] # t

Reschedule ==
  /\ UNCHANGED <<data, disk, holder, waiters, snap, acked>>
  /\ SidesTyped' /\ registry' \subseteq Entities
  /\ task' \in [Tasks -> TaskState] /\ turn' \in Tasks \cup {Absent}
  /\ \A t \in Tasks : /\ task'[t] # task[t] \/ t = turn' => Elsewhere(t)
                      /\ t = turn' => task'[t].busy
                      /\ task'[t].needs <= data.version

LEMMA RescheduleKeeps == ASSUME IInv, Reschedule PROVE IInv'
  <1> USE DEF IInv
  <1>1. TypeOK'
    BY DEF Reschedule, TypeOK, SidesTyped, TaskState
  <1>2. NoOrphanSensors'
    BY DEF Reschedule, NoOrphanSensors
  <1>3. InOnePlace'
    <2>1. \A t \in Tasks : t \in {turn', holder'} => task'[t].busy
      BY DEF Reschedule, InOnePlace, Elsewhere
    <2>2. holder' # Absent => holder' # turn'
      BY DEF Reschedule, TypeOK, Elsewhere
    <2>3. \A i \in DOMAIN waiters : waiters[i] \in Tasks
      BY DEF TypeOK
    <2>4. ASSUME NEW i \in DOMAIN waiters
          PROVE  /\ task'[waiters[i]].busy /\ waiters[i] \notin {turn', holder'}
                 /\ \A j \in DOMAIN waiters : waiters[i] = waiters[j] => i = j
      BY <2>3 DEF Reschedule, InOnePlace, Elsewhere
    <2> QED BY <2>1, <2>2, <2>4 DEF InOnePlace, Reschedule
  <1>4. VersionsOrdered'
    BY DEF Reschedule, VersionsOrdered, TypeOK, Elsewhere
  <1>5. Durable'
    BY DEF Reschedule, Durable
  <1> QED BY <1>1, <1>2, <1>3, <1>4, <1>5

LEMMA AwaitedType ==
  ASSUME NEW t, task[t] \in TaskState
  PROVE  Awaited(t) \subseteq SetIds
  <1> DEFINE left == task[t].left
  <1>1. \A i \in DOMAIN left : left[i] \in StepShape
    BY DEF TaskState
  <1>2. \A i \in DOMAIN left : (IF left[i].op = "index" THEN left[i].sets
                               ELSE IF left[i].op = "config" THEN {left[i].set} ELSE {}) \subseteq SetIds
    BY <1>1, StepParts
  <1> HIDE DEF left
  <1> QED BY <1>2 DEF Awaited, left

\* The task that has the loop to itself is nowhere near the lock.
LEMMA TurnElsewhere ==
  ASSUME IInv, NEW t \in Tasks, turn = t \/ ~task[t].busy
  PROVE  Elsewhere(t)
  BY StorageConstants DEF IInv, InOnePlace, Elsewhere, TypeOK

LEMMA VersionTypes ==
  ASSUME IInv
  PROVE  /\ data.version \in Nat /\ disk.version \in Nat
         /\ snap # Absent => snap \in StorageContents /\ snap.version \in Nat
         /\ task \in [Tasks -> TaskState]
         /\ \A t \in Tasks : task[t] \in TaskState
  BY Parts DEF IInv, TypeOK, TaskState

\* One task changes state; then it, or the loop, goes on.
LEMMA OneTaskMoves ==
  ASSUME IInv, NEW t \in Tasks, turn = t \/ ~task[t].busy, NEW x \in TaskState,
         task' = [task EXCEPT ![t] = x], x.needs <= data.version,
         \/ turn' = t /\ x.busy
         \/ turn' = Absent,
         SidesTyped', registry' \subseteq Entities,
         UNCHANGED <<data, disk, holder, waiters, snap, acked>>
  PROVE  Reschedule
  <1>1. task' \in [Tasks -> TaskState]
    BY VersionTypes
  <1>2. Elsewhere(t)
    BY TurnElsewhere
  <1>3. \A k \in Tasks : task'[k] = IF k = t THEN x ELSE task[k]
    BY VersionTypes
  <1>4. \A k \in Tasks : task[k].needs <= data.version
    BY DEF IInv, VersionsOrdered
  <1>5. turn' \in Tasks \cup {Absent} /\ \A k \in Tasks : k = turn' => k = t /\ x.busy
    BY StorageConstants
  <1> QED BY <1>1, <1>2, <1>3, <1>4, <1>5 DEF Reschedule

LEMMA CalledReschedules ==
  ASSUME IInv, NEW t \in Clients, Called(t), SidesTyped'
  PROVE  Reschedule
  <1>1. PICK program \in Seq(StepShape) : Begin(t, Running(program)) \/ Begin(t, Direct(program))
    BY DEF Called
  <1>2. t \in Tasks /\ ~task[t].busy /\ registry \subseteq Entities
    BY DEF Called, Tasks, IInv, TypeOK
  <1>3. 0 <= data.version
    BY VersionTypes
  <1> QED BY <1>1, <1>2, <1>3, TaskStates, OneTaskMoves DEF Begin

\* An event starts the listener's task l, if it concerns a set; rest is what
\* the task that caused the event, if any, leaves behind.
LEMMA EventReschedules ==
  ASSUME IInv, NEW l \in Listeners, NEW old \in Entities, NEW new \in Entities, NEW rest,
         Event(l, old, new, rest), InRegistry(old, new),
         \/ turn = Absent /\ rest = task
         \/ \E t \in Tasks : turn = t /\ rest = [task EXCEPT ![t] = Idle],
         used' \in [DOMAIN Bound -> Nat],
         UNCHANGED <<data, disk, holder, waiters, snap, acked, torn>>
  PROVE  Reschedule
  <1> DEFINE stored   == {s \in SetIds : SetExists(data, s)}
             tracking == {s \in stored : old \in Cached(stored)[s]}
             program  == <<[op |-> "rename", old |-> old, new |-> new], IndexStep(tracking)>>
  <1>1. program \in Seq(StepShape)
    BY DEF StepShape, IndexStep
  <1>2. /\ index' = Cached(stored)
        /\ \/ task' = rest /\ turn' = Absent
           \/ ~task[l].busy /\ turn' = l /\ task' = [rest EXCEPT ![l] = Running(program)]
    BY DEF Event
  <1> HIDE DEF stored, tracking, program
  <1>3. SidesTyped'
    BY <1>2, CachedType DEF SidesTyped, IInv, TypeOK
  <1>4. registry' \subseteq Entities
    BY DEF InRegistry, IInv, TypeOK
  <1>5. l \in Tasks /\ l # Absent
    BY StorageConstants DEF Tasks
  <1>6. Running(program) \in TaskState /\ Running(program).busy /\ Running(program).needs = 0
    BY <1>1, TaskStates
  <1>7. \A t \in Tasks : task[t].needs <= data.version /\ 0 <= data.version
    BY VersionTypes DEF IInv, VersionsOrdered
  <1>8. /\ rest \in [Tasks -> TaskState]
        /\ \A t \in Tasks : /\ rest[t] # task[t] => Elsewhere(t)
                            /\ rest[t].needs <= data.version
    <2>1. CASE turn = Absent /\ rest = task
      BY <1>7, <2>1, VersionTypes
    <2>2. CASE \E t \in Tasks : turn = t /\ rest = [task EXCEPT ![t] = Idle]
      <3>1. PICK t \in Tasks : turn = t /\ rest = [task EXCEPT ![t] = Idle]
        BY <2>2
      <3>2. \A k \in Tasks : rest[k] = IF k = t THEN Idle ELSE task[k]
        BY <3>1, VersionTypes
      <3>3. rest \in [Tasks -> TaskState]
        BY <3>1, VersionTypes, TaskStates
      <3> QED BY <1>7, <3>1, <3>2, <3>3, TaskStates, TurnElsewhere
    <2> QED BY <2>1, <2>2
  <1>9. CASE task' = rest /\ turn' = Absent
    BY <1>3, <1>4, <1>8, <1>9, StorageConstants DEF Reschedule
  <1>10. CASE ~task[l].busy /\ turn' = l /\ task' = [rest EXCEPT ![l] = Running(program)]
    <2>1. \A k \in Tasks : task'[k] = IF k = l THEN Running(program) ELSE rest[k]
      BY <1>8, <1>10
    <2>2. task' \in [Tasks -> TaskState]
      BY <1>6, <1>8, <1>10
    <2>3. Elsewhere(l)
      BY <1>5, <1>10, TurnElsewhere
    <2>4. \A t \in Tasks : /\ task'[t] # task[t] \/ t = turn' => Elsewhere(t)
                           /\ t = turn' => task'[t].busy
                           /\ task'[t].needs <= data.version
      BY <1>6, <1>7, <1>8, <1>10, <2>1, <2>3
    <2>5. turn' \in Tasks \cup {Absent}
      BY <1>5, <1>10
    <2>6. UNCHANGED <<data, disk, holder, waiters, snap, acked>>
      OBVIOUS
    <2> QED BY <1>3, <1>4, <2>2, <2>4, <2>5, <2>6 DEF Reschedule
  <1> QED BY <1>2, <1>9, <1>10

\* Every step a program takes in its turn except a change.
LEMMA ProceedReschedules ==
  ASSUME IInv, NEW t \in Tasks, Proceed(t), ~Change(t)
  PROVE  Reschedule
  <1>1. /\ task[t] \in TaskState /\ task[t].needs <= data.version /\ 0 <= data.version
        /\ data \in StorageContents /\ registry \subseteq Entities
        /\ index \in [SetIds -> (SUBSET Entities) \cup {Absent}]
        /\ used \in [DOMAIN Bound -> Nat]
        /\ torn \subseteq SetIds /\ Awaited(t) \subseteq SetIds
    BY VersionTypes, AwaitedType DEF IInv, VersionsOrdered, TypeOK
  <1>2. turn = t => task[t].busy
    BY DEF IInv, InOnePlace
  <1>3. MyTurn(t) => Step(t) \in StepShape /\ Tail(task[t].left) \in Seq(StepShape)
    BY <1>1, TaskStates DEF MyTurn, Step
  <1> DEFINE Left(p) == [task[t] EXCEPT !.left = p]
  <1>4. \A p \in Seq(StepShape) :
           turn = t => Left(p) \in TaskState /\ Left(p).busy /\ Left(p).needs <= data.version
    BY <1>1, <1>2, TaskStates
  <1>5. Advance(t) = [task EXCEPT ![t] = Left(Tail(task[t].left))]
    BY <1>1, VersionTypes DEF Advance
  <1> HIDE DEF Left
  <1>6. MyTurn(t) /\ task' = Advance(t) /\ turn' = turn /\ SidesTyped'
          /\ UNCHANGED <<data, disk, holder, waiters, snap, acked, registry>> => Reschedule
    BY <1>1, <1>3, <1>4, <1>5, OneTaskMoves DEF MyTurn
  <1>7. turn = t /\ task' = Return(t) /\ turn' = Absent /\ SidesTyped'
          /\ UNCHANGED <<data, disk, holder, waiters, snap, acked, registry>> => Reschedule
    <2>1. Idle \in TaskState /\ Idle.needs = 0
      BY TaskStates
    <2> QED BY <1>1, <2>1, OneTaskMoves DEF Return
  <1>8. CASE Skip(t)
    BY <1>1, <1>6, <1>8 DEF Skip, SidesTyped
  <1>9. CASE Reject(t)
    BY <1>1, <1>7, <1>9 DEF Reject, MyTurn, SidesTyped
  <1>10. CASE Finish(t)
    BY <1>1, <1>7, <1>10 DEF Finish, SidesTyped
  <1>11. CASE NotInRegistry(t)
    BY <1>1, <1>7, <1>11 DEF NotInRegistry, MyTurn, SidesTyped
  <1>12. CASE RebuildIndex(t)
    <2>1. \A s \in SetIds : IndexOf(data, s) \in SUBSET Entities
      BY <1>1, IndexTypes
    <2>2. SidesTyped'
      BY <1>1, <1>12, <2>1 DEF RebuildIndex, SidesTyped
    <2>3. \/ task' = Advance(t) /\ turn' = turn
          \/ task' = Return(t) /\ turn' = Absent
      BY <1>12 DEF RebuildIndex
    <2> QED BY <1>6, <1>7, <1>12, <2>2, <2>3 DEF RebuildIndex, MyTurn
  <1>13. CASE StartConfig(t)
    <2> DEFINE s == Step(t).set
               p == FromConfig(data, s, Step(t).import)
    <2>1. s \in SetIds /\ p \in Seq(StepShape)
      BY <1>1, <1>3, <1>13, StepParts, ImportTypes DEF StartConfig
    <2>2. Cached({s}) \in [SetIds -> (SUBSET Entities) \cup {Absent}]
      BY CachedType DEF IInv
    <2>3. SidesTyped'
      BY <1>1, <1>13, <2>2 DEF StartConfig, SidesTyped
    <2>4. task' = [task EXCEPT ![t].left = p]
      BY <1>13 DEF StartConfig
    <2> HIDE DEF p
    <2>5. task' = [task EXCEPT ![t] = Left(p)]
      BY <1>1, <2>4, VersionTypes DEF Left
    <2> QED BY <1>1, <1>4, <1>13, <2>1, <2>3, <2>5, OneTaskMoves DEF StartConfig, MyTurn
  <1>14. CASE \E l \in Listeners : RenameInRegistry(t, l)
    <2>1. PICK l \in Listeners : RenameInRegistry(t, l)
      BY <1>14
    <2>2. Step(t).old \in Entities /\ Step(t).new \in Entities /\ turn = t
      BY <1>3, <2>1, StepParts DEF RenameInRegistry, MyTurn
    <2>3. Return(t) = [task EXCEPT ![t] = Idle]
      BY DEF Return
    <2> QED BY <1>1, <2>1, <2>2, <2>3, EventReschedules DEF RenameInRegistry, SidesTyped
  <1> QED BY <1>8, <1>9, <1>10, <1>11, <1>12, <1>13, <1>14 DEF Proceed

-----------------------------------------------------------------------------
(* Steps that change what is stored, the lock or the write under way. *)

LEMMA CallEndsKeeps == ASSUME IInv, CallEnds, SidesTyped' PROVE IInv'
  <1> USE DEF IInv
  <1>1. /\ data' \in StorageContents
        /\ data.version <= data'.version
        /\ SensorsInSets(data) => SensorsInSets(data')
        /\ data'.version \in Nat
    BY VersionTypes, Parts DEF CallEnds, Grows, TypeOK
  <1>2. TypeOK'
    BY <1>1 DEF CallEnds, TypeOK, SidesTyped
  <1>3. NoOrphanSensors'
    BY <1>1, SameOrphans DEF CallEnds, NoOrphanSensors
  <1>4. InOnePlace'
    BY DEF CallEnds, InOnePlace
  <1>5. VersionsOrdered'
    BY <1>1, VersionTypes, TaskStates DEF CallEnds, VersionsOrdered
  <1>6. Durable'
    BY DEF CallEnds, Durable
  <1> QED BY <1>2, <1>3, <1>4, <1>5, <1>6

LEMMA ChangeGrows ==
  ASSUME IInv, NEW t \in Tasks, Change(t)
  PROVE  Grows(data, data')
  <1>1. task[t] \in TaskState /\ data \in StorageContents
    BY VersionTypes DEF IInv, TypeOK
  <1>2. Step(t) \in StepShape
    BY <1>1, TaskStates DEF Change, MyTurn, Step
  <1>3. Keeps(data, Changed(data, Step(t)))
    BY <1>1, <1>2, ChangedKeeps DEF Change
  <1> QED BY <1>1, <1>3, TouchGrows DEF Change

\* A change goes straight to a write when the lock is free, else into the queue.
ChangeWrites(t) ==
  /\ holder = Absent /\ waiters = <<>>
  /\ holder' = t /\ snap' = data' /\ waiters' = waiters

ChangeQueues(t) ==
  /\ ~(holder = Absent /\ waiters = <<>>)
  /\ waiters' = Append(waiters, t) /\ UNCHANGED <<holder, snap>>

LEMMA ChangeKeeps == ASSUME IInv, NEW t \in Tasks, Change(t) PROVE IInv'
  <1> USE DEF IInv
  <1>1. /\ data' \in StorageContents
        /\ data'.version = data.version + 1
        /\ data.version \in Nat /\ disk.version \in Nat
        /\ SensorsInSets(data) => SensorsInSets(data')
    BY ChangeGrows, VersionTypes DEF Grows
  <1>2. /\ turn = t /\ t # Absent /\ turn' = Absent
        /\ UNCHANGED <<disk, index, registry, acked, used>> /\ torn' = Torn(t, data')
        /\ task' = [task EXCEPT ![t] = Saving(task[t], data'.version)]
        /\ ChangeWrites(t) \/ ChangeQueues(t)
        /\ task[t].left # <<>>
    BY StorageConstants DEF Change, MyTurn, ChangeWrites, ChangeQueues
  <1> DEFINE x == Saving(task[t], data'.version)
  <1>3. task[t] \in TaskState /\ data'.version \in Nat /\ task[t].busy
    BY <1>1, <1>2, VersionTypes DEF InOnePlace
  <1>4. /\ task' = [task EXCEPT ![t] = x] /\ x \in TaskState
        /\ x.busy /\ x.needs = data'.version
    BY <1>2, <1>3, SavingState
  <1>5. \A k \in Tasks : /\ task[k].busy => task'[k].busy
                         /\ task'[k].needs = IF k = t THEN data'.version ELSE task[k].needs
    BY <1>4, VersionTypes
  <1>6. task' \in [Tasks -> TaskState]
    BY <1>4, VersionTypes
  <1>7. task[t].busy /\ Elsewhere(t)
    BY <1>2, TurnElsewhere DEF InOnePlace
  <1> HIDE DEF x
  <1>8. TypeOK'
    <2>1. waiters' \in Seq(Tasks) /\ holder' \in Tasks \cup {Absent}
          /\ snap' \in StorageContents \cup {Absent}
      <3>1. waiters \in Seq(Tasks) /\ holder \in Tasks \cup {Absent}
            /\ snap \in StorageContents \cup {Absent}
        BY DEF TypeOK
      <3>2. CASE ChangeWrites(t)
        BY <1>1, <3>1, <3>2 DEF ChangeWrites
      <3>3. CASE ChangeQueues(t)
        BY <3>1, <3>3 DEF ChangeQueues
      <3> QED BY <1>2, <3>2, <3>3
    <2>2. torn' \subseteq SetIds
      BY <1>2 DEF Torn, TypeOK
    <2> QED BY <1>1, <1>2, <1>6, <2>1, <2>2 DEF TypeOK, TaskState
  <1>9. NoOrphanSensors'
    BY <1>1, <1>2, SameOrphans DEF NoOrphanSensors, ChangeWrites, ChangeQueues
  <1>10. InOnePlace'
    <2>1. CASE ChangeWrites(t)
      BY <1>2, <1>5, <1>7, <2>1 DEF ChangeWrites, InOnePlace
    <2>2. CASE ChangeQueues(t)
      <3>1. \A i \in DOMAIN waiters : waiters[i] \in Tasks /\ waiters[i] # t
        BY <1>7 DEF TypeOK, Elsewhere
      <3>2. /\ DOMAIN waiters' = 1 .. Len(waiters) + 1 /\ Len(waiters) \in Nat
            /\ DOMAIN waiters = 1 .. Len(waiters)
            /\ waiters'[Len(waiters) + 1] = t
            /\ \A i \in DOMAIN waiters : waiters'[i] = waiters[i]
        BY <2>2 DEF ChangeQueues, TypeOK
      <3>3. \A i \in DOMAIN waiters' : i \in DOMAIN waiters \/ i = Len(waiters) + 1
        BY <3>2
      <3>4. \A i \in DOMAIN waiters : task[waiters[i]].busy /\ waiters[i] # holder
        BY DEF InOnePlace
      <3>5. t # holder /\ holder' = holder
        BY <1>7, <2>2 DEF Elsewhere, ChangeQueues
      <3>6. ASSUME NEW i \in DOMAIN waiters'
            PROVE  task'[waiters'[i]].busy /\ waiters'[i] \notin {turn', holder'}
        <4>1. waiters'[i] \in Tasks /\ task[waiters'[i]].busy /\ waiters'[i] # holder
          BY <1>7, <3>1, <3>2, <3>3, <3>4, <3>5
        <4> QED BY <1>2, <1>5, <3>5, <4>1, StorageConstants
      <3>7. \A i, j \in DOMAIN waiters : waiters[i] = waiters[j] => i = j
        BY DEF InOnePlace
      <3>8. \A i, j \in DOMAIN waiters' : waiters'[i] = waiters'[j] => i = j
        BY <3>1, <3>2, <3>3, <3>7
      <3>9. \A k \in Tasks : k \in {turn', holder'} => task'[k].busy
        BY <1>2, <1>5, <3>5, StorageConstants DEF InOnePlace
      <3>10. holder' # Absent => holder' # turn'
        BY <1>2
      <3> QED BY <3>6, <3>8, <3>9, <3>10 DEF InOnePlace
    <2> QED BY <1>2, <2>1, <2>2
  <1>11. VersionsOrdered'
    <2>1. \A k \in Tasks : task[k].needs \in Nat /\ task[k].needs <= data.version
      BY VersionTypes, TaskStates DEF VersionsOrdered
    <2>2. disk'.version <= data'.version /\ \A k \in Tasks : task'[k].needs <= data'.version
      BY <1>1, <1>2, <1>5, <2>1 DEF VersionsOrdered
    <2>3. CASE ChangeWrites(t)
      BY <1>1, <1>2, <1>5, <2>2, <2>3, AbsentIsNothing DEF ChangeWrites, VersionsOrdered
    <2>4. CASE ChangeQueues(t)
      <3>1. holder # Absent => holder \in Tasks /\ holder # t
        BY <1>7 DEF Elsewhere, TypeOK
      <3>2. snap # Absent => snap.version \in Nat
        BY VersionTypes
      <3> QED BY <1>1, <1>2, <1>5, <2>2, <2>4, <3>1, <3>2 DEF ChangeQueues, VersionsOrdered
    <2> QED BY <1>2, <2>3, <2>4
  <1>12. Durable'
    BY <1>2 DEF Durable
  <1> QED BY <1>8, <1>9, <1>10, <1>11, <1>12

LEMMA AcquireKeeps == ASSUME IInv, NEW t \in Tasks, Acquire(t) PROVE IInv'
  <1> USE DEF IInv
  <1>1. /\ turn = Absent /\ holder = Absent /\ waiters # <<>> /\ t = Head(waiters)
        /\ holder' = t /\ waiters' = Tail(waiters) /\ snap' = data
        /\ UNCHANGED <<data, disk, index, task, turn, registry, acked, torn, used>>
    BY DEF Acquire
  <1>2. t # Absent /\ waiters \in Seq(Tasks) /\ data \in StorageContents /\ data # Absent
    BY StorageConstants, AbsentIsNothing DEF TypeOK
  <1>3. /\ Len(waiters) \in Nat /\ DOMAIN waiters = 1 .. Len(waiters) /\ 1 \in DOMAIN waiters
        /\ waiters[1] = t
        /\ DOMAIN waiters' = 1 .. Len(waiters) - 1
        /\ \A i \in DOMAIN waiters' : i + 1 \in DOMAIN waiters /\ waiters'[i] = waiters[i + 1]
    BY <1>1, <1>2
  <1>4. TypeOK'
    BY <1>1, <1>2 DEF TypeOK
  <1>5. NoOrphanSensors'
    BY <1>1 DEF NoOrphanSensors
  <1>6. InOnePlace'
    <2>1. \A i \in DOMAIN waiters : /\ task[waiters[i]].busy /\ waiters[i] \in Tasks
                                    /\ waiters[i] = t => i = 1
      BY <1>2, <1>3 DEF InOnePlace
    <2>2. \A i, j \in DOMAIN waiters : waiters[i] = waiters[j] => i = j
      BY DEF InOnePlace
    <2>3. ASSUME NEW i \in DOMAIN waiters'
          PROVE  task'[waiters'[i]].busy /\ waiters'[i] \notin {turn', holder'}
      <3>1. i + 1 # 1 /\ i + 1 \in DOMAIN waiters /\ waiters'[i] = waiters[i + 1]
        BY <1>3
      <3> QED BY <1>1, <2>1, <3>1, StorageConstants
    <2>4. \A i, j \in DOMAIN waiters' : waiters'[i] = waiters'[j] => i = j
      BY <1>3, <2>2
    <2>5. \A k \in Tasks : k \in {turn', holder'} => task'[k].busy
      BY <1>1, <1>3, <2>1, StorageConstants
    <2> QED BY <1>1, <1>2, <2>3, <2>4, <2>5 DEF InOnePlace
  <1>7. VersionsOrdered'
    BY <1>1, <1>2, VersionTypes DEF VersionsOrdered
  <1>8. Durable'
    BY <1>1 DEF Durable
  <1> QED BY <1>4, <1>5, <1>6, <1>7, <1>8

\* The task whose write has ended was nowhere else.
LEMMA HolderAlone ==
  ASSUME IInv, NEW t \in Tasks, holder = t
  PROVE  /\ t # Absent /\ t # turn /\ snap # Absent /\ snap \in StorageContents
         /\ task[t].busy /\ \A i \in DOMAIN waiters : waiters[i] \in Tasks /\ waiters[i] # t
         /\ disk.version <= snap.version /\ task[t].needs <= snap.version
         /\ task[t].needs \in Nat
  BY StorageConstants, VersionTypes, TaskStates DEF IInv, InOnePlace, VersionsOrdered, TypeOK

LEMMA SavedKeeps == ASSUME IInv, NEW t \in Tasks, Saved(t) PROVE IInv'
  <1> USE DEF IInv
  <1>1. /\ turn = Absent /\ holder = t
        /\ disk' = snap /\ holder' = Absent /\ snap' = Absent /\ turn' = t
        /\ acked' = IF acked < task[t].needs THEN task[t].needs ELSE acked
        /\ UNCHANGED <<data, index, waiters, task, registry, torn, used>>
    BY DEF Saved
  <1>2. acked \in Nat /\ acked <= disk.version
    BY DEF TypeOK, Durable
  <1>3. /\ data.version \in Nat /\ disk.version \in Nat /\ snap.version \in Nat
        /\ \A k \in Tasks : task[k].needs <= data.version
    BY <1>1, HolderAlone, VersionTypes DEF VersionsOrdered
  <1>4. TypeOK'
    BY <1>1, <1>2, HolderAlone DEF TypeOK
  <1>5. NoOrphanSensors'
    BY <1>1, HolderAlone DEF NoOrphanSensors
  <1>6. InOnePlace'
    BY <1>1, HolderAlone, StorageConstants DEF InOnePlace
  <1>7. VersionsOrdered'
    BY <1>1, <1>3, HolderAlone DEF VersionsOrdered
  <1>8. Durable'
    BY <1>1, <1>2, <1>3, HolderAlone DEF Durable
  <1> QED BY <1>4, <1>5, <1>6, <1>7, <1>8

LEMMA SaveFailedKeeps == ASSUME IInv, NEW t \in Tasks, SaveFailed(t) PROVE IInv'
  <1> USE DEF IInv
  <1>1. /\ turn = Absent /\ holder = t /\ holder' = Absent /\ snap' = Absent
        /\ task' = [task EXCEPT ![t] = Idle]
        /\ UNCHANGED <<data, disk, index, waiters, turn, registry, acked>>
    BY DEF SaveFailed, Return
  <1>2. used' \in [DOMAIN Bound -> Nat]
    BY UseType DEF SaveFailed
  <1>3. \A k \in Tasks : task'[k] = IF k = t THEN Idle ELSE task[k]
    BY <1>1, VersionTypes
  <1>4. task' \in [Tasks -> TaskState]
    BY <1>1, VersionTypes, TaskStates
  <1>10. torn' = torn \cup Awaited(t) /\ Awaited(t) \subseteq SetIds
    BY VersionTypes, AwaitedType DEF SaveFailed
  <1>5. TypeOK'
    BY <1>1, <1>2, <1>4, <1>10 DEF TypeOK, TaskState
  <1>6. NoOrphanSensors'
    BY <1>1 DEF NoOrphanSensors
  <1>7. InOnePlace'
    BY <1>1, <1>3, HolderAlone, StorageConstants DEF InOnePlace
  <1>8. VersionsOrdered'
    BY <1>1, <1>3, VersionTypes, TaskStates DEF VersionsOrdered
  <1>9. Durable'
    BY <1>1 DEF Durable
  <1> QED BY <1>5, <1>6, <1>7, <1>8, <1>9

LEMMA RestartKeeps == ASSUME IInv, Restart PROVE IInv'
  <1> USE DEF IInv
  <1>1. /\ data' = disk /\ turn = Absent
        /\ index' = [s \in SetIds |-> Absent]
        /\ holder' = Absent /\ waiters' = <<>> /\ snap' = Absent
        /\ task' = [k \in Tasks |-> Idle] /\ torn' = {}
        /\ UNCHANGED <<disk, turn, registry, acked>>
    BY DEF Restart
  <1>2. used' \in [DOMAIN Bound -> Nat]
    BY UseType DEF Restart
  <1>3. task' \in [Tasks -> TaskState] /\ \A k \in Tasks : ~task'[k].busy /\ task'[k].needs = 0
    BY <1>1, TaskStates
  <1>4. TypeOK'
    BY <1>1, <1>2, <1>3 DEF TypeOK, TaskState
  <1>5. NoOrphanSensors'
    BY <1>1 DEF NoOrphanSensors
  <1>6. InOnePlace'
    BY <1>1, StorageConstants DEF InOnePlace
  <1>7. VersionsOrdered'
    BY <1>1, <1>3, VersionTypes DEF VersionsOrdered
  <1>8. Durable'
    BY <1>1 DEF Durable
  <1> QED BY <1>4, <1>5, <1>6, <1>7, <1>8

-----------------------------------------------------------------------------
(* The invariant. *)

LEMMA InitHolds == Init => IInv
  <1> SUFFICES ASSUME Init PROVE IInv
    OBVIOUS
  <1>1. EmptyContents \in StorageContents /\ EmptyContents.version = 0 /\ SensorsHaveSets(EmptyContents)
    BY DEF EmptyContents, StorageContents, SensorsHaveSets, HasSensor
  <1>2. task \in [Tasks -> TaskState] /\ \A t \in Tasks : ~task[t].busy /\ task[t].needs = 0
    BY TaskStates DEF Init
  <1>3. used \in [DOMAIN Bound -> Nat]
    BY DEF Init
  <1>4. TypeOK
    BY <1>1, <1>2, <1>3 DEF Init, TypeOK, TaskState
  <1>5. NoOrphanSensors
    BY <1>1 DEF Init, NoOrphanSensors
  <1>6. InOnePlace
    BY StorageConstants DEF Init, InOnePlace
  <1>7. VersionsOrdered
    BY <1>1, <1>2 DEF Init, VersionsOrdered
  <1>8. Durable
    BY <1>1 DEF Init, Durable
  <1> QED BY <1>4, <1>5, <1>6, <1>7, <1>8 DEF IInv

\* What a step is, for the lock and the stored contents.
LEMMA StepKinds ==
  ASSUME IInv, Next
  PROVE  \/ Reschedule
         \/ CallEnds /\ SidesTyped'
         \/ \E t \in Tasks : Change(t) \/ Acquire(t) \/ Saved(t) \/ SaveFailed(t)
         \/ Restart
  <1>1. ASSUME NEW t \in Clients, Operation(t) PROVE Reschedule \/ (CallEnds /\ SidesTyped')
    BY <1>1, OperationEffect, CalledReschedules DEF IInv
  <1>2. ASSUME NEW t \in Tasks, Proceed(t) PROVE Reschedule \/ Change(t)
    BY <1>2, ProceedReschedules
  <1>3. ASSUME NEW l \in Listeners, RenameEntity(l) PROVE Reschedule
    <2>1. PICK old \in Entities, new \in Entities :
            /\ turn = Absent /\ Use("renames")
            /\ InRegistry(old, new) /\ Event(l, old, new, task)
            /\ UNCHANGED <<data, disk, holder, waiters, snap, acked, torn>>
      BY <1>3 DEF RenameEntity
    <2>2. used' \in [DOMAIN Bound -> Nat]
      BY <2>1, UseType DEF IInv
    <2> QED BY <2>1, <2>2, EventReschedules
  <1> QED BY <1>1, <1>2, <1>3 DEF Next

LEMMA StepKeeps == IInv /\ [Next]_vars => IInv'
  <1>1. ASSUME IInv, Next PROVE IInv'
    BY <1>1, StepKinds, RescheduleKeeps, CallEndsKeeps, ChangeKeeps, AcquireKeeps,
       SavedKeeps, SaveFailedKeeps, RestartKeeps
  <1>2. ASSUME IInv, UNCHANGED vars PROVE IInv'
    <2>1. Reschedule
      BY <1>2, VersionTypes, StorageConstants
      DEF vars, Reschedule, IInv, TypeOK, SidesTyped, VersionsOrdered, InOnePlace, Elsewhere, TaskState
    <2> QED BY <1>2, <2>1, RescheduleKeeps
  <1> QED BY <1>1, <1>2

\* The inductive invariant holds in every reachable state.
THEOREM Invariance == Spec => []IInv
  BY InitHolds, StepKeeps, PTL DEF Spec

\* Every variable keeps its type.
THEOREM TypesHold == Spec => []TypeOK
  <1>1. IInv => TypeOK
    BY DEF IInv
  <1> QED BY <1>1, Invariance, PTL

\* No sensor outlives its set: in memory, in a write under way, or on disk.
THEOREM NoSensorOrphaned == Spec => []NoOrphanSensors
  <1>1. IInv => NoOrphanSensors
    BY DEF IInv
  <1> QED BY <1>1, Invariance, PTL

\* What a completed async_save has promised is on disk, and stays there.
THEOREM SavedChangesLast == Spec => []Durable
  <1>1. IInv => Durable
    BY DEF IInv
  <1> QED BY <1>1, Invariance, PTL

\* The lock admits one task, and queues each task once.
THEOREM LockExcludes == Spec => []InOnePlace
  <1>1. IInv => InOnePlace
    BY DEF IInv
  <1> QED BY <1>1, Invariance, PTL

\* The disk is behind the write, the write behind the memory.
THEOREM WritesAreRecent == Spec => []VersionsOrdered
  <1>1. IInv => VersionsOrdered
    BY DEF IInv
  <1> QED BY <1>1, Invariance, PTL

-----------------------------------------------------------------------------
(* The storage layer is a write-behind store. *)

LEMMA StepWrites == IInv /\ [Next]_vars => [Store!WNext]_(Store!wvars)
  <1> SUFFICES ASSUME IInv, [Next]_vars PROVE [Store!WNext]_(Store!wvars)
    OBVIOUS
  <1> USE DEF Store!wvars
  <1>1. CASE Reschedule \/ UNCHANGED vars
    BY <1>1 DEF Reschedule, vars
  <1>2. CASE CallEnds
    <2>1. data' = data \/ Store!Mutated
      BY <1>2, VersionTypes DEF CallEnds, Grows, Store!Mutated
    <2> QED BY <1>2, <2>1 DEF CallEnds, Store!WNext, Store!Mutate
  <1>3. ASSUME NEW t \in Tasks, Change(t) PROVE Store!WNext
    <2>1. Store!Mutated
      BY <1>3, ChangeGrows, VersionTypes DEF Grows, Store!Mutated
    <2>2. CASE holder = Absent /\ waiters = <<>>
      <3>1. snap = Absent
        BY <2>2 DEF IInv, VersionsOrdered
      <3>2. Store!BeginWrite
        BY <1>3, <2>1, <2>2, <3>1 DEF Change, Store!BeginWrite
      <3> QED BY <3>2 DEF Store!WNext
    <2>3. CASE ~(holder = Absent /\ waiters = <<>>)
      BY <1>3, <2>1, <2>3 DEF Change, Store!WNext, Store!Mutate
    <2> QED BY <2>2, <2>3
  <1>4. ASSUME NEW t \in Tasks, Acquire(t) PROVE Store!WNext
    <2>1. snap = Absent
      BY <1>4 DEF Acquire, IInv, VersionsOrdered
    <2> QED BY <1>4, <2>1 DEF Acquire, Store!WNext, Store!BeginWrite
  <1>5. ASSUME NEW t \in Tasks, Saved(t) PROVE Store!WNext
    <2>1. /\ holder = t /\ disk' = snap /\ snap' = Absent /\ UNCHANGED data
          /\ acked' = IF acked < task[t].needs THEN task[t].needs ELSE acked
      BY <1>5 DEF Saved
    <2>2. /\ acked \in Nat /\ acked <= disk.version /\ disk.version \in Nat
          /\ snap.version \in Nat
      BY <2>1, HolderAlone, VersionTypes DEF IInv, TypeOK, Durable
    <2>3. acked' \in acked .. (IF acked > snap.version THEN acked ELSE snap.version)
      BY <2>1, <2>2, HolderAlone
    <2>4. Store!CompleteWrite
      BY <2>1, <2>3, HolderAlone DEF Store!CompleteWrite
    <2> QED BY <2>4 DEF Store!WNext
  <1>6. ASSUME NEW t \in Tasks, SaveFailed(t) PROVE Store!WNext
    <2>1. snap # Absent
      BY <1>6, HolderAlone DEF SaveFailed
    <2> QED BY <1>6, <2>1 DEF SaveFailed, Store!WNext, Store!AbortWrite
  <1>7. CASE Restart
    BY <1>7 DEF Restart, Store!WNext, Store!Crash
  <1> QED BY <1>1, <1>2, <1>3, <1>4, <1>5, <1>6, <1>7, StepKinds

\* StorageManager implements WriteBehindStore.
THEOREM StorageWritesBehind == Spec => ImplementsStore
  <1>1. Init => Store!WInit
    BY DEF Init, Store!WInit, EmptyContents
  <1>2. Spec => Store!WSpec
    BY <1>1, StepWrites, Invariance, PTL DEF Spec, Store!WSpec
  <1> QED BY <1>2 DEF ImplementsStore

\* What is on disk is only ever replaced by something newer.
THEOREM DiskNeverOlder == Spec => DiskMovesForward
  <1>1. IInv /\ [Next]_vars => [disk'.version >= disk.version]_vars
    <2> SUFFICES ASSUME IInv, [Next]_vars, disk' # disk PROVE disk'.version >= disk.version
      BY VersionTypes DEF vars
    <2>1. PICK t \in Tasks : Saved(t)
      BY StepKinds DEF vars, Reschedule, CallEnds, Change, Acquire, SaveFailed, Restart
    <2>2. disk' = snap /\ holder = t
      BY <2>1 DEF Saved
    <2> QED BY <2>2, HolderAlone, VersionTypes
  <1> QED BY <1>1, Invariance, PTL DEF Spec, DiskMovesForward

-----------------------------------------------------------------------------
(* Every change is saved.  The rejected bulk store and the rejected global *)
(* variable change the memory and save nothing, so this is about instances *)
(* without these two operations.                                           *)

\* While no save has failed, somebody waits to save what memory has beyond the
\* write under way, or beyond the disk.
MemoryIsSaved ==
  used.failures = 0 =>
    /\ waiters = <<>> /\ holder = Absent => data = disk
    /\ waiters = <<>> /\ holder # Absent => snap = data

LEMMA UseOther ==
  ASSUME TypeOK, NEW k, Use(k), k # "failures"
  PROVE  used'.failures = used.failures
  BY DEF Use, TypeOK, Bound

\* A call changes nothing before its first step, unless it raises at once.
LEMMA OperationWaits ==
  ASSUME TypeOK, NEW t \in Clients, Operation(t),
         ~ReplaceSensorsRejected(t), ~SetGlobalVariableRejected(t)
  PROVE  UNCHANGED <<data, disk, holder, waiters, snap>> /\ used'.failures = used.failures
  <1>1. ASSUME NEW op, Ready(t, op), op # "failures" PROVE used'.failures = used.failures
    BY <1>1, UseOther DEF Ready
  <1>2. ASSUME NEW op, Ready(t, op), NEW ch, Call(t, ch)
        PROVE  UNCHANGED <<data, disk, holder, waiters, snap>> /\ used'.failures = used.failures
    BY <1>2, UseOther DEF Ready, Call, Begin
  <1>3. ASSUME NEW op, Ready(t, op), NEW s \in SetIds, NEW ch, CallOnSet(t, s, ch)
        PROVE  UNCHANGED <<data, disk, holder, waiters, snap>> /\ used'.failures = used.failures
    BY <1>3, UseOther DEF Ready, CallOnSet, Begin
  <1>4. CASE CreateSensorSet(t) \/ DeleteSensorSet(t) \/ PersistSensor(t)
    BY <1>2, <1>4 DEF CreateSensorSet, DeleteSensorSet, PersistSensor
  <1>5. CASE AddSensor(t) \/ UpdateSensor(t) \/ RemoveSensor(t)
    BY <1>3, <1>5 DEF AddSensor, UpdateSensor, RemoveSensor
  <1>6. CASE SetGlobalSettings(t) \/ DeleteGlobalSettings(t) \/ SetGlobalVariable(t)
    BY <1>3, <1>6 DEF SetGlobalSettings, DeleteGlobalSettings, SetGlobalVariable
  <1>7. CASE ModifySensorSet(t) \/ ReplaceSensors(t)
    BY <1>1, <1>7 DEF ModifySensorSet, ReplaceSensors, Begin
  <1>8. CASE ImportYaml(t)
    BY <1>1, <1>8 DEF ImportYaml, Begin
  <1>9. CASE GetSensorSet(t)
    BY <1>1, <1>9 DEF GetSensorSet
  <1> QED BY <1>4, <1>5, <1>6, <1>7, <1>8, <1>9 DEF Operation

LEMMA MemoryStaysSaved ==
  ASSUME IInv, MemoryIsSaved, [Next]_vars, Ops \cap {"replace", "variable"} = {}
  PROVE  MemoryIsSaved'
  <1> USE DEF MemoryIsSaved
  <1>0. TypeOK
    BY DEF IInv
  <1>1. CASE UNCHANGED vars
    BY <1>1 DEF vars
  <1>2. ASSUME NEW t \in Clients, Operation(t) PROVE MemoryIsSaved'
    <2>1. ~ReplaceSensorsRejected(t) /\ ~SetGlobalVariableRejected(t)
      BY DEF ReplaceSensorsRejected, SetGlobalVariableRejected, Ready
    <2> QED BY <1>0, <1>2, <2>1, OperationWaits
  <1>3. ASSUME NEW t \in Tasks, Proceed(t), ~Change(t) PROVE MemoryIsSaved'
    <2>1. UNCHANGED <<data, disk, holder, waiters, snap>>
      BY <1>3, ProceedReschedules DEF Reschedule
    <2>2. UNCHANGED used
      BY <1>3 DEF Proceed, Skip, Reject, RebuildIndex, StartConfig, Finish, NotInRegistry,
                  RenameInRegistry
    <2> QED BY <2>1, <2>2
  <1>4. ASSUME NEW t \in Tasks, Change(t) PROVE MemoryIsSaved'
    <2>1. waiters \in Seq(Tasks) /\ t # Absent
      BY <1>0, StorageConstants DEF TypeOK
    <2>2. Append(waiters, t) # <<>>
      <3>1. Len(Append(waiters, t)) = Len(waiters) + 1 /\ Len(waiters) \in Nat
        BY <2>1
      <3>2. Len(<<>>) = 0
        OBVIOUS
      <3> QED BY <3>1, <3>2
    <2> QED BY <1>4, <2>1, <2>2 DEF Change
  <1>5. ASSUME NEW t \in Tasks, Acquire(t) PROVE MemoryIsSaved'
    BY <1>5, StorageConstants DEF Acquire
  <1>6. ASSUME NEW t \in Tasks, Saved(t) PROVE MemoryIsSaved'
    BY <1>6, StorageConstants DEF Saved
  <1>7. ASSUME NEW t \in Tasks, SaveFailed(t) PROVE MemoryIsSaved'
    <2>1. "failures" \in DOMAIN Bound
      BY DEF Bound
    <2>2. used'.failures = used.failures + 1 /\ used.failures \in Nat
      BY <1>0, <1>7, <2>1 DEF SaveFailed, Use, TypeOK
    <2> QED BY <2>2
  <1>8. ASSUME NEW l \in Listeners, RenameEntity(l) PROVE MemoryIsSaved'
    BY <1>0, <1>8, UseOther DEF RenameEntity
  <1>9. CASE Restart
    BY <1>9 DEF Restart
  <1> QED BY <1>1, <1>2, <1>3, <1>4, <1>5, <1>6, <1>7, <1>8, <1>9 DEF Next

\* When every call has returned and no save has failed, memory and disk hold the
\* same: async_save queues for the lock instead of leaving its change to the
\* write under way.
THEOREM SavedHolds ==
  ASSUME Ops \cap {"replace", "variable"} = {}
  PROVE  Spec => []SavedWhenQuiet
  <1>1. Init => MemoryIsSaved
    BY DEF Init, MemoryIsSaved
  <1>2. IInv /\ MemoryIsSaved /\ [Next]_vars => MemoryIsSaved'
    BY MemoryStaysSaved
  <1>3. IInv /\ MemoryIsSaved => SavedWhenQuiet
    <2> SUFFICES ASSUME IInv, MemoryIsSaved, AllQuiet, used.failures = 0 PROVE data = disk
      BY DEF SavedWhenQuiet
    <2>1. holder = Absent
      BY DEF IInv, InOnePlace, TypeOK, AllQuiet
    <2>2. waiters \in Seq(Tasks) /\ \A i \in DOMAIN waiters : FALSE
      BY DEF IInv, InOnePlace, TypeOK, AllQuiet
    <2>3. waiters = <<>>
      <3>1. Len(waiters) \in Nat /\ DOMAIN waiters = 1 .. Len(waiters)
        BY <2>2
      <3>2. 1 \notin 1 .. Len(waiters)
        BY <2>2, <3>1
      <3>3. Len(waiters) = 0
        BY <3>1, <3>2
      <3> QED BY <2>2, <3>3, EmptySeq
    <2> QED BY <2>1, <2>3 DEF MemoryIsSaved
  <1>4. Spec => []MemoryIsSaved
    BY <1>1, <1>2, Invariance, PTL DEF Spec
  <1> QED BY <1>3, <1>4, Invariance, PTL

-----------------------------------------------------------------------------
(* Validation.  Only a rejected global variable and a write of async_modify*)
(* make variables contradict the globals of their set.                     *)

\* An accepted change other than a write into the set keeps the agreement.
LEMMA ChangedAgrees ==
  ASSUME NEW d \in StorageContents, NEW ch \in StepShape, Accepts(d, ch), IsChange(ch),
         NEW r \in SetIds, AgreesIn(d, r), SensorsInSets(d),
         ch.op = "write" => ch.uid \notin SensorsOf(d, r)
  PROVE  AgreesIn(Changed(d, ch), r)
  <1> DEFINE e == Changed(d, ch)
  <1>p. d.sensors \in [Uids -> StoredSensor \cup {Absent}]
    BY Parts
  <1>a. \A u \in Uids : HasSensor(d, u) =>
          /\ d.sensors[u].sensor_set_id \in SetIds /\ d.sensors[u].config \in Configs
          /\ d.sensors[u].config.variables \in Bindings
    BY <1>p DEF HasSensor, StoredSensor, Configs
  <1>1. CASE ch.op = "create"
    <2>1. e = SetCreated(d, ch.set, ch.globals) /\ ~SetExists(d, ch.set)
      BY <1>1 DEF Changed, Accepts
    <2>2. /\ e.sensors = d.sensors
          /\ r # ch.set => GlobalsOf(e, r) = GlobalsOf(d, r)
      BY <1>1, <2>1, StepParts, CreatedEffect
    <2>3. \A u \in Uids : HasSensor(d, u) => d.sensors[u].sensor_set_id # ch.set
      BY <2>1 DEF SensorsInSets
    <2> HIDE DEF e
    <2> QED BY <2>2, <2>3, AgreementBySensors DEF HasSensor, ValidIn, e
  <1>2. CASE ch.op = "delete"
    <2>1. e = SetDeleted(d, ch.set)
      BY <1>2 DEF Changed
    <2>2. /\ e.sensors = [u \in Uids |-> IF u \in SensorsOf(d, ch.set) THEN Absent ELSE d.sensors[u]]
          /\ r # ch.set => GlobalsOf(e, r) = GlobalsOf(d, r)
      BY <1>2, <2>1, StepParts, DeletedEffect
    <2>3. \A u \in Uids : HasSensor(e, u) =>
            e.sensors[u] = d.sensors[u] /\ HasSensor(d, u) /\ d.sensors[u].sensor_set_id # ch.set
      BY <2>2 DEF HasSensor, SensorsOf
    <2> HIDE DEF e
    <2> QED BY <2>2, <2>3, AgreementBySensors DEF ValidIn, e
  <1>3. CASE ch.op = "drop"
    <2>1. e = GlobalsSet(d, ch.set, Absent) /\ SetExists(d, ch.set)
      BY <1>3 DEF Changed, Accepts
    <2>2. /\ e.sensors = d.sensors /\ GlobalsOf(e, ch.set) = NoBindings
          /\ r # ch.set => GlobalsOf(e, r) = GlobalsOf(d, r)
      BY <1>3, <2>1, StepParts, GlobalsSetEffect
    <2> HIDE DEF e
    <2> QED BY <1>a, <2>2, AbsentAgrees, AgreementBySensors DEF HasSensor, ValidIn, e
  <1>4. CASE ch.op = "store"
    <2>1. /\ e = Stored(d, ch.set, ch.uid, ch.config) /\ SetExists(d, ch.set)
          /\ ValidIn(d, ch.set, ch.config)
      BY <1>4 DEF Changed, Accepts
    <2>2. /\ SameSets(d, e)
          /\ e.sensors = [d.sensors EXCEPT ![ch.uid] = SensorIn(ch.set, ch.config)]
      BY <1>4, <2>1, StepParts, StoredEffect
    <2>3. \A u \in Uids : e.sensors[u] = IF u = ch.uid THEN SensorIn(ch.set, ch.config)
                                         ELSE d.sensors[u]
      BY <1>p, <2>2
    <2> HIDE DEF e
    <2>4. \A u \in Uids : HasSensor(e, u) /\ e.sensors[u].sensor_set_id = r =>
           \/ HasSensor(d, u) /\ e.sensors[u] = d.sensors[u]
           \/ ValidIn(d, r, e.sensors[u].config)
      BY <2>1, <2>3 DEF HasSensor, SensorIn
    <2>5. AgreesIn(e, r)
      BY <2>2, <2>4, SensorsAgree
    <2> QED BY <2>5 DEF e
  <1>5. CASE ch.op = "bulk"
    <2> DEFINE b == BatchStored(d, ch.set, ch.batch)
    <2>1. /\ e = Recounted(b, ch.set) /\ SetExists(d, ch.set)
          /\ \A u \in Keys(ch.batch) : ValidIn(d, ch.set, ch.batch[u])
      BY <1>5 DEF Changed, Accepts
    <2>2. ch.set \in SetIds /\ ch.batch \in Batches
      BY <1>5, StepParts
    <2>3. /\ SameSets(d, b)
          /\ b.sensors = [u \in Uids |-> IF ch.batch[u] = Absent THEN d.sensors[u]
                                         ELSE SensorIn(ch.set, ch.batch[u])]
      BY <2>2, BatchEffect
    <2>4. b \in StorageContents
      <3>1. \A u \in Uids : ch.batch[u] # Absent => SensorIn(ch.set, ch.batch[u]) \in StoredSensor
        BY <2>2 DEF Batches, StoredSensor, SensorIn
      <3>2. b.sensors \in [Uids -> StoredSensor \cup {Absent}]
        BY <1>p, <2>3, <3>1
      <3>3. b = [d EXCEPT !.sensors = b.sensors]
        BY Parts DEF BatchStored
      <3> HIDE DEF b
      <3> QED BY <3>2, <3>3, Parts DEF StorageContents
    <2> HIDE DEF b
    <2>5. SetExists(b, ch.set) /\ SameSets(b, e) /\ e.sensors = b.sensors
      BY <2>1, <2>2, <2>3, <2>4, RecountedEffect DEF SameSets
    <2>6. SameSets(d, e)
      BY <2>3, <2>5 DEF SameSets
    <2>7. \A u \in Uids : u \in Keys(ch.batch) <=> ch.batch[u] # Absent
      BY DEF Keys
    <2>8. \A u \in Uids : ch.batch[u] # Absent => ch.batch[u] \in Configs
      BY <2>2 DEF Batches
    <2> HIDE DEF e
    <2> QED BY <2>1, <2>2, <2>3, <2>5, <2>6, <2>7, <2>8, SensorsAgree DEF HasSensor, SensorIn, e
  <1>6. CASE ch.op \in {"update", "write"}
    <2> DEFINE s == d.sensors[ch.uid].sensor_set_id
    <2>0. ch.uid \in Uids
      BY <1>6, StepParts
    <2>1. /\ e = Updated(d, ch.uid, ch.config) /\ HasSensor(d, ch.uid)
          /\ s = r => ValidIn(d, s, ch.config)
      BY <1>6, <2>0 DEF Changed, Accepts, SensorsOf
    <2>2. ch.uid \in Uids /\ ch.config \in Configs /\ s \in SetIds
      BY <1>6, <1>a, <2>1, StepParts
    <2>3. SameSets(d, e) /\ e.sensors = [d.sensors EXCEPT ![ch.uid] = SensorIn(s, ch.config)]
      BY <2>1, <2>2, UpdatedEffect
    <2>4. \A u \in Uids : e.sensors[u] = IF u = ch.uid THEN SensorIn(s, ch.config)
                                         ELSE d.sensors[u]
      BY <1>p, <2>3
    <2> HIDE DEF e, s
    <2>5. \A u \in Uids : HasSensor(e, u) /\ e.sensors[u].sensor_set_id = r =>
           \/ HasSensor(d, u) /\ e.sensors[u] = d.sensors[u]
           \/ ValidIn(d, r, e.sensors[u].config)
      BY <2>1, <2>4 DEF HasSensor, SensorIn
    <2>6. AgreesIn(e, r)
      BY <2>3, <2>5, SensorsAgree
    <2> QED BY <2>6 DEF e
  <1>7. CASE ch.op = "remove"
    <2>1. e = Removed(d, ch.uid) /\ HasSensor(d, ch.uid)
      BY <1>7 DEF Changed, Accepts
    <2>2. SameSets(d, e) /\ e.sensors = [d.sensors EXCEPT ![ch.uid] = Absent]
      BY <1>7, <2>1, StepParts, RemovedEffect
    <2>3. \A u \in Uids : e.sensors[u] = IF u = ch.uid THEN Absent ELSE d.sensors[u]
      BY <1>p, <2>2
    <2>4. GlobalsOf(e, r) = GlobalsOf(d, r)
      BY <2>2 DEF SameSets
    <2>5. ASSUME NEW u \in Uids, HasSensor(e, u)
          PROVE  HasSensor(d, u) /\ e.sensors[u] = d.sensors[u]
      BY <2>3, <2>5 DEF HasSensor
    <2> HIDE DEF e
    <2>6. AgreesIn(e, r)
      BY <2>4, <2>5, SameAgrees
    <2> QED BY <2>6 DEF e
  <1>8. CASE ch.op = "globals"
    <2>1. /\ e = GlobalsSet(d, ch.set, ch.globals) /\ SetExists(d, ch.set)
          /\ NoGlobalConflict(d, ch.set, ch.globals)
      BY <1>8 DEF Changed, Accepts
    <2>2. ch.set \in SetIds /\ ch.globals \in Bindings /\ ch.globals # Absent
      BY <1>8, StepParts, AbsentIsNothing
    <2>3. /\ e.sensors = d.sensors /\ GlobalsOf(e, ch.set) = ch.globals
          /\ r # ch.set => GlobalsOf(e, r) = GlobalsOf(d, r)
      BY <2>1, <2>2, GlobalsSetEffect
    <2> HIDE DEF e
    <2> QED BY <2>1, <2>3, AgreementBySensors DEF HasSensor, ValidIn, NoGlobalConflict, SensorsOf, e
  <1>9. CASE ch.op = "rename"
    <2>1. e = Renamed(d, ch.old, ch.new)
      BY <1>9 DEF Changed
    <2> QED BY <1>9, <2>1, StepParts, RenameAgrees
  <1> QED BY <1>1, <1>2, <1>3, <1>4, <1>5, <1>6, <1>7, <1>8, <1>9, StepParts DEF IsChange

\* The bulk store keeps in memory what it has validated before it raises.
LEMMA RejectedBulkAgrees ==
  ASSUME TypeOK, NEW t, ReplaceSensorsRejected(t), NEW r \in SetIds, AgreesIn(data, r)
  PROVE  AgreesIn(data, r)' /\ UNCHANGED <<disk, snap>>
  <1>0. data \in StorageContents
    BY DEF TypeOK
  <1>1. PICK s \in SetIds, b \in NewBatches :
          \E done \in SUBSET {u \in Keys(b) : ValidIn(data, s, b[u])} :
            /\ data' = Touch(BatchStored(data, s,
                               [u \in Uids |-> IF u \in done THEN b[u] ELSE Absent]))
            /\ SetExists(data, s) /\ Fail(s)
    BY DEF ReplaceSensorsRejected
  <1>2. PICK done \in SUBSET {u \in Keys(b) : ValidIn(data, s, b[u])} :
            /\ data' = Touch(BatchStored(data, s,
                               [u \in Uids |-> IF u \in done THEN b[u] ELSE Absent]))
            /\ SetExists(data, s) /\ Fail(s)
    BY <1>1
  <1> DEFINE f == [u \in Uids |-> IF u \in done THEN b[u] ELSE Absent]
             e == BatchStored(data, s, f)
  <1>3. f \in Batches /\ b \in Batches /\ data' = Touch(e)
    BY <1>2, StorageConstants DEF Batches
  <1>4. \A u \in Uids : f[u] # Absent => f[u] \in Configs /\ ValidIn(data, s, f[u])
    BY <1>3 DEF Batches
  <1> HIDE DEF f
  <1>5. /\ SameSets(data, e)
        /\ e.sensors = [u \in Uids |-> IF f[u] = Absent THEN data.sensors[u] ELSE SensorIn(s, f[u])]
    BY <1>0, <1>3, BatchEffect
  <1>6. e \in StorageContents
    BY <1>0, <1>2, <1>3, BatchKeeps DEF Keeps
  <1> HIDE DEF e
  <1>7. \A u \in Uids : HasSensor(e, u) =>
          \/ HasSensor(data, u) /\ e.sensors[u] = data.sensors[u]
          \/ f[u] \in Configs /\ e.sensors[u] = SensorIn(s, f[u]) /\ ValidIn(data, s, f[u])
    BY <1>4, <1>5 DEF HasSensor
  <1>8. \A u \in Uids : HasSensor(e, u) /\ e.sensors[u].sensor_set_id = r =>
          \/ HasSensor(data, u) /\ e.sensors[u] = data.sensors[u]
          \/ ValidIn(data, r, e.sensors[u].config)
    <2> SUFFICES ASSUME NEW u \in Uids, HasSensor(e, u), e.sensors[u].sensor_set_id = r
                 PROVE  \/ HasSensor(data, u) /\ e.sensors[u] = data.sensors[u]
                        \/ ValidIn(data, r, e.sensors[u].config)
      OBVIOUS
    <2>1. CASE e.sensors[u] = SensorIn(s, f[u]) /\ ValidIn(data, s, f[u])
      <3>1. s = r /\ e.sensors[u].config = f[u]
        BY <2>1 DEF SensorIn
      <3> QED BY <2>1, <3>1
    <2> QED BY <1>7, <2>1
  <1>9. AgreesIn(e, r)
    BY <1>0, <1>5, <1>8, SensorsAgree
  <1>10. AgreesIn(data', r)
    BY <1>3, <1>6, <1>9, TouchAgrees
  <1> QED BY <1>2, <1>10 DEF Fail

\* A rejected global variable leaves every other set alone.
LEMMA RejectedVariableAgrees ==
  ASSUME TypeOK, NEW t, SetGlobalVariableRejected(t), NEW r \in SetIds, AgreesIn(data, r),
         data'.sets[r] = data.sets[r]
  PROVE  AgreesIn(data, r)' /\ UNCHANGED <<disk, snap>>
  <1>0. data \in StorageContents
    BY DEF TypeOK
  <1>1. PICK s \in SetIds, v \in Vars, e \in Entities \cup {Absent} :
          /\ SetExists(data, s)
          /\ data' = IF data.sets[s].globals = Absent THEN data
                     ELSE Touch(GlobalsSet(data, s, WithVariable(s, v, e)))
          /\ Fail(s)
    BY DEF SetGlobalVariableRejected
  <1> DEFINE g == WithVariable(s, v, e)
             d == GlobalsSet(data, s, g)
  <1>2. g \in Bindings
    BY WithVariableType
  <1> HIDE DEF g
  <1>3. d \in StorageContents /\ d.sensors = data.sensors
    BY <1>0, <1>1, <1>2, GlobalsSetKeeps, GlobalsSetEffect DEF Keeps
  <1>4. data' = data \/ data' = Touch(d)
    BY <1>1 DEF g
  <1> HIDE DEF d
  <1>5. data'.sensors = data.sensors
    BY <1>3, <1>4, TouchEffect
  <1>6. GlobalsOf(data', r) = GlobalsOf(data, r)
    BY DEF GlobalsOf, SetExists
  <1>7. AgreesIn(data', r)
    BY <1>5, <1>6, SameAgrees DEF HasSensor
  <1> QED BY <1>1, <1>7 DEF Fail

LEMMA ChangeAgrees ==
  ASSUME IInv, NEW t \in Tasks, Change(t), NEW s \in SetIds, GlobalsAgree(s)
  PROVE  GlobalsAgree(s)' \/ Unvalidated(s)
  <1> SUFFICES ASSUME ~Unvalidated(s) PROVE GlobalsAgree(s)'
    OBVIOUS
  <1>1. /\ IsChange(Step(t)) /\ Accepts(data, Step(t)) /\ task[t].left # <<>>
        /\ data' = Touch(Changed(data, Step(t))) /\ UNCHANGED disk
        /\ snap' = data' \/ UNCHANGED snap
    BY DEF Change, MyTurn
  <1>2. Step(t) \in StepShape
    BY <1>1, VersionTypes, TaskStates DEF Step
  <1>3. Step(t).op = "write" => Step(t).uid \notin SensorsOf(data, s)
    BY DEF Unvalidated
  <1>4. data \in StorageContents /\ SensorsInSets(data)
    BY SameOrphans DEF IInv, TypeOK, NoOrphanSensors
  <1>5. Changed(data, Step(t)) \in StorageContents
    BY <1>1, <1>2, <1>4, ChangedKeeps DEF Keeps
  <1>6. AgreesIn(Changed(data, Step(t)), s)
    BY <1>1, <1>2, <1>3, <1>4, ChangedAgrees DEF GlobalsAgree
  <1>7. AgreesIn(data', s)
    BY <1>1, <1>5, <1>6, TouchAgrees
  <1> QED BY <1>1, <1>7 DEF GlobalsAgree

LEMMA GlobalsKept ==
  ASSUME IInv, [Next]_vars, NEW s \in SetIds, GlobalsAgree(s)
  PROVE  GlobalsAgree(s)' \/ Unvalidated(s)
  <1>0. TypeOK
    BY DEF IInv
  <1>1. CASE UNCHANGED <<data, disk, snap>>
    BY <1>1 DEF GlobalsAgree
  <1>2. ASSUME NEW t \in Clients, Operation(t) PROVE GlobalsAgree(s)' \/ Unvalidated(s)
    <2>1. CASE ReplaceSensorsRejected(t)
      BY <1>0, <2>1, RejectedBulkAgrees DEF GlobalsAgree
    <2>2. CASE SetGlobalVariableRejected(t)
      <3>1. CASE data'.sets[s] = data.sets[s]
        BY <1>0, <2>2, <3>1, RejectedVariableAgrees DEF GlobalsAgree
      <3>2. CASE data'.sets[s] # data.sets[s]
        BY <2>2, <3>2 DEF Unvalidated
      <3> QED BY <3>1, <3>2
    <2> QED BY <1>0, <1>1, <1>2, <2>1, <2>2, OperationWaits
  <1>3. ASSUME NEW t \in Tasks, Proceed(t), ~Change(t) PROVE GlobalsAgree(s)'
    BY <1>3, ProceedReschedules DEF Reschedule, GlobalsAgree
  <1>4. ASSUME NEW t \in Tasks, Change(t) PROVE GlobalsAgree(s)' \/ Unvalidated(s)
    BY <1>4, ChangeAgrees
  <1>5. ASSUME NEW t \in Tasks, Acquire(t) PROVE GlobalsAgree(s)'
    BY <1>5 DEF Acquire, GlobalsAgree
  <1>6. ASSUME NEW t \in Tasks, Saved(t) PROVE GlobalsAgree(s)'
    BY <1>6, HolderAlone DEF Saved, GlobalsAgree
  <1>7. ASSUME NEW t \in Tasks, SaveFailed(t) PROVE GlobalsAgree(s)'
    BY <1>7 DEF SaveFailed, GlobalsAgree
  <1>8. ASSUME NEW l \in Listeners, RenameEntity(l) PROVE GlobalsAgree(s)'
    BY <1>8 DEF RenameEntity, GlobalsAgree
  <1>9. CASE Restart
    BY <1>9 DEF Restart, GlobalsAgree
  <1> QED BY <1>1, <1>2, <1>3, <1>4, <1>5, <1>6, <1>7, <1>8, <1>9 DEF Next, vars

\* The variables of a stored sensor come to contradict the globals of its set,
\* in memory, in a write under way or on disk, only where nobody validates,
\* though every operation validates against what it finds and then waits for
\* its save, and though renames change both sides.
THEOREM GlobalsHold == Spec => GlobalsStayAgreed
  <1>1. IInv /\ [Next]_vars =>
          [\A s \in SetIds : GlobalsAgree(s) => GlobalsAgree(s)' \/ Unvalidated(s)]_vars
    BY GlobalsKept
  <1> QED BY <1>1, Invariance, PTL DEF Spec, GlobalsStayAgreed

-----------------------------------------------------------------------------
(* The entity index.  What a handle does is followed by the rebuild of its *)
(* index; of what rebuilds none, torn records what it leaves untracked.    *)

AwaitedBy(step) == IF step.op = "index" THEN step.sets
                   ELSE IF step.op = "config" THEN {step.set} ELSE {}

AwaitedIn(program) == UNION {AwaitedBy(program[i]) : i \in DOMAIN program}

\* A program that rebuilds indexes: every step that may make the index of its set
\* stale is followed by one that rebuilds it; an update or a rename, which names no
\* set, can only come first.
Orderly(program) ==
  \A i \in DOMAIN program :
    /\ program[i].op \notin {"write", "bulk", "registry"}
    /\ program[i].op \in {"create", "delete", "drop", "store", "globals"} =>
         \E j \in DOMAIN program : j > i /\ program[i].set \in AwaitedBy(program[j])
    /\ program[i].op = "config" => AwaitedIn(program) \subseteq {program[i].set}
    /\ program[i].op \in {"update", "rename"} => i = 1

Settled(program) == \A i \in DOMAIN program : program[i].op \notin {"update", "rename"}

\* The index of s covers what d has in s.
FreshIn(d, ix, s) == ix[s] # Absent => IndexOf(d, s) \subseteq ix[s]

\* An update or a rename that is about to run is followed by the rebuild of
\* every index it may make stale.
FitsIn(d, ix, program) ==
  program # <<>> =>
    LET step == Head(program)
    IN  /\ step.op = "update" /\ HasSensor(d, step.uid) =>
             d.sensors[step.uid].sensor_set_id \in AwaitedIn(program)
        /\ step.op = "rename" =>
             \A s \in SetIds : SetExists(d, s) /\ ix[s] # Absent /\ s \notin AwaitedIn(program)
                                 => step.old \notin ix[s]

\* A call that rebuilds no index has plain steps only; for any other, in whose
\* turn (mine) an update or a rename may come next, the above is kept.
Fits(d, ix, mine, x) ==
  IF x.direct THEN x.left \in Seq(PlainSteps)
  ELSE Orderly(x.left) /\ IF mine THEN FitsIn(d, ix, x.left) ELSE Settled(x.left)

TasksOrderly ==
  \A t \in Tasks : /\ task[t].busy \/ task[t].left = <<>>
                   /\ Fits(data, index, turn = t, task[t])

\* No index is stale unless it is known to be torn, or a task is yet to rebuild it.
IndexesAccounted ==
  \A s \in SetIds : \/ s \in torn
                    \/ \E t \in Tasks : s \in AwaitedIn(task[t].left)
                    \/ FreshIn(data, index, s)

LEMMA AwaitedSame == \A t : Awaited(t) = AwaitedIn(task[t].left)
  BY DEF Awaited, AwaitedIn, AwaitedBy

LEMMA EmptyOrderly == Orderly(<<>>) /\ Settled(<<>>) /\ AwaitedIn(<<>>) = {}
  BY DEF Orderly, Settled, AwaitedIn

LEMMA PlainAwaits ==
  ASSUME NEW p \in Seq(PlainSteps)
  PROVE  AwaitedIn(p) = {} /\ (p # <<>> => Head(p) \in PlainSteps /\ Tail(p) \in Seq(PlainSteps))
  <1>1. \A i \in DOMAIN p : p[i] \in PlainSteps
    OBVIOUS
  <1>2. \A i \in DOMAIN p : AwaitedBy(p[i]) = {}
    BY <1>1 DEF PlainSteps, AwaitedBy
  <1> QED BY <1>2 DEF AwaitedIn

\* Nothing is stored of a set that does not exist.
LEMMA MissingIndex ==
  ASSUME NEW d, SensorsHaveSets(d), NEW s, ~SetExists(d, s)
  PROVE  IndexOf(d, s) = {}
  <1>1. SensorsOf(d, s) = {}
    BY DEF SensorsHaveSets, SensorsOf
  <1>2. EntitiesIn(GlobalsOf(d, s)) = {}
    BY DEF EntitiesIn, GlobalsOf, NoBindings
  <1> QED BY <1>1, <1>2 DEF IndexOf

LEMMA SettledFits ==
  ASSUME NEW d, NEW ix, NEW p \in Seq(StepShape), Settled(p)
  PROVE  FitsIn(d, ix, p)
  <1>1. p # <<>> => Head(p) = p[1] /\ 1 \in DOMAIN p
    OBVIOUS
  <1> QED BY <1>1 DEF FitsIn, Settled

\* What is left after the first step of an orderly program.
LEMMA TailOrderly ==
  ASSUME NEW p \in Seq(StepShape), p # <<>>, Orderly(p)
  PROVE  /\ Orderly(Tail(p)) /\ Settled(Tail(p))
         /\ AwaitedIn(p) = AwaitedBy(Head(p)) \cup AwaitedIn(Tail(p))
         /\ Head(p).op \notin {"write", "bulk", "registry"}
         /\ Head(p).op \in {"create", "delete", "drop", "store", "globals"} =>
              Head(p).set \in AwaitedIn(Tail(p))
         /\ Head(p).op = "config" => AwaitedIn(p) \subseteq {Head(p).set}
  <1> DEFINE q == Tail(p)
  <1>1. /\ Len(p) \in Nat /\ DOMAIN p = 1 .. Len(p) /\ 1 \in DOMAIN p /\ Head(p) = p[1]
        /\ q \in Seq(StepShape) /\ DOMAIN q = 1 .. Len(p) - 1
        /\ \A i \in DOMAIN q : q[i] = p[i + 1] /\ i + 1 \in DOMAIN p
    OBVIOUS
  <1>2. \A i \in DOMAIN p : i = 1 \/ (i - 1 \in DOMAIN q /\ q[i - 1] = p[i])
    BY <1>1
  <1> HIDE DEF q
  <1>3. AwaitedIn(p) = AwaitedBy(Head(p)) \cup AwaitedIn(q)
    <2>1. ASSUME NEW x \in AwaitedIn(p) PROVE x \in AwaitedBy(Head(p)) \cup AwaitedIn(q)
      <3>1. PICK i \in DOMAIN p : x \in AwaitedBy(p[i])
        BY DEF AwaitedIn
      <3> QED BY <1>1, <1>2, <3>1 DEF AwaitedIn
    <2>2. AwaitedBy(Head(p)) \cup AwaitedIn(q) \subseteq AwaitedIn(p)
      BY <1>1 DEF AwaitedIn
    <2> QED BY <2>1, <2>2
  <1>4. ASSUME NEW i \in DOMAIN p, p[i].op \in {"create", "delete", "drop", "store", "globals"}
        PROVE  \E j \in DOMAIN q : j > i - 1 /\ p[i].set \in AwaitedBy(q[j])
    <2>1. PICK j \in DOMAIN p : j > i /\ p[i].set \in AwaitedBy(p[j])
      BY <1>4 DEF Orderly
    <2>2. j - 1 \in DOMAIN q /\ q[j - 1] = p[j] /\ j - 1 > i - 1
      BY <1>1, <1>2, <2>1
    <2> QED BY <2>1, <2>2
  <1>5. Orderly(q)
    <2> SUFFICES ASSUME NEW i \in DOMAIN q
                 PROVE  /\ q[i].op \notin {"write", "bulk", "registry"}
                        /\ q[i].op \in {"create", "delete", "drop", "store", "globals"} =>
                             \E j \in DOMAIN q : j > i /\ q[i].set \in AwaitedBy(q[j])
                        /\ q[i].op = "config" => AwaitedIn(q) \subseteq {q[i].set}
                        /\ q[i].op \in {"update", "rename"} => i = 1
      BY DEF Orderly
    <2>1. q[i] = p[i + 1] /\ i + 1 \in DOMAIN p /\ i \in Nat /\ i + 1 - 1 = i /\ i + 1 # 1
      BY <1>1
    <2>2. q[i].op \in {"create", "delete", "drop", "store", "globals"} =>
             \E j \in DOMAIN q : j > i /\ q[i].set \in AwaitedBy(q[j])
      BY <1>4, <2>1
    <2>3. q[i].op = "config" => AwaitedIn(q) \subseteq {q[i].set}
      BY <1>3, <2>1 DEF Orderly
    <2> QED BY <2>1, <2>2, <2>3 DEF Orderly
  <1>6. Settled(q)
    <2>1. \A i \in DOMAIN q : q[i] = p[i + 1] /\ i + 1 \in DOMAIN p /\ i + 1 # 1
      BY <1>1
    <2> QED BY <2>1 DEF Settled, Orderly
  <1>7. Head(p).op \in {"create", "delete", "drop", "store", "globals"} => Head(p).set \in AwaitedIn(q)
    BY <1>1, <1>4 DEF AwaitedIn
  <1> QED BY <1>1, <1>3, <1>5, <1>6, <1>7 DEF q, Orderly

\* The programs of the operations, of imports and of the listener are orderly.
LEMMA CallOrderly ==
  ASSUME NEW s \in SetIds, NEW ch \in StepShape,
         ch.op \in {"store", "globals", "drop", "update", "remove"},
         ch.op \in {"store", "globals", "drop"} => ch.set = s
  PROVE  Orderly(<<ch, IndexStep({s})>>) /\ AwaitedIn(<<ch, IndexStep({s})>>) = {s}
  <1> DEFINE p == <<ch, IndexStep({s})>>
  <1>1. /\ DOMAIN p = {1, 2} /\ p[1] = ch /\ p[2] = IndexStep({s})
    OBVIOUS
  <1>2. /\ p[2].op = "index" /\ AwaitedBy(p[2]) = {s} /\ AwaitedBy(p[1]) = {}
    BY <1>1 DEF IndexStep, AwaitedBy
  <1> HIDE DEF p
  <1>3. AwaitedIn(p) = {s}
    BY <1>1, <1>2 DEF AwaitedIn
  <1>4. Orderly(p)
    <2>1. 2 > 1
      OBVIOUS
    <2> QED BY <1>1, <1>2, <2>1 DEF Orderly
  <1> QED BY <1>3, <1>4 DEF p

LEMMA RenameOrderly ==
  ASSUME NEW old, NEW new, NEW S
  PROVE  LET p == <<[op |-> "rename", old |-> old, new |-> new], IndexStep(S)>>
         IN  Orderly(p) /\ AwaitedIn(p) = S
  <1> DEFINE ch == [op |-> "rename", old |-> old, new |-> new]
             p == <<ch, IndexStep(S)>>
  <1>1. /\ DOMAIN p = {1, 2} /\ p[1] = ch /\ p[2] = IndexStep(S)
    OBVIOUS
  <1>2. /\ p[2].op = "index" /\ AwaitedBy(p[2]) = S /\ AwaitedBy(p[1]) = {} /\ p[1].op = "rename"
    BY <1>1 DEF IndexStep, AwaitedBy
  <1> HIDE DEF p, ch
  <1>3. AwaitedIn(p) = S
    BY <1>1, <1>2 DEF AwaitedIn
  <1>4. Orderly(p)
    BY <1>1, <1>2 DEF Orderly
  <1> QED BY <1>3, <1>4 DEF p, ch

\* The steps that fill a set.
Fills(s) ==
  {ch \in StepShape : \/ ch.op \in {"create", "globals", "store"} /\ ch.set = s
                      \/ ch.op = "index" /\ ch.sets = {s}}

LEMMA FilledOrderly ==
  ASSUME NEW s \in SetIds, NEW body \in Seq(Fills(s))
  PROVE  LET p == body \o <<IndexStep({s})>>
         IN  Orderly(p) /\ Settled(p) /\ AwaitedIn(p) = {s}
  <1> DEFINE p == body \o <<IndexStep({s})>>
             n == Len(body)
  <1>1. /\ n \in Nat /\ DOMAIN p = 1 .. n + 1 /\ p[n + 1] = IndexStep({s})
        /\ \A i \in 1 .. n : p[i] \in Fills(s)
    OBVIOUS
  <1>2. p[n + 1].op = "index" /\ AwaitedBy(p[n + 1]) = {s} /\ n + 1 \in DOMAIN p
    BY <1>1 DEF IndexStep, AwaitedBy
  <1>3. \A i \in DOMAIN p : i = n + 1 \/ (i \in 1 .. n /\ i < n + 1)
    BY <1>1
  <1> HIDE DEF p, n
  <1>4. \A i \in 1 .. n : \/ p[i].op \in {"create", "globals", "store"} /\ p[i].set = s
                          \/ p[i].op = "index" /\ p[i].sets = {s}
    BY <1>1 DEF Fills
  <1>5. \A i \in 1 .. n : AwaitedBy(p[i]) \subseteq {s}
    BY <1>4 DEF AwaitedBy
  <1>6. AwaitedIn(p) = {s}
    BY <1>2, <1>3, <1>5 DEF AwaitedIn
  <1>7. Settled(p)
    BY <1>2, <1>3, <1>4 DEF Settled
  <1>8. Orderly(p)
    <2> SUFFICES ASSUME NEW i \in DOMAIN p
                 PROVE  /\ p[i].op \notin {"write", "bulk", "registry", "config", "update", "rename"}
                        /\ p[i].op \in {"create", "delete", "drop", "store", "globals"} =>
                             \E j \in DOMAIN p : j > i /\ p[i].set \in AwaitedBy(p[j])
      BY DEF Orderly
    <2>1. CASE i = n + 1
      BY <1>2, <2>1
    <2>2. CASE i \in 1 .. n /\ i < n + 1
      <3>1. n + 1 > i
        BY <1>1, <2>2
      <3> QED BY <1>2, <1>4, <2>2, <3>1
    <2> QED BY <1>3, <2>1, <2>2
  <1> QED BY <1>6, <1>7, <1>8 DEF p

LEMMA ImportsOrderly ==
  ASSUME NEW d, NEW s \in SetIds, NEW i \in ImportShape
  PROVE  /\ Orderly(ImportProgram(d, s, i)) /\ Settled(ImportProgram(d, s, i))
         /\ Orderly(FromConfig(d, s, i)) /\ Settled(FromConfig(d, s, i))
         /\ AwaitedIn(FromConfig(d, s, i)) = {s}
  <1>1. i.globals \in Bindings /\ i.sensors \in Batches
    BY DEF ImportShape
  <1>2. /\ [op |-> "create", set |-> s, globals |-> i.globals] \in Fills(s)
        /\ [op |-> "globals", set |-> s, globals |-> i.globals] \in Fills(s)
        /\ IndexStep({s}) \in Fills(s)
    BY <1>1 DEF StepShape, IndexStep, Fills
  <1>3. Stores(s, i.sensors) \in Seq(Fills(s))
    <2> DEFINE q == SetToSeq(Keys(i.sensors))
               w(k) == [op |-> "store", set |-> s, uid |-> q[k], config |-> i.sensors[q[k]]]
    <2>1. Stores(s, i.sensors) = [k \in DOMAIN q |-> w(k)]
      BY DEF Stores, Each
    <2>2. q \in Seq(Uids) /\ \A k \in DOMAIN q : q[k] \in Uids /\ i.sensors[q[k]] \in Configs
      BY <1>1, KeysType
    <2> HIDE DEF q
    <2>3. \A k \in DOMAIN q : w(k) \in Fills(s)
      BY <2>2 DEF StepShape, Fills
    <2> HIDE DEF w
    <2> QED BY <2>1, <2>2, <2>3
  <1>4. Orderly(FromConfig(d, s, i)) /\ Settled(FromConfig(d, s, i)) /\ AwaitedIn(FromConfig(d, s, i)) = {s}
    <2> DEFINE head == IF ~SetExists(d, s)
                       THEN <<[op |-> "create", set |-> s, globals |-> i.globals]>>
                       ELSE IF i.globals = NoBindings THEN <<>>
                       ELSE <<[op |-> "globals", set |-> s, globals |-> i.globals], IndexStep({s})>>
               body == head \o Stores(s, i.sensors)
    <2>1. head \in Seq(Fills(s))
      BY <1>2
    <2>2. FromConfig(d, s, i) = body \o <<IndexStep({s})>>
      BY DEF FromConfig
    <2> HIDE DEF head
    <2>3. body \in Seq(Fills(s))
      BY <1>3, <2>1
    <2> HIDE DEF body
    <2> QED BY <2>2, <2>3, FilledOrderly
  <1> DEFINE config == [op |-> "config", set |-> s, import |-> i]
             delete == [op |-> "delete", set |-> s]
             one == <<>> \o <<config>>
             two == <<delete>> \o <<config>>
  <1>5. ImportProgram(d, s, i) = one \/ ImportProgram(d, s, i) = two
    BY DEF ImportProgram
  <1>6. /\ DOMAIN one = {1} /\ one[1] = config
        /\ DOMAIN two = {1, 2} /\ two[1] = delete /\ two[2] = config
    OBVIOUS
  <1>7. /\ config.op = "config" /\ config.set = s /\ AwaitedBy(config) = {s}
        /\ delete.op = "delete" /\ delete.set = s /\ AwaitedBy(delete) = {}
    BY DEF AwaitedBy
  <1> HIDE DEF config, delete, one, two
  <1>8. AwaitedIn(one) = {s} /\ AwaitedIn(two) = {s}
    BY <1>6, <1>7 DEF AwaitedIn
  <1>9. Orderly(one) /\ Settled(one) /\ Settled(two)
    BY <1>6, <1>7, <1>8 DEF Orderly, Settled
  <1>10. Orderly(two)
    <2>1. 2 > 1
      OBVIOUS
    <2> QED BY <1>6, <1>7, <1>8, <2>1 DEF Orderly
  <1> QED BY <1>4, <1>5, <1>9, <1>10

\* An accepted change adds nothing to a set but to those whose index is rebuilt
\* after it, W.
LEMMA ChangeAccounts ==
  ASSUME NEW d \in StorageContents, SensorsHaveSets(d),
         NEW ch \in StepShape, Accepts(d, ch), IsChange(ch),
         ch.op \notin {"write", "bulk"}, NEW ix, NEW W,
         ch.op \in {"create", "delete", "drop", "store", "globals"} => ch.set \in W,
         ch.op = "update" /\ HasSensor(d, ch.uid) => d.sensors[ch.uid].sensor_set_id \in W,
         ch.op = "rename" =>
           \A s \in SetIds : SetExists(d, s) /\ ix[s] # Absent /\ s \notin W => ch.old \notin ix[s],
         NEW r \in SetIds, FreshIn(d, ix, r), ix[r] # Absent, r \notin W
  PROVE  IndexOf(Changed(d, ch), r) \subseteq IndexOf(d, r)
  <1> DEFINE e == Changed(d, ch)
  <1>p. d.sensors \in [Uids -> StoredSensor \cup {Absent}]
    BY Parts
  <1>1. CASE ch.op = "create"
    <2>1. e = SetCreated(d, ch.set, ch.globals) /\ r # ch.set
      BY <1>1 DEF Changed
    <2>2. e.sensors = d.sensors /\ GlobalsOf(e, r) = GlobalsOf(d, r)
      BY <1>1, <2>1, StepParts, CreatedEffect
    <2> QED BY <2>2, IndexShrinks DEF HasSensor
  <1>2. CASE ch.op = "delete"
    <2>1. e = SetDeleted(d, ch.set) /\ r # ch.set
      BY <1>2 DEF Changed
    <2>2. /\ e.sensors = [u \in Uids |-> IF u \in SensorsOf(d, ch.set) THEN Absent ELSE d.sensors[u]]
          /\ GlobalsOf(e, r) = GlobalsOf(d, r)
      BY <1>2, <2>1, StepParts, DeletedEffect
    <2>3. \A u \in Uids : HasSensor(e, u) => HasSensor(d, u) /\ e.sensors[u] = d.sensors[u]
      BY <2>2 DEF HasSensor
    <2> QED BY <2>2, <2>3, IndexShrinks
  <1>3. CASE ch.op \in {"drop", "globals"}
    <2> DEFINE g == IF ch.op = "drop" THEN Absent ELSE ch.globals
    <2>1. e = GlobalsSet(d, ch.set, g) /\ SetExists(d, ch.set) /\ r # ch.set
      BY <1>3 DEF Changed, Accepts
    <2>2. ch.set \in SetIds /\ g \in Bindings \cup {Absent}
      BY <1>3, StepParts
    <2> HIDE DEF g
    <2>3. e.sensors = d.sensors /\ GlobalsOf(e, r) = GlobalsOf(d, r)
      BY <2>1, <2>2, GlobalsSetEffect
    <2> QED BY <2>3, IndexShrinks DEF HasSensor
  <1>4. CASE ch.op = "store"
    <2>1. e = Stored(d, ch.set, ch.uid, ch.config) /\ SetExists(d, ch.set) /\ r # ch.set
      BY <1>4 DEF Changed, Accepts
    <2>2. /\ SameSets(d, e)
          /\ e.sensors = [d.sensors EXCEPT ![ch.uid] = SensorIn(ch.set, ch.config)]
      BY <1>4, <2>1, StepParts, StoredEffect
    <2>3. \A u \in Uids : e.sensors[u] = IF u = ch.uid THEN SensorIn(ch.set, ch.config)
                                         ELSE d.sensors[u]
      BY <1>p, <2>2
    <2>4. \A u \in Uids : HasSensor(e, u) /\ e.sensors[u].sensor_set_id = r =>
                            HasSensor(d, u) /\ e.sensors[u] = d.sensors[u]
      BY <2>1, <2>3 DEF HasSensor, SensorIn
    <2> QED BY <2>2, <2>4, IndexShrinks DEF SameSets
  <1>5. CASE ch.op = "update"
    <2> DEFINE s == d.sensors[ch.uid].sensor_set_id
    <2>1. e = Updated(d, ch.uid, ch.config) /\ HasSensor(d, ch.uid) /\ r # s
      BY <1>5 DEF Changed, Accepts
    <2>2. ch.uid \in Uids /\ ch.config \in Configs
      BY <1>5, StepParts
    <2>3. SameSets(d, e) /\ e.sensors = [d.sensors EXCEPT ![ch.uid] = SensorIn(s, ch.config)]
      BY <2>1, <2>2, UpdatedEffect
    <2>4. \A u \in Uids : e.sensors[u] = IF u = ch.uid THEN SensorIn(s, ch.config)
                                         ELSE d.sensors[u]
      BY <1>p, <2>3
    <2>5. \A u \in Uids : HasSensor(e, u) /\ e.sensors[u].sensor_set_id = r =>
                            HasSensor(d, u) /\ e.sensors[u] = d.sensors[u]
      BY <2>1, <2>4 DEF HasSensor, SensorIn
    <2> QED BY <2>3, <2>5, IndexShrinks DEF SameSets
  <1>6. CASE ch.op = "remove"
    <2>1. e = Removed(d, ch.uid) /\ HasSensor(d, ch.uid)
      BY <1>6 DEF Changed, Accepts
    <2>2. SameSets(d, e) /\ e.sensors = [d.sensors EXCEPT ![ch.uid] = Absent]
      BY <1>6, <2>1, StepParts, RemovedEffect
    <2>3. \A u \in Uids : e.sensors[u] = IF u = ch.uid THEN Absent ELSE d.sensors[u]
      BY <1>p, <2>2
    <2>4. \A u \in Uids : HasSensor(e, u) => HasSensor(d, u) /\ e.sensors[u] = d.sensors[u]
      BY <2>3 DEF HasSensor
    <2> QED BY <2>2, <2>4, IndexShrinks DEF SameSets
  <1>7. CASE ch.op = "rename"
    <2>1. e = Renamed(d, ch.old, ch.new) /\ ch.old \in Entities /\ ch.new \in Entities
      BY <1>7, StepParts DEF Changed
    <2>2. ch.old \notin IndexOf(d, r)
      BY <1>7, MissingIndex DEF FreshIn
    <2> QED BY <2>1, <2>2, RenameIndex
  <1> QED BY <1>1, <1>2, <1>3, <1>4, <1>5, <1>6, <1>7, StepParts DEF IsChange

IndexesKept == TasksOrderly /\ IndexesAccounted

\* One task changes state, and what it no longer awaits is fresh or torn.
LEMMA IndexMoves ==
  ASSUME IInv, IndexesKept, NEW t \in Tasks, turn \in {t, Absent}, NEW x \in TaskState,
         task' = [task EXCEPT ![t] = x], x.busy \/ x.left = <<>>,
         turn' \in {t, Absent}, Fits(data', index', turn' = t, x),
         \A s \in torn : s \in torn' \/ FreshIn(data', index', s),
         \A s \in SetIds : s \in AwaitedIn(task[t].left) =>
           s \in torn' \/ s \in AwaitedIn(x.left) \/ FreshIn(data', index', s),
         \A s \in SetIds : FreshIn(data, index, s) =>
           s \in torn' \/ s \in AwaitedIn(x.left) \/ FreshIn(data', index', s)
  PROVE  IndexesKept'
  <1>1. \A k \in Tasks : task'[k] = IF k = t THEN x ELSE task[k]
    BY VersionTypes
  <1>2. t # Absent
    BY StorageConstants
  <1>3. TasksOrderly'
    <2> SUFFICES ASSUME NEW k \in Tasks
                 PROVE  /\ task'[k].busy \/ task'[k].left = <<>>
                        /\ Fits(data', index', turn' = k, task'[k])
      BY DEF TasksOrderly
    <2>1. CASE k = t
      BY <1>1, <1>2, <2>1
    <2>2. CASE k # t
      <3>1. task'[k] = task[k] /\ turn # k /\ turn' # k
        BY <1>1, <2>2, StorageConstants
      <3> QED BY <3>1 DEF TasksOrderly, IndexesKept, Fits
    <2> QED BY <2>1, <2>2
  <1>4. ASSUME NEW s \in SetIds
        PROVE  \/ s \in torn'
               \/ \E k \in Tasks : s \in AwaitedIn(task'[k].left)
               \/ FreshIn(data', index', s)
    <2>1. CASE s \in torn
      BY <2>1
    <2>2. ASSUME NEW k \in Tasks, s \in AwaitedIn(task[k].left)
          PROVE  \/ s \in torn'
                 \/ \E j \in Tasks : s \in AwaitedIn(task'[j].left)
                 \/ FreshIn(data', index', s)
      <3>1. CASE k = t
        BY <1>1, <2>2, <3>1
      <3>2. CASE k # t
        BY <1>1, <2>2, <3>2
      <3> QED BY <3>1, <3>2
    <2>3. CASE FreshIn(data, index, s)
      BY <1>1, <2>3
    <2> QED BY <2>1, <2>2, <2>3 DEF IndexesKept, IndexesAccounted
  <1>5. IndexesAccounted'
    BY <1>4 DEF IndexesAccounted
  <1> QED BY <1>3, <1>5 DEF IndexesKept

\* get_sensor_set makes no index stale.
LEMMA CachedFresh ==
  ASSUME IInv, NEW S, NEW r \in SetIds, FreshIn(data, index, r)
  PROVE  FreshIn(data, Cached(S), r)
  <1>1. ~SetExists(data, r) => IndexOf(data, r) = {}
    BY MissingIndex DEF IInv, NoOrphanSensors
  <1> QED BY <1>1 DEF FreshIn, Cached

LEMMA BeginIndexes ==
  ASSUME IInv, IndexesKept, NEW t \in Tasks, turn = Absent, ~task[t].busy,
         NEW x \in TaskState, Begin(t, x), x.busy, Fits(data, index', TRUE, x),
         \A r \in torn : r \in torn' \/ FreshIn(data, index', r),
         \A r \in SetIds : FreshIn(data, index, r) => r \in torn' \/ FreshIn(data, index', r)
  PROVE  IndexesKept'
  <1>1. task[t].left = <<>>
    BY DEF IndexesKept, TasksOrderly
  <1>2. AwaitedIn(task[t].left) = {}
    BY <1>1, EmptyOrderly
  <1>3. /\ task' = [task EXCEPT ![t] = x] /\ turn' = t /\ data' = data
    BY DEF Begin
  <1>4. (turn' = t) = TRUE
    BY <1>3
  <1>5. Fits(data', index', turn' = t, x)
    BY <1>3, <1>4
  <1> QED BY <1>2, <1>3, <1>5, IndexMoves

LEMMA DirectState ==
  ASSUME NEW p \in Seq(PlainSteps), NEW d, NEW ix
  PROVE  /\ Direct(p) \in TaskState /\ Direct(p).busy
         /\ \A mine : Fits(d, ix, mine, Direct(p))
  <1>1. p \in Seq(StepShape)
    BY PlainPrograms
  <1>2. Direct(p).direct /\ Direct(p).left = p
    BY DEF Direct
  <1> QED BY <1>1, <1>2, TaskStates DEF Fits

LEMMA RunningState ==
  ASSUME NEW p \in Seq(StepShape), NEW d, NEW ix, Orderly(p), FitsIn(d, ix, p)
  PROVE  Running(p) \in TaskState /\ Running(p).busy /\ Fits(d, ix, TRUE, Running(p))
  <1>1. ~Running(p).direct /\ Running(p).left = p
    BY DEF Running
  <1> QED BY <1>1, TaskStates DEF Fits

LEMMA IdleState ==
  \A d, ix, mine : Idle \in TaskState /\ Idle.left = <<>> /\ Fits(d, ix, mine, Idle)
  <1>1. <<>> \in Seq(StepShape)
    OBVIOUS
  <1>2. ~Idle.direct /\ Idle.left = <<>> /\ Idle \in TaskState
    BY TaskStates
  <1> QED BY <1>1, <1>2, EmptyOrderly, SettledFits DEF Fits

\* An operation that fails has put what it changed into one set, which is torn.
LEMMA FailIndexes ==
  ASSUME IInv, IndexesKept, turn = Absent, NEW s \in SetIds, Fail(s),
         \A r \in SetIds : r # s => IndexOf(data', r) \subseteq IndexOf(data, r)
  PROVE  IndexesKept'
  <1>1. /\ index' = Cached({s}) /\ torn' = torn \cup {s} /\ UNCHANGED <<task, turn>>
    BY DEF Fail
  <1>2. \A r \in SetIds : r # s => index'[r] = index[r]
    BY <1>1 DEF Cached
  <1>3. \A k \in Tasks : (turn' = k) = FALSE /\ (turn = k) = FALSE
    BY <1>1, StorageConstants
  <1>4. TasksOrderly'
    BY <1>1, <1>3 DEF TasksOrderly, IndexesKept, Fits
  <1>5. \A r \in SetIds : FreshIn(data, index, r) /\ r # s => FreshIn(data', index', r)
    BY <1>2 DEF FreshIn
  <1>6. IndexesAccounted'
    BY <1>1, <1>5 DEF IndexesAccounted, IndexesKept
  <1> QED BY <1>4, <1>6 DEF IndexesKept

LEMMA OperationIndexes ==
  ASSUME IInv, IndexesKept, NEW t \in Clients, Operation(t)
  PROVE  IndexesKept'
  <1>0. t \in Tasks /\ data \in StorageContents /\ torn \subseteq SetIds
    BY DEF Tasks, IInv, TypeOK
  <1>1. ASSUME NEW op, Ready(t, op) PROVE turn = Absent /\ ~task[t].busy
    BY <1>1 DEF Ready
  <1>2. ASSUME turn = Absent, ~task[t].busy, NEW s \in SetIds, NEW ch \in StepShape,
               ch.op \in {"store", "globals", "drop", "update", "remove"},
               ch.op \in {"store", "globals", "drop"} => ch.set = s,
               ch.op = "update" => ch.uid \in SensorsOf(data, s),
               CallOnSet(t, s, ch)
        PROVE  IndexesKept'
    <2> DEFINE p == <<ch, IndexStep({s})>>
    <2>1. p \in Seq(StepShape) /\ p # <<>> /\ Head(p) = ch
      BY DEF StepShape, IndexStep
    <2>2. Orderly(p) /\ AwaitedIn(p) = {s}
      BY <1>2, CallOrderly
    <2>3. Begin(t, Running(p)) /\ index' = Cached({s}) /\ SetExists(data, s) /\ UNCHANGED torn
      BY <1>2 DEF CallOnSet
    <2> HIDE DEF p
    <2>4. FitsIn(data, index', p)
      BY <1>2, <2>1, <2>2 DEF FitsIn, SensorsOf
    <2>5. \A r \in SetIds : FreshIn(data, index, r) => FreshIn(data, index', r)
      BY <2>3, CachedFresh
    <2>6. Running(p) \in TaskState /\ Running(p).busy /\ Fits(data, index', TRUE, Running(p))
      BY <2>1, <2>2, <2>4, RunningState
    <2> QED BY <1>0, <1>2, <2>3, <2>5, <2>6, BeginIndexes
  <1>3. ASSUME turn = Absent, ~task[t].busy, NEW ch \in PlainSteps, Call(t, ch)
        PROVE  IndexesKept'
    <2>1. <<ch>> \in Seq(PlainSteps)
      OBVIOUS
    <2>2. Begin(t, Direct(<<ch>>)) /\ UNCHANGED <<index, torn>>
      BY <1>3 DEF Call
    <2>3. /\ Direct(<<ch>>) \in TaskState /\ Direct(<<ch>>).busy
          /\ Fits(data, index', TRUE, Direct(<<ch>>))
      BY <2>1, DirectState
    <2> QED BY <1>0, <1>3, <2>2, <2>3, BeginIndexes
  <1>4. CASE CreateSensorSet(t)
    <2>1. PICK s \in SetIds, g \in NewGlobals :
            Ready(t, "create") /\ Call(t, [op |-> "create", set |-> s, globals |-> g])
      BY <1>4 DEF CreateSensorSet
    <2>2. [op |-> "create", set |-> s, globals |-> g] \in PlainSteps
      BY StorageConstants DEF StepShape, PlainSteps
    <2> QED BY <1>1, <1>3, <2>1, <2>2
  <1>5. CASE DeleteSensorSet(t)
    <2>1. PICK s \in SetIds : Ready(t, "delete") /\ Call(t, [op |-> "delete", set |-> s])
      BY <1>5 DEF DeleteSensorSet
    <2>2. [op |-> "delete", set |-> s] \in PlainSteps
      BY DEF StepShape, PlainSteps
    <2> QED BY <1>1, <1>3, <2>1, <2>2
  <1>6. CASE PersistSensor(t)
    <2>1. PICK u \in Uids, c \in NewConfigs :
            Ready(t, "persist") /\ Call(t, [op |-> "update", uid |-> u, config |-> c])
      BY <1>6 DEF PersistSensor
    <2>2. [op |-> "update", uid |-> u, config |-> c] \in PlainSteps
      BY StorageConstants DEF StepShape, PlainSteps
    <2> QED BY <1>1, <1>3, <2>1, <2>2
  <1>7. CASE GetSensorSet(t)
    <2>1. PICK s \in SetIds : /\ Ready(t, "get") /\ index' = Cached({s})
                              /\ UNCHANGED <<data, task, turn, torn>>
      BY <1>7 DEF GetSensorSet
    <2>2. \A k \in Tasks : (turn' = k) = FALSE /\ (turn = k) = FALSE
      BY <1>1, <2>1, StorageConstants
    <2>3. TasksOrderly'
      BY <2>1, <2>2 DEF TasksOrderly, IndexesKept, Fits
    <2>4. \A r \in SetIds : FreshIn(data, index, r) => FreshIn(data, index', r)
      BY <2>1, CachedFresh
    <2>5. IndexesAccounted'
      BY <2>1, <2>4 DEF IndexesAccounted, IndexesKept
    <2> QED BY <2>3, <2>5 DEF IndexesKept
  <1>8. CASE AddSensor(t)
    <2>1. PICK s \in SetIds, u \in Uids, c \in NewConfigs :
            /\ Ready(t, "add")
            /\ CallOnSet(t, s, [op |-> "store", set |-> s, uid |-> u, config |-> c])
      BY <1>8 DEF AddSensor
    <2>2. [op |-> "store", set |-> s, uid |-> u, config |-> c] \in StepShape
      BY StorageConstants DEF StepShape
    <2> QED BY <1>1, <1>2, <2>1, <2>2
  <1>9. CASE UpdateSensor(t)
    <2>0. PICK s \in SetIds : \E c \in NewConfigs : \E u \in SensorsOf(data, s) :
            /\ Ready(t, "update")
            /\ CallOnSet(t, s, [op |-> "update", uid |-> u, config |-> c])
      BY <1>9 DEF UpdateSensor
    <2>1. PICK c \in NewConfigs, u \in SensorsOf(data, s) :
            /\ Ready(t, "update")
            /\ CallOnSet(t, s, [op |-> "update", uid |-> u, config |-> c])
      BY <2>0
    <2>2. [op |-> "update", uid |-> u, config |-> c] \in StepShape
      BY StorageConstants, <1>0, SensorConfigType DEF StepShape
    <2> QED BY <1>1, <1>2, <2>1, <2>2
  <1>10. CASE RemoveSensor(t)
    <2>0. PICK s \in SetIds : \E u \in SensorsOf(data, s) :
            Ready(t, "remove") /\ CallOnSet(t, s, [op |-> "remove", uid |-> u])
      BY <1>10 DEF RemoveSensor
    <2>1. PICK u \in SensorsOf(data, s) :
            Ready(t, "remove") /\ CallOnSet(t, s, [op |-> "remove", uid |-> u])
      BY <2>0
    <2>2. [op |-> "remove", uid |-> u] \in StepShape
      BY <1>0, SensorConfigType DEF StepShape
    <2> QED BY <1>1, <1>2, <2>1, <2>2
  <1>11. CASE ReplaceSensors(t)
    <2>1. PICK s \in SetIds, b \in NewBatches :
            /\ Ready(t, "replace")
            /\ Begin(t, Direct(<<[op |-> "bulk", set |-> s, batch |-> b]>>))
            /\ index' = Cached({s}) /\ UNCHANGED torn
      BY <1>11 DEF ReplaceSensors
    <2> DEFINE ch == [op |-> "bulk", set |-> s, batch |-> b]
    <2>2. ch \in PlainSteps
      BY StorageConstants DEF StepShape, PlainSteps
    <2>3. Begin(t, Direct(<<ch>>))
      BY <2>1
    <2> HIDE DEF ch
    <2>4. <<ch>> \in Seq(PlainSteps)
      BY <2>2
    <2>5. /\ Direct(<<ch>>) \in TaskState /\ Direct(<<ch>>).busy
          /\ Fits(data, index', TRUE, Direct(<<ch>>))
      BY <2>4, DirectState
    <2>6. \A r \in SetIds : FreshIn(data, index, r) => FreshIn(data, index', r)
      BY <2>1, CachedFresh
    <2> QED BY <1>0, <1>1, <2>1, <2>3, <2>5, <2>6, BeginIndexes
  <1>12. CASE ReplaceSensorsRejected(t)
    <2>1. PICK s \in SetIds, b \in NewBatches :
            \E done \in SUBSET {u \in Keys(b) : ValidIn(data, s, b[u])} :
              /\ Ready(t, "replace")
              /\ data' = Touch(BatchStored(data, s,
                                 [u \in Uids |-> IF u \in done THEN b[u] ELSE Absent]))
              /\ SetExists(data, s) /\ Fail(s)
      BY <1>12 DEF ReplaceSensorsRejected
    <2>2. PICK done \in SUBSET {u \in Keys(b) : ValidIn(data, s, b[u])} :
              /\ Ready(t, "replace")
              /\ data' = Touch(BatchStored(data, s,
                                 [u \in Uids |-> IF u \in done THEN b[u] ELSE Absent]))
              /\ SetExists(data, s) /\ Fail(s)
      BY <2>1
    <2> DEFINE f == [u \in Uids |-> IF u \in done THEN b[u] ELSE Absent]
               e == BatchStored(data, s, f)
    <2>3. f \in Batches /\ data' = Touch(e)
      BY <2>2, StorageConstants DEF Batches
    <2> HIDE DEF f
    <2>4. /\ SameSets(data, e)
          /\ e.sensors = [u \in Uids |-> IF f[u] = Absent THEN data.sensors[u] ELSE SensorIn(s, f[u])]
      BY <1>0, <2>3, BatchEffect
    <2>5. e \in StorageContents
      BY <1>0, <2>2, <2>3, BatchKeeps DEF Keeps
    <2> HIDE DEF e
    <2>6. ASSUME NEW r \in SetIds, r # s
          PROVE  IndexOf(data', r) \subseteq IndexOf(data, r)
      <3>1. \A u \in Uids : HasSensor(e, u) /\ e.sensors[u].sensor_set_id = r =>
                              HasSensor(data, u) /\ e.sensors[u] = data.sensors[u]
        BY <2>4, <2>6 DEF HasSensor, SensorIn
      <3>2. IndexOf(e, r) \subseteq IndexOf(data, r)
        BY <2>4, <3>1, IndexShrinks DEF SameSets
      <3> QED BY <2>3, <2>5, <3>2, TouchIndex
    <2> QED BY <1>1, <2>2, <2>6, FailIndexes
  <1>13. CASE SetGlobalSettings(t)
    <2>1. PICK s \in SetIds, g \in NewGlobals :
            Ready(t, "globals") /\ CallOnSet(t, s, [op |-> "globals", set |-> s, globals |-> g])
      BY <1>13 DEF SetGlobalSettings
    <2>2. [op |-> "globals", set |-> s, globals |-> g] \in StepShape
      BY StorageConstants DEF StepShape
    <2> QED BY <1>1, <1>2, <2>1, <2>2
  <1>14. CASE DeleteGlobalSettings(t)
    <2>1. PICK s \in SetIds :
            Ready(t, "globals") /\ CallOnSet(t, s, [op |-> "drop", set |-> s])
      BY <1>14 DEF DeleteGlobalSettings
    <2>2. [op |-> "drop", set |-> s] \in StepShape
      BY DEF StepShape
    <2> QED BY <1>1, <1>2, <2>1, <2>2
  <1>15. CASE SetGlobalVariable(t)
    <2>1. PICK s \in SetIds, v \in Vars, e \in Entities \cup {Absent} :
            /\ Ready(t, "variable")
            /\ CallOnSet(t, s, [op |-> "globals", set |-> s, globals |-> WithVariable(s, v, e)])
      BY <1>15 DEF SetGlobalVariable
    <2>2. [op |-> "globals", set |-> s, globals |-> WithVariable(s, v, e)] \in StepShape
      BY <1>0, WithVariableType DEF StepShape, IInv
    <2> QED BY <1>1, <1>2, <2>1, <2>2
  <1>16. CASE SetGlobalVariableRejected(t)
    <2>1. PICK s \in SetIds, v \in Vars, e \in Entities \cup {Absent} :
            /\ Ready(t, "variable")
            /\ SetExists(data, s)
            /\ data' = IF data.sets[s].globals = Absent THEN data
                       ELSE Touch(GlobalsSet(data, s, WithVariable(s, v, e)))
            /\ Fail(s)
      BY <1>16 DEF SetGlobalVariableRejected
    <2> DEFINE g == WithVariable(s, v, e)
               d == GlobalsSet(data, s, g)
    <2>2. g \in Bindings
      BY <1>0, WithVariableType DEF IInv
    <2> HIDE DEF g
    <2>3. /\ d.sensors = data.sensors
          /\ \A r \in SetIds : r # s => GlobalsOf(d, r) = GlobalsOf(data, r)
      BY <1>0, <2>1, <2>2, GlobalsSetEffect
    <2>4. d \in StorageContents
      BY <1>0, <2>1, <2>2, GlobalsSetKeeps DEF Keeps
    <2>5. data' = data \/ data' = Touch(d)
      BY <2>1 DEF g
    <2> HIDE DEF d
    <2>6. ASSUME NEW r \in SetIds, r # s
          PROVE  IndexOf(data', r) \subseteq IndexOf(data, r)
      <3>1. IndexOf(d, r) \subseteq IndexOf(data, r)
        BY <2>3, <2>6, IndexShrinks DEF HasSensor
      <3> QED BY <2>4, <2>5, <3>1, TouchIndex
    <2> QED BY <1>1, <2>1, <2>6, FailIndexes
  <1>17. CASE ModifySensorSet(t)
    <2>1. PICK s \in SetIds, m \in Modifications :
            /\ Ready(t, "modify")
            /\ Begin(t, Direct(ModifyProgram(data, s, m)))
            /\ index' = [index EXCEPT ![s] = FinalIndex(data, s, m)]
            /\ torn' = IF IndexOf(data, s) \subseteq index'[s] THEN torn \ {s} ELSE torn \cup {s}
      BY <1>17 DEF ModifySensorSet
    <2> DEFINE p == ModifyProgram(data, s, m)
    <2>2. p \in Seq(PlainSteps)
      BY <1>0, ModifyProgramType, StorageConstants
    <2>3. Begin(t, Direct(p))
      BY <2>1
    <2> HIDE DEF p
    <2>4. Direct(p) \in TaskState /\ Direct(p).busy /\ Fits(data, index', TRUE, Direct(p))
      BY <2>2, DirectState
    <2>5. \A r \in SetIds : r # s => index'[r] = index[r]
      BY <2>1 DEF IInv, TypeOK
    <2>6. s \in torn' \/ FreshIn(data, index', s)
      BY <2>1 DEF FreshIn
    <2>7. \A r \in SetIds : FreshIn(data, index, r) => r \in torn' \/ FreshIn(data, index', r)
      BY <2>5, <2>6 DEF FreshIn
    <2>8. \A r \in torn : r \in torn' \/ FreshIn(data, index', r)
      BY <2>1, <2>6
    <2> QED BY <1>0, <1>1, <2>1, <2>3, <2>4, <2>7, <2>8, BeginIndexes
  <1>18. CASE ImportYaml(t)
    <2>1. PICK s \in SetIds, i \in Imports :
            /\ Ready(t, "import")
            /\ Begin(t, Running(ImportProgram(data, s, i)))
            /\ UNCHANGED <<index, torn>>
      BY <1>18 DEF ImportYaml
    <2> DEFINE p == ImportProgram(data, s, i)
    <2>2. p \in Seq(StepShape)
      BY <1>0, ImportTypes, StorageConstants
    <2>3. Orderly(p) /\ Settled(p)
      BY ImportsOrderly, StorageConstants
    <2> HIDE DEF p
    <2>4. FitsIn(data, index', p)
      BY <2>2, <2>3, SettledFits
    <2>5. Running(p) \in TaskState /\ Running(p).busy /\ Fits(data, index', TRUE, Running(p))
      BY <2>2, <2>3, <2>4, RunningState
    <2>6. Begin(t, Running(p))
      BY <2>1 DEF p
    <2> QED BY <1>0, <1>1, <2>1, <2>5, <2>6, BeginIndexes
  <1> QED BY <1>4, <1>5, <1>6, <1>7, <1>8, <1>9, <1>10, <1>11, <1>12, <1>13, <1>14, <1>15, <1>16,
             <1>17, <1>18 DEF Operation

\* A call that raises leaves the indexes it was to rebuild torn.
LEMMA RaiseIndexes ==
  ASSUME IInv, IndexesKept, NEW t \in Tasks, turn \in {t, Absent}, turn' = Absent,
         task' = Return(t), torn' = torn \cup Awaited(t), UNCHANGED <<data, index>>
  PROVE  IndexesKept'
  <1>1. Idle \in TaskState /\ Idle.left = <<>> /\ Fits(data', index', turn' = t, Idle)
    BY IdleState
  <1>2. torn' = torn \cup AwaitedIn(task[t].left)
    BY AwaitedSame
  <1>3. \A s \in SetIds : FreshIn(data, index, s) => FreshIn(data', index', s)
    OBVIOUS
  <1> QED BY <1>1, <1>2, <1>3, IndexMoves DEF Return

\* What a task that rebuilds indexes has left is orderly, and the others never
\* come to a step that rebuilds any.
LEMMA TurnOrderly ==
  ASSUME IInv, IndexesKept, NEW t \in Tasks, turn = t
  PROVE  /\ task[t].busy /\ task[t] \in TaskState /\ task[t].left \in Seq(StepShape)
         /\ ~task[t].direct => Orderly(task[t].left) /\ FitsIn(data, index, task[t].left)
         /\ task[t].direct => task[t].left \in Seq(PlainSteps)
         /\ task[t].left # <<>> /\ Step(t).op \in {"index", "config"} => ~task[t].direct
  <1>1. task[t] \in TaskState /\ task[t].left \in Seq(StepShape) /\ task[t].busy
    BY VersionTypes, TaskStates DEF IInv, InOnePlace
  <1>2. /\ task[t].direct => task[t].left \in Seq(PlainSteps)
        /\ ~task[t].direct => Orderly(task[t].left) /\ FitsIn(data, index, task[t].left)
    BY DEF IndexesKept, TasksOrderly, Fits
  <1>3. task[t].direct /\ task[t].left # <<>> => Step(t).op \notin {"index", "config"}
    BY <1>2, PlainAwaits DEF PlainSteps, Step
  <1> QED BY <1>1, <1>2, <1>3

\* The task goes on with the rest p of its program.
LEMMA RestState ==
  ASSUME NEW y \in TaskState, y.busy, NEW p \in Seq(StepShape)
  PROVE  LET x == [y EXCEPT !.left = p]
         IN  x \in TaskState /\ x.left = p /\ x.busy /\ x.direct = y.direct
  BY TaskStates DEF TaskState

LEMMA RebuildKeepsIndexes ==
  ASSUME IInv, IndexesKept, NEW t \in Tasks, RebuildIndex(t)
  PROVE  IndexesKept'
  <1> DEFINE left == task[t].left
             S == Step(t).sets
  <1>0. index \in [SetIds -> (SUBSET Entities) \cup {Absent}]
    BY DEF IInv, TypeOK
  <1>1. /\ turn = t /\ left # <<>> /\ Step(t) = Head(left) /\ Head(left).op = "index"
        /\ UNCHANGED data
        /\ index' = [s \in SetIds |-> IF s \in S /\ SetExists(data, s)
                                      THEN IndexOf(data, s) ELSE index[s]]
    BY DEF RebuildIndex, MyTurn, Step
  <1>2. /\ left \in Seq(StepShape) /\ Orderly(left) /\ Tail(left) \in Seq(StepShape)
        /\ task[t] \in TaskState /\ task[t].busy /\ ~task[t].direct
    BY <1>1, TurnOrderly
  <1>3. AwaitedBy(Head(left)) = S
    BY <1>1 DEF AwaitedBy
  <1>4. /\ Orderly(Tail(left)) /\ Settled(Tail(left))
        /\ AwaitedIn(left) = S \cup AwaitedIn(Tail(left))
    BY <1>1, <1>2, <1>3, TailOrderly
  <1>5. \A s \in SetIds : s \in S /\ SetExists(data, s) => FreshIn(data', index', s)
    BY <1>1 DEF FreshIn
  <1>6. \A s \in SetIds : FreshIn(data, index, s) => FreshIn(data', index', s)
    BY <1>1 DEF FreshIn
  <1>7. torn \subseteq SetIds /\ AwaitedIn(left) \subseteq SetIds
    BY <1>2, AwaitedType, AwaitedSame DEF IInv, TypeOK
  <1>8. Awaited(t) = AwaitedIn(left)
    BY AwaitedSame
  <1>9. CASE \A s \in S : SetExists(data, s)
    <2> DEFINE x == [task[t] EXCEPT !.left = Tail(left)]
    <2>1. task' = [task EXCEPT ![t] = x] /\ turn' = t /\ torn' = torn \ S
      BY <1>1, <1>9 DEF RebuildIndex, Advance
    <2>2. x \in TaskState /\ x.left = Tail(left) /\ x.busy /\ ~x.direct
      BY <1>2, RestState
    <2> HIDE DEF x, left, S
    <2>3. Fits(data', index', turn' = t, x)
      BY <1>2, <1>4, <2>2, SettledFits DEF Fits
    <2>4. \A s \in torn : s \in torn' \/ FreshIn(data', index', s)
      BY <1>5, <1>7, <1>9, <2>1
    <2>5. \A s \in SetIds : s \in AwaitedIn(left) =>
            s \in AwaitedIn(x.left) \/ FreshIn(data', index', s)
      BY <1>4, <1>5, <1>9, <2>2
    <2> QED BY <1>1, <1>6, <2>1, <2>2, <2>3, <2>4, <2>5, IndexMoves DEF left
  <1>10. CASE ~\A s \in S : SetExists(data, s)
    <2>1. /\ task' = [task EXCEPT ![t] = Idle] /\ turn' = Absent
          /\ torn' = {s \in torn \cup AwaitedIn(left) : s \in S => ~SetExists(data, s)}
      BY <1>8, <1>10 DEF RebuildIndex, Return
    <2>2. Idle \in TaskState /\ Idle.left = <<>> /\ Fits(data', index', turn' = t, Idle)
      BY IdleState
    <2> HIDE DEF left, S
    <2>3. \A s \in torn : s \in torn' \/ FreshIn(data', index', s)
      BY <1>5, <1>7, <2>1
    <2>4. \A s \in SetIds : s \in AwaitedIn(left) => s \in torn' \/ FreshIn(data', index', s)
      BY <1>5, <1>7, <2>1
    <2> QED BY <1>1, <1>6, <2>1, <2>2, <2>3, <2>4, IndexMoves DEF left
  <1> QED BY <1>9, <1>10

LEMMA ChangeKeepsIndexes ==
  ASSUME IInv, IndexesKept, NEW t \in Tasks, Change(t)
  PROVE  IndexesKept'
  <1> DEFINE left == task[t].left
             ch == Step(t)
             W == AwaitedIn(Tail(left))
             x == Saving(task[t], data'.version)
  <1>0. data \in StorageContents /\ SensorsHaveSets(data)
    BY DEF IInv, TypeOK, NoOrphanSensors
  <1>1. /\ turn = t /\ turn' = Absent /\ left # <<>> /\ ch = Head(left)
        /\ IsChange(ch) /\ Accepts(data, ch) /\ data' = Touch(Changed(data, ch))
        /\ UNCHANGED index /\ torn' = Torn(t, data') /\ task' = [task EXCEPT ![t] = x]
    BY DEF Change, MyTurn, Step
  <1>2. /\ left \in Seq(StepShape) /\ Tail(left) \in Seq(StepShape) /\ ch \in StepShape
        /\ task[t] \in TaskState /\ task[t].busy
    BY <1>1, TurnOrderly, TaskStates
  <1>3. data'.version \in Nat
    BY ChangeGrows, Parts DEF Grows
  <1>4. x \in TaskState /\ x.left = Tail(left) /\ x.busy /\ x.direct = task[t].direct
    BY <1>1, <1>2, <1>3, SavingState
  <1>5. (turn' = t) = FALSE /\ turn' \in {t, Absent}
    BY <1>1, StorageConstants
  <1>6. torn \subseteq torn'
    BY <1>1 DEF Torn
  <1>7. CASE task[t].direct
    <2>1. left \in Seq(PlainSteps)
      BY <1>1, <1>7, TurnOrderly
    <2>2. Tail(left) \in Seq(PlainSteps) /\ AwaitedIn(left) = {}
      BY <1>1, <2>1, PlainAwaits
    <2> HIDE DEF x, left, W, ch
    <2>3. Fits(data', index', turn' = t, x)
      BY <1>4, <1>7, <2>2 DEF Fits
    <2>4. ASSUME NEW r \in SetIds, FreshIn(data, index, r), r \notin torn'
          PROVE  FreshIn(data', index', r)
      <3>1. Untracked(data', r) = {}
        BY <1>1, <1>7, <2>4 DEF Torn
      <3> QED BY <1>1, <2>4, <3>1 DEF FreshIn, Untracked
    <2> QED BY <1>1, <1>4, <1>5, <1>6, <2>2, <2>3, <2>4, IndexMoves DEF left
  <1>8. CASE ~task[t].direct
    <2>1. Orderly(left) /\ FitsIn(data, index, left)
      BY <1>1, <1>8, TurnOrderly
    <2>2. AwaitedBy(ch) = {}
      BY <1>1 DEF AwaitedBy, IsChange
    <2>3. Changed(data, ch) \in StorageContents
      BY <1>0, <1>1, <1>2, ChangedKeeps DEF Keeps
    <2> HIDE DEF left, ch, W, x
    <2>4. /\ Orderly(Tail(left)) /\ Settled(Tail(left)) /\ AwaitedIn(left) = AwaitedBy(ch) \cup W
          /\ ch.op \notin {"write", "bulk", "registry"}
          /\ ch.op \in {"create", "delete", "drop", "store", "globals"} => ch.set \in W
      BY <1>1, <1>2, <2>1, TailOrderly DEF W
    <2>5. AwaitedIn(left) = W
      BY <2>2, <2>4
    <2>6. /\ ch.op = "update" /\ HasSensor(data, ch.uid) => data.sensors[ch.uid].sensor_set_id \in W
          /\ ch.op = "rename" =>
               \A s \in SetIds : SetExists(data, s) /\ index[s] # Absent /\ s \notin W
                                   => ch.old \notin index[s]
      BY <1>1, <2>1, <2>5 DEF FitsIn
    <2>7. ASSUME NEW r \in SetIds, FreshIn(data, index, r), r \notin W
          PROVE  FreshIn(data', index', r)
      <3>1. SUFFICES ASSUME index[r] # Absent PROVE IndexOf(data', r) \subseteq index[r]
        BY <1>1 DEF FreshIn
      <3>2. IndexOf(Changed(data, ch), r) \subseteq IndexOf(data, r)
        BY <1>0, <1>1, <1>2, <2>4, <2>6, <2>7, <3>1, ChangeAccounts
      <3>3. IndexOf(data', r) = IndexOf(Changed(data, ch), r)
        BY <1>1, <2>3, TouchIndex
      <3> QED BY <2>7, <3>1, <3>2, <3>3 DEF FreshIn
    <2>8. Fits(data', index', turn' = t, x)
      BY <1>4, <1>5, <1>8, <2>4 DEF Fits
    <2> QED BY <1>1, <1>4, <1>5, <1>6, <2>5, <2>7, <2>8, IndexMoves DEF left, W
  <1> QED BY <1>7, <1>8

\* The event of a rename; the task that caused it, if any, is done.
LEMMA EventIndexes ==
  ASSUME IInv, IndexesKept, NEW l \in Listeners, NEW old \in Entities, NEW new \in Entities,
         NEW rest \in [Tasks -> TaskState], Event(l, old, new, rest), UNCHANGED <<data, torn>>,
         \A k \in Tasks : \/ turn # k /\ rest[k] = task[k]
                          \/ rest[k] = Idle /\ AwaitedIn(task[k].left) = {}
  PROVE  IndexesKept'
  <1> DEFINE stored   == {s \in SetIds : SetExists(data, s)}
             tracking == {s \in stored : old \in Cached(stored)[s]}
             p == <<[op |-> "rename", old |-> old, new |-> new], IndexStep(tracking)>>
  <1>1. /\ index' = Cached(stored)
        /\ \/ task' = rest /\ turn' = Absent
           \/ ~task[l].busy /\ turn' = l /\ task' = [rest EXCEPT ![l] = Running(p)]
    BY DEF Event
  <1>2. \A r \in SetIds : FreshIn(data, index, r) => FreshIn(data', index', r)
    BY <1>1, CachedFresh
  <1>3. ASSUME NEW k \in Tasks
        PROVE  /\ rest[k].busy \/ rest[k].left = <<>>
               /\ \A d, ix : Fits(d, ix, FALSE, rest[k])
    <2>1. CASE turn # k /\ rest[k] = task[k]
      <3>1. (turn = k) = FALSE
        BY <2>1
      <3> QED BY <2>1, <3>1 DEF IndexesKept, TasksOrderly, Fits
    <2>2. CASE rest[k] = Idle
      BY <2>2, IdleState
    <2> QED BY <2>1, <2>2
  <1>4. CASE task' = rest /\ turn' = Absent
    <2>1. \A k \in Tasks : (turn' = k) = FALSE
      BY <1>4, StorageConstants
    <2>2. TasksOrderly'
      BY <1>3, <1>4, <2>1 DEF TasksOrderly
    <2>3. \A s, k : k \in Tasks /\ s \in AwaitedIn(task[k].left) => s \in AwaitedIn(task'[k].left)
      BY <1>4
    <2>4. IndexesAccounted'
      BY <1>2, <2>3 DEF IndexesAccounted, IndexesKept
    <2> QED BY <2>2, <2>4 DEF IndexesKept
  <1>5. CASE ~task[l].busy /\ turn' = l /\ task' = [rest EXCEPT ![l] = Running(p)]
    <2>1. Orderly(p) /\ AwaitedIn(p) = tracking
      BY RenameOrderly
    <2>2. p \in Seq(StepShape) /\ Head(p).op = "rename" /\ Head(p).old = old
      BY DEF StepShape, IndexStep
    <2>3. \A s \in SetIds : SetExists(data, s) /\ s \notin tracking => old \notin index'[s]
      BY <1>1
    <2>4. task[l].left = <<>> /\ l \in Tasks
      BY <1>5 DEF IndexesKept, TasksOrderly, Tasks
    <2> HIDE DEF p, tracking
    <2>5. FitsIn(data', index', p)
      BY <2>1, <2>2, <2>3 DEF FitsIn
    <2>6. Running(p).busy /\ Fits(data', index', TRUE, Running(p))
      BY <2>1, <2>2, <2>5, RunningState
    <2>7. AwaitedIn(task[l].left) = {}
      BY <2>4, EmptyOrderly
    <2>8. \A k \in Tasks : task'[k] = IF k = l THEN Running(p) ELSE rest[k]
      BY <1>5
    <2>9. TasksOrderly'
      <3> SUFFICES ASSUME NEW k \in Tasks
                   PROVE  /\ task'[k].busy \/ task'[k].left = <<>>
                          /\ Fits(data', index', turn' = k, task'[k])
        BY DEF TasksOrderly
      <3>1. CASE k = l
        <4>1. (turn' = k) = TRUE
          BY <1>5, <3>1
        <4> QED BY <2>6, <2>8, <3>1, <4>1
      <3>2. CASE k # l
        <4>1. (turn' = k) = FALSE
          BY <1>5, <3>2
        <4> QED BY <1>3, <2>8, <3>2, <4>1
      <3> QED BY <3>1, <3>2
    <2>10. \A s, k : k \in Tasks /\ s \in AwaitedIn(task[k].left) => s \in AwaitedIn(task'[k].left)
      BY <2>7, <2>8
    <2>11. IndexesAccounted'
      BY <1>2, <2>10 DEF IndexesAccounted, IndexesKept
    <2> QED BY <2>9, <2>11 DEF IndexesKept
  <1> QED BY <1>1, <1>4, <1>5

LEMMA ProceedKeepsIndexes ==
  ASSUME IInv, IndexesKept, NEW t \in Tasks, Proceed(t)
  PROVE  IndexesKept'
  <1> DEFINE left == task[t].left
  <1>0. turn = t => /\ task[t].busy /\ task[t] \in TaskState /\ left \in Seq(StepShape)
                    /\ left # <<>> => Tail(left) \in Seq(StepShape) /\ Step(t) \in StepShape
                    /\ Step(t) = Head(left)
    BY TurnOrderly, TaskStates DEF Step
  <1>1. turn = t /\ ~task[t].direct /\ left # <<>> =>
          /\ Orderly(Tail(left)) /\ Settled(Tail(left))
          /\ AwaitedIn(left) = AwaitedBy(Step(t)) \cup AwaitedIn(Tail(left))
          /\ Step(t).op # "registry"
          /\ Step(t).op = "config" => AwaitedIn(left) \subseteq {Step(t).set}
    BY <1>0, TurnOrderly, TailOrderly
  <1>2. turn = t /\ task[t].direct =>
          /\ AwaitedIn(left) = {}
          /\ left # <<>> => Tail(left) \in Seq(PlainSteps)
    BY TurnOrderly, PlainAwaits
  <1>3. CASE Change(t)
    BY <1>3, ChangeKeepsIndexes
  <1>4. CASE Skip(t)
    <2> DEFINE x == [task[t] EXCEPT !.left = Tail(left)]
    <2>1. /\ turn = t /\ turn' = t /\ left # <<>> /\ IsChange(Step(t))
          /\ task' = [task EXCEPT ![t] = x] /\ UNCHANGED <<data, index, torn>>
      BY <1>4 DEF Skip, MyTurn, Advance
    <2>2. AwaitedBy(Step(t)) = {}
      BY <2>1 DEF AwaitedBy, IsChange
    <2>3. x \in TaskState /\ x.left = Tail(left) /\ x.busy /\ x.direct = task[t].direct
      BY <1>0, <2>1, RestState
    <2> HIDE DEF x, left
    <2>4. Fits(data', index', turn' = t, x)
      BY <1>0, <1>1, <1>2, <2>1, <2>3, SettledFits DEF Fits
    <2>5. \A s \in SetIds : FreshIn(data, index, s) => FreshIn(data', index', s)
      BY <2>1
    <2>6. AwaitedIn(left) \subseteq AwaitedIn(x.left)
      BY <1>1, <1>2, <2>1, <2>2, <2>3
    <2> QED BY <2>1, <2>3, <2>4, <2>5, <2>6, IndexMoves DEF left
  <1>5. CASE Reject(t)
    BY <1>5, RaiseIndexes DEF Reject, MyTurn
  <1>6. CASE RebuildIndex(t)
    BY <1>6, RebuildKeepsIndexes
  <1>7. CASE StartConfig(t)
    <2> DEFINE s == Step(t).set
               p == FromConfig(data, s, Step(t).import)
               x == [task[t] EXCEPT !.left = p]
    <2>1. /\ turn = t /\ turn' = t /\ left # <<>> /\ Step(t).op = "config"
          /\ index' = IF SetExists(data, s) THEN Cached({s}) ELSE index
          /\ task' = [task EXCEPT ![t] = x] /\ UNCHANGED <<data, torn>>
      BY <1>7 DEF StartConfig, MyTurn
    <2>2. s \in SetIds /\ Step(t).import \in ImportShape /\ ~task[t].direct
      BY <1>0, <2>1, StepParts, TurnOrderly
    <2>3. p \in Seq(StepShape) /\ Orderly(p) /\ Settled(p) /\ AwaitedIn(p) = {s}
      BY <2>2, ImportTypes, ImportsOrderly DEF IInv, TypeOK
    <2>4. AwaitedIn(left) \subseteq {s}
      BY <1>1, <2>1, <2>2
    <2> HIDE DEF p, s
    <2>5. x \in TaskState /\ x.left = p /\ x.busy /\ ~x.direct
      BY <1>0, <2>1, <2>2, <2>3, RestState
    <2> HIDE DEF x, left
    <2>6. Fits(data', index', turn' = t, x)
      BY <2>3, <2>5, SettledFits DEF Fits
    <2>7. \A r \in SetIds : FreshIn(data, index, r) => FreshIn(data', index', r)
      BY <2>1, CachedFresh
    <2> QED BY <2>1, <2>3, <2>4, <2>5, <2>6, <2>7, IndexMoves DEF left
  <1>8. ASSUME turn = t, turn' = Absent, task' = Return(t), UNCHANGED <<data, index, torn>>,
               AwaitedIn(left) = {}
        PROVE  IndexesKept'
    <2>1. Idle \in TaskState /\ Idle.left = <<>> /\ Fits(data', index', turn' = t, Idle)
      BY IdleState
    <2>2. \A s \in SetIds : FreshIn(data, index, s) => FreshIn(data', index', s)
      BY <1>8
    <2> QED BY <1>8, <2>1, <2>2, IndexMoves DEF Return
  <1>9. CASE Finish(t)
    <2>1. AwaitedIn(left) = {}
      BY <1>9, EmptyOrderly DEF Finish
    <2> QED BY <1>8, <1>9, <2>1 DEF Finish
  <1>10. CASE NotInRegistry(t)
    <2>1. turn = t /\ AwaitedIn(left) = {}
      BY <1>1, <1>2, <1>10 DEF NotInRegistry, MyTurn
    <2> QED BY <1>8, <1>10, <2>1 DEF NotInRegistry
  <1>11. ASSUME NEW l \in Listeners, RenameInRegistry(t, l) PROVE IndexesKept'
    <2>1. /\ turn = t /\ left # <<>> /\ Step(t).op = "registry" /\ UNCHANGED <<data, torn>>
          /\ Event(l, Step(t).old, Step(t).new, Return(t))
      BY <1>11 DEF RenameInRegistry, MyTurn
    <2>2. Step(t).old \in Entities /\ Step(t).new \in Entities
      BY <1>0, <2>1, StepParts
    <2>3. AwaitedIn(left) = {}
      BY <1>1, <1>2, <2>1
    <2>4. /\ Return(t) \in [Tasks -> TaskState]
          /\ \A k \in Tasks : Return(t)[k] = IF k = t THEN Idle ELSE task[k]
      BY VersionTypes, IdleState DEF Return
    <2>5. \A k \in Tasks : \/ turn # k /\ Return(t)[k] = task[k]
                           \/ Return(t)[k] = Idle /\ AwaitedIn(task[k].left) = {}
      BY <2>1, <2>3, <2>4
    <2> QED BY <2>1, <2>2, <2>4, <2>5, EventIndexes
  <1> QED BY <1>3, <1>4, <1>5, <1>6, <1>7, <1>9, <1>10, <1>11 DEF Proceed

LEMMA RenameKeepsIndexes ==
  ASSUME IInv, IndexesKept, NEW l \in Listeners, RenameEntity(l)
  PROVE  IndexesKept'
  <1>1. PICK old \in Entities, new \in Entities :
          turn = Absent /\ Event(l, old, new, task) /\ UNCHANGED <<data, torn>>
    BY DEF RenameEntity
  <1>2. task \in [Tasks -> TaskState] /\ \A k \in Tasks : turn # k /\ task[k] = task[k]
    BY <1>1, VersionTypes, StorageConstants
  <1> QED BY <1>1, <1>2, EventIndexes

LEMMA IndexesStayKept ==
  ASSUME IInv, IndexesKept, [Next]_vars
  PROVE  IndexesKept'
  <1>1. CASE UNCHANGED vars
    BY <1>1 DEF vars, IndexesKept, TasksOrderly, IndexesAccounted
  <1>2. ASSUME NEW t \in Clients, Operation(t) PROVE IndexesKept'
    BY <1>2, OperationIndexes
  <1>3. ASSUME NEW t \in Tasks, Proceed(t) PROVE IndexesKept'
    BY <1>3, ProceedKeepsIndexes
  <1>4. ASSUME NEW t \in Tasks, Acquire(t) \/ Saved(t) PROVE IndexesKept'
    <2>1. turn = Absent /\ turn' \in {t, Absent} /\ UNCHANGED <<data, index, torn, task>>
      BY <1>4 DEF Acquire, Saved
    <2>2. \A k \in Tasks : (turn = k) = FALSE
      BY <2>1, StorageConstants
    <2>3. \A k \in Tasks : task[k].left \in Seq(StepShape)
      BY VersionTypes, TaskStates
    <2>4. \A k \in Tasks, mine \in BOOLEAN : Fits(data, index, mine, task[k])
      BY <2>2, <2>3, SettledFits DEF IndexesKept, TasksOrderly, Fits
    <2>5. \A k \in Tasks : (turn' = k) \in BOOLEAN
      OBVIOUS
    <2>6. TasksOrderly'
      BY <2>1, <2>4, <2>5 DEF IndexesKept, TasksOrderly
    <2>7. IndexesAccounted'
      BY <2>1 DEF IndexesKept, IndexesAccounted
    <2> QED BY <2>6, <2>7 DEF IndexesKept
  <1>5. ASSUME NEW t \in Tasks, SaveFailed(t) PROVE IndexesKept'
    BY <1>5, RaiseIndexes DEF SaveFailed
  <1>6. ASSUME NEW l \in Listeners, RenameEntity(l) PROVE IndexesKept'
    BY <1>6, RenameKeepsIndexes
  <1>7. CASE Restart
    <2>1. /\ \A k \in Tasks : task'[k] = Idle
          /\ \A s \in SetIds : index'[s] = Absent
      BY <1>7 DEF Restart
    <2>2. TasksOrderly'
      BY <2>1, IdleState DEF TasksOrderly
    <2>3. IndexesAccounted'
      BY <2>1 DEF IndexesAccounted, FreshIn
    <2> QED BY <2>2, <2>3 DEF IndexesKept
  <1> QED BY <1>1, <1>2, <1>3, <1>4, <1>5, <1>6, <1>7 DEF Next

\* When nothing is under way, the index of a cached set covers every entity its
\* sensors and globals name, unless it is recorded as torn: whatever operations,
\* imports, renames, failing saves and restarts came before.
THEOREM IndexHolds == Spec => []IndexComplete
  <1>1. Init => IndexesKept
    <2> SUFFICES ASSUME Init PROVE IndexesKept
      OBVIOUS
    <2>1. (\A t \in Tasks : task[t] = Idle) /\ \A s \in SetIds : index[s] = Absent
      BY DEF Init
    <2>2. TasksOrderly
      BY <2>1, IdleState DEF TasksOrderly
    <2>3. IndexesAccounted
      BY <2>1 DEF IndexesAccounted, FreshIn
    <2> QED BY <2>2, <2>3 DEF IndexesKept
  <1>2. IInv /\ IndexesKept /\ [Next]_vars => IndexesKept'
    BY IndexesStayKept
  <1>3. IndexesKept => IndexComplete
    <2> SUFFICES ASSUME IndexesKept, AllQuiet, NEW s \in SetIds \ torn,
                        SetExists(data, s), index[s] # Absent
                 PROVE  IndexOf(data, s) \subseteq index[s]
      BY DEF IndexComplete
    <2>1. \A t \in Tasks : AwaitedIn(task[t].left) = {}
      BY EmptyOrderly DEF IndexesKept, TasksOrderly, AllQuiet
    <2> QED BY <2>1 DEF IndexesKept, IndexesAccounted, FreshIn
  <1>4. Spec => []IndexesKept
    BY <1>1, <1>2, Invariance, PTL DEF Spec
  <1> QED BY <1>3, <1>4, PTL
=============================================================================
