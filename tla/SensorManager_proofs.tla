------------------------ MODULE SensorManager_proofs ------------------------
(***************************************************************************)
(* The manager for any sensors, configurations and entity ids: a managed   *)
(* sensor is registered with the evaluator, a load keeps the manager in    *)
(* step with its configuration, and, when no entity id is used for two     *)
(* sensors, the lookup by entity id agrees with the one by unique id.      *)
(***************************************************************************)
EXTENDS SensorManager, TLAPS

\* What a load has yet to do: make sensors that are not managed, within the
\* bound, and treat no sensor twice.
JobSound ==
  job # None =>
    /\ current # None
    /\ job.make \subseteq Enabled(current) /\ job.remake \subseteq Enabled(current)
    /\ job.update \subseteq Listed(current)
    /\ (job.make \cup job.remake) \cap Managed = {}
    /\ job.make \cap job.update = {} /\ job.make \cap job.remake = {}
    /\ job.update \cap job.remake = {} /\ \A u, v \in job.remake : u = v
    /\ \A u \in (job.make \cup job.update \cup job.remake) \cap Enabled(current) :
         made[u] < MaxMade
    /\ job.stage = "register" => job.old = None

\* A sensor that a load is done with is as the configuration says.
Settled(u) ==
  /\ u \in Managed <=> u \in Enabled(current)
  /\ u \in Managed => /\ sensor[Object(u)].conf = current[u]
                      /\ sensor[Object(u)].place # "made" \/ u \in job.fresh

KeepsUp ==
  /\ job.inStep /\ ~job.reload
  /\ job.old # None => NewlyEnabled(job.old, current) = {}

Progress ==
  job # None /\ KeepsUp =>
    \A u \in Uids :
      \/ u \in Enabled(current) /\ u \in job.make \cup job.remake
      \/ u \in job.update
      \/ Settled(u)

IInv == TypeOK /\ ManagedAreRegistered /\ JobSound /\ Progress

Names(e) == {e} \cup Assigns[e]

OwnIds ==
  \A c, d \in Configs : \A u \in Listed(c), v \in Listed(d) :
    u # v => Names(c[u].entity) \cap Names(d[v].entity) = {}

\* Where the entity ids come from: an object keeps the one it was created with
\* until Home Assistant adds it, and is tracked under that one.
IdsKnown ==
  /\ \A i \in Instances :
       sensor[i] # None =>
         /\ \E c \in Configs : i[1] \in Listed(c) /\ sensor[i].conf = c[i[1]]
         /\ sensor[i].entity \in Names(sensor[i].conf.entity)
         /\ sensor[i].place \in {"made", "queued"} => sensor[i].entity = sensor[i].conf.entity
  /\ \A e \in EntityIds : byEntity[e] # None => sensor[byEntity[e]].conf.entity = e

LInv == IdsKnown /\ LookupsAgree

\* What a load hands over at its end has just been made.
FreshMade ==
  job # None =>
    \A u \in job.fresh : /\ u \in Managed /\ sensor[Object(u)].place = "made"
                         /\ u \notin job.make \cup job.update \cup job.remake

\* The part of TypeOK about the objects and where they are tracked.
TrackOK ==
  /\ made \in [Uids -> 0..MaxMade]
  /\ managed \in [Uids -> 0..MaxMade] /\ \A u \in Uids : managed[u] <= made[u]
  /\ byEntity \in [EntityIds -> Instances \cup {None}]
  /\ \A e \in EntityIds : byEntity[e] # None => byEntity[e][2] <= made[byEntity[e][1]]
  /\ registry \in [Uids -> EntityIds \cup {None}]
  /\ sensor \in [Instances -> Sensors \cup {None}]
  /\ \A i \in Instances : sensor[i] # None <=> i[2] <= made[i[1]]

RestOK ==
  /\ current \in Configs \cup {None} /\ setup \in BOOLEAN
  /\ providers \subseteq Backings
  /\ device \in BOOLEAN /\ job \in Jobs \cup {None}

LEMMA TypeParts == TypeOK <=> TrackOK /\ RestOK
  BY DEF TypeOK, TrackOK, RestOK

-----------------------------------------------------------------------------
(* Making and removing *)

LEMMA ManagedObject ==
  ASSUME TrackOK, NEW u \in Managed
  PROVE  /\ u \in Uids /\ managed[u] \in 1..MaxMade /\ Object(u) \in Instances
         /\ sensor[Object(u)] \in Sensors /\ Object(u)[1] = u /\ Object(u)[2] = managed[u]
  <1>1. u \in Uids /\ managed[u] \in 1..MaxMade /\ managed[u] <= made[u]
    BY ManagerConstants DEF TrackOK, Managed
  <1>2. Object(u) \in Instances /\ Object(u)[1] = u /\ Object(u)[2] = managed[u]
    BY <1>1 DEF Object, Instances
  <1>3. sensor[Object(u)] # None
    BY <1>1, <1>2 DEF TrackOK
  <1> QED BY <1>1, <1>2, <1>3 DEF TrackOK

LEMMA MakeTracks ==
  ASSUME TrackOK, ManagedAreRegistered,
         NEW u \in Uids, NEW entry \in Entries, NEW place \in Places,
         made[u] < MaxMade, Make(u, entry, place)
  PROVE  /\ TrackOK' /\ ManagedAreRegistered'
         /\ Managed' = Managed \cup {u}
         /\ \A v \in Uids \ {u} : /\ made'[v] = made[v] /\ Object(v)' = Object(v)
                                  /\ sensor'[Object(v)] = sensor[Object(v)]
         /\ Object(u)' = <<u, made[u] + 1>> /\ Object(u)' \in Instances
         /\ sensor'[Object(u)'] = [conf |-> entry, entity |-> entry.entity, place |-> place]
  <1> DEFINE n == made[u] + 1
             new == <<u, n>>
             s == [conf |-> entry, entity |-> entry.entity, place |-> place]
  <1>1. /\ made[u] \in 0..MaxMade /\ n \in 1..MaxMade /\ new \in Instances
        /\ new[1] = u /\ new[2] = n
    BY ManagerConstants DEF TrackOK, Instances
  <1>2. entry.entity \in EntityIds /\ s \in Sensors /\ s # None /\ entry.entity # None
    BY ManagerConstants DEF Entries, Sensors
  <1>3. /\ made' = [made EXCEPT ![u] = n] /\ sensor' = [sensor EXCEPT ![new] = s]
        /\ managed' = [managed EXCEPT ![u] = n]
        /\ byEntity' = [byEntity EXCEPT ![entry.entity] = new]
        /\ registry' = [registry EXCEPT ![u] = entry.entity]
    BY DEF Make
  <1> HIDE DEF s
  <1>4. made' \in [Uids -> 0..MaxMade] /\ managed' \in [Uids -> 0..MaxMade]
    BY <1>1, <1>3, ManagerConstants DEF TrackOK
  <1>5. /\ \A v \in Uids : v # u => made'[v] = made[v] /\ managed'[v] = managed[v]
        /\ made'[u] = n /\ managed'[u] = n
        /\ \A v \in Uids : managed'[v] <= made'[v] /\ made[v] <= made'[v]
    BY <1>1, <1>3 DEF TrackOK
  <1>6. byEntity' \in [EntityIds -> Instances \cup {None}]
    BY <1>1, <1>2, <1>3 DEF TrackOK
  <1>7. ASSUME NEW e \in EntityIds, byEntity'[e] # None
        PROVE  byEntity'[e][2] <= made'[byEntity'[e][1]]
    <2>1. CASE e = entry.entity
      <3>1. byEntity'[e] = new
        BY <2>1, <1>3 DEF TrackOK
      <3> QED BY <3>1, <1>1, <1>5
    <2>2. CASE e # entry.entity
      <3>1. byEntity'[e] = byEntity[e] /\ byEntity[e] \in Instances
        BY <2>2, <1>3, <1>7 DEF TrackOK
      <3>2. byEntity[e][1] \in Uids /\ byEntity[e][2] \in 1..MaxMade
        BY <3>1 DEF Instances
      <3>3. byEntity[e][2] <= made[byEntity[e][1]]
        BY <3>1, <1>7 DEF TrackOK
      <3>4. made[byEntity[e][1]] <= made'[byEntity[e][1]]
        BY <3>2, <1>5
      <3>5. made[byEntity[e][1]] \in Nat /\ made'[byEntity[e][1]] \in Nat
        BY <3>2, <1>4, ManagerConstants DEF TrackOK
      <3> QED BY <3>1, <3>2, <3>3, <3>4, <3>5
    <2> QED BY <2>1, <2>2
  <1>8. registry' \in [Uids -> EntityIds \cup {None}] /\ ManagedAreRegistered'
    BY <1>2, <1>3, <1>5 DEF TrackOK, ManagedAreRegistered, Managed
  <1>9. sensor' \in [Instances -> Sensors \cup {None}]
    BY <1>1, <1>2, <1>3 DEF TrackOK
  <1>10. ASSUME NEW i \in Instances
         PROVE  sensor'[i] # None <=> i[2] <= made'[i[1]]
    <2>0. i[1] \in Uids /\ i[2] \in 1..MaxMade /\ i = <<i[1], i[2]>>
      BY DEF Instances
    <2>1. CASE i = new
      BY <2>1, <1>1, <1>2, <1>3, <1>5 DEF TrackOK
    <2>2. CASE i # new /\ i[1] = u
      <3>1. sensor'[i] = sensor[i] /\ i[2] # n
        BY <2>0, <2>2, <1>3 DEF TrackOK
      <3>2. sensor[i] # None <=> i[2] <= made[u]
        BY <2>2 DEF TrackOK
      <3>3. i[2] <= made[u] <=> i[2] <= n
        BY <3>1, <2>0, <1>1
      <3> QED BY <3>1, <3>2, <3>3, <2>2, <1>5
    <2>3. CASE i # new /\ i[1] # u
      BY <2>3, <2>0, <1>3, <1>5 DEF TrackOK
    <2> QED BY <2>1, <2>2, <2>3
  <1>11. TrackOK'
    BY <1>4, <1>5, <1>6, <1>7, <1>8, <1>9, <1>10 DEF TrackOK
  <1>12. Managed' = Managed \cup {u}
    BY <1>1, <1>5 DEF Managed
  <1>13. ASSUME NEW v \in Uids \ {u}
         PROVE  /\ made'[v] = made[v] /\ Object(v)' = Object(v)
                /\ sensor'[Object(v)] = sensor[Object(v)]
    <2>1. Object(v) # new
      BY DEF Object
    <2>2. sensor'[Object(v)] = sensor[Object(v)]
      BY <2>1, <1>3, <1>9 DEF TrackOK
    <2> QED BY <2>2, <1>5 DEF Object
  <1>14. Object(u)' = new /\ sensor'[new] = s
    BY <1>1, <1>3, <1>5 DEF Object, TrackOK
  <1> QED BY <1>1, <1>8, <1>11, <1>12, <1>13, <1>14 DEF s

LEMMA UntrackedTracks ==
  ASSUME TrackOK, NEW R \in SUBSET Uids, Untracked(R), UNCHANGED <<made, sensor>>,
         registry' \in [Uids -> EntityIds \cup {None}]
  PROVE  /\ TrackOK' /\ Managed' = Managed \ R
         /\ \A v \in Uids \ R : Object(v)' = Object(v)
  <1>1. /\ managed' = [u \in Uids |-> IF u \in R THEN 0 ELSE managed[u]]
        /\ byEntity' = [e \in EntityIds |->
                          IF \E u \in R \cap Managed : Entity(u) = e THEN None ELSE byEntity[e]]
    BY DEF Untracked
  <1>2. managed' \in [Uids -> 0..MaxMade] /\ \A u \in Uids : managed'[u] <= made'[u]
    BY <1>1, ManagerConstants DEF TrackOK
  <1>3. \A e \in EntityIds : byEntity'[e] = None \/ byEntity'[e] = byEntity[e]
    BY <1>1
  <1>4. byEntity' \in [EntityIds -> Instances \cup {None}]
    BY <1>1, <1>3 DEF TrackOK
  <1>5. \A e \in EntityIds : byEntity'[e] # None => byEntity'[e][2] <= made'[byEntity'[e][1]]
    BY <1>3 DEF TrackOK
  <1>6. TrackOK'
    BY <1>2, <1>4, <1>5 DEF TrackOK
  <1>7. Managed' = Managed \ R
    BY <1>1 DEF Managed
  <1>8. \A v \in Uids \ R : Object(v)' = Object(v)
    BY <1>1 DEF Object
  <1> QED BY <1>6, <1>7, <1>8

LEMMA RemovedTracks ==
  ASSUME TrackOK, ManagedAreRegistered, NEW R \in SUBSET Uids,
         Removed(R), UNCHANGED <<made, sensor>>
  PROVE  /\ TrackOK' /\ ManagedAreRegistered' /\ Managed' = Managed \ R
         /\ \A v \in Uids \ R : Object(v)' = Object(v)
  <1>1. registry' \in [Uids -> EntityIds \cup {None}]
    BY DEF Removed, TrackOK
  <1>2. /\ TrackOK' /\ Managed' = Managed \ R
        /\ \A v \in Uids \ R : Object(v)' = Object(v)
    BY <1>1, UntrackedTracks DEF Removed
  <1>3. ManagedAreRegistered'
    <2>1. \A u \in Managed' : u \in Managed /\ u \in Uids /\ registry'[u] = registry[u]
      BY <1>2 DEF Removed, Managed
    <2> QED BY <2>1 DEF ManagedAreRegistered
  <1> QED BY <1>2, <1>3

-----------------------------------------------------------------------------
(* Beginning and ending a load *)

LEMMA ConfigEntries ==
  ASSUME NEW c \in Configs
  PROVE  /\ c # None /\ Listed(c) \subseteq Uids /\ Enabled(c) \subseteq Listed(c)
         /\ \A u \in Listed(c) : c[u] \in Entries /\ c[u].entity \in EntityIds
  BY ManagerConstants DEF Listed, Enabled, Entries

LEMMA JobType ==
  ASSUME RestOK, NEW c \in Configs, NEW M, NEW reload \in BOOLEAN
  PROVE  /\ Job(c, M, reload) \in Jobs
         /\ Job(c, M, reload).old = current
         /\ Job(c, M, reload).make = (Enabled(c) \ Before) \ M
         /\ Job(c, M, reload).update = Before \cap Listed(c) \cap M
         /\ Job(c, M, reload).remake = {} /\ Job(c, M, reload).fresh = {}
         /\ Job(c, M, reload).reload = reload
         /\ Job(c, M, reload).stage = "register" => current = None
         /\ Job(c, M, reload).inStep
              => IF current = None THEN Managed = {} ELSE InStep(current)
  <1> DEFINE b == IF current = None THEN Managed = {} ELSE InStep(current)
             st == IF current = None THEN "register" ELSE "make"
             mk == (Enabled(c) \ Before) \ M
             up == Before \cap Listed(c) \cap M
  <1>1. b \in BOOLEAN
    BY DEF InStep
  <1>2. st \in {"register", "make"} /\ (st = "register" => current = None)
    BY Zenon
  <1>3. mk \subseteq Uids /\ up \subseteq Uids
    BY DEF Listed, Enabled
  <1>4. current \in Configs \cup {None}
    BY DEF RestOK
  <1>5. Job(c, M, reload) = [old |-> current, reload |-> reload, stage |-> st, make |-> mk,
                             update |-> up, remake |-> {}, fresh |-> {}, inStep |-> b]
    BY DEF Job
  <1>6. b => IF current = None THEN Managed = {} ELSE InStep(current)
    BY Zenon
  <1> HIDE DEF b, st, mk, up
  <1>7. Job(c, M, reload) \in Jobs
    BY <1>1, <1>2, <1>3, <1>4, <1>5 DEF Jobs
  <1>8. /\ Job(c, M, reload).old = current /\ Job(c, M, reload).make = mk
        /\ Job(c, M, reload).update = up /\ Job(c, M, reload).remake = {}
        /\ Job(c, M, reload).fresh = {} /\ Job(c, M, reload).stage = st
    BY <1>5
  <1>9. Job(c, M, reload).reload = reload
    BY <1>5
  <1>10. Job(c, M, reload).inStep = b
    BY <1>1, <1>5
  <1> QED BY <1>2, <1>6, <1>7, <1>8, <1>9, <1>10, Zenon DEF mk, up

LEMMA FailKeepsTypes ==
  ASSUME TypeOK, ~Idle, Fail, TrackOK', UNCHANGED <<providers, device>>
  PROVE  TypeOK' /\ JobSound' /\ Progress'
  <1>1. job \in Jobs /\ job.old \in Configs \cup {None}
    BY DEF TypeOK, Idle, Jobs
  <1>2. current' \in Configs \cup {None} /\ setup' \in BOOLEAN
    BY <1>1 DEF Fail, TypeOK
  <1>3. job' = None
    BY DEF Fail
  <1>4. RestOK'
    BY <1>2, <1>3 DEF RestOK, TypeOK
  <1>5. TypeOK'
    BY <1>4, TypeParts, PTL
  <1> QED BY <1>3, <1>5 DEF JobSound, Progress

\* Beginning the load of c with the sensors in gone removed.
LEMMA BeginSound ==
  ASSUME TypeOK, Idle, NEW c \in Configs, NEW gone \in SUBSET Uids, NEW reload \in BOOLEAN,
         Begin(c, Managed \ gone, reload), Managed' = Managed \ gone,
         ~(Ignored(c, Managed \ gone) \/ Listed(c) = {}),
         UNCHANGED <<setup, providers, made, sensor, device>>
  PROVE  /\ RestOK' /\ JobSound' /\ current' = c
         /\ job' = Job(c, Managed \ gone, reload)
  <1> DEFINE M == Managed \ gone
             new == Job(c, M, reload)
  <1>1. /\ current' = c /\ job' = new /\ \A u \in Enabled(c) : made[u] < MaxMade
    BY DEF Begin
  <1>2. RestOK
    BY TypeParts
  <1>3. /\ new \in Jobs /\ new.old = current
        /\ new.make = (Enabled(c) \ Before) \ M
        /\ new.update = Before \cap Listed(c) \cap M /\ new.remake = {}
        /\ new.stage = "register" => current = None
    BY <1>2, JobType
  <1> HIDE DEF new
  <1>4. RestOK'
    BY <1>1, <1>2, <1>3 DEF RestOK
  <1>5. JobSound'
    <2>1. c # None /\ Enabled(c) \subseteq Listed(c)
      BY ConfigEntries
    <2>2. Enabled(current)' = Enabled(c) /\ Listed(current)' = Listed(c)
      BY <1>1 DEF Enabled, Listed
    <2>3. \A u \in Enabled(c) : made'[u] < MaxMade
      BY <1>1
    <2> QED BY <1>1, <1>3, <2>1, <2>2, <2>3 DEF JobSound
  <1> QED BY <1>1, <1>4, <1>5 DEF new

LEMMA LoadStepSound ==
  ASSUME IInv, NEW c \in Configs, Load(c)
  PROVE  IInv'
  <1> DEFINE ends == Ignored(c, Managed) \/ Listed(c) = {}
             gone == IF ends THEN {} ELSE Before \ Listed(c)
             M == Managed \ gone
  <1>1. /\ Idle /\ Removed(gone) /\ Begin(c, M, FALSE)
        /\ UNCHANGED <<setup, providers, made, sensor, device>>
    BY DEF Load
  <1>2. gone \subseteq Uids
    BY ConfigEntries DEF Before, Listed
  <1>3. TypeOK /\ TrackOK /\ RestOK /\ ManagedAreRegistered
    BY TypeParts DEF IInv
  <1>4. /\ TrackOK' /\ ManagedAreRegistered' /\ Managed' = M
        /\ \A v \in Uids \ gone : Object(v)' = Object(v)
    BY <1>1, <1>2, <1>3, RemovedTracks
  <1>5. CASE ends
    <2>1. gone = {} /\ M = Managed
      BY <1>5, Zenon
    <2>2. UNCHANGED <<current, job>>
      BY <1>1, <1>5, <2>1 DEF Begin
    <2>3. job' = None
      BY <2>2, <1>1 DEF Idle
    <2>4. RestOK'
      BY <1>1, <1>3, <2>2 DEF RestOK
    <2>5. TypeOK'
      BY <1>4, <2>4, TypeParts, PTL
    <2> QED BY <1>4, <2>3, <2>5 DEF IInv, JobSound, Progress
  <1>6. CASE ~ends
    <2>1. gone = Before \ Listed(c)
      BY <1>6, Zenon
    <2>2. ~(Ignored(c, M) \/ Listed(c) = {})
      <3>1. M # {} => Managed # {}
        OBVIOUS
      <3> QED BY <1>6, <3>1 DEF Ignored
    <2> HIDE DEF ends, gone
    <2>3. RestOK' /\ JobSound' /\ current' = c /\ job' = Job(c, M, FALSE)
      BY <1>1, <1>2, <1>3, <1>4, <2>2, BeginSound
    <2>4. Progress'
      <3>1. SUFFICES ASSUME KeepsUp', NEW u \in Uids, ~Settled(u)'
                     PROVE  \/ u \in Enabled(c) /\ u \in job'.make
                            \/ u \in job'.update
        BY <2>3 DEF Progress, Enabled, Listed
      <3>2. /\ job'.old = current /\ job'.make = (Enabled(c) \ Before) \ M
            /\ job'.update = Before \cap Listed(c) \cap M
            /\ job'.inStep => IF current = None THEN Managed = {} ELSE InStep(current)
        BY <1>3, <2>3, JobType
      <3>3. /\ job'.inStep
            /\ current # None => NewlyEnabled(current, c) = {}
        BY <3>1, <3>2, <2>3 DEF KeepsUp, NewlyEnabled, Listed, Enabled
      <3>4. Enabled(current)' = Enabled(c) /\ Enabled(c) \subseteq Listed(c)
        BY <2>3 DEF Enabled, Listed
      <3>5. CASE current = None
        <4>1. Managed = {} /\ Before = {} /\ M = {} /\ Managed' = {}
          BY <3>5, <3>2, <3>3, <1>4 DEF Before
        <4>2. u \in Enabled(c)
          BY <3>1, <3>4, <4>1 DEF Settled
        <4> QED BY <3>2, <4>1, <4>2
      <3>6. CASE current # None
        <4>1. Managed = Enabled(current) /\ Before = Listed(current)
          BY <3>6, <3>2, <3>3 DEF InStep, Before
        <4>2. CASE u \in Managed'
          <5>1. u \in M /\ u \in Listed(current) /\ u \in Listed(c)
            BY <4>1, <4>2, <1>4, <2>1 DEF Enabled
          <5> QED BY <3>2, <4>1, <5>1
        <4>3. CASE u \notin Managed'
          <5>1. u \in Enabled(c)
            BY <3>1, <3>4, <4>3 DEF Settled
          <5>2. u \notin Enabled(current)
            BY <4>1, <4>3, <5>1, <1>4, <2>1, <3>4
          <5>3. u \notin Before
            BY <3>3, <3>6, <4>1, <5>1, <5>2 DEF NewlyEnabled
          <5> QED BY <3>2, <5>1, <5>3, <4>3, <1>4
        <4> QED BY <4>2, <4>3
      <3> QED BY <3>5, <3>6
    <2> QED BY <1>4, <2>3, <2>4, TypeParts, PTL DEF IInv
  <1> QED BY <1>5, <1>6

LEMMA ReloadStepSound ==
  ASSUME IInv, NEW c \in Configs, Reload(c)
  PROVE  IInv'
  <1>1. /\ Idle /\ Removed(Uids) /\ Begin(c, {}, TRUE)
        /\ UNCHANGED <<setup, providers, made, sensor, device>>
    BY DEF Reload
  <1>2. TypeOK /\ TrackOK /\ RestOK /\ ManagedAreRegistered
    BY TypeParts DEF IInv
  <1>3. TrackOK' /\ ManagedAreRegistered' /\ Managed' = Managed \ Uids /\ Managed \ Uids = {}
    <2>1. Managed \ Uids = {}
      BY DEF Managed
    <2> QED BY <1>1, <1>2, <2>1, RemovedTracks
  <1>4. CASE Ignored(c, {}) \/ Listed(c) = {}
    <2>1. UNCHANGED <<current, job>>
      BY <1>1, <1>4 DEF Begin
    <2>2. RestOK' /\ job' = None
      BY <1>1, <1>2, <2>1 DEF RestOK, Idle
    <2>3. TypeOK'
      BY <1>3, <2>2, TypeParts, PTL
    <2> QED BY <1>3, <2>2, <2>3 DEF IInv, JobSound, Progress
  <1>5. CASE ~(Ignored(c, {}) \/ Listed(c) = {})
    <2>1. RestOK' /\ JobSound' /\ job' = Job(c, {}, TRUE)
      BY <1>1, <1>2, <1>3, <1>5, BeginSound
    <2>2. job'.reload = TRUE
      BY <1>2, <2>1, JobType
    <2>3. Progress'
      BY <2>2 DEF Progress, KeepsUp
    <2> QED BY <1>3, <2>1, <2>3, TypeParts, PTL DEF IInv
  <1> QED BY <1>4, <1>5

-----------------------------------------------------------------------------
(* The steps of a load *)

LEMMA RegisterSound ==
  ASSUME IInv, Register
  PROVE  IInv'
  <1>1. TypeOK /\ TrackOK /\ RestOK /\ ManagedAreRegistered /\ JobSound /\ Progress
    BY TypeParts DEF IInv
  <1>2. /\ job # None /\ job \in Jobs /\ current \in Configs
        /\ job' = [job EXCEPT !.stage = "make"]
        /\ registry' = [u \in Uids |->
                          IF u \in Listed(current) THEN current[u].entity ELSE registry[u]]
        /\ UNCHANGED <<current, setup, managed, byEntity, providers, made, sensor, device>>
    BY <1>1 DEF Register, Idle, RestOK, JobSound
  <1>3. registry' \in [Uids -> EntityIds \cup {None}] /\ ManagedAreRegistered'
    <2>1. \A u \in Listed(current) : current[u].entity \in EntityIds \ {None}
      BY <1>2, ConfigEntries, ManagerConstants
    <2> QED BY <1>1, <1>2, <2>1 DEF TrackOK, ManagedAreRegistered, Managed
  <1>4. job' \in Jobs /\ job'.stage = "make"
    BY <1>2 DEF Jobs
  <1>5. /\ job'.old = job.old /\ job'.make = job.make /\ job'.update = job.update
        /\ job'.remake = job.remake /\ job'.fresh = job.fresh
    BY <1>2 DEF Jobs
  <1>6. job'.inStep = job.inStep /\ job'.reload = job.reload
    BY <1>2 DEF Jobs
  <1>7. TrackOK' /\ RestOK'
    BY <1>1, <1>2, <1>3, <1>4 DEF TrackOK, RestOK
  <1>8. TypeOK'
    BY <1>7, TypeParts, PTL
  <1>9. JobSound'
    BY <1>1, <1>2, <1>4, <1>5 DEF JobSound, Managed, Enabled, Listed
  <1>10. Progress'
    BY <1>1, <1>2, <1>5, <1>6 DEF Progress, KeepsUp, Settled, Managed, Object, Enabled,
                                  Listed, NewlyEnabled
  <1> QED BY <1>3, <1>8, <1>9, <1>10 DEF IInv

LEMMA MakeNewSound ==
  ASSUME IInv, NEW u \in Uids, MakeNew(u)
  PROVE  IInv'
  <1>1. TypeOK /\ TrackOK /\ RestOK /\ ManagedAreRegistered /\ JobSound /\ Progress
    BY TypeParts DEF IInv
  <1>2. /\ job # None /\ job \in Jobs /\ current \in Configs
        /\ u \in job.make /\ Make(u, current[u], "made")
        /\ job' = [job EXCEPT !.make = job.make \ {u}, !.fresh = job.fresh \cup {u}]
        /\ UNCHANGED <<current, setup, providers, device>>
    BY <1>1 DEF MakeNew, Idle, RestOK, JobSound
  <1>3. /\ u \in Enabled(current) /\ u \in Listed(current) /\ current[u] \in Entries
        /\ made[u] < MaxMade /\ u \notin Managed /\ u \notin job.update /\ u \notin job.remake
    BY <1>1, <1>2, ConfigEntries DEF JobSound
  <1>4. /\ TrackOK' /\ ManagedAreRegistered' /\ Managed' = Managed \cup {u}
        /\ \A v \in Uids \ {u} : /\ made'[v] = made[v] /\ Object(v)' = Object(v)
                                 /\ sensor'[Object(v)] = sensor[Object(v)]
        /\ sensor'[Object(u)'].conf = current[u]
    <2>1. "made" \in Places
      BY DEF Places
    <2>2. /\ TrackOK' /\ ManagedAreRegistered' /\ Managed' = Managed \cup {u}
          /\ \A v \in Uids \ {u} : /\ made'[v] = made[v] /\ Object(v)' = Object(v)
                                   /\ sensor'[Object(v)] = sensor[Object(v)]
          /\ sensor'[Object(u)'] =
               [conf |-> current[u], entity |-> current[u].entity, place |-> "made"]
      BY <1>1, <1>2, <1>3, <2>1, MakeTracks
    <2> QED BY <2>2
  <1>5. /\ job' \in Jobs /\ job'.old = job.old /\ job'.stage = job.stage
        /\ job'.make = job.make \ {u} /\ job'.update = job.update
        /\ job'.remake = job.remake /\ job'.fresh = job.fresh \cup {u}
    BY <1>2 DEF Jobs
  <1>6. job'.inStep = job.inStep /\ job'.reload = job.reload
    BY <1>2 DEF Jobs
  <1>7. RestOK'
    BY <1>1, <1>2, <1>5 DEF RestOK
  <1>8. TypeOK'
    BY <1>4, <1>7, TypeParts, PTL
  <1>9. Enabled(current)' = Enabled(current) /\ Listed(current)' = Listed(current)
    BY <1>2 DEF Enabled, Listed
  <1>10. JobSound'
    <2>1. job.make \subseteq Uids /\ job.update \subseteq Uids /\ job.remake \subseteq Uids
      BY <1>2 DEF Jobs
    <2>2. \A v \in (job'.make \cup job'.update \cup job'.remake) \cap Enabled(current) :
            v \in Uids \ {u} /\ v \in (job.make \cup job.update \cup job.remake) \cap Enabled(current)
      BY <1>3, <1>5, <2>1
    <2>3. \A v \in (job'.make \cup job'.update \cup job'.remake) \cap Enabled(current) :
            made'[v] < MaxMade
      BY <1>1, <1>2, <1>4, <2>2 DEF JobSound
    <2> QED BY <1>1, <1>2, <1>3, <1>4, <1>5, <1>9, <2>3 DEF JobSound
  <1>11. Progress'
    <2>1. SUFFICES ASSUME KeepsUp', NEW v \in Uids
                   PROVE  \/ v \in Enabled(current) /\ v \in job'.make \cup job'.remake
                          \/ v \in job'.update \/ Settled(v)'
      BY <1>9 DEF Progress
    <2>2. KeepsUp
      BY <2>1, <1>2, <1>5, <1>6, <1>9 DEF KeepsUp, NewlyEnabled, Enabled, Listed
    <2>3. CASE v = u
      BY <2>3, <1>3, <1>4, <1>5, <1>9, <1>2 DEF Settled
    <2>4. CASE v # u
      <3>1. \/ v \in Enabled(current) /\ v \in job.make \cup job.remake
            \/ v \in job.update \/ Settled(v)
        BY <1>1, <1>2, <2>2 DEF Progress
      <3>2. Settled(v) => Settled(v)'
        BY <2>4, <1>2, <1>4, <1>5, <1>9 DEF Settled
      <3> QED BY <2>4, <1>5, <3>1, <3>2
    <2> QED BY <2>3, <2>4
  <1> QED BY <1>4, <1>8, <1>10, <1>11 DEF IInv

LEMMA MakeAgainSound ==
  ASSUME IInv, NEW u \in Uids, MakeAgain(u)
  PROVE  IInv'
  <1>1. TypeOK /\ TrackOK /\ RestOK /\ ManagedAreRegistered /\ JobSound /\ Progress
    BY TypeParts DEF IInv
  <1>2. /\ job # None /\ job \in Jobs /\ current \in Configs
        /\ u \in job.remake /\ Make(u, current[u], "queued")
        /\ job' = [job EXCEPT !.remake = {}]
        /\ UNCHANGED <<current, setup, providers, device>>
    BY <1>1 DEF MakeAgain, Idle, RestOK, JobSound
  <1>3. /\ u \in Enabled(current) /\ u \in Listed(current) /\ current[u] \in Entries
        /\ made[u] < MaxMade /\ u \notin Managed /\ u \notin job.update /\ u \notin job.make
    BY <1>1, <1>2, ConfigEntries DEF JobSound
  <1>4. /\ TrackOK' /\ ManagedAreRegistered' /\ Managed' = Managed \cup {u}
        /\ \A v \in Uids \ {u} : /\ made'[v] = made[v] /\ Object(v)' = Object(v)
                                 /\ sensor'[Object(v)] = sensor[Object(v)]
        /\ sensor'[Object(u)'].conf = current[u] /\ sensor'[Object(u)'].place = "queued"
    <2>1. "queued" \in Places
      BY DEF Places
    <2>2. /\ TrackOK' /\ ManagedAreRegistered' /\ Managed' = Managed \cup {u}
          /\ \A v \in Uids \ {u} : /\ made'[v] = made[v] /\ Object(v)' = Object(v)
                                   /\ sensor'[Object(v)] = sensor[Object(v)]
          /\ sensor'[Object(u)'] =
               [conf |-> current[u], entity |-> current[u].entity, place |-> "queued"]
      BY <1>1, <1>2, <1>3, <2>1, MakeTracks
    <2> QED BY <2>2
  <1>5. /\ job' \in Jobs /\ job'.old = job.old /\ job'.stage = job.stage
        /\ job'.make = job.make /\ job'.update = job.update
        /\ job'.remake = {} /\ job'.fresh = job.fresh
    BY <1>2 DEF Jobs
  <1>6. job'.inStep = job.inStep /\ job'.reload = job.reload
    BY <1>2 DEF Jobs
  <1>7. RestOK'
    BY <1>1, <1>2, <1>5 DEF RestOK
  <1>8. TypeOK'
    BY <1>4, <1>7, TypeParts, PTL
  <1>9. Enabled(current)' = Enabled(current) /\ Listed(current)' = Listed(current)
    BY <1>2 DEF Enabled, Listed
  <1>10. JobSound'
    <2>1. job.make \subseteq Uids /\ job.update \subseteq Uids
      BY <1>2 DEF Jobs
    <2>2. \A v \in (job'.make \cup job'.update) \cap Enabled(current) :
            v \in Uids \ {u} /\ v \in (job.make \cup job.update \cup job.remake) \cap Enabled(current)
      BY <1>3, <1>5, <2>1
    <2>3. \A v \in (job'.make \cup job'.update \cup job'.remake) \cap Enabled(current) :
            made'[v] < MaxMade
      BY <1>1, <1>2, <1>4, <1>5, <2>2 DEF JobSound
    <2> QED BY <1>1, <1>2, <1>3, <1>4, <1>5, <1>9, <2>3 DEF JobSound
  <1>11. Progress'
    <2>1. SUFFICES ASSUME KeepsUp', NEW v \in Uids
                   PROVE  \/ v \in Enabled(current) /\ v \in job'.make \cup job'.remake
                          \/ v \in job'.update \/ Settled(v)'
      BY <1>9 DEF Progress
    <2>2. KeepsUp
      BY <2>1, <1>2, <1>5, <1>6, <1>9 DEF KeepsUp, NewlyEnabled, Enabled, Listed
    <2>3. CASE v = u
      BY <2>3, <1>3, <1>4, <1>5, <1>9, <1>2 DEF Settled
    <2>4. CASE v # u
      <3>1. \/ v \in Enabled(current) /\ v \in job.make \cup job.remake
            \/ v \in job.update \/ Settled(v)
        BY <1>1, <1>2, <2>2 DEF Progress
      <3>2. Settled(v) => Settled(v)'
        BY <2>4, <1>2, <1>4, <1>5, <1>9 DEF Settled
      <3>3. job.remake = {u}
        BY <1>1, <1>2 DEF JobSound
      <3> QED BY <2>4, <1>5, <3>1, <3>2, <3>3
    <2> QED BY <2>3, <2>4
  <1> QED BY <1>4, <1>8, <1>10, <1>11 DEF IInv

LEMMA RemoveKnownSound ==
  ASSUME IInv, NEW u \in Uids, RemoveKnown(u)
  PROVE  IInv'
  <1>1. TypeOK /\ TrackOK /\ RestOK /\ ManagedAreRegistered /\ JobSound /\ Progress
    BY TypeParts DEF IInv
  <1>2. /\ job # None /\ job \in Jobs /\ current \in Configs
        /\ job.make = {} /\ job.remake = {} /\ u \in job.update /\ Removed({u})
        /\ job' = [job EXCEPT !.update = job.update \ {u}, !.remake = {u} \cap Enabled(current)]
        /\ UNCHANGED <<current, setup, providers, made, sensor, device>>
    BY <1>1 DEF RemoveKnown, Idle, RestOK, JobSound
  <1>3. /\ TrackOK' /\ ManagedAreRegistered' /\ Managed' = Managed \ {u}
        /\ \A v \in Uids \ {u} : Object(v)' = Object(v)
    BY <1>1, <1>2, RemovedTracks
  <1>4. /\ job' \in Jobs /\ job'.old = job.old /\ job'.stage = job.stage
        /\ job'.make = {} /\ job'.update = job.update \ {u}
        /\ job'.remake = {u} \cap Enabled(current) /\ job'.fresh = job.fresh
    BY <1>2 DEF Jobs
  <1>5. job'.inStep = job.inStep /\ job'.reload = job.reload
    BY <1>2 DEF Jobs
  <1>6. RestOK'
    BY <1>1, <1>2, <1>4 DEF RestOK
  <1>7. TypeOK'
    BY <1>3, <1>6, TypeParts, PTL
  <1>8. Enabled(current)' = Enabled(current) /\ Listed(current)' = Listed(current)
    BY <1>2 DEF Enabled, Listed
  <1>9. JobSound'
    BY <1>1, <1>2, <1>3, <1>4, <1>8 DEF JobSound
  <1>10. Progress'
    <2>1. SUFFICES ASSUME KeepsUp', NEW v \in Uids
                   PROVE  \/ v \in Enabled(current) /\ v \in job'.make \cup job'.remake
                          \/ v \in job'.update \/ Settled(v)'
      BY <1>8 DEF Progress
    <2>2. KeepsUp
      BY <2>1, <1>2, <1>4, <1>5, <1>8 DEF KeepsUp, NewlyEnabled, Enabled, Listed
    <2>3. CASE v = u
      BY <2>3, <1>3, <1>4, <1>8 DEF Settled
    <2>4. CASE v # u
      <3>1. v \in job.update \/ Settled(v)
        BY <1>1, <1>2, <2>2 DEF Progress
      <3>2. Settled(v) => Settled(v)'
        BY <2>4, <1>2, <1>3, <1>4, <1>8 DEF Settled
      <3> QED BY <2>4, <1>4, <3>1, <3>2
    <2> QED BY <2>3, <2>4
  <1> QED BY <1>3, <1>7, <1>9, <1>10 DEF IInv

\* The end of a load that succeeds hands over what it made.
LEMMA FinishSound ==
  ASSUME IInv, Finish
  PROVE  IInv' /\ (KeepsUp => InStep(current)')
  <1>1. TypeOK /\ TrackOK /\ RestOK /\ ManagedAreRegistered /\ JobSound /\ Progress
    BY TypeParts DEF IInv
  <1>2. /\ job # None /\ job \in Jobs /\ job' = None
        /\ job.make = {} /\ job.update = {} /\ job.remake = {}
        /\ sensor' = [i \in Instances |->
                        IF i[1] \in job.fresh /\ i = Object(i[1])
                        THEN [sensor[i] EXCEPT !.place = "queued"] ELSE sensor[i]]
        /\ setup' = (setup \/ job.old = None)
        /\ UNCHANGED <<current, managed, byEntity, registry, providers, made, device>>
    BY <1>1 DEF Finish, Done, Idle, RestOK
  <1>3. ASSUME NEW i \in Instances
        PROVE  /\ sensor'[i] \in Sensors \cup {None}
               /\ sensor'[i] # None <=> sensor[i] # None
               /\ sensor[i] # None => /\ sensor'[i].conf = sensor[i].conf
                                      /\ sensor'[i].entity = sensor[i].entity
               /\ sensor[i] # None /\ i[1] \in job.fresh /\ i = Object(i[1])
                    => sensor'[i].place = "queued"
               /\ sensor[i] # None /\ i[1] \notin job.fresh => sensor'[i] = sensor[i]
    <2>1. sensor[i] \in Sensors \cup {None} /\ None \notin Sensors
      BY <1>1, ManagerConstants DEF TrackOK
    <2>2. CASE i[1] \in job.fresh /\ i = Object(i[1])
      <3>1. i[2] = managed[i[1]] /\ i[1] \in Uids
        BY <2>2 DEF Object, Instances
      <3>2. sensor[i] \in Sensors
        BY <2>1, <3>1, <1>1 DEF TrackOK
      <3>3. sensor'[i] = [sensor[i] EXCEPT !.place = "queued"]
        BY <1>2, <2>2
      <3>4. /\ sensor'[i] \in Sensors /\ sensor'[i].conf = sensor[i].conf
            /\ sensor'[i].entity = sensor[i].entity /\ sensor'[i].place = "queued"
        BY <3>2, <3>3 DEF Sensors, Places
      <3> QED BY <2>1, <2>2, <3>2, <3>4
    <2>3. CASE ~(i[1] \in job.fresh /\ i = Object(i[1]))
      BY <1>2, <2>1, <2>3
    <2> QED BY <2>2, <2>3
  <1>4. sensor' \in [Instances -> Sensors \cup {None}]
    <2>1. sensor' = [i \in Instances |-> sensor'[i]]
      BY <1>2
    <2>2. \A i \in Instances : sensor'[i] \in Sensors \cup {None}
      BY <1>3
    <2> QED BY <2>1, <2>2, Zenon
  <1>5. TrackOK'
    BY <1>1, <1>2, <1>3, <1>4 DEF TrackOK
  <1>6. setup' \in BOOLEAN
    BY <1>2
  <1>7. RestOK'
    BY <1>1, <1>2, <1>6 DEF RestOK
  <1>8. TypeOK'
    BY <1>5, <1>7, TypeParts, PTL
  <1>9. ManagedAreRegistered'
    BY <1>1, <1>2 DEF ManagedAreRegistered, Managed
  <1>10. IInv'
    BY <1>2, <1>8, <1>9 DEF IInv, JobSound, Progress
  <1>11. ASSUME KeepsUp
         PROVE  InStep(current)'
    <2>1. \A u \in Uids : Settled(u)
      BY <1>1, <1>2, <1>11 DEF Progress
    <2>2. Managed' = Managed /\ Enabled(current)' = Enabled(current)
          /\ \A u \in Uids : Object(u)' = Object(u)
      BY <1>2 DEF Managed, Enabled, Listed, Object
    <2>3. Managed = Enabled(current)
      BY <2>1 DEF Settled, Managed, Enabled, Listed
    <2>4. ASSUME NEW u \in Managed
          PROVE  sensor'[Object(u)].conf = current[u] /\ sensor'[Object(u)].place # "made"
      <3>1. /\ u \in Uids /\ Object(u) \in Instances /\ sensor[Object(u)] \in Sensors
            /\ Object(u)[1] = u /\ sensor[Object(u)] # None
        BY <1>1, ManagedObject, ManagerConstants
      <3>2. /\ sensor[Object(u)].conf = current[u]
            /\ sensor[Object(u)].place # "made" \/ u \in job.fresh
        BY <2>1, <3>1 DEF Settled
      <3>3. CASE u \in job.fresh
        BY <1>3, <3>1, <3>2, <3>3
      <3>4. CASE u \notin job.fresh
        BY <1>3, <3>1, <3>2, <3>4
      <3> QED BY <3>3, <3>4
    <2>5. \A u \in Managed' : /\ sensor'[Object(u)'].conf = current'[u]
                              /\ sensor'[Object(u)'].place # "made"
      <3>1. \A u \in Managed : Object(u)' = Object(u)
        BY <2>2 DEF Managed
      <3> QED BY <1>2, <2>2, <2>4, <3>1
    <2> QED BY <2>2, <2>3, <2>5 DEF InStep
  <1> QED BY <1>10, <1>11

-----------------------------------------------------------------------------
(* The other steps *)

LEMMA ExtractBackings ==
  ASSUME TypeOK, NEW u \in Uids
  PROVE  Extract(u) \subseteq Backings
  BY ManagerConstants DEF Extract, Uses, TypeOK

LEMMA PlaceTracks ==
  ASSUME TrackOK, NEW i \in Instances, sensor[i] # None, NEW s \in Sensors,
         sensor' = [sensor EXCEPT ![i] = s],
         UNCHANGED <<made, managed, byEntity, registry>>
  PROVE  TrackOK'
  <1>1. sensor' \in [Instances -> Sensors \cup {None}]
    BY DEF TrackOK
  <1>2. s # None
    BY ManagerConstants
  <1>3. \A j \in Instances : sensor'[j] # None <=> sensor[j] # None
    BY <1>2 DEF TrackOK
  <1> QED BY <1>1, <1>3 DEF TrackOK

\* A step between loads has only the types and the registry to preserve.
LEMMA IdleSound ==
  ASSUME TypeOK, job' = None, TrackOK', ManagedAreRegistered',
         current' \in Configs \cup {None}, setup' \in BOOLEAN,
         providers' \subseteq Backings, device' \in BOOLEAN
  PROVE  IInv'
  <1>1. RestOK'
    BY DEF RestOK
  <1>2. TypeOK'
    BY <1>1, TypeParts, PTL
  <1> QED BY <1>2 DEF IInv, JobSound, Progress

LEMMA AddSensorSound ==
  ASSUME IInv, NEW u \in Uids, NEW entry \in Entries, AddSensor(u, entry)
  PROVE  IInv'
  <1>1. TypeOK /\ TrackOK /\ RestOK /\ ManagedAreRegistered
    BY TypeParts DEF IInv
  <1>2. /\ job' = None /\ providers' \subseteq Backings /\ made[u] < MaxMade
        /\ Make(u, entry, "queued") /\ UNCHANGED <<current, setup, device>>
    BY <1>1, ExtractBackings DEF AddSensor, Idle, RestOK
  <1>3. TrackOK' /\ ManagedAreRegistered'
    <2>1. "queued" \in Places
      BY DEF Places
    <2> QED BY <1>1, <1>2, <2>1, MakeTracks
  <1> QED BY <1>1, <1>2, <1>3, IdleSound DEF RestOK

LEMMA RemoveSensorSound ==
  ASSUME IInv, NEW u \in Uids, RemoveSensor(u)
  PROVE  IInv'
  <1>1. TypeOK /\ TrackOK /\ RestOK /\ ManagedAreRegistered
    BY TypeParts DEF IInv
  <1>2. /\ job' = None /\ providers' \subseteq Backings /\ Untracked({u})
        /\ UNCHANGED <<current, setup, registry, made, sensor, device>>
    BY <1>1 DEF RemoveSensor, Idle, RestOK
  <1>3. TrackOK' /\ Managed' = Managed \ {u}
    BY <1>1, <1>2, UntrackedTracks DEF TrackOK
  <1>4. ManagedAreRegistered'
    BY <1>1, <1>2, <1>3 DEF ManagedAreRegistered
  <1> QED BY <1>1, <1>2, <1>3, <1>4, IdleSound DEF RestOK

LEMMA HassSound ==
  ASSUME IInv, NEW i \in Instances, HassRejects(i) \/ \E e \in EntityIds : HassAdds(i, e)
  PROVE  IInv'
  <1>1. TypeOK /\ TrackOK /\ RestOK /\ ManagedAreRegistered
    BY TypeParts DEF IInv
  <1>2. /\ job' = None /\ i[2] <= made[i[1]]
        /\ UNCHANGED <<current, setup, managed, byEntity, registry, providers, made, device>>
    BY DEF HassRejects, HassAdds, Idle
  <1>3. sensor[i] \in Sensors /\ sensor[i] # None
    BY <1>1, <1>2 DEF TrackOK
  <1>4. \E s \in Sensors : sensor' = [sensor EXCEPT ![i] = s]
    <2>1. CASE HassRejects(i)
      <3>1. [sensor[i] EXCEPT !.place = "rejected"] \in Sensors
        BY <1>3 DEF Sensors, Places
      <3> QED BY <2>1, <3>1 DEF HassRejects
    <2>2. CASE \E e \in EntityIds : HassAdds(i, e)
      <3>1. PICK e \in EntityIds : HassAdds(i, e)
        BY <2>2
      <3>2. [sensor[i] EXCEPT !.entity = e, !.place = "live"] \in Sensors
        BY <1>3 DEF Sensors, Places
      <3> QED BY <3>1, <3>2 DEF HassAdds
    <2> QED BY <2>1, <2>2
  <1>5. TrackOK'
    BY <1>1, <1>2, <1>3, <1>4, PlaceTracks
  <1>6. ManagedAreRegistered'
    BY <1>1, <1>2 DEF ManagedAreRegistered, Managed
  <1> QED BY <1>1, <1>2, <1>5, <1>6, IdleSound DEF RestOK

LEMMA FailSound ==
  ASSUME IInv, RegisterFails \/ MakeFails \/ FinishFails
  PROVE  IInv'
  <1>1. TypeOK /\ TrackOK /\ RestOK /\ ManagedAreRegistered /\ JobSound
    BY TypeParts DEF IInv
  <1>2. /\ ~Idle /\ Fail
        /\ UNCHANGED <<managed, byEntity, providers, made, sensor, device>>
    BY DEF RegisterFails, MakeFails, FinishFails, Done
  <1>3. current \in Configs
    BY <1>1, <1>2 DEF RestOK, JobSound, Idle
  <1>4. /\ registry' \in [Uids -> EntityIds \cup {None}]
        /\ \A u \in Uids : registry[u] # None => registry'[u] # None
    <2>1. CASE RegisterFails
      <3>1. PICK R \in SUBSET {u \in Listed(current) : CanCreate(u)} :
              registry' = [u \in Uids |-> IF u \in R THEN current[u].entity ELSE registry[u]]
        BY <2>1 DEF RegisterFails
      <3>2. \A u \in R : current[u].entity \in EntityIds \ {None}
        BY <1>3, ConfigEntries, ManagerConstants
      <3> QED BY <1>1, <3>1, <3>2 DEF TrackOK
    <2>2. CASE MakeFails \/ FinishFails
      BY <1>1, <2>2 DEF MakeFails, FinishFails, TrackOK
    <2> QED BY <2>1, <2>2
  <1>5. TrackOK'
    BY <1>1, <1>2, <1>4 DEF TrackOK
  <1>6. ManagedAreRegistered'
    BY <1>1, <1>2, <1>4 DEF ManagedAreRegistered, Managed
  <1> QED BY <1>1, <1>2, <1>5, <1>6, FailKeepsTypes DEF IInv

LEMMA InitSound == Init => IInv
  <1> SUFFICES ASSUME Init PROVE IInv
    OBVIOUS
  <1>0. MaxMade \in Nat /\ 0 \in 0..MaxMade
    BY ManagerConstants
  <1>1. TrackOK
    <2>1. \A i \in Instances : i[1] \in Uids /\ i[2] \in 1..MaxMade
      BY DEF Instances
    <2>2. \A i \in Instances : made[i[1]] = 0 /\ ~(i[2] <= 0)
      BY <1>0, <2>1 DEF Init
    <2>3. \A i \in Instances : sensor[i] # None <=> i[2] <= made[i[1]]
      BY <2>2 DEF Init
    <2>4. made \in [Uids -> 0..MaxMade] /\ managed \in [Uids -> 0..MaxMade]
      BY <1>0 DEF Init
    <2>5. \A u \in Uids : managed[u] <= made[u]
      BY DEF Init
    <2> QED BY <2>3, <2>4, <2>5 DEF Init, TrackOK
  <1>9. RestOK
    BY DEF Init, RestOK
  <1>2. TypeOK
    BY <1>1, <1>9, TypeParts
  <1> QED BY <1>2 DEF Init, IInv, ManagedAreRegistered, JobSound, Progress, Managed

LEMMA StepSound == IInv /\ [Next]_vars => IInv'
  <1> SUFFICES ASSUME IInv, [Next]_vars PROVE IInv'
    OBVIOUS
  <1>0. TypeOK /\ TrackOK /\ RestOK /\ ManagedAreRegistered /\ JobSound /\ Progress
    BY TypeParts DEF IInv
  <1>1. CASE \E c \in Configs : Load(c) \/ Reload(c)
    BY <1>1, LoadStepSound, ReloadStepSound
  <1>2. CASE Register
    BY <1>2, RegisterSound
  <1>3. CASE RegisterFails \/ MakeFails \/ FinishFails
    BY <1>3, FailSound
  <1>4. CASE Finish
    BY <1>4, FinishSound
  <1>5. CASE \E u \in Uids : MakeNew(u) \/ RemoveKnown(u) \/ MakeAgain(u)
    BY <1>5, MakeNewSound, RemoveKnownSound, MakeAgainSound
  <1>6. CASE \E c \in Configs : \E u \in Listed(c) : AddSensor(u, c[u])
    <2>1. PICK c \in Configs : \E u \in Listed(c) : AddSensor(u, c[u])
      BY <1>6
    <2>2. PICK u \in Listed(c) : AddSensor(u, c[u])
      BY <2>1
    <2> QED BY <2>2, ConfigEntries, AddSensorSound
  <1>7. CASE \E c \in Configs : \E u \in Listed(c) : AddOnlyRegisters(u, c[u])
    <2>1. PICK u \in Uids : \E c \in Configs : AddOnlyRegisters(u, c[u])
      BY <1>7, ConfigEntries
    <2>2. /\ providers' \subseteq Backings /\ job' = None
          /\ UNCHANGED <<current, setup, managed, byEntity, registry, made, sensor, device>>
      BY <1>0, <2>1, ExtractBackings DEF AddOnlyRegisters, Idle, RestOK
    <2> QED BY <1>0, <2>2, IdleSound DEF RestOK, TrackOK, ManagedAreRegistered, Managed
  <1>8. CASE \E u \in Uids : RemoveSensor(u)
    BY <1>8, RemoveSensorSound
  <1>9. CASE \E S \in SUBSET Backings : RegisterProviders(S)
    <2>1. /\ providers' \subseteq Backings /\ job' = None
          /\ UNCHANGED <<current, setup, managed, byEntity, registry, made, sensor, device>>
      BY <1>9 DEF RegisterProviders, Idle
    <2> QED BY <1>0, <2>1, IdleSound DEF RestOK, TrackOK, ManagedAreRegistered, Managed
  <1>10. CASE CleanUpAll
    <2>1. TrackOK' /\ ManagedAreRegistered'
      BY <1>0, <1>10, RemovedTracks DEF CleanUpAll
    <2> QED BY <1>0, <1>10, <2>1, IdleSound DEF CleanUpAll, Idle, RestOK
  <1>11. CASE \E i \in Instances : HassRejects(i) \/ \E e \in EntityIds : HassAdds(i, e)
    BY <1>11, HassSound
  <1>12. CASE DeviceChanges
    BY <1>0, <1>12, IdleSound DEF DeviceChanges, Idle, RestOK, TrackOK, ManagedAreRegistered, Managed
  <1>13. CASE UNCHANGED vars
    BY <1>0, <1>13 DEF vars, IInv, TypeOK, ManagedAreRegistered, JobSound, Progress, Settled,
      KeepsUp, NewlyEnabled, Managed, Object, Enabled, Listed
  <1> QED BY <1>1, <1>2, <1>3, <1>4, <1>5, <1>6, <1>7, <1>8, <1>9, <1>10, <1>11, <1>12, <1>13
          DEF Next, LoadStep

-----------------------------------------------------------------------------
(* The theorems *)

\* The inductive invariant holds in every reachable state.
THEOREM Invariance == Spec => []IInv
  BY InitSound, StepSound, PTL DEF Spec

\* Every variable keeps its type: no object is created beyond the bound and no
\* lookup names an object that was never created.
THEOREM TypesHold == Spec => []TypeOK
  <1>1. IInv => TypeOK
    BY DEF IInv
  <1> QED BY <1>1, Invariance, PTL

\* However loads fail and sensors come and go, a managed sensor is registered
\* with the evaluator (_create_sensor_entity, remove_sensor).
THEOREM AllRegistered == Spec => []ManagedAreRegistered
  <1>1. IInv => ManagedAreRegistered
    BY DEF IInv
  <1> QED BY <1>1, Invariance, PTL

\* A load that succeeds keeps a manager in step with its configuration, but for
\* sensors that it enables (load_configuration, _update_existing_sensors).
THEOREM LoadsStayInStep == Spec => LoadsKeepUp
  <1>1. IInv /\ [Next]_vars =>
          [Finish /\ job.inStep /\ ~job.reload
             /\ (job.old # None => NewlyEnabled(job.old, current) = {})
           => InStep(current)']_vars
    BY FinishSound DEF KeepsUp
  <1> QED BY <1>1, Invariance, PTL DEF Spec, LoadsKeepUp

-----------------------------------------------------------------------------
(* The lookup by entity id *)

\* The entity ids of two sensors' objects differ.
LEMMA IdsApart ==
  ASSUME OwnIds, IdsKnown, NEW i \in Instances, NEW c \in Configs, NEW v \in Listed(c),
         sensor[i] # None, i[1] # v
  PROVE  Names(sensor[i].conf.entity) \cap Names(c[v].entity) = {}
  <1>1. PICK d \in Configs : i[1] \in Listed(d) /\ sensor[i].conf = d[i[1]]
    BY DEF IdsKnown
  <1> QED BY <1>1 DEF OwnIds

LEMMA MakeLookups ==
  ASSUME OwnIds, TrackOK, ManagedAreRegistered, LInv,
         NEW c \in Configs, NEW u \in Listed(c), NEW place \in Places,
         u \notin Managed, made[u] < MaxMade, Make(u, c[u], place)
  PROVE  LInv'
  <1> DEFINE new == <<u, made[u] + 1>>
             s == [conf |-> c[u], entity |-> c[u].entity, place |-> place]
  <1>1. u \in Uids /\ c[u] \in Entries /\ c[u].entity \in EntityIds
    BY ConfigEntries
  <1>2. /\ TrackOK' /\ Managed' = Managed \cup {u}
        /\ \A v \in Uids \ {u} : Object(v)' = Object(v) /\ sensor'[Object(v)] = sensor[Object(v)]
        /\ Object(u)' = new /\ new \in Instances /\ sensor'[new] = s
    BY <1>1, MakeTracks
  <1>3. /\ s.conf = c[u] /\ s.entity = c[u].entity /\ s.place = place
        /\ new[1] = u /\ new # None
    BY <1>2, ManagerConstants
  <1>4. /\ \A i \in Instances : i # new => sensor'[i] = sensor[i]
        /\ byEntity' = [byEntity EXCEPT ![c[u].entity] = new]
    BY <1>2 DEF Make, TrackOK
  <1>5. /\ byEntity'[c[u].entity] = new
        /\ \A e \in EntityIds : e # c[u].entity => byEntity'[e] = byEntity[e]
    BY <1>1, <1>4 DEF TrackOK
  <1>6. IdsKnown
    BY DEF LInv
  <1> HIDE DEF new, s
  <1>7. ASSUME NEW i \in Instances, sensor'[i] # None
        PROVE  /\ \E d \in Configs : i[1] \in Listed(d) /\ sensor'[i].conf = d[i[1]]
               /\ sensor'[i].entity \in Names(sensor'[i].conf.entity)
               /\ sensor'[i].place \in {"made", "queued"} =>
                    sensor'[i].entity = sensor'[i].conf.entity
    <2>1. CASE i = new
      BY <2>1, <1>2, <1>3 DEF Names
    <2>2. CASE i # new
      BY <2>2, <1>4, <1>6, <1>7 DEF IdsKnown
    <2> QED BY <2>1, <2>2
  <1>8. ASSUME NEW e \in EntityIds, byEntity'[e] # None
        PROVE  /\ sensor'[byEntity'[e]].conf.entity = e
               /\ \/ byEntity'[e][2] = managed'[byEntity'[e][1]]
                  \/ sensor'[byEntity'[e]].entity # e
    <2>1. CASE e = c[u].entity
      <3>1. new[2] = managed'[u]
        BY <1>2 DEF Object
      <3> QED BY <2>1, <3>1, <1>2, <1>3, <1>5
    <2>2. CASE e # c[u].entity
      <3>1. byEntity'[e] = byEntity[e] /\ byEntity[e] \in Instances
        BY <2>2, <1>5, <1>8 DEF TrackOK
      <3>2. byEntity[e][2] <= made[byEntity[e][1]] /\ byEntity[e][1] \in Uids
        BY <3>1, <1>8 DEF TrackOK, Instances
      <3>3. byEntity[e] # new
        <4>1. made[u] \in 0..MaxMade
          BY <1>1 DEF TrackOK
        <4>2. ~(made[u] + 1 <= made[u])
          BY <4>1, ManagerConstants
        <4> QED BY <3>2, <4>2 DEF new
      <3>4. sensor'[byEntity[e]] = sensor[byEntity[e]]
        BY <1>4, <3>1, <3>3
      <3>5. sensor[byEntity[e]].conf.entity = e
        BY <1>6, <1>8, <3>1 DEF IdsKnown
      <3>6. byEntity[e][2] = managed[byEntity[e][1]] \/ sensor[byEntity[e]].entity # e
        BY <1>8, <3>1 DEF LInv, LookupsAgree, Object
      <3>7. CASE byEntity[e][1] = u
        <4>1. managed[u] = 0
          BY <1>1 DEF Managed
        <4>2. byEntity[e][2] # 0
          BY <3>1, ManagerConstants DEF Instances
        <4> QED BY <3>1, <3>4, <3>5, <3>6, <3>7, <4>1, <4>2
      <3>8. CASE byEntity[e][1] # u
        <4>1. managed'[byEntity[e][1]] = managed[byEntity[e][1]]
          BY <3>2, <3>8, <1>2 DEF Object
        <4> QED BY <3>1, <3>4, <3>5, <3>6, <4>1
      <3> QED BY <3>7, <3>8
    <2> QED BY <2>1, <2>2
  <1>9. ASSUME NEW v \in Managed'
        PROVE  byEntity'[sensor'[Object(v)'].conf.entity] = Object(v)'
    <2>1. CASE v = u
      BY <2>1, <1>2, <1>3, <1>5
    <2>2. CASE v # u
      <3>1. v \in Managed /\ v \in Uids /\ Object(v)' = Object(v)
            /\ sensor'[Object(v)] = sensor[Object(v)]
        BY <2>2, <1>2 DEF Managed
      <3>2. /\ Object(v) \in Instances /\ sensor[Object(v)] \in Sensors
            /\ sensor[Object(v)] # None /\ Object(v)[1] = v
        BY <3>1, ManagedObject, ManagerConstants
      <3>3. sensor[Object(v)].conf.entity # c[u].entity
        <4>1. Names(sensor[Object(v)].conf.entity) \cap Names(c[u].entity) = {}
          BY <1>6, <2>2, <3>2, IdsApart
        <4> QED BY <4>1 DEF Names
      <3>4. sensor[Object(v)].conf.entity \in EntityIds
        BY <3>2 DEF Sensors, Entries
      <3>5. byEntity[sensor[Object(v)].conf.entity] = Object(v)
        BY <3>1 DEF LInv, LookupsAgree
      <3> QED BY <1>5, <3>1, <3>3, <3>4, <3>5
    <2> QED BY <2>1, <2>2
  <1>10. IdsKnown'
    BY <1>7, <1>8 DEF IdsKnown
  <1>11. \A e \in EntityIds : byEntity'[e] # None => byEntity'[e] \in Instances
    BY <1>2 DEF TrackOK
  <1>12. LookupsAgree'
    BY <1>8, <1>9, <1>11 DEF LookupsAgree, Object, Instances
  <1> QED BY <1>10, <1>12 DEF LInv

LEMMA UntrackLookups ==
  ASSUME OwnIds, TrackOK, LInv, NEW R \in SUBSET Uids, Untracked(R), UNCHANGED <<made, sensor>>
  PROVE  LInv'
  <1>1. /\ managed' = [u \in Uids |-> IF u \in R THEN 0 ELSE managed[u]]
        /\ byEntity' = [e \in EntityIds |->
                          IF \E u \in R \cap Managed : Entity(u) = e THEN None ELSE byEntity[e]]
    BY DEF Untracked
  <1>2. IdsKnown
    BY DEF LInv
  <1>3. /\ Managed' = Managed \ R /\ \A v \in Uids \ R : Object(v)' = Object(v)
    BY <1>1 DEF Managed, Object
  <1>4. \A e \in EntityIds : byEntity'[e] # None =>
          byEntity'[e] = byEntity[e] /\ ~\E u \in R \cap Managed : Entity(u) = e
    BY <1>1
  <1>5. IdsKnown'
    BY <1>2, <1>4 DEF IdsKnown
  <1>6. ASSUME NEW e \in EntityIds, byEntity'[e] # None
        PROVE  /\ byEntity'[e] \in Instances
               /\ \/ byEntity'[e][2] = managed'[byEntity'[e][1]]
                  \/ sensor'[byEntity'[e]].entity # e
    <2> DEFINE i == byEntity[e]
    <2>1. byEntity'[e] = i /\ i # None /\ ~\E u \in R \cap Managed : Entity(u) = e
      BY <1>4, <1>6
    <2>2. i \in Instances
      BY <2>1 DEF TrackOK
    <2>3. i[2] = managed[i[1]] \/ sensor[i].entity # e
      BY <2>1 DEF LInv, LookupsAgree, Object
    <2> HIDE DEF i
    <2>4. i[1] \in Uids /\ i[2] # 0
      BY <2>2, ManagerConstants DEF Instances
    <2>5. CASE i[2] = managed[i[1]] /\ i[1] \in R
      <3>1. i[1] \in Managed /\ Object(i[1]) = i
        BY <2>2, <2>4, <2>5 DEF Managed, Object, Instances
      <3>2. Entity(i[1]) = sensor[i].entity
        BY <3>1 DEF Entity
      <3> QED BY <2>1, <2>2, <2>5, <3>1, <3>2
    <2>6. CASE i[2] = managed[i[1]] /\ i[1] \notin R
      BY <2>1, <2>2, <2>4, <2>6, <1>1
    <2>7. CASE sensor[i].entity # e
      BY <2>1, <2>2, <2>7
    <2> QED BY <2>3, <2>5, <2>6, <2>7
  <1>7. ASSUME NEW v \in Managed'
        PROVE  byEntity'[sensor'[Object(v)'].conf.entity] = Object(v)'
    <2>1. v \in Managed /\ v \notin R /\ v \in Uids /\ Object(v)' = Object(v)
      BY <1>3 DEF Managed
    <2>2. /\ Object(v) \in Instances /\ sensor[Object(v)] \in Sensors
          /\ sensor[Object(v)] # None /\ Object(v)[1] = v
      BY <2>1, ManagedObject, ManagerConstants
    <2>3. PICK c \in Configs : v \in Listed(c) /\ sensor[Object(v)].conf = c[v]
      BY <1>2, <2>2 DEF IdsKnown
    <2>4. ASSUME NEW u \in R \cap Managed
          PROVE  Entity(u) # c[v].entity
      <3>1. /\ Object(u) \in Instances /\ sensor[Object(u)] # None /\ Object(u)[1] = u /\ u # v
        BY <2>1, <2>4, ManagedObject, ManagerConstants
      <3>2. Names(sensor[Object(u)].conf.entity) \cap Names(c[v].entity) = {}
        BY <1>2, <2>3, <3>1, IdsApart
      <3>3. Entity(u) \in Names(sensor[Object(u)].conf.entity)
        BY <1>2, <3>1 DEF IdsKnown, Entity
      <3> QED BY <3>2, <3>3 DEF Names
    <2>5. c[v].entity \in EntityIds
      BY <2>3, ConfigEntries
    <2>6. byEntity'[c[v].entity] = byEntity[c[v].entity]
      BY <1>1, <2>4, <2>5
    <2>7. byEntity[c[v].entity] = Object(v)
      BY <2>1, <2>3 DEF LInv, LookupsAgree
    <2> QED BY <2>1, <2>3, <2>6, <2>7
  <1>8. LookupsAgree'
    BY <1>6, <1>7 DEF LookupsAgree, Object, Instances
  <1> QED BY <1>5, <1>8 DEF LInv

\* Home Assistant names a sensor when it adds it, and only then.
LEMMA PlaceLookups ==
  ASSUME TrackOK, LInv, UNCHANGED <<managed, byEntity>>,
         \A i \in Instances :
           /\ sensor'[i] # None <=> sensor[i] # None
           /\ sensor[i] # None =>
                /\ sensor'[i].conf = sensor[i].conf
                /\ sensor'[i].entity \in Names(sensor[i].conf.entity)
                /\ sensor'[i].place \in {"made", "queued"} =>
                     sensor[i].place \in {"made", "queued"} /\ sensor'[i].entity = sensor[i].entity
                /\ sensor[i].place \notin {"made", "queued"} => sensor'[i].entity = sensor[i].entity
  PROVE  LInv'
  <1>1. IdsKnown /\ LookupsAgree
    BY DEF LInv
  <1>2. \A e \in EntityIds : byEntity[e] # None =>
          byEntity[e] \in Instances /\ sensor[byEntity[e]] # None
    <2>1. \A e \in EntityIds : byEntity[e] # None =>
            /\ byEntity[e] \in Instances
            /\ byEntity[e][2] <= made[byEntity[e][1]]
      BY DEF TrackOK
    <2> QED BY <2>1 DEF TrackOK
  <1>3. IdsKnown'
    <2>1. ASSUME NEW i \in Instances, sensor'[i] # None
          PROVE  /\ \E c \in Configs : i[1] \in Listed(c) /\ sensor'[i].conf = c[i[1]]
                 /\ sensor'[i].entity \in Names(sensor'[i].conf.entity)
                 /\ sensor'[i].place \in {"made", "queued"} =>
                      sensor'[i].entity = sensor'[i].conf.entity
      BY <2>1, <1>1 DEF IdsKnown
    <2>2. \A e \in EntityIds : byEntity'[e] # None => sensor'[byEntity'[e]].conf.entity = e
      BY <1>1, <1>2 DEF IdsKnown
    <2> QED BY <2>1, <2>2 DEF IdsKnown
  <1>4. ASSUME NEW e \in EntityIds, byEntity'[e] # None
        PROVE  /\ byEntity'[e] \in Instances
               /\ \/ byEntity'[e][2] = managed'[byEntity'[e][1]]
                  \/ sensor'[byEntity'[e]].entity # e
    <2>1. /\ byEntity[e] \in Instances /\ sensor[byEntity[e]] # None
          /\ sensor[byEntity[e]].conf.entity = e
          /\ byEntity[e][2] = managed[byEntity[e][1]] \/ sensor[byEntity[e]].entity # e
      BY <1>1, <1>2, <1>4 DEF IdsKnown, LookupsAgree, Object
    <2>2. CASE sensor[byEntity[e]].entity # e
      <3>1. sensor[byEntity[e]].place \notin {"made", "queued"}
        BY <1>1, <2>1, <2>2 DEF IdsKnown
      <3>2. sensor'[byEntity[e]].entity = sensor[byEntity[e]].entity
        BY <2>1, <3>1
      <3> QED BY <2>1, <2>2, <3>2
    <2> QED BY <2>1, <2>2
  <1>5. ASSUME NEW v \in Managed'
        PROVE  byEntity'[sensor'[Object(v)'].conf.entity] = Object(v)'
    <2>1. v \in Managed /\ Object(v)' = Object(v)
      BY DEF Managed, Object
    <2>2. Object(v) \in Instances /\ sensor[Object(v)] # None
      BY <2>1, ManagedObject, ManagerConstants
    <2>3. sensor'[Object(v)].conf = sensor[Object(v)].conf
      BY <2>2
    <2>4. byEntity[sensor[Object(v)].conf.entity] = Object(v)
      BY <1>1, <2>1 DEF LookupsAgree
    <2> QED BY <2>1, <2>3, <2>4
  <1>6. LookupsAgree'
    BY <1>4, <1>5 DEF LookupsAgree, Object, Instances
  <1> QED BY <1>3, <1>6 DEF LInv

LEMMA HassLookups ==
  ASSUME TrackOK, LInv, NEW i \in Instances,
         HassRejects(i) \/ \E e \in EntityIds : HassAdds(i, e)
  PROVE  LInv'
  <1>1. /\ i[2] <= made[i[1]] /\ sensor[i].place = "queued" /\ UNCHANGED <<managed, byEntity>>
    BY DEF HassRejects, HassAdds
  <1>2. sensor[i] \in Sensors /\ sensor[i] # None
    BY <1>1 DEF TrackOK
  <1>3. /\ sensor[i].entity = sensor[i].conf.entity
        /\ \A j \in Instances : sensor[j] # None =>
             sensor[j].entity \in Names(sensor[j].conf.entity)
    BY <1>1, <1>2 DEF LInv, IdsKnown
  <1>4. \E s \in Sensors : /\ sensor' = [sensor EXCEPT ![i] = s] /\ s.conf = sensor[i].conf
                           /\ s.entity \in Names(sensor[i].conf.entity)
                           /\ s.place \notin {"made", "queued"}
    <2>1. CASE HassRejects(i)
      <3> DEFINE s == [sensor[i] EXCEPT !.place = "rejected"]
      <3>1. /\ s \in Sensors /\ s.conf = sensor[i].conf /\ s.entity = sensor[i].entity
            /\ s.place = "rejected"
        BY <1>2 DEF Sensors, Places
      <3>2. sensor' = [sensor EXCEPT ![i] = s]
        BY <2>1 DEF HassRejects
      <3> HIDE DEF s
      <3> QED BY <3>1, <3>2, <1>2, <1>3
    <2>2. CASE \E e \in EntityIds : HassAdds(i, e)
      <3>1. PICK e \in EntityIds : HassAdds(i, e)
        BY <2>2
      <3> DEFINE s == [sensor[i] EXCEPT !.entity = e, !.place = "live"]
      <3>2. /\ s \in Sensors /\ s.conf = sensor[i].conf /\ s.entity = e /\ s.place = "live"
        BY <1>2 DEF Sensors, Places
      <3>3. sensor' = [sensor EXCEPT ![i] = s] /\ e \in Assigns[sensor[i].entity]
        BY <3>1 DEF HassAdds
      <3>4. e \in Names(sensor[i].conf.entity)
        BY <1>3, <3>3 DEF Names
      <3> HIDE DEF s
      <3> QED BY <3>2, <3>3, <3>4
    <2> QED BY <2>1, <2>2
  <1>5. PICK s \in Sensors : /\ sensor' = [sensor EXCEPT ![i] = s] /\ s.conf = sensor[i].conf
                             /\ s.entity \in Names(sensor[i].conf.entity)
                             /\ s.place \notin {"made", "queued"}
    BY <1>4
  <1>6. /\ sensor'[i] = s /\ s # None /\ \A j \in Instances : j # i => sensor'[j] = sensor[j]
    BY <1>5, ManagerConstants DEF TrackOK
  <1> QED BY <1>1, <1>2, <1>3, <1>5, <1>6, PlaceLookups

LEMMA FinishLookups ==
  ASSUME TrackOK, LInv, FreshMade, Finish
  PROVE  LInv'
  <1>1. /\ sensor' = [i \in Instances |->
                        IF i[1] \in job.fresh /\ i = Object(i[1])
                        THEN [sensor[i] EXCEPT !.place = "queued"] ELSE sensor[i]]
        /\ job # None /\ UNCHANGED <<managed, byEntity>>
    BY DEF Finish, Done, Idle
  <1>2. \A i \in Instances : sensor[i] # None => sensor[i].entity \in Names(sensor[i].conf.entity)
    BY DEF LInv, IdsKnown
  <1>3. ASSUME NEW i \in Instances
        PROVE  /\ sensor'[i] # None <=> sensor[i] # None
               /\ sensor[i] # None =>
                    /\ sensor'[i].conf = sensor[i].conf /\ sensor'[i].entity = sensor[i].entity
                    /\ sensor'[i].place \in {"made", "queued"} =>
                         sensor[i].place \in {"made", "queued"}
    <2>1. CASE i[1] \in job.fresh /\ i = Object(i[1])
      <3>1. i[1] \in Managed /\ sensor[i].place = "made"
        BY <1>1, <2>1 DEF FreshMade
      <3>2. sensor[i] \in Sensors
        BY <2>1, <3>1, ManagedObject
      <3>3. sensor'[i] = [sensor[i] EXCEPT !.place = "queued"]
        BY <1>1, <2>1
      <3>4. /\ sensor'[i] \in Sensors /\ sensor'[i].conf = sensor[i].conf
            /\ sensor'[i].entity = sensor[i].entity
        BY <3>2, <3>3 DEF Sensors, Places
      <3> QED BY <3>1, <3>2, <3>4, ManagerConstants
    <2>2. CASE ~(i[1] \in job.fresh /\ i = Object(i[1]))
      BY <1>1, <2>2
    <2> QED BY <2>1, <2>2
  <1> QED BY <1>1, <1>2, <1>3, PlaceLookups

LEMMA FreshStep ==
  ASSUME IInv, FreshMade, [Next]_vars
  PROVE  FreshMade'
  <1>0. TrackOK /\ RestOK /\ ManagedAreRegistered /\ JobSound /\ IInv'
    BY TypeParts, StepSound DEF IInv
  <1>1. CASE job' = None
    BY <1>1 DEF FreshMade
  <1>2. CASE UNCHANGED <<job, managed, sensor>>
    BY <1>2 DEF FreshMade, Managed, Object
  <1>3. CASE \E c \in Configs : Load(c) \/ Reload(c)
    <2>1. job' = job \/ \E c \in Configs : \E M : \E r \in BOOLEAN : job' = Job(c, M, r)
      BY <1>3 DEF Load, Reload, Begin
    <2>2. job = None
      BY <1>3 DEF Load, Reload, Idle
    <2>3. job' = None \/ job'.fresh = {}
      BY <1>0, <2>1, <2>2, JobType
    <2> QED BY <2>3 DEF FreshMade
  <1>4. CASE Register
    <2>1. job \in Jobs /\ job # None
      BY <1>0, <1>4 DEF RestOK, Register, Idle
    <2>2. /\ job'.fresh = job.fresh /\ job'.make = job.make /\ job'.update = job.update
          /\ job'.remake = job.remake
      BY <1>4, <2>1 DEF Register, Jobs
    <2> QED BY <1>4, <2>1, <2>2 DEF FreshMade, Register, Managed, Object
  <1>5. ASSUME NEW u \in Uids, MakeNew(u) PROVE FreshMade'
    <2>1. /\ job \in Jobs /\ job # None /\ u \in job.make /\ current \in Configs
          /\ Make(u, current[u], "made") /\ "made" \in Places
      BY <1>0, <1>5 DEF RestOK, JobSound, MakeNew, Idle, Places
    <2>2. /\ job'.fresh = job.fresh \cup {u} /\ job'.make = job.make \ {u}
          /\ job'.update = job.update /\ job'.remake = job.remake
      BY <1>5, <2>1 DEF MakeNew, Jobs
    <2>3. u \in Listed(current) /\ current[u] \in Entries /\ made[u] < MaxMade
          /\ u \notin job.update /\ u \notin job.remake
      BY <1>0, <2>1, ConfigEntries DEF JobSound
    <2>4. /\ Managed' = Managed \cup {u}
          /\ \A v \in Uids \ {u} : Object(v)' = Object(v) /\ sensor'[Object(v)] = sensor[Object(v)]
          /\ sensor'[Object(u)'] =
               [conf |-> current[u], entity |-> current[u].entity, place |-> "made"]
      BY <1>0, <2>1, <2>3, MakeTracks
    <2>5. sensor'[Object(u)'].place = "made"
      BY <2>4
    <2>6. ASSUME NEW v \in job'.fresh
          PROVE  /\ v \in Managed' /\ sensor'[Object(v)'].place = "made"
                 /\ v \notin job'.make \cup job'.update \cup job'.remake
      <3>1. CASE v = u
        BY <3>1, <2>2, <2>3, <2>4, <2>5
      <3>2. CASE v # u
        <4>1. /\ v \in Managed /\ sensor[Object(v)].place = "made"
              /\ v \notin job.make \cup job.update \cup job.remake
          BY <3>2, <2>1, <2>2 DEF FreshMade
        <4> QED BY <3>2, <4>1, <2>2, <2>4 DEF Managed
      <3> QED BY <3>1, <3>2
    <2> QED BY <2>6 DEF FreshMade
  <1>6. ASSUME NEW u \in Uids, RemoveKnown(u) PROVE FreshMade'
    <2>1. job \in Jobs /\ job # None /\ u \in job.update /\ Removed({u}) /\ UNCHANGED <<made, sensor>>
      BY <1>0, <1>6 DEF RestOK, RemoveKnown, Idle
    <2>2. /\ job'.fresh = job.fresh /\ job'.make = job.make
          /\ job'.update = job.update \ {u} /\ job'.remake \subseteq {u}
      BY <1>6, <2>1 DEF RemoveKnown, Jobs
    <2>3. Managed' = Managed \ {u} /\ \A v \in Uids \ {u} : Object(v)' = Object(v)
      BY <1>0, <2>1, RemovedTracks
    <2>4. ASSUME NEW v \in job'.fresh
          PROVE  /\ v \in Managed' /\ sensor'[Object(v)'].place = "made"
                 /\ v \notin job'.make \cup job'.update \cup job'.remake
      <3>1. /\ v \in Managed /\ sensor[Object(v)].place = "made" /\ v # u
            /\ v \notin job.make \cup job.update \cup job.remake
        BY <2>1, <2>2 DEF FreshMade
      <3> QED BY <3>1, <2>1, <2>2, <2>3 DEF Managed
    <2> QED BY <2>4 DEF FreshMade
  <1>7. ASSUME NEW u \in Uids, MakeAgain(u) PROVE FreshMade'
    <2>1. /\ job \in Jobs /\ job # None /\ u \in job.remake /\ current \in Configs
          /\ Make(u, current[u], "queued") /\ "queued" \in Places
      BY <1>0, <1>7 DEF RestOK, JobSound, MakeAgain, Idle, Places
    <2>2. /\ job'.fresh = job.fresh /\ job'.make = job.make
          /\ job'.update = job.update /\ job'.remake = {}
      BY <1>7, <2>1 DEF MakeAgain, Jobs
    <2>3. u \in Listed(current) /\ current[u] \in Entries /\ made[u] < MaxMade
      BY <1>0, <2>1, ConfigEntries DEF JobSound
    <2>4. /\ Managed' = Managed \cup {u}
          /\ \A v \in Uids \ {u} : Object(v)' = Object(v) /\ sensor'[Object(v)] = sensor[Object(v)]
      BY <1>0, <2>1, <2>3, MakeTracks
    <2>5. ASSUME NEW v \in job'.fresh
          PROVE  /\ v \in Managed' /\ sensor'[Object(v)'].place = "made"
                 /\ v \notin job'.make \cup job'.update \cup job'.remake
      <3>1. /\ v \in Managed /\ sensor[Object(v)].place = "made" /\ v # u
            /\ v \notin job.make \cup job.update \cup job.remake
        BY <2>1, <2>2 DEF FreshMade
      <3> QED BY <3>1, <2>2, <2>4 DEF Managed
    <2> QED BY <2>5 DEF FreshMade
  <1>8. CASE job = None /\ job' = job
    BY <1>8 DEF FreshMade
  <1> QED BY <1>1, <1>2, <1>3, <1>4, <1>5, <1>6, <1>7, <1>8
          DEF Next, LoadStep, vars, RegisterFails, MakeFails, FinishFails, Fail, Finish, AddSensor,
              AddOnlyRegisters, RemoveSensor, RegisterProviders, CleanUpAll, HassAdds, HassRejects,
              DeviceChanges, Idle

LEMMA StepLookups ==
  ASSUME OwnIds, IInv, FreshMade, LInv, [Next]_vars
  PROVE  LInv'
  <1>0. TrackOK /\ RestOK /\ ManagedAreRegistered /\ JobSound
    BY TypeParts DEF IInv
  <1>1. ASSUME UNCHANGED <<managed, byEntity, sensor>> PROVE LInv'
    BY <1>1 DEF LInv, IdsKnown, LookupsAgree, Managed, Object
  <1>2. ASSUME NEW R \in SUBSET Uids, Untracked(R), UNCHANGED <<made, sensor>> PROVE LInv'
    BY <1>0, <1>2, UntrackLookups
  <1>3. CASE \E c \in Configs : Load(c) \/ Reload(c)
    <2>1. Before \subseteq Uids
      BY DEF Before, Listed
    <2>2. \E R \in SUBSET Uids : Untracked(R) /\ UNCHANGED <<made, sensor>>
      <3>1. PICK c \in Configs : Load(c) \/ Reload(c)
        BY <1>3
      <3>2. CASE Load(c)
        <4> DEFINE gone == IF Ignored(c, Managed) \/ Listed(c) = {} THEN {} ELSE Before \ Listed(c)
        <4>1. Untracked(gone) /\ UNCHANGED <<made, sensor>>
          BY <3>2 DEF Load, Removed
        <4>2. gone \in SUBSET Uids
          BY <2>1
        <4> QED BY <4>1, <4>2
      <3>3. CASE Reload(c)
        BY <3>3 DEF Reload, Removed
      <3> QED BY <3>1, <3>2, <3>3
    <2> QED BY <1>2, <2>2
  <1>4. CASE Register \/ RegisterFails \/ MakeFails \/ FinishFails
    BY <1>1, <1>4 DEF Register, RegisterFails, MakeFails, FinishFails
  <1>5. CASE Finish
    BY <1>0, <1>5, FinishLookups
  <1>6. ASSUME NEW u \in Uids, MakeNew(u) \/ MakeAgain(u) PROVE LInv'
    <2>1. /\ job # None /\ current \in Configs /\ u \in Listed(current) /\ u \notin Managed
          /\ made[u] < MaxMade
      BY <1>0, <1>6 DEF RestOK, JobSound, MakeNew, MakeAgain, Idle, Enabled
    <2>2. \E place \in Places : Make(u, current[u], place)
      BY <1>6 DEF MakeNew, MakeAgain, Places
    <2> QED BY <1>0, <2>1, <2>2, MakeLookups
  <1>7. ASSUME NEW u \in Uids, RemoveKnown(u) \/ RemoveSensor(u) PROVE LInv'
    <2>1. Untracked({u}) /\ UNCHANGED <<made, sensor>>
      BY <1>7 DEF RemoveKnown, RemoveSensor, Removed
    <2> QED BY <1>2, <2>1
  <1>8. CASE \E c \in Configs : \E u \in Listed(c) : AddSensor(u, c[u])
    <2>1. PICK c \in Configs : \E u \in Listed(c) : AddSensor(u, c[u])
      BY <1>8
    <2>2. PICK u \in Listed(c) : AddSensor(u, c[u])
      BY <2>1
    <2>3. u \notin Managed /\ made[u] < MaxMade /\ Make(u, c[u], "queued") /\ "queued" \in Places
      BY <2>2 DEF AddSensor, Places
    <2> QED BY <1>0, <2>3, MakeLookups
  <1>9. CASE \/ \E c \in Configs : \E u \in Listed(c) : AddOnlyRegisters(u, c[u])
             \/ \E S \in SUBSET Backings : RegisterProviders(S)
             \/ DeviceChanges \/ UNCHANGED vars
    BY <1>1, <1>9 DEF AddOnlyRegisters, RegisterProviders, DeviceChanges, vars
  <1>10. CASE CleanUpAll
    BY <1>2, <1>10 DEF CleanUpAll, Removed
  <1>11. CASE \E i \in Instances : HassRejects(i) \/ \E e \in EntityIds : HassAdds(i, e)
    BY <1>0, <1>11, HassLookups
  <1> QED BY <1>3, <1>4, <1>5, <1>6, <1>7, <1>8, <1>9, <1>10, <1>11 DEF Next, LoadStep

\* When no entity id is used for two sensors, the lookup by entity id finds each
\* managed sensor, and no removed one unless Home Assistant renamed it
\* (get_sensor_by_entity_id).
THEOREM LookupsHold == OwnIds /\ Spec => []LookupsAgree
  <1>1. Init => FreshMade /\ LInv
    <2>1. ASSUME Init PROVE \A i \in Instances : sensor[i] = None
      BY <2>1 DEF Init
    <2> QED BY <2>1 DEF Init, FreshMade, LInv, IdsKnown, LookupsAgree, Managed
  <1>2. IInv /\ FreshMade /\ [Next]_vars => FreshMade'
    BY FreshStep
  <1>3. OwnIds /\ IInv /\ FreshMade /\ LInv /\ [Next]_vars => LInv'
    BY StepLookups
  <1>4. CASE OwnIds
    <2>1. IInv /\ FreshMade /\ LInv /\ [Next]_vars => LInv'
      BY <1>3, <1>4
    <2>2. LInv => LookupsAgree
      BY DEF LInv
    <2> QED BY <1>1, <1>2, <2>1, <2>2, Invariance, PTL DEF Spec
  <1>5. CASE ~OwnIds
    BY <1>5
  <1> QED BY <1>4, <1>5
-----------------------------------------------------------------------------
(* Backing entities *)

\* remove_sensor_with_backing_entities, asked to clean up, never unregisters an
\* entity that a sensor still managed has behind its state token, nor one of the
\* domain sensor that a variable of it names: whatever was registered, replaced
\* or removed before.
THEOREM NeededStay == Spec => KeepsNeeded
  <1>1. IInv /\ [Next]_vars
          => [(\E u \in Uids : RemoveSensor(u))
               => \A v \in Managed \ {w \in Uids : managed'[w] = 0} :
                    providers \cap (Uses(v) \cup {StateOf[v]}) \subseteq providers']_vars
    <2> SUFFICES ASSUME IInv, NEW u \in Uids, RemoveSensor(u),
                        NEW v \in Managed, managed'[v] # 0,
                        NEW b \in providers, b \in Uses(v) \cup {StateOf[v]}
                 PROVE  b \in providers'
      BY DEF Managed
    <2>1. v \in Uids /\ v # u
      BY DEF RemoveSensor, Untracked, Managed
    <2>2. b # None
      BY ManagerConstants DEF IInv, TypeOK
    <2>3. b \in Extract(v)
      BY <2>2 DEF Extract
    <2>4. b \notin Orphans(u)
      BY <2>1, <2>3 DEF Orphans
    <2> QED BY <2>4 DEF RemoveSensor
  <1> QED BY <1>1, Invariance, PTL DEF Spec, KeepsNeeded
=============================================================================
