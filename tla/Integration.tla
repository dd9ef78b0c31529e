---------------------------- MODULE Integration ----------------------------
(***************************************************************************)
(* The life of the integration and of its services (integration.py,        *)
(* service_layer.py), the configurations it loads and the sensor set a     *)
(* host imports, exports and sets its sensors up from (__init__.py,        *)
(* storage_sensor_set_ops.py).                                             *)
(*                                                                         *)
(* Manager n and layer n of the services are made together, the n-th time  *)
(* an integration is set up; 0 is none.  Home Assistant sets up, unloads   *)
(* and reloads one entry at a time; what awaits lets others in.            *)
(***************************************************************************)
EXTENDS ConfigurationFormats

CONSTANTS
  Entries,         \* config entries
  Files,           \* texts of configuration files
  Uploads,         \* texts of documents to import
  HostSensors,     \* a key -> the sensor the host's program adds, if it does
  AddedVariable,   \* what service calls add and remove
  MaxManagers      \* bound: integrations set up

Services == {"reload_config", "update_sensor", "add_variable", "remove_variable",
             "evaluate_formula", "validate_config", "get_sensor_info"}

\* What every document has, whatever it says: its mappings are finite, its handlers
\* are for states and mention states that have a token of their own, and its
\* texts and values have their fields, a value that is a name or an entity id no more.
HandlersGiven(h) ==
  DOMAIN h \subseteq Alternates /\ \A a \in DOMAIN h : h[a].mentions \subseteq Alternates \ {"FALLBACK"}

WordsGiven(t) ==
  t = [names |-> t.names, ids |-> t.ids, operators |-> t.operators, literal |-> t.literal]

ValueGiven(v) ==
  /\ v = [kind |-> v.kind, text |-> v.text, handlers |-> v.handlers, nested |-> v.nested]
  /\ WordsGiven(v.text)
  /\ v.kind = "name" => v.text.ids = {} /\ \E name \in v.text.names : v.text.names = {name}
  /\ v.kind = "entity" => v.text.names = {} /\ \E id \in v.text.ids : v.text.ids = {id}

VariablesGiven(variables) == \A v \in DOMAIN variables : ValueGiven(variables[v])

SensorGiven(s) ==
  /\ s.enabled \in BOOLEAN
  /\ HandlersGiven(s.handlers) /\ IsFiniteSet(DOMAIN s.attributes)
  /\ WordsGiven(s.formula) /\ VariablesGiven(s.variables)
  /\ \A a \in DOMAIN s.attributes :
       /\ WordsGiven(s.attributes[a].text) /\ VariablesGiven(s.attributes[a].variables)
       /\ HandlersGiven(s.attributes[a].handlers)

TextGiven(text) ==
  /\ VariablesGiven(text.globals)
  /\ text.sensors \in Seq(ToSet(text.sensors)) /\ \A s \in ToSet(text.sensors) : SensorGiven(s)

\* A sensor of a configuration, its literal attributes beside the others.
SensorRead(s) ==
  /\ s = [enabled |-> s.enabled, entity |-> s.entity, meta |-> s.meta, device |-> s.device,
          formula |-> s.formula, variables |-> s.variables, handlers |-> s.handlers,
          attributes |-> s.attributes, literals |-> s.literals]
  /\ SensorGiven(s)
  /\ \A a \in DOMAIN s.attributes :
       LET own == s.attributes[a]
       IN  own = [text |-> own.text, variables |-> own.variables, handlers |-> own.handlers]
  /\ IsFiniteSet(DOMAIN s.literals) /\ \A a \in DOMAIN s.literals : WordsGiven(s.literals[a])

ASSUME IntegrationConstants ==
  /\ State \in FormulaFunctions \cap Reserved \cap PlainWords /\ None # "null"
  /\ \A text \in Files \cup Uploads : TextGiven(text)
  /\ IsFiniteSet(DOMAIN HostSensors) /\ \A k \in DOMAIN HostSensors : SensorRead(HostSensors[k])
  /\ MaxManagers \in Nat

NoConfig == [device |-> None, globals |-> NoVariables, sensors |-> NoVariables]

VARIABLES
  entry,      \* the integration of an entry
  made,       \* managers made
  handlers,   \* a service -> the layer that answers it
  managed,    \* a manager -> the keys of the sensors it manages
  stored,     \* the stored sensor set and whether only imports have made it, of
              \* documents that were looked at whole
  hosted      \* the sensors set up from it
vars == <<entry, made, handlers, managed, stored, hosted>>

\* An integration: whether the table has it, its phase, its manager and whether
\* that has completed a load, the configurations its configuration manager and
\* its sensor manager have, whether they are the same object and whether a
\* service has changed the first, and the files that are being read.
NoEntry == [listed |-> FALSE, phase |-> "down", manager |-> 0, ready |-> FALSE,
            parsed |-> NoConfig, loaded |-> NoConfig, shared |-> FALSE, edited |-> FALSE,
            reading |-> {}]

NothingStored == [there |-> FALSE, config |-> NoConfig, imported |-> TRUE]

Init ==
  /\ entry = [e \in Entries |-> NoEntry]
  /\ made = 0
  /\ handlers = [s \in Services |-> 0]
  /\ managed = [n \in 1..MaxManagers |-> {}]
  /\ stored = NothingStored
  /\ hosted = {}

Keys(config) == DOMAIN config.sensors
Enabled(config) == {k \in Keys(config) : config.sensors[k].enabled}
-----------------------------------------------------------------------------
(* Setting up and taking down *)

Removed == Services \ {"update_sensor", "validate_config"}

Registered(layer) == [s \in Services |-> layer]

Unregistered == [s \in Services |-> IF s \in Removed THEN 0 ELSE handlers[s]]

\* An entry that is in the table, whatever has become of it, is left alone.
\* The storage is read before the integration is ready.
SetUp(e) ==
  /\ entry[e].phase = "down" /\ ~entry[e].listed
  /\ made < MaxManagers
  /\ made' = made + 1
  /\ handlers' = Registered(made + 1)
  /\ entry' = [entry EXCEPT ![e].phase = "starting", ![e].manager = made + 1]
  /\ UNCHANGED <<managed, stored, hosted>>

\* The file it may find is not loaded, the integration not being ready yet.
FinishSetUp(e) ==
  /\ entry[e].phase = "starting"
  /\ entry' = [entry EXCEPT ![e].phase = "up", ![e].listed = TRUE]
  /\ UNCHANGED <<made, handlers, managed, stored, hosted>>

CleanedUp(integration) ==
  [integration EXCEPT !.phase = "down", !.manager = 0, !.ready = FALSE, !.loaded = NoConfig,
                      !.shared = FALSE]

CleanUp(e) ==
  /\ handlers' = IF entry[e].manager # 0 THEN Unregistered ELSE handlers
  /\ managed' = IF entry[e].manager # 0 THEN [managed EXCEPT ![entry[e].manager] = {}] ELSE managed

\* Mistake: what has been set up so far is left when the rest fails.
FailSetUp_Left(e) ==
  /\ entry[e].phase = "starting"
  /\ entry' = [entry EXCEPT ![e] = IF @.listed THEN CleanedUp(@) ELSE NoEntry]
  /\ UNCHANGED <<made, handlers, managed, stored, hosted>>

\* An integration that was being reloaded stays in the table.
FailSetUp(e) ==
  /\ entry[e].phase = "starting"
  /\ CleanUp(e)
  /\ entry' = [entry EXCEPT ![e] = IF @.listed THEN CleanedUp(@) ELSE NoEntry]
  /\ UNCHANGED <<made, stored, hosted>>

Unload(e) ==
  /\ entry[e].listed /\ entry[e].phase # "starting"
  /\ CleanUp(e)
  /\ entry' = [entry EXCEPT ![e] = NoEntry]
  /\ UNCHANGED <<made, stored, hosted>>

\* The same integration again, with a new manager that manages nothing.
Reload(e) ==
  /\ entry[e].listed /\ entry[e].phase # "starting"
  /\ made < MaxManagers
  /\ made' = made + 1
  /\ managed' = IF entry[e].manager # 0 THEN [managed EXCEPT ![entry[e].manager] = {}] ELSE managed
  /\ handlers' = Registered(made + 1)
  /\ entry' = [entry EXCEPT ![e] = [CleanedUp(@) EXCEPT !.phase = "starting", !.manager = made + 1]]
  /\ UNCHANGED <<stored, hosted>>
-----------------------------------------------------------------------------
(* Loading configurations *)

\* A manager that manages something ignores the sensors it has.
Ignored(e, config) ==
  /\ entry[e].ready /\ managed[entry[e].manager] # {}
  /\ Keys(config) = Keys(entry[e].loaded)
  /\ \A k \in Keys(config) : config.sensors[k].entity = entry[e].loaded.sensors[k].entity

\* What the manager of an entry makes of a configuration: nothing, all of it,
\* or a part, with the configuration it had before if it had one.
Loaded(e, config) ==
  LET n == entry[e].manager
      read == [entry[e] EXCEPT !.parsed = config, !.shared = FALSE, !.edited = FALSE, !.reading = {}]
      taken == [read EXCEPT !.loaded = config, !.shared = TRUE]
      all == {k \in Enabled(config) : k \notin Keys(entry[e].loaded) \/ k \in managed[n]}
  IN  IF Ignored(e, config) THEN entry' = [entry EXCEPT ![e] = read] /\ UNCHANGED managed
      ELSE \/ /\ entry[e].ready \/ all # {}
              /\ entry' = [entry EXCEPT ![e] = [taken EXCEPT !.ready = TRUE]]
              /\ managed' = [managed EXCEPT ![n] = all]
           \/ \E some \in SUBSET ((managed[n] \cap Keys(config)) \cup Enabled(config)) :
                /\ entry' = [entry EXCEPT ![e] = IF entry[e].loaded = NoConfig THEN taken ELSE read]
                /\ managed' = [managed EXCEPT ![n] = some]

StartLoadFile(e, text) ==
  /\ entry[e].phase = "up" /\ entry[e].reading = {}
  /\ entry' = [entry EXCEPT ![e].reading = {text}]
  /\ UNCHANGED <<made, handlers, managed, stored, hosted>>

ReadFails(e) ==
  /\ entry' = [entry EXCEPT ![e].reading = {}]
  /\ UNCHANGED managed

FinishLoadFile(e) ==
  \E text \in entry[e].reading :
    /\ IF ~LoadsFromFile(text) THEN ReadFails(e)
       ELSE IF entry[e].manager = 0
            THEN /\ entry' = [entry EXCEPT ![e].parsed = Read(Document(text)), ![e].shared = FALSE,
                                           ![e].edited = FALSE, ![e].reading = {}]
                 /\ UNCHANGED managed
            ELSE Loaded(e, Read(Document(text)))
    /\ UNCHANGED <<made, handlers, stored, hosted>>

LoadContent(e, text) ==
  /\ entry[e].phase = "up" /\ entry[e].reading = {}
  /\ LoadsFromYaml(text)
  /\ Loaded(e, Read(Document(text)))
  /\ UNCHANGED <<made, handlers, stored, hosted>>
-----------------------------------------------------------------------------
(* Services *)

\* The integration whose layer answers a service.
Answering(service) ==
  {e \in Entries : entry[e].manager # 0 /\ entry[e].manager = handlers[service]}

WithGlobal(globals) == Over([v \in {AddedVariable.name} |-> AddedVariable.value], globals)
WithoutGlobal(globals) == Without(globals, {AddedVariable.name})

Edited(e, globals) ==
  LET edited == [entry[e] EXCEPT !.parsed.globals = globals, !.edited = TRUE]
  IN  entry' = [entry EXCEPT ![e] = IF entry[e].shared
                                    THEN [edited EXCEPT !.loaded.globals = globals] ELSE edited]

\* The configuration has changed when saving it fails for want of a path, so
\* that neither the name resolver nor the cache hears of it.
AddVariable ==
  /\ \E e \in Answering("add_variable") :
       Edited(e, WithGlobal(entry[e].parsed.globals))
  /\ UNCHANGED <<made, handlers, managed, stored, hosted>>

RemoveVariable ==
  /\ \E e \in Answering("remove_variable") :
       /\ AddedVariable.name \in DOMAIN entry[e].parsed.globals
       /\ Edited(e, WithoutGlobal(entry[e].parsed.globals))
  /\ UNCHANGED <<made, handlers, managed, stored, hosted>>
-----------------------------------------------------------------------------
(* The stored sensor set *)

\* Names beside an entity id are not looked at, and an import takes the ids of the
\* sensor itself out of its texts: these were to be looked at and were not.
LookedAt(config) ==
  \A k \in Keys(config) :
    LET s == config.sensors[k]
        clear(t) == t.operators => t.ids \cap OwnIds(config, k) = {}
    IN  /\ clear(s.formula) /\ \A v \in DOMAIN s.variables : clear(s.variables[v].text)
        /\ \A a \in DOMAIN s.attributes :
             LET own == s.attributes[a]
             IN  clear(own.text) /\ \A v \in DOMAIN own.variables : clear(own.variables[v].text)

\* Into a set of its own, the old one being deleted.  A sensor that conflicts
\* with the global variables stops it.
Import(text) ==
  /\ LoadsFromYaml(text)
  /\ LET read == Read(Document(text))
         config == Imported(read)
         agreeing == {k \in Keys(config) : NoConflict(config.globals, config.sensors[k])}
     IN  IF agreeing = Keys(config)
         THEN stored' = [there |-> TRUE, config |-> config, imported |-> LookedAt(read)]
         ELSE \E some \in SUBSET agreeing :
                stored' = [there |-> TRUE, imported |-> FALSE,
                           config |-> [config EXCEPT !.sensors = Restrict(@, some)]]
  /\ UNCHANGED <<entry, made, handlers, managed, hosted>>

ExportAndImport ==
  /\ stored.there
  /\ Import(Exported(stored.config))

\* A sensor that is stored already stays as it is.
SetUpProgram ==
  /\ \A k \in DOMAIN HostSensors \ Keys(stored.config) :
       NoConflict(stored.config.globals, HostSensors[k])
  /\ LET config == [stored.config EXCEPT !.sensors = Over(@, HostSensors)]
     IN  /\ stored' = [there |-> TRUE, config |-> config,
                       imported |-> stored.there /\ config = stored.config /\ stored.imported]
         /\ hosted' = Enabled(config)
  /\ UNCHANGED <<entry, made, handlers, managed>>

TheStoredSet == stored.there

SetUpStored ==
  /\ TheStoredSet /\ Keys(stored.config) # {}
  /\ hosted' = Enabled(stored.config)
  /\ UNCHANGED <<entry, made, handlers, managed, stored>>
-----------------------------------------------------------------------------
\* Bounds: the integrations and the stored sensor set share no variable and no
\* property relates them, so that each is explored with the other as it is
\* initially.
NoIntegrationMade == made = 0
NoSetTouched == stored = NothingStored

Next ==
  \/ NoSetTouched /\ \E e \in Entries : SetUp(e)
  \/ \E e \in Entries :
       \/ FinishSetUp(e) \/ FailSetUp(e) \/ Unload(e) \/ Reload(e)
       \/ FinishLoadFile(e)
       \/ \E text \in Files : StartLoadFile(e, text) \/ LoadContent(e, text)
  \/ AddVariable \/ RemoveVariable
  \/ NoIntegrationMade /\ \E text \in Uploads : Import(text)
  \/ NoIntegrationMade /\ SetUpProgram
  \/ ExportAndImport \/ SetUpStored

Spec == Init /\ [][Next]_vars
-----------------------------------------------------------------------------
(* Properties *)

\* What the names, the attributes and the handlers of a configuration should
\* be, whoever has read it.
NamesMean(config, t, variables, attributes) ==
  t.operators /\ t.ids = {} =>
    \A name \in t.names : \/ name \in Keys(config) \cup DOMAIN config.globals
                          \/ name \in DOMAIN variables \cup attributes
                          \/ name \in FormulaFunctions \cup Words

ComputedMean(config, variables) ==
  \A v \in DOMAIN variables : variables[v].kind = "formula" =>
    \A name \in variables[v].text.names :
       name # v /\ name \in DOMAIN variables \cup DOMAIN config.globals \cup FormulaFunctions

\* Among any of them one depends on none of them.
NoCircle(refers) ==
  \A T \in (SUBSET DOMAIN refers) \ {{}} : \E a \in T : refers[a] \cap T = {}

AttributesOrdered(s) ==
  NoCircle([a \in {b \in DOMAIN s.attributes : IsFormulaExpression(s.attributes[b].text)} |->
              s.attributes[a].text.names \ {a}])

\* As far as a handler is a formula or a text with one reference.
HandlersOrdered(h) ==
  NoCircle([a \in {b \in DOMAIN h : \/ h[b].kind = "formula"
                                    \/ h[b].kind = "text" /\ Cardinality(h[b].mentions) = 1} |->
              h[a].mentions])

SensorSound(config, s) ==
  /\ NamesMean(config, s.formula, s.variables, {})
  /\ ComputedMean(config, s.variables)
  /\ HandlersOrdered(s.handlers)
  /\ AttributesOrdered(s)
  /\ \A a \in DOMAIN s.attributes :
       /\ NamesMean(config, s.attributes[a].text, s.attributes[a].variables,
                    DOMAIN s.attributes \cup DOMAIN s.literals)
       /\ ComputedMean(config, s.attributes[a].variables)
       /\ HandlersOrdered(s.attributes[a].handlers)

Sound(config) == \A k \in Keys(config) : SensorSound(config, config.sensors[k])

\* Every configuration that has been loaded, and the sensor set as an import of
\* what was looked at has left it, is sound: its formulas name what exists, its computed variables
\* neither an unknown variable nor themselves, no attributes depend on each
\* other in a circle and no handlers do, as far as they are formulas or texts
\* with one reference: of more a text's first one is followed
\* (schema_validator.py, utils_config.py, alternate_state_circular_validator.py).
LoadsAreSound ==
  /\ \A e \in Entries : ~entry[e].edited => Sound(entry[e].parsed)
  /\ stored.imported => Sound(stored.config)

\* A manager whose integration was unloaded, reloaded or not set up to the end
\* manages no sensor, whatever file was being read for it meanwhile, and no
\* service that is taken away with an integration is answered for it
\* (integration.py, service_layer.py).
NothingLeftBehind ==
  \A n \in 1..made :
     (\A e \in Entries : entry[e].manager # n) =>
       managed[n] = {} /\ \A service \in Removed : handlers[service] # n

\* No sensor goes by the entity id of another.
IdsApart(config) ==
  \A j, k \in Keys(config) : j # k => config.sensors[j].entity \notin OwnIds(config, k)

\* What a document cannot say of a configuration is not so.
Writable(config) ==
  /\ IdsApart(config)
  /\ \A k \in Keys(config) :
       LET s == config.sensors[k]
       IN  /\ s.enabled
           /\ \A a \in DOMAIN s.attributes :
                LET own == s.attributes[a]
                IN  /\ ~TakenForLiteral(own)
                    /\ \A v \in ComputedIn(own.variables) :
                         v \in DOMAIN s.variables /\ own.variables[v] = s.variables[v]
                    /\ DOMAIN own.variables \cap DOMAIN s.literals = {}

\* An imported sensor set that a document can say is written as one that is
\* accepted again and gives the same sensor set (storage_yaml_handler.py,
\* config_manager.py, storage_sensor_set_ops.py).
RoundTrip ==
  stored.there /\ stored.imported /\ Writable(stored.config) =>
    LET text == Exported(stored.config)
    IN  LoadsFromYaml(text) /\ Imported(Read(Document(text))) = stored.config
=============================================================================
