------------------------ MODULE ConfigurationFormats ------------------------
(***************************************************************************)
(* From the text of a document to a configuration (config_manager.py, with *)
(* utils_config.py and alternate_state_circular_validator.py), from a      *)
(* configuration to the stored one (storage_sensor_set_ops.py) and from    *)
(* the stored one to a document (storage_yaml_handler.py).                 *)
(*                                                                         *)
(* The text of a document lists its sensors one after the other, so that a *)
(* key may be there twice.                                                 *)
(***************************************************************************)
EXTENDS ConfigurationDocuments, SequencesExt

Without(f, S) == Restrict(f, DOMAIN f \ S)

\* What f has, and from g what f has not.
Over(f, g) == [x \in DOMAIN f \cup DOMAIN g |-> IF x \in DOMAIN f THEN f[x] ELSE g[x]]
-----------------------------------------------------------------------------
(* Reading *)

KeysOf(text) == [i \in DOMAIN text.sensors |-> text.sensors[i].key]

\* Looked for in the text, among the keys indented by two spaces.
DuplicateKeys(text) ==
  text.indent = 2 /\ \E i, j \in DOMAIN text.sensors :
                        i # j /\ KeysOf(text)[i] = KeysOf(text)[j]

\* The last sensor with a key is the one that is read.
Document(text) ==
  [version |-> text.version, device |-> text.device, globals |-> text.globals,
   sensors |-> [k \in Range(KeysOf(text)) |->
     text.sensors[CHOOSE i \in DOMAIN text.sensors :
       /\ text.sensors[i].key = k
       /\ \A j \in DOMAIN text.sensors : text.sensors[j].key = k => j <= i]]]

\* The text STATE_NONE means that there is no value, and so no handler.
Handlers(handlers) ==
  Without(handlers, {a \in DOMAIN handlers : handlers[a].kind \in {"null", "NONE"}})

\* What a handler refers to: all states of a formula, the first of a text.
References(handler) ==
  IF handler.kind = "formula" THEN handler.mentions
  ELSE IF handler.kind # "text" \/ handler.mentions = {} THEN {}
  ELSE IF "NONE" \in handler.mentions THEN {"NONE"}
  ELSE IF "UNKNOWN" \in handler.mentions THEN {"UNKNOWN"} ELSE {"UNAVAILABLE"}

\* From handler to handler, until one comes again.
CircleFrom(handlers, a) ==
  \E n \in 1 .. Cardinality(DOMAIN handlers) : \E way \in [0 .. n -> DOMAIN handlers] :
    /\ way[0] = a
    /\ \A i \in 1 .. n : way[i] \in References(handlers[way[i - 1]])
    /\ \E i \in 0 .. n - 1 : way[i] = way[n]

CircularHandlers(handlers) == \E a \in DOMAIN handlers : CircleFrom(handlers, a)

ComputedIn(variables) == {v \in DOMAIN variables : variables[v].kind = "formula"}

ReadVariable(v) == [v EXCEPT !.handlers = Handlers(@), !.nested = TRUE]
ReadVariables(variables) == [v \in DOMAIN variables |-> ReadVariable(variables[v])]

VariablesReadable(variables) ==
  \A v \in DOMAIN variables :
     /\ variables[v].kind # "bare"
     /\ variables[v].kind = "formula" =>
          ~Empty(variables[v].text) /\ ~CircularHandlers(Handlers(variables[v].handlers))

\* A computed variable knows the variables around it and the functions, no
\* sensor by its key, and may not use itself.
ComputedDefined(variables, globals) ==
  \A v \in ComputedIn(variables) :
     /\ variables[v].text.names \subseteq DOMAIN variables \cup DOMAIN globals \cup FormulaFunctions
     /\ v \notin variables[v].text.names

FormulaReadable(doc, s) ==
  /\ ~Empty(s.formula)
  /\ VariablesReadable(s.variables)
  /\ ComputedDefined(s.variables, doc.globals)
  /\ ~CircularHandlers(Handlers(s.handlers))

\* An attribute's own variables over those of its sensor.
VariablesOf(s, a) == Over(s.attributes[a].variables, s.variables)

AttributeReadable(doc, s, a) ==
  /\ ~Empty(s.attributes[a].text)
  /\ VariablesReadable(VariablesOf(s, a))
  /\ ComputedDefined(VariablesOf(s, a), doc.globals)
  /\ ~CircularHandlers(Handlers(s.attributes[a].handlers))

ReadAttribute(s, a) ==
  [text |-> s.attributes[a].text, variables |-> ReadVariables(VariablesOf(s, a)),
   handlers |-> Handlers(s.attributes[a].handlers)]

ReadSensor(doc, s) ==
  [enabled |-> s.enabled, entity |-> s.entity, meta |-> s.meta,
   device |-> IF s.device \in {None, "null"} THEN doc.device ELSE s.device,
   formula |-> s.formula, variables |-> ReadVariables(s.variables),
   handlers |-> Handlers(s.handlers),
   attributes |-> [a \in FormulaAttributes(s) |-> ReadAttribute(s, a)],
   literals |-> [a \in DOMAIN s.attributes \ FormulaAttributes(s) |-> s.attributes[a].text]]

Readable(doc) ==
  \A k \in DOMAIN doc.sensors :
     /\ FormulaReadable(doc, doc.sensors[k])
     /\ \A a \in FormulaAttributes(doc.sensors[k]) : AttributeReadable(doc, doc.sensors[k], a)

Read(doc) ==
  [device |-> doc.device, globals |-> doc.globals,
   sensors |-> [k \in DOMAIN doc.sensors |-> ReadSensor(doc, doc.sensors[k])]]

Accepted(doc) == Valid(doc) /\ Readable(doc)

LoadsFromFile(text) == Accepted(Document(text))
LoadsFromYaml(text) == ~DuplicateKeys(text) /\ LoadsFromFile(text)
-----------------------------------------------------------------------------
(* Importing *)

IdOf(k, s) == IF s.entity = None THEN DefaultId[k] ELSE s.entity

OwnIds(config, k) == {DefaultId[k], config.sensors[k].entity}

\* A sensor goes by its key and by what follows "sensor." in its ids.
OwnNames(config, k) == {k} \cup {ObjectId[id] : id \in OwnIds(config, k) \ {None}}

NamesItself(config, k, t) ==
  t.names \cap OwnNames(config, k) # {} \/ t.ids \cap OwnIds(config, k) # {}

\* What names the sensor stands for its state, whatever else has the name.
WithoutSelf(config, k, t) ==
  IF NamesItself(config, k, t)
  THEN [t EXCEPT !.names = (@ \ OwnNames(config, k)) \cup {State},
                 !.ids = @ \ OwnIds(config, k)]
  ELSE t

Entities(config, keys) == {IdOf(j, config.sensors[j]) : j \in keys}

\* The keys of the others, but for those with the name of a function, and the
\* ids made from the keys stand for their entities.
WithEntities(config, k, t) ==
  LET others == DOMAIN config.sensors \ {k}
      named == (t.names \cap others) \ FormulaFunctions
      meant == named \cup {j \in others : DefaultId[j] \in t.ids}
  IN  [t EXCEPT !.names = @ \ named,
                !.ids = (@ \ {DefaultId[j] : j \in meant}) \cup Entities(config, meant)]

ImportedText(config, k, t) == WithEntities(config, k, WithoutSelf(config, k, t))

\* Of the values only a key on its own stands for an entity: a computed
\* variable and a text keep the names of the others.
ImportedValue(config, k, v) ==
  LET t == WithoutSelf(config, k, v.text)
      key == t.names \cap (DOMAIN config.sensors \ {k})
  IN  IF v.kind \notin {"name", "entity"} THEN [v EXCEPT !.text = t]
      ELSE [v EXCEPT !.kind = IF key # {} \/ t.ids # {} THEN "entity" ELSE "name",
                     !.text = [t EXCEPT !.names = @ \ key,
                                        !.ids = @ \cup Entities(config, key)]]

ImportedVariables(config, k, variables) ==
  [v \in DOMAIN variables |-> ImportedValue(config, k, variables[v])]

ImportedGlobals(config) ==
  [v \in DOMAIN config.globals |->
     LET key == config.globals[v].text.names \cap DOMAIN config.sensors
     IN  IF config.globals[v].kind # "name" \/ key = {} THEN config.globals[v]
         ELSE [config.globals[v] EXCEPT
                 !.kind = "entity",
                 !.text = [@ EXCEPT !.names = {}, !.ids = Entities(config, key)]]]

ImportedAttributes(config, k, attributes) ==
  [a \in DOMAIN attributes |->
     [attributes[a] EXCEPT !.text = ImportedText(config, k, @),
                           !.variables = ImportedVariables(config, k, @)]]

ImportedLiterals(config, k, literals) ==
  [a \in DOMAIN literals |-> ImportedText(config, k, literals[a])]

ImportedSensor(config, k) ==
  [config.sensors[k] EXCEPT
     !.entity = IdOf(k, config.sensors[k]),
     !.formula = ImportedText(config, k, @),
     !.variables = ImportedVariables(config, k, @),
     !.attributes = ImportedAttributes(config, k, @),
     !.literals = ImportedLiterals(config, k, @)]

Imported(config) ==
  [config EXCEPT !.globals = ImportedGlobals(config),
                 !.sensors = [k \in DOMAIN @ |-> ImportedSensor(config, k)]]

\* A variable of a sensor with the name of a global one has its value.
NoConflict(globals, s) ==
  LET agree(variables) ==
        \A v \in DOMAIN variables \cap DOMAIN globals : variables[v] = globals[v]
  IN  agree(s.variables) /\ \A a \in DOMAIN s.attributes : agree(s.attributes[a].variables)
-----------------------------------------------------------------------------
(* Exporting *)

NoHandlers == [a \in {} |-> None]
NoVariables == [v \in {} |-> None]

\* Without variables, a formula that is a number or a text in quotes, or has none
\* of the characters + - * / ( ), is taken for a literal.
TakenForLiteral(attribute) ==
  DOMAIN attribute.variables = {} /\ (attribute.text.literal \/ ~attribute.text.operators)

\* A handler that is there is written, whatever it stands for.
WrittenHandlers(handlers) == handlers

\* Only the variables with a value of their own are written; the computed ones
\* come back through the sensor.  A literal is written as its value, without quotes.
WrittenAttribute(attribute) ==
  IF TakenForLiteral(attribute)
  THEN [kind |-> "literal", text |-> [attribute.text EXCEPT !.literal = FALSE], variables |-> NoVariables,
        handlers |-> NoHandlers, nested |-> TRUE]
  ELSE [kind |-> "formula", text |-> attribute.text,
        variables |-> Without(attribute.variables, ComputedIn(attribute.variables)),
        handlers |-> WrittenHandlers(attribute.handlers), nested |-> TRUE]

WrittenLiteral(t) ==
  [kind |-> "literal", text |-> t, variables |-> NoVariables, handlers |-> NoHandlers,
   nested |-> TRUE]

WrittenAttributes(s) ==
  Over([a \in DOMAIN s.attributes |-> WrittenAttribute(s.attributes[a])],
       [a \in DOMAIN s.literals |-> WrittenLiteral(s.literals[a])])

\* Mistake: computed variables are written without their handlers.
WrittenVariables_Bare(variables) ==
  [v \in DOMAIN variables |-> [variables[v] EXCEPT !.handlers = NoHandlers]]

WrittenVariables(variables) ==
  [v \in DOMAIN variables |-> [variables[v] EXCEPT !.handlers = WrittenHandlers(@)]]

WrittenDevice(config, s) ==
  IF s.device = config.device THEN None ELSE IF s.device = None THEN "null" ELSE s.device

\* Whether the sensor is enabled is not written.
WrittenSensor(config, k) ==
  LET s == config.sensors[k]
  IN  [key |-> k, enabled |-> TRUE, unknownField |-> FALSE, entity |-> s.entity,
       device |-> WrittenDevice(config, s), meta |-> s.meta, formula |-> s.formula,
       variables |-> WrittenVariables(s.variables), handlers |-> WrittenHandlers(s.handlers),
       nested |-> TRUE, attributes |-> WrittenAttributes(s)]

Exported(config) ==
  [version |-> "1.0", indent |-> 2, device |-> config.device, globals |-> config.globals,
   sensors |-> LET keys == SetToSeq(DOMAIN config.sensors)
               IN  [i \in DOMAIN keys |-> WrittenSensor(config, keys[i])]]
=============================================================================
