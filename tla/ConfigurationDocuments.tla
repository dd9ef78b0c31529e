----------------------- MODULE ConfigurationDocuments -----------------------
(***************************************************************************)
(* What a configuration document has to be like (schema_validator.py): its *)
(* shape, then what its names, device classes and units have to be.        *)
(*                                                                         *)
(* A text is the set of names in it, the set of entity ids in it, whether  *)
(* it has one of the characters + - * / ( ) and whether it is a literal    *)
(* with them: a number with a minus sign or a text in quotes.              *)
(***************************************************************************)
EXTENDS Naturals, FiniteSets, Sequences, Functions

CONSTANTS
  FormulaFunctions, \* the functions of formulas, and state
  Words,           \* what formulas may hold besides: reserved words, boolean states
  PlainWords,      \* the names of letters only, which are texts of their own too
  Reserved,        \* no name of a variable or an attribute
  EngineNames,     \* no name of an attribute
  DefaultId,       \* a key -> the entity id it is given
  ObjectId,        \* an entity id -> what follows "sensor." in it
  SensorClasses, BinaryClasses,
  UnitsOf, StateClassesOf,   \* a sensor's device class -> the units, state classes
  StateClasses, Rising,      \* Rising is total_increasing
  State, None

Alternates == {"UNAVAILABLE", "UNKNOWN", "NONE", "FALLBACK"}
\* A handler of kind "NONE" is the text STATE_NONE alone, "incomplete" an
\* object without a formula.
HandlerKinds == {"literal", "null", "NONE", "text", "formula", "incomplete"}
\* A "bare" value is an object without a formula.
ValueKinds == {"literal", "entity", "name", "text", "formula", "bare"}

Empty(t) == t.names = {} /\ t.ids = {} /\ ~t.operators
-----------------------------------------------------------------------------
(* The shape of a document *)

\* Handlers of a sensor, an attribute's in the object alternate_states and
\* those of a sensor's computed variables.
HandlersFit(handlers) ==
  \A a \in DOMAIN handlers : handlers[a].kind # "incomplete"

\* An attribute may have two of its handlers beside its formula.
BesideFormula(handlers) ==
  /\ DOMAIN handlers \subseteq {"UNAVAILABLE", "UNKNOWN"}
  /\ \A a \in DOMAIN handlers : handlers[a].kind \notin {"null", "incomplete"}

\* In an attribute or among the global variables, handlers are texts there.
TextsBeside(handlers) ==
  /\ DOMAIN handlers \subseteq {"UNAVAILABLE", "UNKNOWN"}
  /\ \A a \in DOMAIN handlers : handlers[a].kind \in {"text", "NONE"}

SensorVariableFits(v) ==
  /\ v.kind # "bare"
  /\ v.kind = "formula" =>
       /\ ~Empty(v.text)
       /\ DOMAIN v.handlers # {} => v.nested /\ HandlersFit(v.handlers)

AttributeVariableFits(v) ==
  /\ v.kind # "bare"
  /\ v.kind = "formula" =>
       /\ ~Empty(v.text)
       /\ DOMAIN v.handlers # {} => ~v.nested /\ TextsBeside(v.handlers)

GlobalsFit(globals) ==
  \A v \in DOMAIN globals :
     /\ globals[v].kind # "bare"
     /\ globals[v].kind = "formula" =>
          /\ ~Empty(globals[v].text)
          /\ DOMAIN globals[v].handlers # {} =>
               ~globals[v].nested /\ TextsBeside(globals[v].handlers)

AttributeFits(attribute) ==
  attribute.kind = "formula" =>
    /\ ~Empty(attribute.text)
    /\ \/ DOMAIN attribute.handlers = {}
       \/ attribute.nested /\ HandlersFit(attribute.handlers)
       \/ ~attribute.nested /\ BesideFormula(attribute.handlers)

AttributesFit(attributes) ==
  \A a \in DOMAIN attributes :
     /\ attributes[a].kind \in {"literal", "formula"}
     /\ AttributeFits(attributes[a])
     /\ \A v \in DOMAIN attributes[a].variables :
          AttributeVariableFits(attributes[a].variables[v])

FieldsFit(s) == ~s.unknownField /\ ~Empty(s.formula)

SensorFits(s) ==
  /\ FieldsFit(s)
  /\ s.device # "null"
  /\ DOMAIN s.handlers # {} => s.nested /\ HandlersFit(s.handlers)
  /\ \A v \in DOMAIN s.variables : SensorVariableFits(s.variables[v])
  /\ AttributesFit(s.attributes)
-----------------------------------------------------------------------------
(* What its names, classes and units have to be *)

\* Only these texts have their names looked at.
IsFormulaExpression(t) == t.operators /\ t.ids = {}

NamesDefined(t, declared) ==
  IsFormulaExpression(t) => t.names \subseteq declared \cup FormulaFunctions \cup Words

PlainTexts(t) == t.names \cap PlainWords

ValueAccepted(v, declared) ==
  \/ v.kind \in {"literal", "entity"}
  \/ v.kind = "formula" /\ ~Empty(v.text)
  \/ v.kind = "name" /\ v.text.names \subseteq declared \cup PlainTexts(v.text)

NameAllowed(name) == name \notin Reserved

\* A text value is searched for names like a formula.
VariablesValid(variables, declared) ==
  \A v \in DOMAIN variables :
     /\ NameAllowed(v)
     /\ variables[v].kind = "text" => NamesDefined(variables[v].text, declared)
     /\ ValueAccepted(variables[v], declared)

FormulaAttributes(s) ==
  {a \in DOMAIN s.attributes : s.attributes[a].kind = "formula"}

\* The names known around an attribute: everything but itself.
KnownTo(doc, s, a) ==
  DOMAIN doc.sensors \cup DOMAIN doc.globals \cup DOMAIN s.variables
    \cup DOMAIN s.attributes[a].variables \cup {State} \cup (DOMAIN s.attributes \ {a})

AttributeValid(doc, s, a) ==
  NamesDefined(s.attributes[a].text, KnownTo(doc, s, a))

\* No variable of an attribute has the name of a literal attribute.
ScopesDisjoint(s) ==
  \A a \in FormulaAttributes(s) :
     DOMAIN s.attributes[a].variables
       \cap {b \in DOMAIN s.attributes : s.attributes[b].kind # "formula"} = {}

\* The other attributes an attribute's formula mentions.
DependsOn(s) ==
  [a \in DOMAIN s.attributes |->
     IF a \in FormulaAttributes(s) /\ IsFormulaExpression(s.attributes[a].text)
     THEN s.attributes[a].text.names \cap (DOMAIN s.attributes \ {a})
     ELSE {}]

\* Mistake: an attribute follows as soon as one it depends on is there.
InOrder_Any(dependsOn) ==
  LET last == Cardinality(DOMAIN dependsOn)
      reached[n \in 0 .. last] ==
        IF n = 0 THEN {}
        ELSE {a \in DOMAIN dependsOn :
                dependsOn[a] = {} \/ dependsOn[a] \cap reached[n - 1] # {}}
  IN  reached[last]

\* Kahn's algorithm, round by round: the attributes it gets to.
InOrder(dependsOn) ==
  LET last == Cardinality(DOMAIN dependsOn)
      reached[n \in 0 .. last] ==
        IF n = 0 THEN {} ELSE {a \in DOMAIN dependsOn : dependsOn[a] \subseteq reached[n - 1]}
  IN  reached[last]

LeftOver(s) == DOMAIN s.attributes \ InOrder(DependsOn(s))

CircularDependencies(s) == LeftOver(s) # {}

AttributesValid(doc, s) ==
  /\ ScopesDisjoint(s)
  /\ ~CircularDependencies(s)
  /\ \A a \in DOMAIN s.attributes : NameAllowed(a) /\ a \notin EngineNames
  /\ \A a \in FormulaAttributes(s) : AttributeValid(doc, s, a)

FormulaValid(doc, s) ==
  NamesDefined(s.formula, DOMAIN doc.sensors \cup DOMAIN doc.globals \cup DOMAIN s.variables)

DeviceClassKnown(meta) ==
  meta.device # None => meta.device \in SensorClasses \cup BinaryClasses

\* A state class outside the list of the classes, or one they cannot have.
StateClassFits(meta) ==
  meta.state # None /\ meta.device # None =>
    IF meta.device \in SensorClasses /\ meta.state \in StateClasses
    THEN /\ StateClassesOf[meta.device] # {} => meta.state \in StateClassesOf[meta.device]
         /\ meta.state = Rising => Rising \in StateClassesOf[meta.device]
    ELSE meta.state \in StateClasses

\* Classes with no units of their own take any.
UnitFits(meta) ==
  meta.device \in SensorClasses /\ meta.unit # None =>
    UnitsOf[meta.device] = {} \/ meta.unit \in UnitsOf[meta.device]

GlobalsValid(doc) ==
  VariablesValid(doc.globals, DOMAIN doc.sensors \cup DOMAIN doc.globals)

\* The variables everywhere in a document.
ReferencesValid(doc) ==
  LET outside == DOMAIN doc.sensors \cup DOMAIN doc.globals
  IN  /\ GlobalsValid(doc)
      /\ \A k \in DOMAIN doc.sensors :
           LET s == doc.sensors[k]
           IN  /\ VariablesValid(s.variables, outside \cup DOMAIN s.variables)
               /\ \A a \in FormulaAttributes(s) :
                    VariablesValid(s.attributes[a].variables,
                                   outside \cup DOMAIN s.variables
                                     \cup DOMAIN s.attributes[a].variables)

MeaningValid(doc) ==
  /\ ReferencesValid(doc)
  /\ \A k \in DOMAIN doc.sensors :
       /\ DeviceClassKnown(doc.sensors[k].meta)
       /\ FormulaValid(doc, doc.sensors[k])
       /\ AttributesValid(doc, doc.sensors[k])
       /\ StateClassFits(doc.sensors[k].meta)
       /\ UnitFits(doc.sensors[k].meta)

\* The part of the schema above the sensors.
DocumentFits(doc) ==
  /\ GlobalsFit(doc.globals)
  /\ DOMAIN doc.sensors # {}
  /\ \A k \in DOMAIN doc.sensors : SensorFits(doc.sensors[k])

Valid(doc) == doc.version = "1.0" /\ DocumentFits(doc) /\ MeaningValid(doc)
=============================================================================
