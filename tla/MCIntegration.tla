--------------------------- MODULE MCIntegration ---------------------------
EXTENDS Integration

(* The language *)
MCFormulaFunctions == {"max", "state"}
MCWords == {"state", "on"}
MCPlainWords == {"a", "b", "x", "y", "g", "state"}
MCReserved == {"state", "max", "on"}
MCEngineNames == {"last_valid_state"}
MCDefaultId == [k \in {"a", "b", "c"} |-> "sensor." \o k]
MCObjectId == [id \in {"sensor.a", "sensor.b", "sensor.c", "sensor.own"} |->
                 IF id = "sensor.own" THEN "own" ELSE CHOOSE k \in DOMAIN MCDefaultId : MCDefaultId[k] = id]
MCSensorClasses == {"power", "energy", "date"}
MCBinaryClasses == {"motion"}
MCUnitsOf == [c \in MCSensorClasses |-> IF c = "power" THEN {"W"} ELSE IF c = "energy" THEN {"Wh"} ELSE {}]
MCStateClassesOf == [c \in MCSensorClasses |-> IF c = "power" THEN {"measurement"}
                                               ELSE IF c = "energy" THEN {"total_increasing"} ELSE {}]
MCStateClasses == {"measurement", "total_increasing"}

(* Parts of documents *)
Text(names, ids, operators) ==
  [names |-> names, ids |-> ids, operators |-> operators, literal |-> FALSE]
Sum(names) == Text(names, {}, TRUE)
Word(name) == Text({name}, {}, FALSE)
Id(id) == Text({}, {id}, FALSE)
Number == Text({}, {}, TRUE)
Minus == [Number EXCEPT !.literal = TRUE]
Quoted(names) == [Sum(names) EXCEPT !.literal = TRUE]

Value(kind, text) == [kind |-> kind, text |-> text, handlers |-> NoHandlers, nested |-> TRUE]
Literal == Value("literal", Text({}, {}, FALSE))
Entity(id) == Value("entity", Id(id))
Named(name) == Value("name", Word(name))
Computed(text) == Value("formula", text)

Handler(kind, mentions) == [kind |-> kind, mentions |-> mentions]
Var(name, value) == [v \in {name} |-> value]

Attribute(text, variables) ==
  [kind |-> "formula", text |-> text, variables |-> variables, handlers |-> NoHandlers, nested |-> TRUE]

Plain == [device |-> None, state |-> None, unit |-> None]

Sensor(k, formula) ==
  [key |-> k, enabled |-> TRUE, unknownField |-> FALSE, entity |-> None, device |-> None,
   meta |-> Plain, formula |-> formula, variables |-> NoVariables, handlers |-> NoHandlers,
   nested |-> TRUE, attributes |-> NoVariables]

A == [Sensor("a", Sum({"x", "g"})) EXCEPT !.variables = Var("x", Entity("sensor.meter"))]
B == Sensor("b", Sum({"a", "state"}))

Doc(sensors) ==
  [version |-> "1.0", indent |-> 2, device |-> None, globals |-> Var("g", Literal), sensors |-> sensors]

With(s) == Doc(<<s, B>>)
AVars(variables) == With([A EXCEPT !.variables = variables @@ @])
AAttributes(attributes) == With([A EXCEPT !.attributes = attributes])
AHandlers(h) == With([A EXCEPT !.handlers = h])
AMeta(device, state, unit) ==
  With([A EXCEPT !.meta = [device |-> device, state |-> state, unit |-> unit]])

None1 == Var("NONE", Handler("formula", {"UNKNOWN"}))
Unknown(kind, mentions) == Var("UNKNOWN", Handler(kind, mentions))

(* Documents that are read by the managers *)
MCFiles == {Doc(<<A, B>>), Doc(<<B, A, [B EXCEPT !.enabled = FALSE]>>)}

(* Documents that are imported *)
Names == {
  Doc(<<A, B>>), Doc(<<A>>), Doc(<<>>), With([A EXCEPT !.formula = Sum({"x", "nowhere"})]),
  With([A EXCEPT !.formula = Text({"nowhere"}, {"sensor.meter"}, TRUE)]),
  With([A EXCEPT !.formula = Text({"nowhere"}, {"sensor.a"}, TRUE)]),
  With([A EXCEPT !.formula = Sum({"a", "x", "b"})]), With([A EXCEPT !.entity = "sensor.own"]),
  With([A EXCEPT !.entity = "sensor.b"]), With([A EXCEPT !.entity = "sensor.b", !.formula = Sum({"x", "b"})]),
  With([A EXCEPT !.entity = "sensor.own", !.formula = Sum({"own"}),
                 !.variables = Var("own", Entity("sensor.meter")) @@ Var("y", Computed(Sum({"own"})))]),
  Doc(<<[A EXCEPT !.formula = Text({"x", "b"}, {"sensor.b"}, TRUE)], [B EXCEPT !.entity = "sensor.own"]>>),
  With([A EXCEPT !.enabled = FALSE]), With([A EXCEPT !.unknownField = TRUE]),
  With([A EXCEPT !.formula = Text({}, {}, FALSE)]),
  [Doc(<<A>>) EXCEPT !.version = "2.0"], [Doc(<<A, A>>) EXCEPT !.indent = 4], Doc(<<A, A>>),
  [Doc(<<A>>) EXCEPT !.device = "panel"], [Doc(<<[A EXCEPT !.device = "other"]>>) EXCEPT !.device = "panel"]}
Variables == {
  AVars(Var("y", Computed(Sum({"x"})))), AVars(Var("y", Computed(Sum({"y"})))),
  AVars(Var("y", Computed(Sum({"nowhere"})))), AVars(Var("y", Computed(Sum({"b"})))),
  AVars(Var("b", Literal) @@ Var("y", Computed(Sum({"b"})))), AVars(Var("y", Value("text", Sum({"b"})))),
  AVars(Var("y", Computed(Sum({"g", "max"})))), AVars(Var("y", Computed(Text({}, {}, FALSE)))),
  AVars(Var("y", Named("b"))), AVars(Var("y", Named("nowhere"))), AVars(Var("y", Value("text", Sum({"x"})))),
  AVars(Var("y", Value("bare", Number))), AVars(Var("max", Literal)), AVars(Var("y", Entity("sensor.a"))),
  AVars(Var("g", Literal)), AVars(Var("g", Entity("sensor.meter"))),
  AVars(Var("y", [Computed(Sum({"x"})) EXCEPT !.handlers = Unknown("literal", {})])),
  AVars(Var("y", [Computed(Sum({"x"})) EXCEPT !.handlers = Unknown("text", {}), !.nested = FALSE])),
  AVars(Var("y", [Computed(Sum({"x"})) EXCEPT !.handlers = Unknown("formula", {"UNKNOWN"})])),
  [Doc(<<A, B>>) EXCEPT !.globals = Var("h", Named("b")) @@ @],
  [Doc(<<A, B>>) EXCEPT !.globals = Var("h", Computed(Sum({"g"}))) @@ @],
  [Doc(<<A, B>>) EXCEPT !.globals = Var("h", Value("text", Sum({"nowhere"}))) @@ @]}
Attributes == {
  AAttributes(Var("p", Attribute(Sum({"x", "q"}), NoVariables)) @@ Var("q", WrittenLiteral(Word("state")))),
  AAttributes(Var("p", Attribute(Sum({"q"}), NoVariables)) @@ Var("q", Attribute(Sum({"p"}), NoVariables))),
  AAttributes(Var("p", Attribute(Sum({"q", "r"}), NoVariables)) @@ Var("q", Attribute(Sum({"p", "r"}), NoVariables))
                @@ Var("r", WrittenLiteral(Number))),
  AAttributes(Var("p", Attribute(Sum({"q"}), NoVariables)) @@ Var("q", Attribute(Sum({"x"}), NoVariables))),
  AAttributes(Var("p", Attribute(Sum({"nowhere"}), NoVariables))), AAttributes(Var("p", Attribute(Minus, NoVariables))),
  Doc(<<[Sensor("a", Sum({"g"})) EXCEPT !.attributes = Var("p", Attribute(Minus, NoVariables))]>>),
  Doc(<<[Sensor("a", Sum({"g"})) EXCEPT !.attributes = Var("p", Attribute(Quoted({"g"}), NoVariables))]>>),
  AAttributes(Var("p", Attribute(Sum({"q"}), Var("q", Literal))) @@ Var("q", WrittenLiteral(Number))),
  AAttributes(Var("p", Attribute(Sum({"q"}), NoVariables)) @@ Var("x", WrittenLiteral(Number))),
  AAttributes(Var("p", Attribute(Sum({"z"}), Var("z", Computed(Sum({"x"})))))),
  AAttributes(Var("p", Attribute(Sum({"z"}), Var("z", Named("b"))))),
  AAttributes(Var("last_valid_state", Attribute(Sum({"x"}), NoVariables))),
  AAttributes(Var("p", [Attribute(Sum({"x"}), NoVariables) EXCEPT !.nested = FALSE, !.handlers = Unknown("literal", {})])),
  AAttributes(Var("p", [Attribute(Sum({"x"}), NoVariables) EXCEPT !.nested = FALSE, !.handlers = None1])),
  Doc(<<Sensor("b", Number), [Sensor("a", Word("b")) EXCEPT !.attributes = Var("p", Attribute(Word("a"), NoVariables))]>>)}
HandlersOf == {
  AHandlers(Unknown("text", {"UNKNOWN"})), AHandlers(None1 @@ Unknown("formula", {"NONE"})),
  AHandlers(None1 @@ Unknown("text", {"UNAVAILABLE"})), AHandlers(None1 @@ Unknown("NONE", {})),
  AHandlers(None1 @@ Unknown("null", {})), AHandlers(Unknown("incomplete", {})),
  AHandlers(None1 @@ Unknown("text", {"NONE"})),
  With([A EXCEPT !.nested = FALSE, !.handlers = None1])}
Classes == {
  AMeta("power", "measurement", "W"), AMeta("power", "measurement", "Wh"),
  AMeta("power", "total_increasing", "W"), AMeta("date", "measurement", "today"),
  AMeta("date", "total_increasing", None), AMeta("motion", "measurement", "W"),
  AMeta("motion", "rising", None), AMeta("nowhere", None, None), AMeta(None, "rising", "W")}
MCUploads == Names \cup Variables \cup Attributes \cup HandlersOf \cup Classes

(* A program's sensor *)
MCHostSensors ==
  [k \in {"c"} |-> Read(Document(Doc(<<[Sensor("c", Sum({"g"})) EXCEPT !.variables = Var("g", Entity("sensor.meter"))]>>))).sensors["c"]]
MCAddedVariable == [name |-> "g", value |-> Literal]

EntrySymmetry == Permutations(Entries)
=============================================================================
