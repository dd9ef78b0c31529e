------------------------- MODULE VariableResolution -------------------------
(***************************************************************************)
(* One evaluation of a sensor's main formula, from the names in it to the  *)
(* state the sensor is given: the context of values that is built from the *)
(* global variables, the sensor's own and its computed variables           *)
(* (context_building_phase.py, utils_config.py), the resolution of what    *)
(* the text names (variable_resolution/), the expression                   *)
(* (core_formula_evaluator.py) and the handlers that stand in for          *)
(* alternate states (alternate_state_processor.py).                        *)
(*                                                                         *)
(* A formula is the sequence of its operands and what it computes the set  *)
(* of the operands it was computed from.  An evaluation runs without a     *)
(* suspension point: entities change between evaluations only.             *)
(*                                                                         *)
(* Left out: contexts a caller prepares, computed variables that ask for   *)
(* metadata or for attributes (the cache of results may keep what these    *)
(* were), and attributes of the backing entity.                            *)
(***************************************************************************)
EXTENDS Integers, SequencesExt

CONSTANTS
  Sensors,
  Entities,       \* entities and, as entities of their own, their attributes
  Observed,       \* Entities -> the readings each takes
  Names,          \* names of variables
  Variables,      \* Sensors -> its simple variables, in order
  Computed,       \* Sensors -> its computed variables, in order
  Formula,        \* Sensors -> the operands of its main formula
  OwnState,       \* Sensors -> the backing entity, OwnId or Nothing
  Handlers,       \* Sensors -> its alternate state handler, or NoHandler
  GlobalSettings, \* the sets of global variables in use; each holds a number
  MaxFatal,       \* max_fatal_errors
  OwnId, Nothing, NoHandler, Absent, NoAnswer

Alternates == {"none", "unknown", "unavailable"}
Readings == Alternates \cup {"number", "missing"}

NameOf(n) == [kind |-> "name", of |-> n]
State == [kind |-> "state", of |-> Nothing]

\* What the text of a formula may name: a variable, an entity, the attribute of
\* a variable's entity, the id of a sensor that has a backing entity, or `state`.
Operand == [kind : {"name"}, of : Names] \cup [kind : {"entity", "attribute"}, of : Entities]
           \cup [kind : {"sensor"}, of : Sensors] \cup {State}

\* A number is known by what it was made of.
Number(L) == [kind |-> "number", from |-> L]
Alternate(k) == [kind |-> k, from |-> {}]
Text == [kind |-> "text", from |-> {}]

\* The name under which the evaluator counts the errors of computed variables.
ComputedVariable == "Computed Variable"

\* A simple variable is an entity's state or a literal, known by its name.
Settings == [name : Names, value : [kind : {"entity"}, of : Entities] \cup
                                   [kind : {"literal"}, of : Names]]
Computations == [name : Names, formula : Seq(Operand)]

\* The variables of a sensor are the keys of one dictionary.
NamedOnce(s) ==
  /\ \A i, j \in DOMAIN Variables[s] : Variables[s][i].name = Variables[s][j].name => i = j
  /\ \A i, j \in DOMAIN Computed[s] : Computed[s][i].name = Computed[s][j].name => i = j
  /\ \A i \in DOMAIN Variables[s], j \in DOMAIN Computed[s] :
       Variables[s][i].name # Computed[s][j].name

ASSUME ResolutionConstants ==
  /\ Observed \in [Entities -> SUBSET Readings]
  /\ Formula \in [Sensors -> Seq(Operand)]
  /\ Variables \in [Sensors -> Seq(Settings)]
  /\ Computed \in [Sensors -> Seq(Computations)]
  /\ \A s \in Sensors : NamedOnce(s)
  /\ \A s \in Sensors : \A i \in DOMAIN Computed[s] :
       \A j \in DOMAIN Computed[s][i].formula : Computed[s][i].formula[j].kind # "attribute"
  /\ OwnState \in [Sensors -> Entities \cup {OwnId, Nothing}]
  /\ OwnId # Nothing /\ {OwnId, Nothing} \cap Entities = {}
  /\ GlobalSettings \subseteq SUBSET Names /\ \A g \in GlobalSettings : IsFiniteSet(g)
  /\ MaxFatal \in Nat \ {0}
  /\ ComputedVariable \notin Sensors

VARIABLES
  reading,    \* Entities -> Readings
  globals,    \* the global variables
  registered, \* sensors with a number in the sensor registry, zero at first
  errors,     \* formula name -> fatal errors, counted up to MaxFatal
  job,        \* the evaluation at work, or NoAnswer
  answer      \* the last answer; NoAnswer once an entity or a global has changed

vars == <<reading, globals, registered, errors, job, answer>>
-----------------------------------------------------------------------------
(* The context: entries of a name, what it refers to and its value *)

Entry(name, ref, value) == [name |-> name, ref |-> ref, value |-> value]

Has(ctx, op) == \E i \in DOMAIN ctx : ctx[i].name = op
ValueOf(ctx, op) == ctx[CHOOSE i \in DOMAIN ctx : ctx[i].name = op].value

\* Mistake: a variable replaces what the context has under its name.
Include_Always(ctx, entry) ==
  Append(SelectSeq(ctx, LAMBDA e : e.name # entry.name), entry)

\* What the context has under a name stays.
Include(ctx, entry) == IF Has(ctx, entry.name) THEN ctx ELSE Append(ctx, entry)

\* Entries that have numbers up to the last, in the order of these.
IncludeAll(ctx, last, entries) ==
  LET With[n \in 0 .. last] ==
        IF n = 0 THEN ctx
        ELSE IF n \in DOMAIN entries THEN Include(With[n - 1], entries[n])
        ELSE With[n - 1]
  IN  With[last]

GlobalContext ==
  LET names == SetToSeq(globals)
  IN  [i \in DOMAIN names |->
         Entry(NameOf(names[i]), <<NameOf(names[i])>>,
               Number({[kind |-> "global", of |-> names[i]]}))]

Reading(op) ==
  IF reading[op.of] = "number" THEN Number({op}) ELSE Alternate(reading[op.of])

\* A variable whose entity does not exist keeps the entity's name as its value.
Resolved(v) ==
  IF v.value.kind = "literal" THEN Number({v.value})
  ELSE IF reading[v.value.of] = "missing" THEN Text
  ELSE Reading(v.value)

VariableEntry(v) ==
  Entry(NameOf(v.name), <<IF v.value.kind = "literal" THEN NameOf(v.name) ELSE v.value>>,
        Resolved(v))

\* Simple variables, in the order of their declaration.
WithVariables(s, ctx) ==
  IncludeAll(ctx, Len(Variables[s]),
             [i \in DOMAIN Variables[s] |-> VariableEntry(Variables[s][i])])

-----------------------------------------------------------------------------
(* What the text names *)

\* An attribute that is missing ends the evaluation at once.
AttributeMissing(f) ==
  \E i \in DOMAIN f : f[i].kind = "attribute" /\ reading[f[i].of] = "missing"

\* Mistake: an unavailable entity ends the evaluation as a missing one does.
EntityAbsent_Unavailable(op) ==
  op.kind = "entity" /\ reading[op.of] \in {"missing", "unavailable"}

EntityAbsent(op) == op.kind = "entity" /\ reading[op.of] = "missing"

\* The id of a sensor with a backing entity stands for its last number, and not
\* for the entity of that id.
NumberAbsent(op) == op.kind = "sensor" /\ op.of \notin registered

\* What the text names in vain.
Unreadable(op) == EntityAbsent(op) \/ NumberAbsent(op)

\* "counted" if the first thing the text names in vain counts as a fatal error.
\* A reference to a sensor without a number is an error of another kind.
Fault(f) ==
  LET bad == {i \in DOMAIN f : Unreadable(f[i])}
  IN  IF AttributeMissing(f) THEN "counted"
      ELSE IF bad = {} THEN "none"
      ELSE IF f[CHOOSE i \in bad : \A j \in bad : i <= j].kind = "sensor" THEN "uncounted"
      ELSE "counted"

TextEntry(op) ==
  Entry(op, <<op>>, IF op.kind = "sensor" THEN Number({op}) ELSE Reading(op))

\* Entities of the text and numbers of the registry enter the context last.
WithText(ctx, f) ==
  IncludeAll(ctx, Len(f), [i \in {j \in DOMAIN f : f[j].kind \in {"entity", "sensor"}} |->
                             TextEntry(f[i])])

Mentions(f, op) == \E i \in DOMAIN f : f[i] = op

\* `state` without a backing entity or an entity id to read it from.
StateLost(s) == \/ OwnState[s] = Nothing
                \/ OwnState[s] \in Entities /\ reading[OwnState[s]] = "missing"

\* `state` is the backing entity's, or the sensor's own, zero if that is no number.
WithState(s, ctx) ==
  IF ~Mentions(Formula[s], State) THEN ctx
  ELSE LET v == IF OwnState[s] = OwnId \/ reading[OwnState[s]] = "number"
                THEN Number({State}) ELSE Alternate(reading[OwnState[s]])
       IN  Include(ctx, Entry(State, <<State>>, v))

-----------------------------------------------------------------------------
(* The expression *)

\* An attribute is put into the text; one that is no number is no operand.
AttributeValue(op) == IF reading[op.of] = "number" THEN Number({op}) ELSE Text

\* A name without a value stays in the text, that of a sensor without entity id too.
ValueIn(ctx, op) ==
  IF Has(ctx, op) THEN ValueOf(ctx, op)
  ELSE IF op.kind = "attribute" THEN AttributeValue(op)
  ELSE Text

\* The alternate values among the names of the text.
AlternatesIn(ctx, f) ==
  {i \in DOMAIN ctx : ctx[i].value.kind \in Alternates /\ Mentions(f, ctx[i].name)}

\* The first alternate value of the context decides; a text is a value by itself
\* only, and what else fails gives none.
Expression(ctx, f) ==
  LET alternates == AlternatesIn(ctx, f)
      values == {ValueIn(ctx, f[i]) : i \in DOMAIN f}
  IN  IF alternates # {}
        THEN ctx[CHOOSE i \in alternates : \A j \in alternates : i <= j].value
      ELSE IF \A v \in values : v.kind = "number"
        THEN Number(UNION {v.from : v \in values})
      ELSE IF Len(f) = 1 /\ Has(ctx, f[1]) THEN ValueOf(ctx, f[1])
      ELSE Alternate("none")

\* A name with an alternate state for its value; the variables are gone through
\* with what the context has of them.
Tracked(ctx, op) == Has(ctx, op) /\ ValueOf(ctx, op).kind \in Alternates

\* The alternate state behind a name; there, none counts as unknown.
StateBehind(ctx, op) ==
  LET k == ValueOf(ctx, op).kind
  IN  IF k = "none" THEN "unknown" ELSE k

\* A formula that is a single name is answered by the alternate state behind it
\* and not evaluated; "none" if there is no such state. An entity id is not a
\* single name, and of `state` only a value of none counts.
Detected(ctx, f) ==
  LET op == f[1]
  IN  IF Len(f) # 1 THEN "none"
      ELSE CASE op.kind = "attribute" /\ reading[op.of] \in Alternates -> reading[op.of]
             [] op.kind = "name" /\ Tracked(ctx, op) -> StateBehind(ctx, op)
             [] op = State /\ Has(ctx, op) /\ ValueOf(ctx, op).kind = "none"
                  -> StateBehind(ctx, op)
             [] OTHER -> "none"

-----------------------------------------------------------------------------
(* Answers *)

Answer(s, k, from, by) == [sensor |-> s, kind |-> k, from |-> from, by |-> by]

\* Mistake: an expression that fails is taken for one with a value of none.
HandlerFor_None(ctx, k) == k

\* The handler asked for a state. An expression that fails without a value of
\* none anywhere in the context counts as unavailable.
HandlerFor(ctx, k) ==
  IF k = "none" /\ ~\E i \in DOMAIN ctx : ctx[i].value.kind = "none"
  THEN "unavailable" ELSE k

\* The handler for none is taken even if it is not given.
Chosen(h, k) == IF k = "none" \/ h[k] # Absent THEN k ELSE "fallback"

\* A handler gives a number, a text, or nothing: then the sensor is unknown.
ByHandler(s, h) ==
  CASE Handlers[s][h] = "number" -> Answer(s, "ok", {[kind |-> "handler", of |-> h]}, h)
    [] Handlers[s][h] = "text"   -> Answer(s, "text", {}, h)
    [] OTHER                     -> Answer(s, "unknown", {}, h)

Handled(s, ctx, k) ==
  IF Handlers[s] = NoHandler
  THEN Answer(s, IF k = "none" THEN "unknown" ELSE k, {}, "formula")
  ELSE ByHandler(s, Chosen(Handlers[s], HandlerFor(ctx, k)))

Answered(s, ctx, v) ==
  IF v.kind \in Alternates THEN Handled(s, ctx, v.kind)
  ELSE Answer(s, IF v.kind = "number" THEN "ok" ELSE "text", v.from, "formula")

Failed(s) == Answer(s, "failed", {}, "formula")

Counted(n) == IF n < MaxFatal THEN n + 1 ELSE n
Open(name) == errors[name] = MaxFatal
-----------------------------------------------------------------------------
(* Steps of an evaluation *)

Init ==
  /\ reading \in [Entities -> Readings] /\ \A e \in Entities : reading[e] \in Observed[e]
  /\ globals \in GlobalSettings
  /\ registered = Sensors
  /\ errors = [n \in Sensors \cup {ComputedVariable} |-> 0]
  /\ job = NoAnswer /\ answer = NoAnswer

\* The sensor's number goes to the registry. An update without a number takes the
\* one there away or leaves it, as SensorUpdates has it.
Publish(a) ==
  IF a.kind = "ok" THEN registered' = registered \cup {a.sensor}
  ELSE registered' \in {registered, registered \ {a.sensor}}

StartContext(s) == WithVariables(s, GlobalContext)

\* The circuit breaker is asked first; then the context is built.
Begin(s) ==
  /\ job = NoAnswer
  /\ IF Open(s)
     THEN /\ answer' = Answer(s, "skipped", {}, "formula")
          /\ Publish(answer')
          /\ UNCHANGED job
     ELSE /\ job' = [sensor |-> s, ctx |-> StartContext(s),
                     left |-> Computed[s], waiting |-> <<>>, progress |-> FALSE]
          /\ answer' = NoAnswer
          /\ UNCHANGED registered
  /\ UNCHANGED <<reading, globals, errors>>

\* Computed variables are evaluated one by one, without the sensor: `state`, and
\* a computed variable further on, are names without a value.
ComputedValue(c) ==
  LET v == Expression(WithText(job.ctx, c.formula), c.formula)
  IN  IF v.kind \in Alternates THEN Alternate("none") ELSE v

\* Values are kept by the text they come from: a computed variable of the same
\* text as an earlier one takes the value that one had.
Shared(ctx, f, v) ==
  LET same == {i \in DOMAIN ctx : ctx[i].ref = f}
  IN  IF same = {} THEN v ELSE ctx[CHOOSE i \in same : TRUE].value

Resolve(ctx) ==
  job' = [job EXCEPT !.ctx = ctx, !.left = Tail(@), !.progress = TRUE]

\* An evaluation resets the count of errors; an alternate state found ahead of it
\* does not, and a number of names only may come from the cache of results.
Reset(name, f, state, v) ==
  \/ state = "none" /\ errors' = [errors EXCEPT ![name] = 0]
  \/ /\ \/ state # "none"
        \/ v.kind = "number" /\ \A i \in DOMAIN f : f[i].kind = "name"
     /\ UNCHANGED errors

\* The next computed variable of a pass. It is skipped while the breaker that all
\* computed variables of all sensors share is open.
ResolveComputed ==
  /\ job # NoAnswer /\ job.left # <<>>
  /\ LET c == Head(job.left)
         v == ComputedValue(c)
         fault == Fault(c.formula)
     IN  IF Has(job.ctx, NameOf(c.name)) THEN Resolve(job.ctx) /\ UNCHANGED errors
         ELSE IF Open(ComputedVariable) \/ fault # "none"
         THEN /\ job' = [job EXCEPT !.left = Tail(@), !.waiting = Append(@, c)]
              /\ errors' = IF fault = "counted"
                           THEN [errors EXCEPT ![ComputedVariable] = Counted(@)] ELSE errors
         ELSE /\ Resolve(Append(job.ctx, Entry(NameOf(c.name), c.formula,
                                               Shared(job.ctx, c.formula, v))))
              /\ Reset(ComputedVariable, c.formula, Detected(job.ctx, c.formula), v)
  /\ UNCHANGED <<reading, globals, registered, answer>>

\* What is left over is tried again as long as a pass gets on.
NextPass ==
  /\ job # NoAnswer /\ job.left = <<>> /\ job.waiting # <<>> /\ job.progress
  /\ job' = [job EXCEPT !.left = job.waiting, !.waiting = <<>>, !.progress = FALSE]
  /\ UNCHANGED <<reading, globals, registered, errors, answer>>

GiveUp ==
  /\ job # NoAnswer /\ job.left = <<>> /\ job.waiting # <<>> /\ ~job.progress
  /\ errors' = [errors EXCEPT ![job.sensor] = Counted(@)]
  /\ answer' = Failed(job.sensor)
  /\ Publish(answer')
  /\ job' = NoAnswer
  /\ UNCHANGED <<reading, globals>>

Ready == job # NoAnswer /\ job.left = <<>> /\ job.waiting = <<>>

Readable(s) ==
  /\ Fault(Formula[s]) = "none"
  /\ Mentions(Formula[s], State) => ~StateLost(s)

\* What the text names cannot be read.
Fail ==
  /\ Ready
  /\ LET s == job.sensor
     IN  /\ ~Readable(s)
         /\ answer' = Failed(s)
         /\ errors' = IF Fault(Formula[s]) = "uncounted" THEN errors
                      ELSE [errors EXCEPT ![s] = Counted(@)]
  /\ Publish(answer')
  /\ job' = NoAnswer
  /\ UNCHANGED <<reading, globals>>

FullContext(s) == WithState(s, WithText(job.ctx, Formula[s]))

\* The alternate state of the one name of the formula is the answer.
AnswerState ==
  /\ Ready /\ Readable(job.sensor)
  /\ LET s == job.sensor
         ctx == FullContext(s)
         state == Detected(ctx, Formula[s])
     IN  /\ state # "none"
         /\ answer' = Handled(s, ctx, state)
  /\ Publish(answer')
  /\ job' = NoAnswer
  /\ UNCHANGED <<reading, globals, errors>>

\* The formula is evaluated; main formulas are never answered from the cache here.
Evaluate ==
  /\ Ready /\ Readable(job.sensor)
  /\ LET s == job.sensor
         ctx == FullContext(s)
     IN  /\ Detected(ctx, Formula[s]) = "none"
         /\ answer' = Answered(s, ctx, Expression(ctx, Formula[s]))
         /\ errors' = [errors EXCEPT ![s] = 0]
  /\ Publish(answer')
  /\ job' = NoAnswer
  /\ UNCHANGED <<reading, globals>>

Change(e, r) ==
  /\ job = NoAnswer /\ r \in Observed[e]
  /\ reading' = [reading EXCEPT ![e] = r]
  /\ answer' = NoAnswer
  /\ UNCHANGED <<globals, registered, errors, job>>

SetGlobals(g) ==
  /\ job = NoAnswer /\ globals' = g
  /\ answer' = NoAnswer
  /\ UNCHANGED <<reading, registered, errors, job>>

Next ==
  \/ \E s \in Sensors : Begin(s)
  \/ ResolveComputed \/ NextPass \/ GiveUp \/ Fail \/ AnswerState \/ Evaluate
  \/ \E e \in Entities, r \in Readings : Change(e, r)
  \/ \E g \in GlobalSettings : SetGlobals(g)

Spec == Init /\ [][Next]_vars
-----------------------------------------------------------------------------
(* Properties *)

\* Every variable keeps its type.
TypeOK ==
  /\ reading \in [Entities -> Readings]
  /\ globals \subseteq Names /\ registered \subseteq Sensors
  /\ errors \in [Sensors \cup {ComputedVariable} -> 0 .. MaxFatal]
  /\ job # NoAnswer => /\ job.sensor \in Sensors
                       /\ job.progress \in BOOLEAN
  /\ answer # NoAnswer => answer.sensor \in Sensors

\* What is a number by itself, and no name: entities, registered sensors, `state`.
Numbers(s) ==
  {op \in Operand : \/ op.kind \in {"entity", "attribute"} /\ reading[op.of] = "number"
                    \/ op.kind = "sensor" /\ op.of \in registered
                    \/ op = State /\ \/ OwnState[s] = OwnId
                                     \/ OwnState[s] \in Entities /\ reading[OwnState[s]] = "number"}

\* The numbers an operand stands for, one or none, if the pairs of an operand and
\* its number are known.
Meaning(known, op) == {k[2] : k \in {x \in known : x[1] = op}}
Meant(known, f) == \A i \in DOMAIN f : Meaning(known, f[i]) # {}
MeaningOf(known, f) == UNION UNION {Meaning(known, f[i]) : i \in DOMAIN f}

\* Known without computing: global variables first, then the sensor's own.
KnownFirst(s) ==
  {<<op, {op}>> : op \in Numbers(s)}
    \cup {<<NameOf(n), {[kind |-> "global", of |-> n]}>> : n \in globals}
    \cup {<<NameOf(v.name), {v.value}>> :
            v \in {w \in ToSet(Variables[s]) :
                     /\ w.name \notin globals
                     /\ w.value.kind = "literal" \/ reading[w.value.of] = "number"}}

\* Known by computing once more; taken are the names of global variables.
KnownNext(s, taken, known) ==
  known \cup {<<NameOf(c.name), MeaningOf(known, c.formula)>> :
                c \in {d \in ToSet(Computed[s]) :
                         /\ d.name \notin taken
                         /\ Meant(known, d.formula) /\ ~Mentions(d.formula, State)}}

KnownAfter(s, taken, first) ==
  LET After[n \in 0 .. Len(Computed[s])] ==
        IF n = 0 THEN first ELSE KnownNext(s, taken, After[n - 1])
  IN  After

\* What means a number, in whatever order the computed variables are declared.
Known(s) == KnownAfter(s, globals, KnownFirst(s))[Len(Computed[s])]

\* Something the text names is not there.
Absence(f) ==
  \E i \in DOMAIN f : \/ f[i].kind \in {"entity", "attribute"} /\ reading[f[i].of] = "missing"
                      \/ f[i].kind = "sensor" /\ f[i].of \notin registered

\* Every computed variable comes after what it names.
Ordered(s) ==
  \A i, j \in DOMAIN Computed[s] :
    Mentions(Computed[s][i].formula, NameOf(Computed[s][j].name)) => j < i

Sound(s) ==
  /\ \A i \in DOMAIN Computed[s] : ~Absence(Computed[s][i].formula)
  /\ Computed[s] # <<>> => ~Open(ComputedVariable)

\* A number a formula answers is the one its text means: global variables before
\* the sensor's own, computed ones made of what they name, nothing stale and
\* nothing of another sensor. And a formula all of whose operands mean numbers is
\* answered, if its computed variables are in order and can be evaluated.
AnswersAreMeant ==
  answer # NoAnswer =>
    LET s == answer.sensor
        known == Known(s)
        f == Formula[s]
    IN  /\ answer.kind = "ok" /\ answer.by = "formula"
             => Meant(known, f) /\ answer.from = MeaningOf(known, f)
        /\ Meant(known, f) /\ Ordered(s) /\ Sound(s) /\ answer.kind # "skipped"
             => answer.kind = "ok" /\ answer.by = "formula"

\* The entities that a sensor reads.
ReadBy(s) ==
  {e \in Entities : \E op \in UNION {ToSet(Formula[s]), {v.value : v \in ToSet(Variables[s])},
                                   UNION {ToSet(c.formula) : c \in ToSet(Computed[s])}} :
                      \/ op.kind \in {"entity", "attribute"} /\ op.of = e
                      \/ op.kind = "state" /\ OwnState[s] = e}

\* A handler that answers is one for what went wrong: the one for unknown only if
\* the value of the single name is not known, or an entity's is; the one for
\* unavailable never for a value of none; the fallback only where the handler of
\* the state at hand is not given.
HandlersFit ==
  answer # NoAnswer =>
    LET s == answer.sensor
        nothing == \/ \E e \in ReadBy(s) : reading[e] = "none"
                   \/ \E c \in ToSet(Computed[s]) : \/ ~Meant(Known(s), c.formula)
                                                    \/ Mentions(c.formula, State)
                   \/ ~Ordered(s)
        unknown == \/ \E e \in ReadBy(s) : reading[e] = "unknown"
                   \/ Len(Formula[s]) = 1 /\ nothing
    IN  /\ answer.by = "unknown" => unknown
        /\ answer.by = "none" => nothing
        /\ answer.by = "unavailable" => ~Meant(Known(s), Formula[s])
        /\ answer.by = "fallback" => \/ unknown /\ Handlers[s]["unknown"] = Absent
                                     \/ Handlers[s]["unavailable"] = Absent

\* An evaluation fails only for something its texts name that is not there, for a
\* state that nothing provides, or because the breaker that computed variables
\* share is open: never for what a variable reads, and never for a reading that
\* is unknown or unavailable.
FailuresHaveACause ==
  answer # NoAnswer /\ answer.kind = "failed" =>
    LET s == answer.sensor
    IN  \/ Absence(Formula[s])
        \/ ~Sound(s)
        \/ /\ Mentions(Formula[s], State)
           /\ OwnState[s] # OwnId
           /\ OwnState[s] # Nothing => reading[OwnState[s]] = "missing"
=============================================================================
