------------------------- MODULE FormulaEvaluation -------------------------
(***************************************************************************)
(* The evaluator's front door (evaluator.py, pre_evaluation_phase.py): the *)
(* circuit breaker that stops evaluating a formula after repeated fatal    *)
(* errors (evaluator_error_handler.py), what the entities a formula reads  *)
(* make of its evaluation, and the cache of results (cache.py,             *)
(* evaluator_cache.py) that update cycles by-pass.                         *)
(*                                                                         *)
(* The check of dependencies ahead of the evaluation is left out: the      *)
(* extractor looks for the configuration in the evaluation context, never  *)
(* finds it and names no entity, so that only the evaluation itself meets  *)
(* entities that are missing or unavailable.                               *)
(*                                                                         *)
(* An evaluation runs without a suspension point, so it is one step.  What *)
(* a formula computes is not interpreted: its value is the record of the   *)
(* formula and of everything it read.                                      *)
(***************************************************************************)
EXTENDS Integers, SequencesExt

CONSTANTS
  Formulas,    \* the FormulaConfigs evaluated
  Name, Id,    \* Formulas -> a label: config.name or config.id, and config.id
  Reads,       \* Formulas -> entities found in the text and the variables
  InText,      \* Formulas -> those found in the text
  Alone,       \* formulas that are the name of one variable
  Hidden,      \* Formulas -> entities read through a collection pattern
  UsesGlobals, \* formulas that name a global variable
  Own,         \* main formulas of sensors, evaluated with their SensorConfig
  Circular,    \* formulas that refer to themselves
  Broken,      \* formulas whose evaluation fails (a syntax error)
  Contexts,    \* what a caller may pass as context, variable values only
  NoContext,   \* an empty context, or none
  Entities,
  Values, Missing, Unavailable, Invalid, \* what an entity may read as
  Observed,    \* the readings the entities take
  GlobalSettings, \* the sets of global variables and values in use
  MaxFatal,    \* max_fatal_errors
  MaxEntries,  \* max_entries of the cache
  NoValue,     \* an answer without a value
  NoAnswer

Readings == Values \cup {Missing, Unavailable, Invalid}
Labels == {Name[f] : f \in Formulas} \cup {Id[f] : f \in Formulas}
Kinds == {"ok", "unknown", "failed", "skipped"}

ASSUME EvaluationConstants ==
  /\ Name \in [Formulas -> Labels] /\ Id \in [Formulas -> Labels]
  /\ Reads \in [Formulas -> SUBSET Entities] /\ InText \in [Formulas -> SUBSET Entities]
  /\ \A f \in Formulas : InText[f] \subseteq Reads[f]
  /\ Alone \subseteq Formulas /\ Hidden \in [Formulas -> SUBSET Entities]
  /\ UsesGlobals \subseteq Formulas /\ Own \subseteq Formulas
  /\ Circular \subseteq Formulas /\ Broken \subseteq Formulas
  /\ NoContext \in Contexts /\ Observed \subseteq Readings
  /\ MaxFatal \in Nat \ {0} /\ MaxEntries \in Nat \ {0}
  /\ {} \in GlobalSettings

ASSUME ReadingsDiffer ==
  /\ Missing \notin Values /\ Unavailable \notin Values /\ Invalid \notin Values
  /\ Missing # Unavailable /\ Missing # Invalid /\ Unavailable # Invalid

VARIABLES
  reading,  \* Entities -> Readings, the states of Home Assistant and the data provider
  globals,  \* the global variables the evaluator was last given
  fatal,    \* formula name -> consecutive fatal errors, counted up to MaxFatal
  cache,    \* entries, the least recently stored first
  cycle,    \* an update cycle is running
  answer,   \* what the last evaluation returned, and what a fresh one would have
  streak    \* history: formula name -> whose fatal errors came since one of that
            \* name last succeeded, the first MaxFatal of them

vars == <<reading, globals, fatal, cache, cycle, answer, streak>>
-----------------------------------------------------------------------------
(* What a formula reads and what it computes *)

\* The formulas that share f's name, and those that share its id: display names
\* are the user's, and the service gives every text it evaluates one id and name.
Namesakes(f) == {g \in Formulas : Name[g] = Name[f]}
SameId(f) == {g \in Formulas : Id[g] = Id[f]}

Globals(f) == IF f \in UsesGlobals THEN globals ELSE {}

\* A formula's value is known by all that went into it.
Value(f, c) == [formula |-> f, context |-> c, globals |-> Globals(f),
                inputs |-> {<<e, reading[e]>> : e \in Reads[f] \cup Hidden[f]}]

\* Mistake: an unavailable entity counts as missing.
Faulty_Unavailable(f) ==
  \/ f \in Circular
  \/ \E e \in InText[f] : reading[e] = Missing
  \/ \E e \in Reads[f] : reading[e] \in {Invalid, Unavailable}

\* What ends an evaluation with an exception: a missing entity does if the text
\* names it, one the data provider has no valid value for in any case.
Faulty(f) ==
  \/ f \in Circular
  \/ \E e \in InText[f] : reading[e] = Missing
  \/ \E e \in Reads[f] : reading[e] = Invalid

Waiting(f) == \E e \in Reads[f] : reading[e] = Unavailable

\* A variable whose entity does not exist keeps the entity's name as its value.
Unresolved(f) == \E e \in Reads[f] \ InText[f] : reading[e] = Missing

\* Only a number is cached.
Numeric(f) ==
  /\ ~Waiting(f) /\ ~Unresolved(f)
  /\ f \notin Broken
  /\ f \in UsesGlobals => globals # {}

-----------------------------------------------------------------------------
(* The circuit breaker *)

\* Mistake: the breaker opens one error late, at a count that is never reached.
Open_Late(f) == fatal[Name[f]] > MaxFatal

Open(f) == fatal[Name[f]] = MaxFatal

\* Counts past the limit are not told apart.
Counted(n) == IF n < MaxFatal THEN n + 1 ELSE n

-----------------------------------------------------------------------------
(* The result cache *)

\* Mistake: what evaluation added is left out of the key.
StoreKey_CallerOnly(f, c) == [id |-> Id[f], context |-> c, added |-> {}]

\* A lookup knows the caller's context only; a store knows what evaluation added.
LookupKey(f, c) == [id |-> Id[f], context |-> c, added |-> {}]

Added(f) == globals \cup {<<e, reading[e]>> : e \in Reads[f]}
                    \cup (IF f \in Own THEN {f} ELSE {})
StoreKey(f, c) == [id |-> Id[f], context |-> c, added |-> Added(f)]

Keyed(s, k) == {i \in DOMAIN s : s[i].key = k}
Lookup(k) == cache[CHOOSE i \in Keyed(cache, k) : TRUE].value

\* Mistake: the cache is consulted within a cycle too.
Hit_InCycle(f, c) == Keyed(cache, LookupKey(f, c)) # {}

Hit(f, c) == ~cycle /\ Keyed(cache, LookupKey(f, c)) # {}

\* Mistake: makes room one entry too late.
Evicted_Late(expired) ==
  IF Len(cache) <= MaxEntries THEN cache ELSE SubSeq(cache, 2, Len(cache))

\* At capacity the entries past their TTL go and, if that is not enough, the
\* oldest tenth.
Evicted(expired) ==
  LET rest == SubSeq(cache, expired + 1, Len(cache))
  IN  IF Len(cache) < MaxEntries THEN cache
      ELSE IF Len(rest) < MaxEntries THEN rest
      ELSE SubSeq(rest, 1 + Max({1, Len(rest) \div 10}), Len(rest))

Without(s, k) ==
  IF Keyed(s, k) = {} THEN s ELSE RemoveAt(s, CHOOSE i \in Keyed(s, k) : TRUE)

StoredIn(s, k, v) == Append(Without(s, k), [key |-> k, value |-> v])

-----------------------------------------------------------------------------
(* One evaluation: the checks in the order the code makes them *)

Reply(f, c, kind, value, hit) ==
  answer' = [formula |-> f, context |-> c, kind |-> kind, value |-> value,
             hit |-> hit, fresh |-> [g \in SameId(f) |-> Value(g, c)]]

Lengthened(s, f) == IF Len(s) < MaxFatal THEN Append(s, f) ELSE s

\* A fatal error is counted under the formula's name and raised to the caller.
Fail(f, c) ==
  /\ Reply(f, c, "failed", NoValue, FALSE)
  /\ fatal' = [fatal EXCEPT ![Name[f]] = Counted(@)]
  /\ streak' = [streak EXCEPT ![Name[f]] = Lengthened(@, f)]
  /\ UNCHANGED cache

\* The circular reference check comes before the breaker.
FailCircular(f, c) == f \in Circular /\ Fail(f, c)

Skip(f, c) ==
  /\ f \notin Circular /\ Open(f)
  /\ Reply(f, c, "skipped", NoValue, FALSE)
  /\ UNCHANGED <<fatal, streak, cache>>

\* Mistake: the breaker is not consulted.
Attempted_Anyway(f) == f \notin Circular

Attempted(f) == f \notin Circular /\ ~Open(f)

Serve(f, c) ==
  /\ Attempted(f) /\ Hit(f, c)
  /\ Reply(f, c, "ok", Lookup(LookupKey(f, c)), TRUE)
  /\ UNCHANGED <<fatal, streak, cache>>

\* Only an evaluation within the breaker meets the entities.
FailDependency(f, c) ==
  /\ Attempted(f) /\ ~Hit(f, c)
  /\ Faulty(f)
  /\ Fail(f, c)

\* Mistake: an unavailable entity that is the whole formula opens the breaker.
Reflect_Counts(f, c) ==
  /\ Attempted(f) /\ ~Hit(f, c)
  /\ ~Faulty(f) /\ f \in Alone /\ Waiting(f)
  /\ Reply(f, c, "unknown", NoValue, FALSE)
  /\ fatal' = [fatal EXCEPT ![Name[f]] = Counted(@)]
  /\ UNCHANGED <<streak, cache>>

\* A variable alone answers its entity's alternate state, which counts neither
\* as a failure nor as a success.
Reflect(f, c) ==
  /\ Attempted(f) /\ ~Hit(f, c)
  /\ ~Faulty(f) /\ f \in Alone /\ Waiting(f)
  /\ Reply(f, c, "unknown", NoValue, FALSE)
  /\ UNCHANGED <<fatal, streak, cache>>

\* An expression that fails, for its syntax or for what its entities are, gives
\* an alternate state, so it too counts as a success; a variable alone gives the
\* name of its missing entity.
Compute(f, c) ==
  /\ Attempted(f) /\ ~Hit(f, c)
  /\ ~Faulty(f) /\ (f \in Alone => ~Waiting(f))
  /\ fatal' = [fatal EXCEPT ![Name[f]] = 0]
  /\ streak' = [streak EXCEPT ![Name[f]] = <<>>]
  /\ \/ /\ Numeric(f)
        /\ Reply(f, c, "ok", Value(f, c), FALSE)
        /\ \E expired \in 0..Len(cache) :
             cache' = StoredIn(Evicted(expired), StoreKey(f, c), Value(f, c))
     \/ /\ ~Numeric(f)
        /\ IF f \in Alone /\ Unresolved(f)
           THEN Reply(f, c, "ok", Value(f, c), FALSE)
           ELSE Reply(f, c, "unknown", NoValue, FALSE)
        /\ UNCHANGED cache

\* A sensor without computed variables passes no context to the evaluator when
\* a data provider resolves its variables; other callers pass what they like.
Evaluate(f, c) ==
  /\ f \in Own => c = NoContext
  /\ \/ FailCircular(f, c) \/ Skip(f, c) \/ Serve(f, c)
     \/ FailDependency(f, c) \/ Reflect(f, c) \/ Compute(f, c)
  /\ UNCHANGED <<reading, globals, cycle>>

-----------------------------------------------------------------------------
(* What happens around evaluations *)

SetReading(e, r) ==
  /\ reading' = [reading EXCEPT ![e] = r]
  /\ UNCHANGED <<globals, fatal, cache, cycle, answer, streak>>

StartCycle(g) ==
  /\ ~cycle
  /\ globals' = g
  /\ cycle' = TRUE
  /\ UNCHANGED <<reading, fatal, cache, answer, streak>>

EndCycle ==
  /\ cycle
  /\ cycle' = FALSE
  /\ UNCHANGED <<reading, globals, fatal, cache, answer, streak>>

\* A reload, a changed variable or a renamed entity drops every result.
ClearCache ==
  /\ cache' = <<>>
  /\ UNCHANGED <<reading, globals, fatal, cycle, answer, streak>>

Init ==
  /\ reading \in [Entities -> Observed]
  /\ globals = {}
  /\ fatal = [n \in Labels |-> 0]
  /\ cache = <<>>
  /\ cycle = FALSE
  /\ answer = NoAnswer
  /\ streak = [n \in Labels |-> <<>>]

Next ==
  \/ \E f \in Formulas, c \in Contexts : Evaluate(f, c)
  \/ \E e \in Entities, r \in Observed : SetReading(e, r)
  \/ \E g \in GlobalSettings : StartCycle(g)
  \/ EndCycle
  \/ ClearCache

Spec == Init /\ [][Next]_vars

\* Home Assistant polls every sensor again and again.
FairSpec == Spec /\ \A f \in Own : WF_vars(Evaluate(f, NoContext))
-----------------------------------------------------------------------------
(* Properties *)

\* Everything a key may add to the caller's context.
Additions == (UNION GlobalSettings) \cup (Entities \X Readings) \cup Own
Keys == [id : Labels, context : Contexts, added : SUBSET Additions]
AnswerValues ==
  [formula : Formulas, context : Contexts, globals : GlobalSettings,
   inputs : SUBSET (Entities \X Readings)]
Entries == [key : Keys, value : AnswerValues]
Answers(f) ==
  [formula : {f}, context : Contexts, kind : Kinds,
   value : AnswerValues \cup {NoValue}, hit : BOOLEAN, fresh : [SameId(f) -> AnswerValues]]

\* Counts stay within the breaker's limit and the cache within its size, however
\* evictions and stores interleave (cache.py _evict_if_needed, store_result).
TypeOK ==
  /\ reading \in [Entities -> Readings]
  /\ globals \in GlobalSettings
  /\ fatal \in [Labels -> 0..MaxFatal]
  /\ streak \in [Labels -> Seq(Formulas)]
  /\ cycle \in BOOLEAN
  /\ answer = NoAnswer \/ \E f \in Formulas : answer \in Answers(f)
  /\ cache \in Seq(Entries)
  /\ Len(cache) <= MaxEntries

\* A formula is skipped only after MaxFatal fatal errors of formulas of its name, with
\* no success of one of them in between: its own only, unless another sensor or
\* computed variable has its display name (evaluator.py:366), whose errors then count
\* too. Unavailable entities and cached answers never do (should_skip_evaluation).
SkipsAreEarned ==
  answer # NoAnswer /\ answer.kind = "skipped" =>
    LET errors == streak[Name[answer.formula]]
    IN  Len(errors) = MaxFatal /\ \A i \in DOMAIN errors : errors[i] \in Namesakes(answer.formula)

\* An open breaker never closes: a skipped formula gets no chance to succeed, and
\* neither update cycles nor cleared caches reset the count
\* (handle_successful_evaluation is the only reset).
BreakerLatches == [][\A f \in Formulas : Open(f) => Open(f)']_vars

\* Every value answered is the one that a fresh evaluation would have computed from
\* the caller's context, the global variables and the present readings, with two
\* exceptions, both of answers from the cache (cache.py:221 _generate_cache_key): it may
\* be the value of another formula with the same id, as all texts of the
\* evaluate_formula service have (service_layer.py:415), and what entities were read
\* through a collection pattern may be older.
FreshAnswers ==
  answer # NoAnswer /\ answer.value # NoValue =>
    \E g \in SameId(answer.formula) :
      /\ ~answer.hit => g = answer.formula
      /\ \/ answer.value = answer.fresh[g]
         \/ /\ answer.hit /\ Hidden[g] # {}
            /\ answer.value = [answer.fresh[g] EXCEPT !.inputs = answer.value.inputs]

\* Within an update cycle there is no such exception: the cache is by-passed.
AnswersFreshInCycle ==
  [][answer' # answer /\ cycle =>
       answer'.value \in {answer'.fresh[answer'.formula], NoValue}]_vars

Answered(f, kind) == answer # NoAnswer /\ answer.formula = f /\ answer.kind = kind
Readable(f) == \A e \in Reads[f] : reading[e] \in Values

\* A sensor whose entities become and stay readable gives a value again, if they
\* were never worse before than unavailable, or missing behind a variable
\* (_handle_known_errors counts neither), and no other formula has its name.
Present(f) ==
  \A e \in Reads[f] :
    \/ reading[e] \in Values \cup {Unavailable}
    \/ reading[e] = Missing /\ e \notin InText[f]
RecoversFromUnavailability ==
  \A f \in Own : Namesakes(f) = {f} =>
    ([]Present(f) /\ (<>[]Readable(f)) => []<>Answered(f, "ok"))

\* A sensor that can never succeed is in the end only skipped, if none of its name
\* can either: a namesake's success would close its breaker (should_skip_evaluation,
\* handle_successful_evaluation).
FaultsStop ==
  \A f \in Own \ Circular :
    (<>[](\A g \in Namesakes(f) : Faulty(g))) =>
      <>[](\A k \in Kinds \ {"skipped"} : ~Answered(f, k))

=============================================================================
