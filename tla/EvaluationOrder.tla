-------------------------- MODULE EvaluationOrder --------------------------
(***************************************************************************)
(* In which order sensors, and the attributes of one sensor, are evaluated,*)
(* and how cycles among them are found (evaluator_phases/                  *)
(* dependency_management, dependency_resolver.py, the circular reference   *)
(* validator).                                                             *)
(*                                                                         *)
(* Six computations walk over the same graph of names, one per value of    *)
(* task:                                                                   *)
(*   cross      the sensors of a manager: report cycles, then order        *)
(*   generic    the formulas of one sensor: refuse cycles, order, evaluate *)
(*   validator  one attribute, root, and those of its sensor, before it is *)
(*              evaluated                                                  *)
(*   detector   a whole graph, preferring the cycles of one sensor         *)
(*   resolver   DependencyResolver.detect_circular_dependencies            *)
(*   update     DependencyResolver.get_update_order                        *)
(* Python's sets are walked in any order.                                  *)
(***************************************************************************)
EXTENDS Naturals, Sequences, FiniteSets

CONSTANTS
  Names,  \* of sensors, or of the attributes of one sensor
  Main,   \* the sensor's own formula, when the names are its attributes
  LastPart,  \* Names -> the part of the name after its last underscore
  Title,  \* Names -> the name of an attribute's formula, "<sensor> - <attribute>"
  None

\* A title is no name that a formula can have in its text.
ASSUME OrderConstants ==
  /\ None \notin Names
  /\ \A a \in Names : LastPart[a] \in Names /\ Title[a] \notin Names

Tasks == {"cross", "generic", "validator", "detector", "resolver", "update"}

VARIABLES
  task,
  listed,    \* the keys of the graph
  reads,     \* the names in each formula
  known,     \* the sensors registered with the evaluator
  root,      \* what the detector or the validator is asked about, or None
  stage,     \* search, validate, sort, evaluate, done, raised
  visited,
  started,   \* where the search has begun so far
  calls,     \* the recursion: a node and what it has yet to look at
  rec,       \* rec_stack
  unwinding, \* has_cycle is returning True
  reported,  \* circular_refs
  cycles,    \* the cycles raised or collected, as paths
  queue, result,
  context    \* the formulas evaluated into the context

input == <<task, listed, reads, known, root>>
search == <<visited, started, calls, rec, unwinding, reported, cycles>>
sort == <<queue, result>>
vars == <<input, stage, search, sort, context>>

Elems(s) == {s[i] : i \in DOMAIN s}

\* An attribute is referred to by the last part of its name.
Matches(name, a) == a # Main /\ LastPart[a] = name

\* The registered names in the formulas of a sensor.  Collection functions add
\* none: they look for dictionaries in a registry of plain values.
SensorReads(n) == reads[n]

FormulaReads(n) == {a \in listed : \E name \in reads[n] : Matches(name, a)}

\* The validator knows attributes by their titles: it never meets one in a text.
AttributeReads(n) == {a \in listed : Title[a] \in reads[n]}

\* What n waits for; only the sensors' graph has nodes that are no keys.
Edges(n) ==
  IF n \notin listed THEN {}
  ELSE CASE task \in {"cross", "detector"} -> SensorReads(n)
         [] task = "generic" -> FormulaReads(n)
         [] task = "validator" -> AttributeReads(n)
         [] OTHER -> reads[n] \cap listed

All == listed \cup UNION {Edges(n) : n \in listed}
-----------------------------------------------------------------------------
(* Looking for cycles, depth first *)

Here == calls[Len(calls)]
Path == [i \in DOMAIN calls |-> calls[i].node]
OnPath == Elems(Path)
Searching == stage = "search" /\ ~unwinding
Rest(d) == [calls EXCEPT ![Len(calls)].left = @ \ {d}]

Enter(d, stack) ==
  /\ calls' = Append(stack, [node |-> d, left |-> Edges(d)])
  /\ visited' = visited \cup {d}
  /\ rec' = rec \cup {d}

\* The attribute's own name is cut out of its title, and found.
NamesItself == task = "validator" /\ root # None /\ root \in reads[root]

Start(n) ==
  /\ Searching /\ calls = <<>> /\ n \in listed \ visited /\ task # "detector"
  /\ ~NamesItself
  /\ Enter(n, <<>>)
  /\ UNCHANGED <<input, stage, started, unwinding, reported, cycles, sort, context>>

\* The detector begins with its sensor and forgets what earlier starts visited.
StartAnew(n) ==
  /\ Searching /\ calls = <<>> /\ n \in listed \ started /\ task = "detector"
  /\ started = {} /\ root # None => n = root
  /\ started' = started \cup {n}
  /\ calls' = <<[node |-> n, left |-> Edges(n)]>>
  /\ visited' = {n} /\ rec' = {n}
  /\ UNCHANGED <<input, stage, unwinding, reported, cycles, sort, context>>

\* The validator looks whether the attribute names itself before all else.
RaiseSelf(n) ==
  /\ Searching /\ n = root /\ NamesItself
  /\ stage' = "raised" /\ cycles' = {<<n, n>>}
  /\ UNCHANGED <<input, visited, started, calls, rec, unwinding, reported, sort, context>>

Descend(d) ==
  /\ Searching /\ calls # <<>> /\ d \in Here.left
  /\ d \notin visited
  /\ Enter(d, Rest(d))
  /\ UNCHANGED <<input, stage, started, unwinding, reported, cycles, sort, context>>

\* Mistake: a sensor visited earlier counts as being on the path.
OnStack_Visited == IF task = "cross" THEN visited ELSE rec

\* Reached again while it is still in rec_stack.
OnStack == rec

Skip(d) ==
  /\ Searching /\ calls # <<>> /\ d \in Here.left
  /\ d \in visited /\ (d \notin OnStack \/ task = "update")
  /\ calls' = Rest(d)
  /\ UNCHANGED <<input, stage, visited, started, rec, unwinding, reported, cycles, sort, context>>

\* The sensors' search reports the sensor and returns True to every caller.
Report(d) ==
  /\ Searching /\ calls # <<>> /\ d \in Here.left
  /\ task = "cross" /\ d \in OnStack
  /\ reported' = reported \cup {d}
  /\ unwinding' = TRUE
  /\ UNCHANGED <<input, stage, visited, started, calls, rec, cycles, sort, context>>

\* Mistake: the path begins where the search did.
From_Start(d) == 1

From(d) == CHOOSE i \in DOMAIN calls : calls[i].node = d

Cycle(d) == Append(SubSeq(Path, From(d), Len(calls)), d)

\* The others raise the path from the name to itself ...
BackRaises(d) ==
  /\ Searching /\ calls # <<>> /\ d \in Here.left
  /\ task \in {"generic", "validator", "detector"} /\ d \in OnStack
  /\ cycles' = {Cycle(d)} /\ stage' = "raised"
  /\ UNCHANGED <<input, visited, started, calls, rec, unwinding, reported, sort, context>>

\* ... or collect it and go on.
BackCollects(d) ==
  /\ Searching /\ calls # <<>> /\ d \in Here.left
  /\ task = "resolver" /\ d \in OnStack
  /\ cycles' = cycles \cup {Cycle(d)} /\ calls' = Rest(d)
  /\ UNCHANGED <<input, stage, visited, started, rec, unwinding, reported, sort, context>>

\* Each caller reports the sensor that returned True and leaves rec_stack as it is.
Unwind ==
  /\ stage = "search" /\ unwinding
  /\ reported' = reported \cup {Here.node}
  /\ calls' = SubSeq(calls, 1, Len(calls) - 1)
  /\ unwinding' = (Len(calls) > 1)
  /\ UNCHANGED <<input, stage, visited, started, rec, cycles, sort, context>>

\* The update order is the order in which visits end.
Leave ==
  /\ Searching /\ calls # <<>> /\ Here.left = {}
  /\ rec' = rec \ {Here.node}
  /\ calls' = SubSeq(calls, 1, Len(calls) - 1)
  /\ result' = IF task = "update" THEN Append(result, Here.node) ELSE result
  /\ UNCHANGED <<input, stage, visited, started, unwinding, reported, cycles, queue, context>>

Searched ==
  /\ Searching /\ calls = <<>>
  /\ listed \subseteq (IF task = "detector" THEN started ELSE visited)
  /\ stage' = CASE task = "cross" -> "validate" [] task = "generic" -> "sort" [] OTHER -> "done"
  /\ UNCHANGED <<input, search, sort, context>>
-----------------------------------------------------------------------------
(* Ordering and evaluating *)

\* A cycle is no issue, a sensor that is not registered is: the update raises.
Validate ==
  /\ stage = "validate"
  /\ stage' = IF UNION {Edges(n) : n \in listed} \subseteq known THEN "sort" ELSE "raised"
  /\ UNCHANGED <<input, search, sort, context>>

\* Mistake: a sensor may go when one of those it waits for is processed.
Ready_Some ==
  {n \in All \ (Elems(queue) \cup Elems(result)) :
     Edges(n) = {} \/ Edges(n) \cap Elems(result) # {}}

\* Neither queued nor processed, and all it waits for is processed.
Ready == {n \in All \ (Elems(queue) \cup Elems(result)) : Edges(n) \subseteq Elems(result)}

Enqueue(n) ==
  /\ stage = "sort" /\ n \in Ready
  /\ queue' = Append(queue, n)
  /\ UNCHANGED <<input, stage, search, result, context>>

Process ==
  /\ stage = "sort" /\ Ready = {} /\ queue # <<>>
  /\ result' = Append(result, Head(queue))
  /\ queue' = Tail(queue)
  /\ UNCHANGED <<input, stage, search, context>>

\* The sensors left over are never evaluated; formulas left over are an error.
Sorted ==
  /\ stage = "sort" /\ Ready = {} /\ queue = <<>>
  /\ stage' = CASE task = "cross" -> "done"
                [] task # "cross" /\ Elems(result) = listed -> "evaluate"
                [] OTHER -> "raised"
  /\ UNCHANGED <<input, search, sort, context>>

\* Mistake: dependents first.
Following_Last == result[Len(result) - Len(context)]

Following == result[Len(context) + 1]

\* build_evaluation_context: one formula after the other, into the context.
Evaluate ==
  /\ stage = "evaluate" /\ Len(context) < Len(result)
  /\ context' = Append(context, Following)
  /\ UNCHANGED <<input, stage, search, sort>>

\* The first formula that fails loses the context of all.
EvaluateFails ==
  /\ stage = "evaluate" /\ Len(context) < Len(result)
  /\ stage' = "raised" /\ context' = <<>>
  /\ UNCHANGED <<input, search, sort>>

Evaluated ==
  /\ stage = "evaluate" /\ Len(context) = Len(result)
  /\ stage' = "done"
  /\ UNCHANGED <<input, search, sort, context>>
-----------------------------------------------------------------------------
Init ==
  /\ task \in Tasks /\ listed \in SUBSET Names /\ reads \in [Names -> SUBSET Names]
  /\ \A n \in Names \ listed : reads[n] = {}
  /\ known \in SUBSET Names /\ (task # "cross" => known = {})
  /\ root \in listed \cup {None} /\ (task \notin {"detector", "validator"} => root = None)
  /\ stage = "search" /\ visited = {} /\ started = {} /\ calls = <<>>
  /\ rec = {} /\ unwinding = FALSE /\ reported = {} /\ cycles = {}
  /\ queue = <<>> /\ result = <<>> /\ context = <<>>

Next ==
  \/ \E n \in Names : \/ Start(n) \/ StartAnew(n) \/ RaiseSelf(n) \/ Descend(n) \/ Skip(n)
                      \/ Report(n) \/ BackRaises(n) \/ BackCollects(n) \/ Enqueue(n)
  \/ Unwind \/ Leave \/ Searched
  \/ Validate \/ Process \/ Sorted
  \/ Evaluate \/ EvaluateFails \/ Evaluated

Spec == Init /\ [][Next]_vars
-----------------------------------------------------------------------------
(* Properties *)

Stages == {"search", "validate", "sort", "evaluate", "done", "raised"}
Frames == [node : Names, left : SUBSET Names]

\* The type of every variable.
TypeOK ==
  /\ task \in Tasks /\ listed \subseteq Names /\ reads \in [Names -> SUBSET Names]
  /\ known \subseteq Names /\ root \in Names \cup {None}
  /\ stage \in Stages /\ visited \subseteq Names /\ started \subseteq Names
  /\ calls \in Seq(Frames) /\ rec \subseteq Names /\ unwinding \in BOOLEAN
  /\ reported \subseteq Names /\ cycles \subseteq Seq(Names)
  /\ queue \in Seq(Names) /\ result \in Seq(Names) /\ context \in Seq(Names)

Before(n, s) == \E i \in DOMAIN s : s[i] = n

\* Whatever the graph, cycles included, no sensor and no formula comes twice in
\* the order and none comes before something it reads.
OrderRespectsReads ==
  task \in {"cross", "generic"} =>
    \A i \in DOMAIN result :
      /\ \A j \in DOMAIN result : result[i] = result[j] => i = j
      /\ \A d \in Edges(result[i]) : \E j \in 1..(i - 1) : result[j] = d

\* Names reachable from n.
Reach(n) ==
  {m \in Names : \A S \in SUBSET Names :
     Edges(n) \subseteq S /\ (\A k \in S : Edges(k) \subseteq S) => m \in S}

\* No sensor reported to be in a cycle is ever in the order.
ReportedAreOmitted == task = "cross" => Elems(result) \cap reported = {}

\* Cycles are reported by one algorithm and dropped by another, and the two
\* agree: no reported sensor is in the order, and a sensor that the complete
\* order omits is reported or leads to one that is.
OmittedAreReported ==
  /\ ReportedAreOmitted
  /\ task = "cross" /\ stage = "done" =>
       \A n \in All \ Elems(result) : ({n} \cup Reach(n)) \cap reported # {}

\* What may follow a name in a cycle.
Leads(n) == IF task = "validator" THEN reads[n] ELSE Edges(n)

IsCycle(c) ==
  /\ Len(c) > 1 /\ c[1] = c[Len(c)]
  /\ \A i \in 1..(Len(c) - 1) : c[i + 1] \in Leads(c[i])

\* What is raised or collected is a cycle of the graph that is searched.
RaisedAreCycles == \A c \in cycles : IsCycle(c)

\* And the searches that end without raising have seen a graph without cycles.
\* Not so the validator: it finds an attribute that reads itself, and lets pass
\* every circle of several.
CyclesAreReal ==
  /\ RaisedAreCycles
  /\ task \in {"generic", "detector", "resolver"}
       /\ stage \in {"sort", "evaluate", "done"} /\ cycles = {}
     => \A n \in listed : n \notin Reach(n)

\* Whichever attributes of a sensor end in the same part, one is in the context
\* before any formula that reads it is evaluated, unless its own name has an
\* underscore: nothing orders those.  And a sensor's update order has what it
\* reads before it unless the two are in a cycle.
ReadsAreEvaluated ==
  /\ task = "generic" =>
       \A i \in DOMAIN context :
         \A d \in (reads[context[i]] \cap listed) \ {Main} :
           Before(d, SubSeq(context, 1, i - 1)) \/ LastPart[d] # d
  /\ task = "update" =>
       \A i \in DOMAIN result : \A d \in Edges(result[i]) :
         Before(d, SubSeq(result, 1, i - 1)) \/ result[i] \in Reach(d)
=============================================================================
