----------------------- MODULE EvaluationOrder_proofs -----------------------
(***************************************************************************)
(* For every graph of names: the order has nothing before what it reads and*)
(* nothing twice; what is raised or collected as a cycle is one, and a     *)
(* search that ends without any has seen a graph that has none; sensors    *)
(* are left out of the order when they are, or lead to, reported ones; and *)
(* formulas find what they read.                                           *)
(***************************************************************************)
EXTENDS EvaluationOrder, SequenceTheorems, TLAPS

Top == calls[Len(calls)]

-----------------------------------------------------------------------------
(* Sequences and their elements *)

LEMMA AppendElems ==
  ASSUME NEW S, NEW s \in Seq(S), NEW e \in S
  PROVE  /\ Append(s, e) \in Seq(S) /\ Len(Append(s, e)) = Len(s) + 1
         /\ \A i \in 1..Len(s) : Append(s, e)[i] = s[i]
         /\ Append(s, e)[Len(s) + 1] = e
         /\ Elems(Append(s, e)) = Elems(s) \cup {e}
  <1>1. /\ Append(s, e) \in Seq(S) /\ Len(Append(s, e)) = Len(s) + 1
        /\ \A i \in 1..Len(s) : Append(s, e)[i] = s[i]
        /\ Append(s, e)[Len(s) + 1] = e
    OBVIOUS
  <1>2. Len(s) \in Nat /\ DOMAIN s = 1..Len(s) /\ DOMAIN Append(s, e) = 1..(Len(s) + 1)
    OBVIOUS
  <1>3. \A i \in 1..(Len(s) + 1) : i \in 1..Len(s) \/ i = Len(s) + 1
    BY <1>2
  <1>4. \A i \in 1..Len(s) : i \in 1..(Len(s) + 1)
    BY <1>2
  <1>5. Len(s) + 1 \in 1..(Len(s) + 1)
    BY <1>2
  <1> QED BY <1>1, <1>2, <1>3, <1>4, <1>5 DEF Elems

LEMMA TailElems ==
  ASSUME NEW S, NEW s \in Seq(S), s # <<>>
  PROVE  /\ Tail(s) \in Seq(S) /\ Head(s) = s[1] /\ Head(s) \in S
         /\ Len(Tail(s)) = Len(s) - 1
         /\ \A i \in 1..(Len(s) - 1) : Tail(s)[i] = s[i + 1]
         /\ Elems(s) = {Head(s)} \cup Elems(Tail(s))
  <1>1. /\ Tail(s) \in Seq(S) /\ Head(s) = s[1] /\ Head(s) \in S
        /\ Len(Tail(s)) = Len(s) - 1 /\ Len(s) \in Nat \ {0}
        /\ \A i \in 1..(Len(s) - 1) : Tail(s)[i] = s[i + 1]
    OBVIOUS
  <1>2. DOMAIN s = 1..Len(s) /\ DOMAIN Tail(s) = 1..(Len(s) - 1)
    BY <1>1
  <1>3. ASSUME NEW i \in 1..Len(s) PROVE s[i] \in {Head(s)} \cup Elems(Tail(s))
    <2>1. CASE i = 1
      BY <1>1, <2>1
    <2>2. CASE i # 1
      <3>1. i - 1 \in 1..(Len(s) - 1) /\ Tail(s)[i - 1] = s[i]
        BY <1>1, <2>2
      <3> QED BY <3>1, <1>2 DEF Elems
    <2> QED BY <2>1, <2>2
  <1>4. 1 \in 1..Len(s) /\ \A i \in 1..(Len(s) - 1) : i + 1 \in 1..Len(s)
    BY <1>1
  <1> QED BY <1>1, <1>2, <1>3, <1>4 DEF Elems

LEMMA FrontElems ==
  ASSUME NEW S, NEW s \in Seq(S), s # <<>>
  PROVE  /\ SubSeq(s, 1, Len(s) - 1) \in Seq(S)
         /\ Len(SubSeq(s, 1, Len(s) - 1)) = Len(s) - 1
         /\ \A i \in 1..(Len(s) - 1) : SubSeq(s, 1, Len(s) - 1)[i] = s[i]
  <1>1. Len(s) \in Nat \ {0} /\ \A i \in 1..(Len(s) - 1) : s[i] \in S
    OBVIOUS
  <1> DEFINE n == Len(s) - 1
  <1>2. 1 \in Int /\ n \in Int /\ n >= 0 /\ \A i \in 1..n : s[i] \in S
    BY <1>1
  <1>3. /\ SubSeq(s, 1, n) \in Seq(S)
        /\ Len(SubSeq(s, 1, n)) = IF 1 <= n THEN n - 1 + 1 ELSE 0
        /\ \A i \in 1..(n - 1 + 1) : SubSeq(s, 1, n)[i] = s[1 + i - 1]
    <2> HIDE DEF n
    <2> QED BY <1>2, SubSeqProperties
  <1> DEFINE f == SubSeq(s, 1, n)
  <1>4. n \in Nat /\ f \in Seq(S) /\ Len(f) = (IF 1 <= n THEN n - 1 + 1 ELSE 0)
        /\ \A i \in 1..(n - 1 + 1) : f[i] = s[1 + i - 1]
    BY <1>2, <1>3
  <1> HIDE DEF f, n
  <1>5. Len(f) = n
    BY <1>4
  <1>6. \A i \in 1..n : 1 + i - 1 = i /\ i \in 1..(n - 1 + 1)
    BY <1>4
  <1>7. \A i \in 1..n : f[i] = s[i]
    BY <1>4, <1>6
  <1> QED BY <1>4, <1>5, <1>7 DEF f, n

-----------------------------------------------------------------------------
(* The invariant *)

\* The stack of the search: distinct nodes, each an edge of the one below it,
\* all of them visited; and rec_stack is what was reported besides the stack.
StackSound ==
  /\ \A i, j \in DOMAIN calls : calls[i].node = calls[j].node => i = j
  /\ \A i \in DOMAIN calls : calls[i].left \subseteq Edges(calls[i].node)
  /\ \A i \in DOMAIN calls : i > 1 => calls[i].node \in Edges(calls[i - 1].node)
  /\ OnPath \subseteq visited
  /\ rec = reported \cup OnPath
  /\ unwinding \in BOOLEAN

\* A reported sensor waits for one that is reported or about to be.
ReportsGrounded ==
  /\ task # "cross" => reported = {}
  /\ reported \subseteq visited
  /\ \A n \in reported : Edges(n) \cap rec # {}
  /\ ~unwinding => reported \cap OnPath = {} /\ \A n \in reported : Edges(n) \cap reported # {}
  /\ unwinding => task = "cross" /\ calls # <<>> /\ Edges(Top.node) \cap rec # {}
  /\ stage \in {"validate", "sort", "evaluate", "done"} => calls = <<>> /\ ~unwinding
  /\ task = "cross" /\ stage # "search" => calls = <<>> /\ ~unwinding

\* Only what is ready is queued; until it is sorted there is no order.
QueueReady ==
  task \in {"cross", "generic"} =>
    /\ stage \in {"search", "validate"} => queue = <<>> /\ result = <<>>
    /\ \A i \in DOMAIN queue : Edges(queue[i]) \subseteq Elems(result)
    /\ \A i, j \in DOMAIN queue : queue[i] = queue[j] => i = j
    /\ Elems(queue) \cap Elems(result) = {}

IInv ==
  /\ TypeOK /\ StackSound /\ ReportsGrounded
  /\ QueueReady /\ OrderRespectsReads /\ ReportedAreOmitted /\ RaisedAreCycles

-----------------------------------------------------------------------------
(* The stack *)

NodesOf(c) == {c[i].node : i \in DOMAIN c}

LEMMA EdgesType == TypeOK => \A n : Edges(n) \subseteq Names
  BY DEF TypeOK, Edges, SensorReads, FormulaReads, AttributeReads

\* The validator's graph has no edges: no title is a name.
LEMMA EdgesLead == TypeOK => \A n : Edges(n) \subseteq Leads(n)
  <1>1. ASSUME TypeOK, NEW n, n \in listed PROVE AttributeReads(n) = {}
    <2>1. reads[n] \subseteq Names /\ listed \subseteq Names
      BY <1>1 DEF TypeOK
    <2> QED BY <2>1, OrderConstants DEF AttributeReads
  <1> QED BY <1>1 DEF Leads, Edges

LEMMA EdgesFixed ==
  ASSUME UNCHANGED input
  PROVE  /\ task' = task /\ listed' = listed
         /\ \A n : Edges(n)' = Edges(n)
  BY DEF input, Edges, SensorReads, FormulaReads, AttributeReads

LEMMA PathProps ==
  ASSUME calls \in Seq(Frames)
  PROVE  /\ Path \in Seq(Names) /\ Len(Path) = Len(calls)
         /\ \A i \in 1..Len(calls) : Path[i] = calls[i].node /\ calls[i] \in Frames
         /\ OnPath = NodesOf(calls)
  <1>1. DOMAIN calls = 1..Len(calls) /\ Len(calls) \in Nat
    OBVIOUS
  <1>2. \A i \in 1..Len(calls) : calls[i] \in Frames /\ calls[i].node \in Names
    <2>1. \A i \in 1..Len(calls) : calls[i] \in Frames
      OBVIOUS
    <2> QED BY <2>1 DEF Frames
  <1>3. Path = [i \in 1..Len(calls) |-> calls[i].node]
    BY <1>1 DEF Path
  <1>4. Path \in Seq(Names) /\ Len(Path) = Len(calls)
    BY <1>1, <1>2, <1>3
  <1>5. OnPath = NodesOf(calls)
    BY <1>1, <1>3 DEF OnPath, Elems, NodesOf
  <1> QED BY <1>2, <1>3, <1>4, <1>5

\* A frame more, a frame less, and the top frame with one less to look at.
LEMMA PushProps ==
  ASSUME NEW c \in Seq(Frames), NEW d \in Names, NEW E \in SUBSET Names
  PROVE  LET p == Append(c, [node |-> d, left |-> E])
         IN  /\ p \in Seq(Frames) /\ Len(p) = Len(c) + 1
             /\ \A i \in 1..Len(c) : p[i] = c[i]
             /\ p[Len(c) + 1].node = d /\ p[Len(c) + 1].left = E
             /\ NodesOf(p) = NodesOf(c) \cup {d}
  <1> DEFINE f == [node |-> d, left |-> E]
             p == Append(c, f)
  <1>1. f \in Frames
    BY DEF Frames
  <1>2. /\ p \in Seq(Frames) /\ Len(p) = Len(c) + 1
        /\ \A i \in 1..Len(c) : p[i] = c[i]
        /\ p[Len(c) + 1] = f
    BY <1>1, AppendElems
  <1>3. Len(c) \in Nat /\ DOMAIN c = 1..Len(c) /\ DOMAIN p = 1..(Len(c) + 1)
    BY <1>2
  <1>4. NodesOf(p) = NodesOf(c) \cup {d}
    <2>1. \A i \in 1..(Len(c) + 1) : i \in 1..Len(c) \/ i = Len(c) + 1
      BY <1>3
    <2>2. \A i \in 1..Len(c) : i \in 1..(Len(c) + 1)
      BY <1>3
    <2>3. Len(c) + 1 \in 1..(Len(c) + 1) /\ p[Len(c) + 1].node = d
      BY <1>3, <1>2
    <2> HIDE DEF p, f
    <2> QED BY <1>2, <1>3, <2>1, <2>2, <2>3 DEF NodesOf
  <1> QED BY <1>2, <1>4

LEMMA PopProps ==
  ASSUME NEW c \in Seq(Frames), c # <<>>,
         \A i, j \in DOMAIN c : c[i].node = c[j].node => i = j
  PROVE  LET p == SubSeq(c, 1, Len(c) - 1)
         IN  /\ p \in Seq(Frames) /\ Len(p) = Len(c) - 1
             /\ \A i \in 1..(Len(c) - 1) : p[i] = c[i]
             /\ NodesOf(p) = NodesOf(c) \ {c[Len(c)].node}
             /\ c[Len(c)].node \in NodesOf(c)
  <1> DEFINE p == SubSeq(c, 1, Len(c) - 1)
  <1>1. /\ p \in Seq(Frames) /\ Len(p) = Len(c) - 1
        /\ \A i \in 1..(Len(c) - 1) : p[i] = c[i]
    BY FrontElems
  <1>2. Len(c) \in Nat \ {0} /\ DOMAIN c = 1..Len(c) /\ DOMAIN p = 1..(Len(c) - 1)
    BY <1>1
  <1>a. Len(c) \in Nat \ {0}
    BY <1>2
  <1>3. \A i \in 1..Len(c) : i \in 1..(Len(c) - 1) \/ i = Len(c)
    BY <1>a
  <1>4. \A i \in 1..(Len(c) - 1) : i \in 1..Len(c) /\ i # Len(c)
    BY <1>a
  <1>5. Len(c) \in 1..Len(c)
    BY <1>a
  <1>6. NodesOf(p) = NodesOf(c) \ {c[Len(c)].node} /\ c[Len(c)].node \in NodesOf(c)
    <2> HIDE DEF p
    <2>1. \A i \in 1..(Len(c) - 1) : p[i].node = c[i].node /\ c[i].node # c[Len(c)].node
      BY <1>1, <1>2, <1>4, <1>5
    <2>2. NodesOf(p) = {c[i].node : i \in 1..(Len(c) - 1)}
      BY <2>1, <1>2 DEF NodesOf
    <2>3. NodesOf(c) = {c[i].node : i \in 1..Len(c)}
      BY <1>2 DEF NodesOf
    <2>4. NodesOf(p) \subseteq NodesOf(c) \ {c[Len(c)].node}
      BY <2>1, <2>2, <2>3, <1>4
    <2>5. NodesOf(c) \ {c[Len(c)].node} \subseteq NodesOf(p)
      BY <2>2, <2>3, <1>3, <2>1
    <2> QED BY <2>4, <2>5, <2>3, <1>5
  <1> QED BY <1>1, <1>6

LEMMA RestProps ==
  ASSUME calls \in Seq(Frames), calls # <<>>, NEW d
  PROVE  /\ Rest(d) \in Seq(Frames) /\ Len(Rest(d)) = Len(calls)
         /\ \A i \in 1..Len(calls) : /\ Rest(d)[i].node = calls[i].node
                                     /\ Rest(d)[i].left \subseteq calls[i].left
         /\ NodesOf(Rest(d)) = NodesOf(calls)
         /\ Rest(d) # <<>>
  <1>1. Len(calls) \in Nat \ {0} /\ DOMAIN calls = 1..Len(calls)
    OBVIOUS
  <1>2. \A i \in 1..Len(calls) : calls[i] \in Frames
    OBVIOUS
  <1> DEFINE f == [calls[Len(calls)] EXCEPT !.left = @ \ {d}]
  <1>3. Len(calls) \in 1..Len(calls)
    BY <1>1
  <1>4. f \in Frames /\ f.node = calls[Len(calls)].node /\ f.left \subseteq calls[Len(calls)].left
    BY <1>2, <1>3 DEF Frames
  <1>5. Rest(d) = [i \in 1..Len(calls) |-> IF i = Len(calls) THEN f ELSE calls[i]]
    BY <1>1 DEF Rest
  <1>6. Rest(d) \in [1..Len(calls) -> Frames] /\ DOMAIN Rest(d) = 1..Len(calls)
    <2> HIDE DEF f
    <2> QED BY <1>5, <1>4, <1>2
  <1>7. Rest(d) \in Seq(Frames) /\ Len(Rest(d)) = Len(calls)
    BY <1>6, <1>1
  <1>8. \A i \in 1..Len(calls) : /\ Rest(d)[i].node = calls[i].node
                                 /\ Rest(d)[i].left \subseteq calls[i].left
    <2> HIDE DEF f
    <2> QED BY <1>5, <1>4
  <1>9. NodesOf(Rest(d)) = NodesOf(calls)
    BY <1>6, <1>8, <1>1 DEF NodesOf
  <1> QED BY <1>1, <1>7, <1>8, <1>9

-----------------------------------------------------------------------------
(* The steps of the search *)

LEMMA PathPropsPrime ==
  ASSUME calls' \in Seq(Frames)
  PROVE  OnPath' = NodesOf(calls')
  <1>1. DOMAIN calls' = 1..Len(calls') /\ Len(calls') \in Nat
    OBVIOUS
  <1>2. Path' = [i \in 1..Len(calls') |-> calls'[i].node]
    BY <1>1 DEF Path
  <1> QED BY <1>1, <1>2 DEF OnPath, Elems, NodesOf

LEMMA Pushed ==
  ASSUME TypeOK, StackSound, UNCHANGED input, UNCHANGED <<unwinding, reported>>,
         NEW c \in Seq(Frames), Len(c) = Len(calls),
         \A i \in 1..Len(c) : c[i].node = calls[i].node /\ c[i].left \subseteq calls[i].left,
         NodesOf(c) = NodesOf(calls),
         NEW d \in Names, d \notin visited, Enter(d, c),
         Len(c) > 0 => d \in Edges(c[Len(c)].node)
  PROVE  calls' \in Seq(Frames) /\ StackSound' /\ OnPath' = OnPath \cup {d}
  <1>1. Edges(d) \in SUBSET Names /\ \A n : Edges(n)' = Edges(n)
    BY EdgesType, EdgesFixed
  <1>2. /\ calls' \in Seq(Frames) /\ Len(calls') = Len(c) + 1
        /\ \A i \in 1..Len(c) : calls'[i] = c[i]
        /\ calls'[Len(c) + 1].node = d /\ calls'[Len(c) + 1].left = Edges(d)
        /\ NodesOf(calls') = NodesOf(c) \cup {d}
    BY <1>1, PushProps DEF Enter
  <1>3. calls \in Seq(Frames) /\ OnPath = NodesOf(calls)
    BY PathProps DEF TypeOK
  <1>4. OnPath' = OnPath \cup {d}
    BY <1>2, <1>3, PathPropsPrime
  <1> DEFINE n == Len(c)
  <1>5. n \in Nat /\ DOMAIN calls = 1..n /\ DOMAIN calls' = 1..(n + 1)
    BY <1>2, <1>3
  <1>6. \A i \in 1..(n + 1) : (i \in 1..n /\ calls'[i].node = calls[i].node
                                 /\ calls'[i].left \subseteq calls[i].left
                                 /\ calls[i].node \in visited)
                              \/ (i = n + 1 /\ calls'[i].node = d /\ calls'[i].left = Edges(d))
    <2>1. \A i \in 1..(n + 1) : i \in 1..n \/ i = n + 1
      BY <1>5
    <2>2. \A i \in 1..n : calls[i].node \in NodesOf(calls)
      BY <1>5 DEF NodesOf
    <2>3. NodesOf(calls) \subseteq visited
      BY <1>3 DEF StackSound
    <2> HIDE DEF n
    <2> QED BY <1>2, <2>1, <2>2, <2>3 DEF n
  <1> HIDE DEF n
  <1>7. \A i, j \in DOMAIN calls' : calls'[i].node = calls'[j].node => i = j
    BY <1>5, <1>6 DEF StackSound
  <1>8. \A i \in DOMAIN calls' : calls'[i].left \subseteq Edges(calls'[i].node)
    BY <1>5, <1>6 DEF StackSound
  <1>9. ASSUME NEW i \in DOMAIN calls', i > 1
        PROVE  calls'[i].node \in Edges(calls'[i - 1].node)
    <2>1. CASE i = n + 1
      <3>1. i - 1 = n /\ n \in 1..n /\ Len(c) > 0
        BY <1>5, <1>9, <2>1 DEF n
      <3>2. calls'[i].node = d /\ calls'[i - 1].node = c[Len(c)].node
        BY <3>1, <1>2, <2>1 DEF n
      <3> QED BY <3>1, <3>2
    <2>2. CASE i # n + 1
      <3>1. i \in 1..n /\ i - 1 \in 1..n /\ i - 1 \in 1..(n + 1) /\ i - 1 # n + 1
        BY <1>5, <1>9, <2>2
      <3>2. calls'[i].node = calls[i].node /\ calls'[i - 1].node = calls[i - 1].node
        BY <3>1, <1>6, <1>5, <2>2
      <3> QED BY <3>1, <3>2, <1>5, <1>9 DEF StackSound
    <2> QED BY <2>1, <2>2
  <1>10. OnPath' \subseteq visited' /\ rec' = reported' \cup OnPath' /\ unwinding' \in BOOLEAN
    BY <1>4 DEF StackSound, Enter
  <1>11. StackSound'
    BY <1>1, <1>7, <1>8, <1>9, <1>10 DEF StackSound
  <1> QED BY <1>2, <1>4, <1>11

LEMMA Popped ==
  ASSUME TypeOK, StackSound, UNCHANGED input, calls # <<>>,
         calls' = SubSeq(calls, 1, Len(calls) - 1), visited' = visited,
         rec' = reported' \cup (OnPath \ {Top.node}), unwinding' \in BOOLEAN
  PROVE  /\ calls' \in Seq(Frames) /\ StackSound' /\ OnPath' = OnPath \ {Top.node}
         /\ Top.node \in OnPath
         /\ calls' # <<>> => Top.node \in Edges(Top'.node)
         /\ Len(calls) \in Nat \ {0} /\ (Len(calls) > 1 <=> calls' # <<>>)
  <1>1. \A n : Edges(n)' = Edges(n)
    BY EdgesFixed
  <1>2. calls \in Seq(Frames) /\ OnPath = NodesOf(calls)
    BY PathProps DEF TypeOK
  <1>3. /\ calls' \in Seq(Frames) /\ Len(calls') = Len(calls) - 1
        /\ \A i \in 1..(Len(calls) - 1) : calls'[i] = calls[i]
        /\ NodesOf(calls') = NodesOf(calls) \ {Top.node} /\ Top.node \in NodesOf(calls)
    BY <1>2, PopProps DEF StackSound, Top
  <1>4. OnPath' = OnPath \ {Top.node}
    BY <1>2, <1>3, PathPropsPrime
  <1> DEFINE n == Len(calls)
  <1>5. n \in Nat \ {0} /\ DOMAIN calls = 1..n /\ DOMAIN calls' = 1..(n - 1) /\ Len(calls') = n - 1
    BY <1>2, <1>3
  <1>6. \A i \in 1..(n - 1) : calls'[i] = calls[i] /\ i \in 1..n /\ i - 1 \in Int
    BY <1>5, <1>3
  <1> HIDE DEF n
  <1>7. \A i, j \in DOMAIN calls' : calls'[i].node = calls'[j].node => i = j
    BY <1>5, <1>6 DEF StackSound
  <1>8. \A i \in DOMAIN calls' : calls'[i].left \subseteq Edges(calls'[i].node)
    BY <1>5, <1>6 DEF StackSound
  <1>9. ASSUME NEW i \in DOMAIN calls', i > 1
        PROVE  calls'[i].node \in Edges(calls'[i - 1].node)
    <2>1. i \in 1..(n - 1) /\ i - 1 \in 1..(n - 1) /\ i \in 1..n
      BY <1>5, <1>9
    <2>2. calls'[i] = calls[i] /\ calls'[i - 1] = calls[i - 1]
      BY <2>1, <1>6
    <2> QED BY <2>1, <2>2, <1>5, <1>9 DEF StackSound
  <1>10. OnPath' \subseteq visited' /\ rec' = reported' \cup OnPath' /\ unwinding' \in BOOLEAN
    BY <1>4 DEF StackSound
  <1>11. StackSound'
    BY <1>1, <1>7, <1>8, <1>9, <1>10 DEF StackSound
  <1>12. n > 1 <=> calls' # <<>>
    <2>1. calls' = <<>> <=> Len(calls') = 0
      BY <1>3, EmptySeq
    <2> QED BY <1>5, <2>1
  <1>13. ASSUME calls' # <<>> PROVE Top.node \in Edges(Top'.node)
    <2>1. n > 1 /\ n \in 1..n /\ n - 1 \in 1..(n - 1)
      BY <1>5, <1>12, <1>13
    <2>2. Top = calls[n] /\ Top' = calls[n - 1]
      BY <2>1, <1>5, <1>6 DEF Top, n
    <2> QED BY <2>1, <2>2, <1>5 DEF StackSound
  <1> QED BY <1>2, <1>3, <1>4, <1>5, <1>11, <1>12, <1>13 DEF n

LEMMA HereProps ==
  ASSUME TypeOK, StackSound, calls # <<>>
  PROVE  /\ Here = Top /\ Top \in Frames /\ Top.left \subseteq Edges(Top.node)
         /\ Len(calls) \in DOMAIN calls /\ DOMAIN calls = 1..Len(calls) /\ Len(calls) \in Nat \ {0}
  <1>1. calls \in Seq(Frames)
    BY DEF TypeOK
  <1>2. Len(calls) \in Nat \ {0} /\ DOMAIN calls = 1..Len(calls)
    BY <1>1
  <1>3. Len(calls) \in DOMAIN calls
    BY <1>2
  <1> QED BY <1>1, <1>2, <1>3 DEF Here, Top, StackSound

\* The path from a name to itself, along the stack and back.
LEMMA CycleIsReal ==
  ASSUME TypeOK, StackSound, calls # <<>>, NEW d \in Here.left, d \in OnPath
  PROVE  Cycle(d) \in Seq(Names) /\ IsCycle(Cycle(d))
  <1>1. calls \in Seq(Frames)
    BY DEF TypeOK
  <1>2. /\ Path \in Seq(Names) /\ Len(Path) = Len(calls)
        /\ \A i \in 1..Len(calls) : Path[i] = calls[i].node
        /\ OnPath = NodesOf(calls)
    BY <1>1, PathProps
  <1> DEFINE n == Len(calls)
             a == From(d)
  <1>3. n \in Nat \ {0} /\ DOMAIN calls = 1..n
    BY <1>1
  <1>4. a \in 1..n /\ calls[a].node = d
    <2>1. \E i \in DOMAIN calls : calls[i].node = d
      BY <1>2 DEF NodesOf
    <2> QED BY <2>1, <1>3 DEF From
  <1>5. d \in Edges(calls[n].node) /\ d \in Names
    BY HereProps, EdgesType DEF Top
  <1> DEFINE b == SubSeq(Path, a, n)
             c == Append(b, d)
  <1>6. b \in Seq(Names) /\ Len(b) = n - a + 1 /\ \A i \in 1..(n - a + 1) : b[i] = Path[a + i - 1]
    <2>1. a \in Int /\ n \in Int /\ a <= n
      BY <1>3, <1>4
    <2>2. \A i \in a..n : Path[i] \in Names
      BY <1>2, <1>3, <1>4
    <2> HIDE DEF a, n
    <2> QED BY <2>1, <2>2, SubSeqProperties
  <1> HIDE DEF b
  <1>7. /\ c \in Seq(Names) /\ Len(c) = Len(b) + 1
        /\ \A i \in 1..Len(b) : c[i] = b[i]
        /\ c[Len(b) + 1] = d
    BY <1>5, <1>6, AppendElems
  <1> HIDE DEF c
  <1> DEFINE m == n - a + 1
  <1>8. m \in Nat \ {0} /\ Len(c) = m + 1 /\ Len(b) = m
    BY <1>3, <1>4, <1>6, <1>7
  <1>9. \A i \in 1..m : c[i] = calls[a + i - 1].node /\ a + i - 1 \in 1..n
    <2>1. \A i \in 1..m : a + i - 1 \in 1..n
      BY <1>3, <1>4
    <2> QED BY <2>1, <1>2, <1>6, <1>7, <1>8
  <1>10. c[1] = d /\ c[Len(c)] = d /\ Len(c) > 1
    <2>1. 1 \in 1..m /\ a + 1 - 1 = a
      BY <1>3, <1>4, <1>8
    <2> QED BY <2>1, <1>9, <1>4, <1>7, <1>8
  <1>11. ASSUME NEW i \in 1..m PROVE c[i + 1] \in Edges(c[i])
    <2>1. CASE i = m
      <3>1. a + i - 1 = n /\ i + 1 = Len(b) + 1
        BY <2>1, <1>3, <1>4, <1>8
      <3> QED BY <3>1, <1>9, <1>7, <1>5
    <2>2. CASE i # m
      <3>1. i + 1 \in 1..m /\ a + (i + 1) - 1 = (a + i - 1) + 1 /\ a + i - 1 + 1 > 1
            /\ (a + i - 1 + 1) - 1 = a + i - 1
        BY <2>2, <1>3, <1>4, <1>8
      <3>2. c[i + 1] = calls[(a + i - 1) + 1].node /\ (a + i - 1) + 1 \in 1..n
        BY <3>1, <1>9
      <3>3. calls[(a + i - 1) + 1].node \in Edges(calls[a + i - 1].node)
        BY <3>1, <3>2, <1>3 DEF StackSound
      <3> QED BY <3>2, <3>3, <1>9
    <2> QED BY <2>1, <2>2
  <1>12. Len(c) - 1 = m
    BY <1>8
  <1>13. IsCycle(c)
    BY <1>10, <1>11, <1>12, EdgesLead DEF IsCycle
  <1> QED BY <1>7, <1>13 DEF Cycle, b, c

SearchInv == TypeOK /\ StackSound /\ ReportsGrounded /\ RaisedAreCycles

LEMMA CyclesKept ==
  ASSUME UNCHANGED input, UNCHANGED cycles, RaisedAreCycles PROVE RaisedAreCycles'
  BY EdgesFixed DEF RaisedAreCycles, IsCycle, Leads, input

LEMMA StartKeeps ==
  ASSUME SearchInv, NEW n \in Names, Start(n) PROVE SearchInv'
  <1> USE DEF SearchInv
  <1>1. UNCHANGED <<input, stage, started, unwinding, reported, cycles, sort, context>>
        /\ Enter(n, <<>>) /\ ~unwinding /\ stage = "search" /\ calls = <<>> /\ n \notin visited
    BY DEF Start, Searching
  <1>2. <<>> \in Seq(Frames) /\ Len(<<>>) = 0
    OBVIOUS
  <1>3. calls' \in Seq(Frames) /\ StackSound' /\ OnPath' = OnPath \cup {n}
    <2> DEFINE c == calls
    <2>1. c \in Seq(Frames) /\ Len(c) = Len(calls) /\ Enter(n, c) /\ ~(Len(c) > 0)
      BY <1>1, <1>2
    <2>2. \A i \in 1..Len(c) : c[i].node = calls[i].node /\ c[i].left \subseteq calls[i].left
      OBVIOUS
    <2> QED BY <1>1, <2>1, <2>2, Pushed
  <1>4. TypeOK'
    BY <1>1, <1>3, EdgesFixed DEF TypeOK, Enter, input, sort
  <1>5. ReportsGrounded'
    <2>1. /\ \A m : Edges(m)' = Edges(m) /\ rec \subseteq rec'
          /\ reported' = reported /\ unwinding' = unwinding /\ stage' = stage /\ task' = task
          /\ reported \cap OnPath' = {} /\ visited \subseteq visited'
      BY <1>1, <1>3, EdgesFixed DEF Enter, ReportsGrounded, input
    <2> QED BY <2>1, <1>1 DEF ReportsGrounded
  <1> QED BY <1>1, <1>3, <1>4, <1>5, CyclesKept

LEMMA DescendKeeps ==
  ASSUME SearchInv, NEW n \in Names, Descend(n) PROVE SearchInv'
  <1> USE DEF SearchInv
  <1>1. UNCHANGED <<input, stage, started, unwinding, reported, cycles, sort, context>>
        /\ Enter(n, Rest(n)) /\ ~unwinding /\ stage = "search" /\ calls # <<>>
        /\ n \in Here.left /\ n \notin visited
    BY DEF Descend, Searching
  <1>2. calls \in Seq(Frames)
    BY DEF TypeOK
  <1>3. /\ Rest(n) \in Seq(Frames) /\ Len(Rest(n)) = Len(calls)
        /\ \A i \in 1..Len(calls) : /\ Rest(n)[i].node = calls[i].node
                                    /\ Rest(n)[i].left \subseteq calls[i].left
        /\ NodesOf(Rest(n)) = NodesOf(calls)
    BY <1>1, <1>2, RestProps
  <1>4. n \in Edges(Rest(n)[Len(Rest(n))].node)
    BY <1>1, <1>3, HereProps DEF Top
  <1>5. calls' \in Seq(Frames) /\ StackSound' /\ OnPath' = OnPath \cup {n}
    <2> DEFINE c == Rest(n)
    <2>1. c \in Seq(Frames) /\ Len(c) = Len(calls) /\ Enter(n, c)
          /\ (\A i \in 1..Len(c) : c[i].node = calls[i].node /\ c[i].left \subseteq calls[i].left)
          /\ NodesOf(c) = NodesOf(calls)
          /\ (Len(c) > 0 => n \in Edges(c[Len(c)].node))
      BY <1>1, <1>3, <1>4
    <2> HIDE DEF c
    <2> QED BY <1>1, <2>1, Pushed
  <1>6. TypeOK'
    BY <1>1, <1>5, EdgesFixed DEF TypeOK, Enter, input, sort
  <1>7. ReportsGrounded'
    <2>1. /\ \A m : Edges(m)' = Edges(m) /\ rec \subseteq rec'
          /\ reported' = reported /\ unwinding' = unwinding /\ stage' = stage /\ task' = task
          /\ reported \cap OnPath' = {} /\ visited \subseteq visited'
      BY <1>1, <1>5, EdgesFixed DEF Enter, ReportsGrounded, input
    <2> QED BY <2>1, <1>1 DEF ReportsGrounded
  <1> QED BY <1>1, <1>5, <1>6, <1>7, CyclesKept

LEMMA StartAnewKeeps ==
  ASSUME SearchInv, NEW n \in Names, StartAnew(n) PROVE SearchInv'
  <1> USE DEF SearchInv
  <1>1. /\ UNCHANGED <<input, stage, unwinding, reported, cycles, sort, context>>
        /\ ~unwinding /\ stage = "search" /\ calls = <<>> /\ task = "detector"
        /\ started' = started \cup {n} /\ visited' = {n} /\ rec' = {n}
        /\ calls' = <<[node |-> n, left |-> Edges(n)]>>
    BY DEF StartAnew, Searching
  <1>2. Edges(n) \in SUBSET Names /\ \A m : Edges(m)' = Edges(m)
    BY <1>1, EdgesType, EdgesFixed
  <1>3. calls' \in Seq(Frames) /\ Len(calls') = 1 /\ DOMAIN calls' = 1..1
        /\ calls'[1].node = n /\ calls'[1].left = Edges(n)
    BY <1>1, <1>2 DEF Frames
  <1>4. \A i \in DOMAIN calls' : i = 1
    BY <1>3
  <1>5. OnPath' = {n}
    <2>1. NodesOf(calls') = {n}
      BY <1>3, <1>4 DEF NodesOf
    <2> QED BY <2>1, <1>3, PathPropsPrime
  <1>6. reported = {}
    BY <1>1 DEF ReportsGrounded
  <1>7. StackSound'
    BY <1>1, <1>2, <1>3, <1>4, <1>5, <1>6 DEF StackSound
  <1>8. TypeOK'
    BY <1>1, <1>3 DEF TypeOK, input, sort
  <1>9. ReportsGrounded'
    BY <1>1, <1>2, <1>6 DEF ReportsGrounded, input
  <1> QED BY <1>1, <1>7, <1>8, <1>9, CyclesKept

LEMMA SkipKeeps ==
  ASSUME SearchInv, NEW n \in Names,
         \/ Skip(n)
         \/ BackCollects(n)
  PROVE  SearchInv'
  <1> USE DEF SearchInv
  <1>1. /\ UNCHANGED <<input, stage, visited, started, rec, unwinding, reported, sort, context>>
        /\ ~unwinding /\ stage = "search" /\ calls # <<>> /\ n \in Here.left /\ calls' = Rest(n)
    BY DEF Skip, BackCollects, Searching
  <1>2. calls \in Seq(Frames)
    BY DEF TypeOK
  <1>3. /\ Rest(n) \in Seq(Frames) /\ Len(Rest(n)) = Len(calls) /\ Rest(n) # <<>>
        /\ \A i \in 1..Len(calls) : /\ Rest(n)[i].node = calls[i].node
                                    /\ Rest(n)[i].left \subseteq calls[i].left
        /\ NodesOf(Rest(n)) = NodesOf(calls)
    BY <1>1, <1>2, RestProps
  <1>4. DOMAIN calls = 1..Len(calls) /\ DOMAIN calls' = 1..Len(calls) /\ Len(calls) \in Nat
    BY <1>1, <1>2, <1>3
  <1>5. OnPath' = OnPath
    BY <1>1, <1>2, <1>3, PathProps, PathPropsPrime
  <1>6. \A m : Edges(m)' = Edges(m)
    BY <1>1, EdgesFixed
  <1>7. StackSound'
    <2>1. \A i \in DOMAIN calls' : /\ calls'[i].node = calls[i].node
                                   /\ calls'[i].left \subseteq calls[i].left
      BY <1>1, <1>3, <1>4
    <2>2. \A i \in DOMAIN calls' : i > 1 => i - 1 \in DOMAIN calls'
      BY <1>4
    <2> QED BY <1>1, <1>4, <1>5, <1>6, <2>1, <2>2 DEF StackSound
  <1>8. cycles' \subseteq Seq(Names) /\ RaisedAreCycles'
    <2>1. CASE Skip(n)
      BY <2>1, <1>1, CyclesKept DEF Skip, TypeOK
    <2>2. CASE BackCollects(n)
      <3>1. n \in OnPath
        BY <2>2 DEF BackCollects, OnStack, StackSound, ReportsGrounded
      <3>2. Cycle(n) \in Seq(Names) /\ IsCycle(Cycle(n))
        BY <1>1, <3>1, CycleIsReal
      <3>3. cycles' = cycles \cup {Cycle(n)}
        BY <2>2 DEF BackCollects
      <3>4. \A c : IsCycle(c)' <=> IsCycle(c)
        BY <1>1, <1>6 DEF IsCycle, Leads, input
      <3> QED BY <3>2, <3>3, <3>4 DEF RaisedAreCycles, TypeOK
    <2> QED BY <2>1, <2>2
  <1>9. TypeOK'
    BY <1>1, <1>3, <1>8 DEF TypeOK, input, sort
  <1>10. ReportsGrounded'
    BY <1>1, <1>5, <1>6 DEF ReportsGrounded, input
  <1> QED BY <1>7, <1>8, <1>9, <1>10

LEMMA RaiseKeeps ==
  ASSUME SearchInv, NEW n \in Names, RaiseSelf(n) \/ BackRaises(n) PROVE SearchInv'
  <1> USE DEF SearchInv
  <1>1. /\ UNCHANGED <<input, visited, started, calls, rec, unwinding, reported, sort, context>>
        /\ ~unwinding /\ stage = "search" /\ task # "cross" /\ stage' = "raised"
    BY DEF RaiseSelf, NamesItself, BackRaises, Searching
  <1>2. \A m : Edges(m)' = Edges(m)
    BY <1>1, EdgesFixed
  <1>3. OnPath' = OnPath
    BY <1>1 DEF OnPath, Path, Elems
  <1>4. \A c : IsCycle(c)' <=> IsCycle(c)
    BY <1>1, <1>2 DEF IsCycle, Leads, input
  <1>5. PICK c \in Seq(Names) : IsCycle(c) /\ cycles' = {c}
    <2>1. CASE RaiseSelf(n)
      <3> DEFINE c == <<n, n>>
      <3>1. task = "validator" /\ n \in reads[n] /\ cycles' = {c}
        BY <2>1 DEF RaiseSelf, NamesItself
      <3>2. c \in Seq(Names) /\ Len(c) = 2 /\ c[1] = n /\ c[2] = n
        OBVIOUS
      <3>3. IsCycle(c)
        <4>1. \A i \in 1..(Len(c) - 1) : i = 1
          BY <3>2
        <4> QED BY <3>1, <3>2, <4>1 DEF IsCycle, Leads
      <3> QED BY <3>1, <3>2, <3>3
    <2>2. CASE BackRaises(n)
      <3>1. n \in OnPath
        BY <2>2 DEF BackRaises, OnStack, StackSound, ReportsGrounded
      <3>2. Cycle(n) \in Seq(Names) /\ IsCycle(Cycle(n))
        BY <2>2, <3>1, CycleIsReal DEF BackRaises
      <3> QED BY <2>2, <3>2 DEF BackRaises
    <2> QED BY <2>1, <2>2
  <1>6. TypeOK'
    BY <1>1, <1>5 DEF TypeOK, input, sort, Stages
  <1>7. StackSound'
    BY <1>1, <1>2, <1>3 DEF StackSound
  <1>8. ReportsGrounded'
    BY <1>1, <1>2, <1>3 DEF ReportsGrounded, input, Top
  <1>9. RaisedAreCycles'
    BY <1>4, <1>5 DEF RaisedAreCycles
  <1> QED BY <1>6, <1>7, <1>8, <1>9

LEMMA ReportKeeps ==
  ASSUME SearchInv, NEW d \in Names, Report(d) PROVE SearchInv'
  <1> USE DEF SearchInv
  <1>1. /\ UNCHANGED <<input, stage, visited, started, calls, rec, cycles, sort, context>>
        /\ ~unwinding /\ stage = "search" /\ calls # <<>> /\ d \in Here.left
        /\ task = "cross" /\ d \in rec /\ unwinding' = TRUE /\ reported' = reported \cup {d}
    BY DEF Report, Searching, OnStack
  <1>2. \A m : Edges(m)' = Edges(m)
    BY <1>1, EdgesFixed
  <1>3. OnPath' = OnPath /\ Top' = Top
    BY <1>1 DEF OnPath, Path, Elems, Top
  <1>4. d \in Edges(Top.node) \cap rec
    BY <1>1, HereProps DEF Top
  <1>5. Edges(d) \cap rec # {}
    <2>1. CASE d \in reported
      BY <2>1 DEF ReportsGrounded
    <2>2. CASE d \in OnPath
      <3>1. calls \in Seq(Frames) /\ OnPath = NodesOf(calls)
        BY PathProps DEF TypeOK
      <3>2. Len(calls) \in Nat \ {0} /\ DOMAIN calls = 1..Len(calls)
        BY <1>1, <3>1
      <3>3. PICK i \in 1..Len(calls) : calls[i].node = d
        BY <2>2, <3>1, <3>2 DEF NodesOf
      <3>4. CASE i = Len(calls)
        BY <1>4, <3>3, <3>4 DEF Top
      <3>5. CASE i # Len(calls)
        <4>a. Len(calls) \in Nat
          BY <3>2
        <4>1. i + 1 \in 1..Len(calls) /\ i + 1 > 1 /\ (i + 1) - 1 = i
          BY <4>a, <3>5
        <4>2. calls[i + 1].node \in Edges(d) /\ calls[i + 1].node \in NodesOf(calls)
          BY <4>1, <3>2, <3>3 DEF StackSound, NodesOf
        <4> QED BY <4>2, <3>1 DEF StackSound
      <3> QED BY <3>4, <3>5
    <2> QED BY <1>1, <2>1, <2>2 DEF StackSound
  <1>6. StackSound'
    BY <1>1, <1>2, <1>3 DEF StackSound
  <1>7. ReportsGrounded'
    <2>1. /\ task' = task /\ stage' = stage /\ visited' = visited /\ rec' = rec /\ calls' = calls
      BY <1>1 DEF input
    <2>2. d \in visited
      BY <1>1 DEF StackSound, ReportsGrounded
    <2> QED BY <1>1, <1>2, <1>3, <1>4, <1>5, <2>1, <2>2 DEF ReportsGrounded
  <1>8. TypeOK'
    BY <1>1 DEF TypeOK, input, sort
  <1> QED BY <1>1, <1>6, <1>7, <1>8, CyclesKept

LEMMA UnwindKeeps ==
  ASSUME SearchInv, Unwind PROVE SearchInv'
  <1> USE DEF SearchInv
  <1>1. /\ UNCHANGED <<input, stage, visited, started, rec, cycles, sort, context>>
        /\ stage = "search" /\ unwinding /\ reported' = reported \cup {Top.node}
        /\ calls' = SubSeq(calls, 1, Len(calls) - 1) /\ unwinding' = (Len(calls) > 1)
    BY DEF Unwind, Here, Top
  <1>2. \A m : Edges(m)' = Edges(m)
    BY <1>1, EdgesFixed
  <1>3. calls # <<>> /\ Edges(Top.node) \cap rec # {}
    BY <1>1 DEF ReportsGrounded
  <1>4. calls \in Seq(Frames) /\ OnPath = NodesOf(calls)
    BY PathProps DEF TypeOK
  <1>5. Top.node \in OnPath
    <2>1. Len(calls) \in DOMAIN calls
      BY <1>3, <1>4
    <2> QED BY <2>1, <1>4 DEF NodesOf, Top
  <1>6. rec' = reported' \cup (OnPath \ {Top.node}) /\ unwinding' \in BOOLEAN
    BY <1>1, <1>5 DEF StackSound
  <1>7. /\ calls' \in Seq(Frames) /\ StackSound' /\ OnPath' = OnPath \ {Top.node}
        /\ calls' # <<>> => Top.node \in Edges(Top'.node)
        /\ Len(calls) > 1 <=> calls' # <<>>
    BY <1>1, <1>3, <1>6, Popped
  <1>8. TypeOK'
    <2>1. Top.node \in Names
      BY <1>3, HereProps DEF Frames
    <2> QED BY <1>1, <1>6, <1>7, <2>1 DEF TypeOK, input, sort
  <1>9. ReportsGrounded'
    <2>1. task' = task /\ stage' = stage /\ visited' = visited /\ rec' = rec
      BY <1>1 DEF input
    <2>2. ~unwinding' => OnPath' = {} /\ rec = reported'
      <3>1. ASSUME calls' = <<>> PROVE OnPath' = {}
        <4>1. NodesOf(calls') = {}
          BY <3>1 DEF NodesOf
        <4> QED BY <4>1, <1>7, PathPropsPrime
      <3> QED BY <3>1, <1>1, <1>6, <1>7
    <2>3. unwinding' => calls' # <<>> /\ Edges(Top'.node) \cap rec # {}
      <3>1. Top.node \in rec
        BY <1>5 DEF StackSound
      <3> QED BY <3>1, <1>1, <1>7
    <2>4. \A n \in reported' : Edges(n) \cap rec # {}
      BY <1>1, <1>3 DEF ReportsGrounded
    <2>5. reported' \subseteq visited
      BY <1>1, <1>5 DEF ReportsGrounded, StackSound
    <2>6. task = "cross" \/ reported' = {}
      BY <1>1, <1>3, <1>5 DEF ReportsGrounded, StackSound
    <2>7. Edges(Top.node)' = Edges(Top.node)' /\ \A f : Edges(f.node)' = Edges(f.node)
      BY <1>2
    <2> QED BY <1>1, <1>2, <2>1, <2>2, <2>3, <2>4, <2>5, <2>6 DEF ReportsGrounded
  <1> QED BY <1>1, <1>7, <1>8, <1>9, CyclesKept

LEMMA LeaveKeeps ==
  ASSUME SearchInv, Leave PROVE SearchInv'
  <1> USE DEF SearchInv
  <1>1. /\ UNCHANGED <<input, stage, visited, started, unwinding, reported, cycles, queue, context>>
        /\ stage = "search" /\ ~unwinding /\ calls # <<>>
        /\ rec' = rec \ {Top.node} /\ calls' = SubSeq(calls, 1, Len(calls) - 1)
        /\ result' = (IF task = "update" THEN Append(result, Top.node) ELSE result)
    BY DEF Leave, Searching, Here, Top
  <1>2. Top.node \in Names
    BY <1>1, HereProps DEF Frames
  <1>3. OnPath = NodesOf(calls) /\ Top.node \in NodesOf(calls)
    <2>1. calls \in Seq(Frames) /\ OnPath = NodesOf(calls)
      BY PathProps DEF TypeOK
    <2>2. Len(calls) \in DOMAIN calls
      BY <1>1, HereProps
    <2> QED BY <2>1, <2>2 DEF NodesOf, Top
  <1>4. rec' = reported' \cup (OnPath \ {Top.node}) /\ unwinding' \in BOOLEAN
    BY <1>1, <1>3 DEF StackSound, ReportsGrounded
  <1>5. /\ calls' \in Seq(Frames) /\ StackSound' /\ OnPath' = OnPath \ {Top.node}
    BY <1>1, <1>4, Popped
  <1>6. result' \in Seq(Names)
    BY <1>1, <1>2, AppendElems DEF TypeOK
  <1>7. TypeOK'
    BY <1>1, <1>5, <1>6 DEF TypeOK, input
  <1>8. ReportsGrounded'
    <2>1. /\ task' = task /\ stage' = stage /\ visited' = visited /\ \A m : Edges(m)' = Edges(m)
          /\ reported' = reported /\ unwinding' = unwinding /\ reported \subseteq rec'
      BY <1>1, <1>4, EdgesFixed DEF input
    <2> QED BY <1>1, <1>5, <2>1 DEF ReportsGrounded
  <1> QED BY <1>1, <1>5, <1>7, <1>8, CyclesKept

\* Once the search has ended its state stays.
LEMMA RestKeeps ==
  ASSUME SearchInv, UNCHANGED <<input, search>>, TypeOK',
         stage' # "search", stage' # "raised" => calls = <<>> /\ ~unwinding,
         task = "cross" => calls = <<>> /\ ~unwinding
  PROVE  SearchInv'
  <1> USE DEF SearchInv
  <1>1. \A m : Edges(m)' = Edges(m)
    BY EdgesFixed
  <1>2. /\ task' = task /\ visited' = visited /\ calls' = calls /\ rec' = rec
        /\ unwinding' = unwinding /\ reported' = reported /\ cycles' = cycles
    BY DEF input, search
  <1>3. OnPath' = OnPath /\ Top' = Top
    BY <1>2 DEF OnPath, Path, Elems, Top
  <1>4. StackSound'
    BY <1>1, <1>2, <1>3 DEF StackSound
  <1>5. ReportsGrounded'
    BY <1>1, <1>2, <1>3 DEF ReportsGrounded
  <1> QED BY <1>2, <1>4, <1>5, CyclesKept

-----------------------------------------------------------------------------
(* The order *)

OrderInv == QueueReady /\ OrderRespectsReads /\ ReportedAreOmitted

\* While cycles are looked for there is no order.
LEMMA SearchKeepsOrder ==
  ASSUME OrderInv, UNCHANGED <<input, queue>>, stage = "search",
         task # "update" => result' = result
  PROVE  OrderInv'
  <1>1. task' = task
    BY DEF input
  <1>2. CASE task \in {"cross", "generic"}
    <2>1. queue' = <<>> /\ result' = <<>>
      BY <1>2 DEF OrderInv, QueueReady
    <2>2. Elems(<<>>) = {} /\ DOMAIN <<>> = {}
      BY DEF Elems
    <2>3. QueueReady'
      <3>1. Elems(queue') = {} /\ DOMAIN queue' = {}
        BY <2>1, <2>2
      <3> QED BY <2>1, <3>1 DEF QueueReady
    <2>4. OrderRespectsReads' /\ ReportedAreOmitted'
      <3>1. Elems(result') = {} /\ DOMAIN result' = {}
        BY <2>1, <2>2
      <3> QED BY <3>1 DEF OrderRespectsReads, ReportedAreOmitted
    <2> QED BY <2>3, <2>4 DEF OrderInv
  <1>3. CASE task \notin {"cross", "generic"}
    BY <1>1, <1>3 DEF OrderInv, QueueReady, OrderRespectsReads, ReportedAreOmitted
  <1> QED BY <1>2, <1>3

LEMMA StageKeepsOrder ==
  ASSUME OrderInv, UNCHANGED <<input, reported, sort>>, stage' \notin {"search", "validate"}
  PROVE  OrderInv'
  <1>1. /\ task' = task /\ \A m : Edges(m)' = Edges(m)
        /\ queue' = queue /\ result' = result /\ reported' = reported
    BY EdgesFixed DEF input, sort
  <1>2. Elems(queue)' = Elems(queue) /\ Elems(result)' = Elems(result)
    BY <1>1
  <1> QED BY <1>1, <1>2 DEF OrderInv, QueueReady, OrderRespectsReads, ReportedAreOmitted

LEMMA EnqueueKeeps ==
  ASSUME TypeOK, OrderInv, NEW n \in Names, Enqueue(n) PROVE TypeOK' /\ OrderInv'
  <1>1. /\ UNCHANGED <<input, stage, search, result, context>> /\ stage = "sort"
        /\ n \notin Elems(queue) /\ n \notin Elems(result) /\ Edges(n) \subseteq Elems(result)
        /\ queue' = Append(queue, n)
    BY DEF Enqueue, Ready
  <1>2. queue \in Seq(Names)
    BY DEF TypeOK
  <1>3. /\ queue' \in Seq(Names) /\ Len(queue') = Len(queue) + 1
        /\ \A i \in 1..Len(queue) : queue'[i] = queue[i]
        /\ queue'[Len(queue) + 1] = n
        /\ Elems(queue') = Elems(queue) \cup {n}
    BY <1>1, <1>2, AppendElems
  <1>4. TypeOK'
    BY <1>1, <1>3 DEF TypeOK, input, search
  <1>5. /\ task' = task /\ \A m : Edges(m)' = Edges(m)
        /\ result' = result /\ reported' = reported /\ stage' = "sort"
    BY <1>1, EdgesFixed DEF input, search
  <1> DEFINE k == Len(queue)
  <1>6. k \in Nat /\ DOMAIN queue = 1..k /\ DOMAIN queue' = 1..(k + 1)
    BY <1>2, <1>3
  <1>7. \A i \in 1..(k + 1) : (i \in 1..k /\ queue'[i] = queue[i] /\ queue[i] \in Elems(queue))
                              \/ (i = k + 1 /\ queue'[i] = n)
    <2>1. \A i \in 1..(k + 1) : i \in 1..k \/ i = k + 1
      BY <1>6
    <2> QED BY <2>1, <1>3, <1>6 DEF Elems
  <1> HIDE DEF k
  <1>8. QueueReady'
    BY <1>1, <1>3, <1>5, <1>6, <1>7 DEF OrderInv, QueueReady
  <1>9. OrderRespectsReads' /\ ReportedAreOmitted'
    BY <1>5 DEF OrderInv, OrderRespectsReads, ReportedAreOmitted
  <1> QED BY <1>4, <1>8, <1>9 DEF OrderInv

\* A reported sensor waits for a reported one, so it never becomes ready.
LEMMA ProcessKeeps ==
  ASSUME TypeOK, ReportsGrounded, OrderInv, Process PROVE TypeOK' /\ OrderInv'
  <1>1. /\ UNCHANGED <<input, stage, search, context>> /\ stage = "sort" /\ queue # <<>>
        /\ result' = Append(result, Head(queue)) /\ queue' = Tail(queue)
    BY DEF Process
  <1> DEFINE h == Head(queue)
             k == Len(queue)
             l == Len(result)
  <1>2. queue \in Seq(Names) /\ result \in Seq(Names)
    BY DEF TypeOK
  <1>3. /\ queue' \in Seq(Names) /\ h = queue[1] /\ h \in Names /\ Len(queue') = k - 1
        /\ \A i \in 1..(k - 1) : queue'[i] = queue[i + 1]
        /\ Elems(queue) = {h} \cup Elems(queue')
    BY <1>1, <1>2, TailElems
  <1>4. /\ result' \in Seq(Names) /\ Len(result') = l + 1
        /\ \A i \in 1..l : result'[i] = result[i]
        /\ result'[l + 1] = h /\ Elems(result') = Elems(result) \cup {h}
    BY <1>1, <1>2, <1>3, AppendElems
  <1>5. TypeOK'
    BY <1>1, <1>3, <1>4 DEF TypeOK, input, search
  <1>6. /\ task' = task /\ \A m : Edges(m)' = Edges(m) /\ reported' = reported /\ stage' = "sort"
    BY <1>1, EdgesFixed DEF input, search
  <1>7. /\ k \in Nat \ {0} /\ DOMAIN queue = 1..k /\ DOMAIN queue' = 1..(k - 1)
        /\ l \in Nat /\ DOMAIN result = 1..l /\ DOMAIN result' = 1..(l + 1)
    BY <1>1, <1>2, <1>3, <1>4
  <1> HIDE DEF h, k, l
  <1>k. k \in Nat \ {0} /\ l \in Nat
    BY <1>7
  <1>8. 1 \in 1..k /\ \A i \in 1..(k - 1) : i + 1 \in 1..k /\ i + 1 # 1
    BY <1>k
  <1>9. CASE task \in {"cross", "generic"}
    <2>1. Edges(h) \subseteq Elems(result) /\ h \notin Elems(result)
      <3>1. h \in Elems(queue)
        BY <1>3
      <3> QED BY <1>3, <1>7, <1>8, <1>9, <3>1 DEF OrderInv, QueueReady
    <2>2. h \notin Elems(queue')
      <3>1. SUFFICES ASSUME NEW i \in 1..(k - 1), queue'[i] = h PROVE FALSE
        BY <1>7 DEF Elems
      <3>2. queue[i + 1] = queue[1]
        BY <3>1, <1>3
      <3> QED BY <3>2, <1>7, <1>8, <1>9 DEF OrderInv, QueueReady
    <2>3. QueueReady'
      <3>1. \A i \in 1..(k - 1) : Edges(queue'[i]) \subseteq Elems(result')
        BY <1>3, <1>4, <1>7, <1>8, <1>9 DEF OrderInv, QueueReady
      <3>2. ASSUME NEW i \in 1..(k - 1), NEW j \in 1..(k - 1), queue'[i] = queue'[j] PROVE i = j
        <4>1. queue[i + 1] = queue[j + 1] /\ i + 1 \in 1..k /\ j + 1 \in 1..k
          BY <1>3, <1>8, <3>2
        <4>2. i + 1 = j + 1
          BY <4>1, <1>7, <1>9 DEF OrderInv, QueueReady
        <4>3. i \in Int /\ j \in Int
          BY <1>k
        <4> QED BY <4>2, <4>3
      <3>3. Elems(queue') \cap Elems(result') = {}
        BY <1>3, <1>4, <1>9, <2>2 DEF OrderInv, QueueReady
      <3> QED BY <3>1, <3>2, <3>3, <1>6, <1>7 DEF QueueReady
    <2>4. OrderRespectsReads'
      <3>1. \A i \in 1..(l + 1) : i \in 1..l \/ i = l + 1
        BY <1>k
      <3>2. \A i \in 1..l : result[i] \in Elems(result) /\ result'[i] = result[i] /\ result'[i] # h
        BY <1>4, <1>7, <2>1 DEF Elems
      <3>3. ASSUME NEW i \in 1..(l + 1), NEW j \in 1..(l + 1), result'[i] = result'[j] PROVE i = j
        <4>1. CASE i \in 1..l /\ j \in 1..l
          BY <4>1, <3>2, <3>3, <1>7, <1>9 DEF OrderInv, OrderRespectsReads
        <4> QED BY <4>1, <3>1, <3>2, <3>3, <1>4
      <3>4. ASSUME NEW i \in 1..(l + 1), NEW d \in Edges(result'[i])
            PROVE  \E j \in 1..(i - 1) : result'[j] = d
        <4>1. CASE i \in 1..l
          <5>1. PICK j \in 1..(i - 1) : result[j] = d
            BY <4>1, <3>2, <3>4, <1>7, <1>9 DEF OrderInv, OrderRespectsReads
          <5>2. j \in 1..l
            BY <4>1, <5>1, <1>k
          <5> QED BY <5>1, <5>2, <1>4
        <4>2. CASE i = l + 1
          <5>1. PICK j \in 1..l : result[j] = d
            BY <4>2, <2>1, <3>4, <1>4, <1>7 DEF Elems
          <5>2. j \in 1..(i - 1)
            BY <4>2, <1>k
          <5> QED BY <5>1, <5>2, <1>4
        <4> QED BY <4>1, <4>2, <3>1
      <3> QED BY <3>3, <3>4, <1>6, <1>7 DEF OrderRespectsReads
    <2>5. ReportedAreOmitted'
      <3>1. ASSUME task = "cross", h \in reported PROVE FALSE
        <4>1. Edges(h) \cap reported # {}
          BY <1>1, <3>1 DEF ReportsGrounded
        <4>2. Elems(result) \cap reported = {}
          BY <3>1 DEF OrderInv, ReportedAreOmitted
        <4> QED BY <4>1, <4>2, <2>1
      <3> QED BY <3>1, <1>4, <1>6 DEF OrderInv, ReportedAreOmitted
    <2> QED BY <1>5, <2>3, <2>4, <2>5 DEF OrderInv
  <1>10. CASE task \notin {"cross", "generic"}
    BY <1>5, <1>6, <1>10 DEF OrderInv, QueueReady, OrderRespectsReads, ReportedAreOmitted
  <1> QED BY <1>9, <1>10

-----------------------------------------------------------------------------
(* The theorems *)

LEMMA InitHolds == Init => IInv
  <1> SUFFICES ASSUME Init PROVE IInv
    OBVIOUS
  <1>1. Elems(<<>>) = {} /\ DOMAIN <<>> = {}
    BY DEF Elems
  <1>2. TypeOK
    <2>1. <<>> \in Seq(Frames) /\ <<>> \in Seq(Names)
      OBVIOUS
    <2>2. /\ stage \in Stages /\ calls \in Seq(Frames) /\ queue \in Seq(Names)
          /\ result \in Seq(Names) /\ context \in Seq(Names)
      BY <2>1 DEF Init, Stages
    <2>3. /\ task \in Tasks /\ listed \subseteq Names /\ reads \in [Names -> SUBSET Names]
          /\ known \subseteq Names /\ root \in Names \cup {None}
      BY DEF Init
    <2>4. /\ visited \subseteq Names /\ started \subseteq Names /\ rec \subseteq Names
          /\ unwinding \in BOOLEAN /\ reported \subseteq Names /\ cycles \subseteq Seq(Names)
      BY DEF Init
    <2> QED BY <2>2, <2>3, <2>4 DEF TypeOK
  <1>3. OnPath = {}
    <2>1. calls \in Seq(Frames) /\ DOMAIN calls = {}
      BY DEF Init
    <2> QED BY <2>1, PathProps DEF NodesOf
  <1>4. StackSound /\ ReportsGrounded
    BY <1>1, <1>3 DEF Init, StackSound, ReportsGrounded
  <1>5. QueueReady /\ OrderRespectsReads /\ ReportedAreOmitted /\ RaisedAreCycles
    BY <1>1 DEF Init, QueueReady, OrderRespectsReads, ReportedAreOmitted, RaisedAreCycles
  <1> QED BY <1>2, <1>4, <1>5 DEF IInv

LEMMA NextKeeps == IInv /\ [Next]_vars => IInv'
  <1> SUFFICES ASSUME IInv, [Next]_vars PROVE IInv'
    OBVIOUS
  <1>1. SearchInv /\ OrderInv /\ TypeOK /\ ReportsGrounded
    BY DEF IInv, SearchInv, OrderInv
  <1> SUFFICES SearchInv' /\ OrderInv'
    BY DEF IInv, SearchInv, OrderInv
  <1>2. ASSUME NEW n \in Names,
               Start(n) \/ StartAnew(n) \/ RaiseSelf(n) \/ Descend(n) \/ Skip(n)
                 \/ Report(n) \/ BackRaises(n) \/ BackCollects(n)
        PROVE  SearchInv' /\ OrderInv'
    <2>1. SearchInv'
      BY <1>1, <1>2, StartKeeps, StartAnewKeeps, RaiseKeeps, DescendKeeps, SkipKeeps, ReportKeeps
    <2>2. UNCHANGED <<input, queue>> /\ stage = "search" /\ result' = result
      BY <1>2 DEF Start, StartAnew, RaiseSelf, Descend, Skip, Report, BackRaises, BackCollects,
                  Searching, sort
    <2> QED BY <2>1, <2>2, <1>1, SearchKeepsOrder
  <1>3. CASE Unwind
    <2>1. UNCHANGED <<input, queue>> /\ stage = "search" /\ result' = result
      BY <1>3 DEF Unwind, sort
    <2> QED BY <2>1, <1>1, <1>3, UnwindKeeps, SearchKeepsOrder
  <1>4. CASE Leave
    <2>1. UNCHANGED <<input, queue>> /\ stage = "search" /\ (task # "update" => result' = result)
      BY <1>4 DEF Leave, Searching
    <2> QED BY <2>1, <1>1, <1>4, LeaveKeeps, SearchKeepsOrder
  <1>5. CASE Searched
    <2>1. /\ UNCHANGED <<input, search, sort, context>> /\ stage = "search" /\ calls = <<>> /\ ~unwinding
          /\ stage' \in {"validate", "sort", "done"}
      BY <1>5 DEF Searched, Searching
    <2>2. TypeOK'
      BY <2>1, <1>1 DEF TypeOK, Stages, input, search, sort
    <2>3. SearchInv'
      BY <2>1, <2>2, <1>1, RestKeeps
    <2>4. UNCHANGED queue /\ result' = result /\ UNCHANGED input
      BY <2>1 DEF sort
    <2> QED BY <2>1, <2>3, <2>4, <1>1, SearchKeepsOrder
  <1>6. CASE Validate \/ Sorted \/ Evaluated
    <2>1. /\ UNCHANGED <<input, search, sort, context>> /\ stage \in {"validate", "sort", "evaluate"}
          /\ stage' \in {"sort", "done", "evaluate", "raised"}
      BY <1>6 DEF Validate, Sorted, Evaluated
    <2>2. TypeOK' /\ calls = <<>> /\ ~unwinding
      BY <2>1, <1>1 DEF TypeOK, Stages, input, search, sort, ReportsGrounded
    <2>3. SearchInv'
      BY <2>1, <2>2, <1>1, RestKeeps
    <2>4. UNCHANGED <<input, reported, sort>>
      BY <2>1 DEF search
    <2> QED BY <2>1, <2>3, <2>4, <1>1, StageKeepsOrder
  <1>7. ASSUME NEW n \in Names, Enqueue(n) PROVE SearchInv' /\ OrderInv'
    <2>1. UNCHANGED <<input, stage, search>> /\ stage = "sort"
      BY <1>7 DEF Enqueue
    <2>2. calls = <<>> /\ ~unwinding /\ stage' = "sort"
      BY <2>1, <1>1 DEF ReportsGrounded
    <2>3. TypeOK' /\ OrderInv'
      BY <1>1, <1>7, EnqueueKeeps
    <2> QED BY <2>1, <2>2, <2>3, <1>1, RestKeeps
  <1>8. CASE Process
    <2>1. UNCHANGED <<input, stage, search>> /\ stage = "sort"
      BY <1>8 DEF Process
    <2>2. calls = <<>> /\ ~unwinding /\ stage' = "sort"
      BY <2>1, <1>1 DEF ReportsGrounded
    <2>3. TypeOK' /\ OrderInv'
      BY <1>1, <1>8, ProcessKeeps
    <2> QED BY <2>1, <2>2, <2>3, <1>1, RestKeeps
  <1>9. CASE Evaluate \/ EvaluateFails
    <2>1. /\ UNCHANGED <<input, search, sort>> /\ stage = "evaluate" /\ stage' \in {"evaluate", "raised"}
      BY <1>9 DEF Evaluate, EvaluateFails
    <2>2. calls = <<>> /\ ~unwinding
      BY <2>1, <1>1 DEF ReportsGrounded
    <2>3. context' \in Seq(Names)
      <3>1. CASE EvaluateFails
        BY <3>1 DEF EvaluateFails
      <3>2. CASE Evaluate
        <4>1. /\ context \in Seq(Names) /\ result \in Seq(Names) /\ Len(context) < Len(result)
              /\ context' = Append(context, result[Len(context) + 1])
          BY <3>2, <1>1 DEF Evaluate, Following, TypeOK
        <4>2. result[Len(context) + 1] \in Names
          BY <4>1
        <4> QED BY <4>1, <4>2
      <3> QED BY <1>9, <3>1, <3>2
    <2>4. TypeOK'
      BY <2>1, <2>3, <1>1 DEF TypeOK, Stages, input, search, sort
    <2>5. SearchInv'
      BY <2>1, <2>2, <2>4, <1>1, RestKeeps
    <2>6. UNCHANGED <<input, reported, sort>>
      BY <2>1 DEF search
    <2> QED BY <2>1, <2>5, <2>6, <1>1, StageKeepsOrder
  <1>10. CASE UNCHANGED vars
    <2>1. UNCHANGED <<input, stage, search, sort, context>>
      BY <1>10 DEF vars
    <2>2. UNCHANGED <<task, listed, reads, known, root, stage, visited, started, calls, rec,
                      unwinding, reported, cycles, queue, result, context>>
      BY <2>1 DEF input, search, sort
    <2>3. \A m : Edges(m)' = Edges(m)
      BY <2>1, EdgesFixed
    <2>4. OnPath' = OnPath /\ Top' = Top
      BY <2>2 DEF OnPath, Path, Elems, Top
    <2>5. TypeOK'
      BY <2>2, <1>1 DEF TypeOK
    <2>6. StackSound' /\ ReportsGrounded'
      BY <2>2, <2>3, <2>4, <1>1 DEF SearchInv, StackSound, ReportsGrounded
    <2>7. RaisedAreCycles'
      BY <2>1, <2>2, <1>1, CyclesKept DEF SearchInv
    <2>8. Elems(queue)' = Elems(queue) /\ Elems(result)' = Elems(result)
      BY <2>2
    <2>9. OrderInv'
      BY <2>2, <2>3, <2>8, <1>1 DEF OrderInv, QueueReady, OrderRespectsReads, ReportedAreOmitted
    <2> QED BY <2>5, <2>6, <2>7, <2>9 DEF SearchInv
  <1> QED BY <1>2, <1>3, <1>4, <1>5, <1>6, <1>7, <1>8, <1>9, <1>10 DEF Next

LEMMA IInvHolds == Spec => []IInv
  BY InitHolds, NextKeeps, PTL DEF Spec

-----------------------------------------------------------------------------
(* Reachability *)

LEMMA ReachProps ==
  ASSUME TypeOK, NEW n
  PROVE  /\ Reach(n) \subseteq Names /\ Edges(n) \subseteq Reach(n)
         /\ \A m \in Reach(n) : Edges(m) \subseteq Reach(n)
         /\ \A S \in SUBSET Names :
              Edges(n) \subseteq S /\ (\A k \in S : Edges(k) \subseteq S) => Reach(n) \subseteq S
  <1>1. \A m : Edges(m) \subseteq Names
    BY EdgesType
  <1>2. Reach(n) \subseteq Names /\ Edges(n) \subseteq Reach(n)
    BY <1>1 DEF Reach
  <1>3. ASSUME NEW m \in Reach(n), NEW d \in Edges(m)
        PROVE  d \in Reach(n)
    <2>1. SUFFICES ASSUME NEW S \in SUBSET Names, Edges(n) \subseteq S,
                          \A k \in S : Edges(k) \subseteq S
                   PROVE  d \in S
      BY <1>1, <1>3 DEF Reach
    <2>2. m \in S
      BY <2>1 DEF Reach
    <2> QED BY <2>1, <2>2, <1>3
  <1>4. \A S \in SUBSET Names :
          Edges(n) \subseteq S /\ (\A k \in S : Edges(k) \subseteq S) => Reach(n) \subseteq S
    BY DEF Reach
  <1> QED BY <1>2, <1>3, <1>4

LEMMA ReachFixed ==
  ASSUME UNCHANGED input
  PROVE  \A n : Reach(n)' = Reach(n)
  BY EdgesFixed DEF Reach

\* The frames of the top with one less to look at.
LEMMA RestExact ==
  ASSUME calls \in Seq(Frames), calls # <<>>, NEW d
  PROVE  /\ DOMAIN Rest(d) = DOMAIN calls
         /\ \A i \in DOMAIN calls : Rest(d)[i].node = calls[i].node
         /\ \A i \in DOMAIN calls : i # Len(calls) => Rest(d)[i].left = calls[i].left
         /\ Rest(d)[Len(calls)].left = calls[Len(calls)].left \ {d}
  <1>1. Len(calls) \in Nat \ {0} /\ DOMAIN calls = 1..Len(calls)
    OBVIOUS
  <1>2. Len(calls) \in DOMAIN calls
    BY <1>1
  <1>3. \A i \in DOMAIN calls : calls[i] \in Frames
    BY <1>1
  <1> DEFINE f == [calls[Len(calls)] EXCEPT !.left = @ \ {d}]
  <1>4. f.node = calls[Len(calls)].node /\ f.left = calls[Len(calls)].left \ {d}
    BY <1>2, <1>3 DEF Frames
  <1>5. Rest(d) = [i \in DOMAIN calls |-> IF i = Len(calls) THEN f ELSE calls[i]]
    BY DEF Rest
  <1> HIDE DEF f
  <1> QED BY <1>2, <1>4, <1>5

-----------------------------------------------------------------------------
(* What the searches have settled *)

\* Left for good, and not reported.
Settled == (visited \ OnPath) \ reported

\* Settled names lead to settled ones only, to none of themselves, and every set
\* of them has one that leads out of the set; what a name on the path has looked at
\* is settled or next on the path.
SettledSound ==
  task # "update" /\ cycles = {} =>
    /\ \A n \in Settled : Edges(n) \subseteq Settled
    /\ \A S \in SUBSET Settled : S # {} => \E n \in S : Edges(n) \cap S = {}
    /\ \A n \in Settled \cup (started \ OnPath) : n \notin Reach(n)
    /\ ~unwinding => \A i \in DOMAIN calls : \A d \in Edges(calls[i].node) \ calls[i].left :
                       d \in Settled \/ (i < Len(calls) /\ calls[i + 1].node = d)

\* What the stages after the search may rely on.
StagesSound ==
  /\ stage \notin {"search", "raised"} => listed \subseteq (IF task = "detector" THEN started ELSE visited)
  /\ task = "cross" => cycles = {}
  /\ task = "cross" /\ stage = "done" => queue = <<>> /\ Ready = {}
  /\ task = "update" => stage \in {"search", "done"}
  /\ task # "detector" => started = {}
  /\ task = "cross" => stage # "evaluate"
  /\ \A n \in Names \ listed : reads[n] = {}

\* The context follows the order.
ContextFollows ==
  /\ Len(context) <= Len(result)
  /\ \A i \in DOMAIN context : context[i] = result[i]

\* What an update's search has left is in the order; what is on the path is
\* reached by what is below it.
UpdateSound ==
  task = "update" =>
    /\ visited \ OnPath \subseteq Elems(result)
    /\ \A i \in DOMAIN calls : Edges(calls[i].node) \ calls[i].left \subseteq visited
    /\ \A i, j \in DOMAIN calls : i < j => calls[j].node \in Reach(calls[i].node)
    /\ \A i \in DOMAIN result : \A d \in Edges(result[i]) :
         (\E j \in 1..(i - 1) : result[j] = d) \/ result[i] \in Reach(d)

\* A step that changes nothing the search has settled.
LEMMA SettledKept ==
  ASSUME SettledSound, UNCHANGED <<input, visited, started, calls, unwinding, cycles>>,
         Settled' = Settled
  PROVE  SettledSound'
  <1>1. \A n : Edges(n)' = Edges(n) /\ Reach(n)' = Reach(n)
    BY EdgesFixed, ReachFixed
  <1>2. OnPath' = OnPath /\ task' = task
    BY DEF OnPath, Path, Elems, input
  <1> QED BY <1>1, <1>2 DEF SettledSound

\* A search that enters a name has settled nothing new.
LEMMA EnterSettles ==
  ASSUME SearchInv, SettledSound, UNCHANGED <<input, started, unwinding, reported, cycles>>,
         NEW c \in Seq(Frames), DOMAIN c = DOMAIN calls, NEW d \in Names, d \notin visited,
         Enter(d, c), OnPath' = OnPath \cup {d}, ~unwinding,
         \A i \in DOMAIN calls : c[i].node = calls[i].node,
         \A i \in DOMAIN calls : i # Len(calls) => c[i].left = calls[i].left,
         calls # <<>> => c[Len(calls)].left = calls[Len(calls)].left \ {d}
  PROVE  SettledSound'
  <1> USE DEF SearchInv
  <1>1. /\ \A n : Edges(n)' = Edges(n) /\ Reach(n)' = Reach(n)
        /\ task' = task
    BY EdgesFixed, ReachFixed
  <1>2. visited' = visited \cup {d}
    BY DEF Enter
  <1>3. Settled' = Settled
    BY <1>2 DEF Settled
  <1>4. calls \in Seq(Frames) /\ Edges(d) \in SUBSET Names
    BY EdgesType DEF TypeOK
  <1>5. Len(c) = Len(calls) /\ Len(calls) \in Nat /\ DOMAIN calls = 1..Len(calls)
    BY <1>4
  <1>6. /\ calls' \in Seq(Frames) /\ Len(calls') = Len(c) + 1
        /\ \A i \in 1..Len(c) : calls'[i] = c[i]
        /\ calls'[Len(c) + 1].node = d /\ calls'[Len(c) + 1].left = Edges(d)
    BY <1>4, PushProps DEF Enter
  <1>7. DOMAIN calls' = 1..(Len(calls) + 1)
    BY <1>5, <1>6
  <1>8. SUFFICES ASSUME task # "update", cycles = {},
                        NEW i \in DOMAIN calls', NEW x \in Edges(calls'[i].node) \ calls'[i].left
                 PROVE  x \in Settled \/ (i < Len(calls') /\ calls'[i + 1].node = x)
    BY <1>1, <1>3 DEF SettledSound
  <1>9. CASE i = Len(calls) + 1
    BY <1>5, <1>6, <1>8, <1>9
  <1>10. CASE i # Len(calls) + 1
    <2>1. i \in DOMAIN calls /\ i \in 1..Len(c) /\ calls'[i] = c[i] /\ i < Len(calls')
          /\ i \in Nat /\ i + 1 \in 1..(Len(calls) + 1)
      BY <1>5, <1>6, <1>7, <1>10
    <2>2. x \in Edges(calls[i].node)
      BY <2>1, <1>8
    <2>3. CASE i = Len(calls)
      <3>1. x = d \/ x \notin calls[i].left
        BY <2>1, <2>3, <1>8, <1>5
      <3>2. x = d => calls'[i + 1].node = x
        BY <2>3, <1>5, <1>6
      <3>3. x \notin calls[i].left => x \in Settled
        BY <2>1, <2>2, <2>3, <1>8 DEF SettledSound
      <3> QED BY <2>1, <3>1, <3>2, <3>3
    <2>4. CASE i # Len(calls)
      <3>1. x \notin calls[i].left
        BY <2>1, <2>4, <1>8
      <3>2. x \in Settled \/ (i < Len(calls) /\ calls[i + 1].node = x)
        BY <2>1, <2>2, <3>1, <1>8 DEF SettledSound
      <3>3. i + 1 \in DOMAIN calls /\ i + 1 \in 1..Len(c)
        BY <2>1, <2>4, <1>5
      <3>4. calls'[i + 1].node = calls[i + 1].node
        BY <3>3, <1>6
      <3> QED BY <2>1, <3>2, <3>4
    <2> QED BY <2>3, <2>4
  <1> QED BY <1>9, <1>10

\* The top of the path, with nothing left to look at, is settled: all it leads to is.
LEMMA LeaveSettles ==
  ASSUME SearchInv, SettledSound, Leave
  PROVE  SettledSound'
  <1> USE DEF SearchInv
  <1>1. /\ UNCHANGED <<input, stage, visited, started, unwinding, reported, cycles>>
        /\ ~unwinding /\ calls # <<>> /\ Top.left = {}
        /\ calls' = SubSeq(calls, 1, Len(calls) - 1)
        /\ rec' = rec \ {Top.node}
    BY DEF Leave, Searching, Here, Top
  <1>2. /\ \A n : Edges(n)' = Edges(n) /\ Reach(n)' = Reach(n)
        /\ task' = task
    BY <1>1, EdgesFixed, ReachFixed DEF input
  <1>3. calls \in Seq(Frames) /\ OnPath = NodesOf(calls)
    BY PathProps DEF TypeOK
  <1>4. /\ calls' \in Seq(Frames) /\ Len(calls') = Len(calls) - 1
        /\ \A i \in 1..(Len(calls) - 1) : calls'[i] = calls[i]
        /\ NodesOf(calls') = NodesOf(calls) \ {Top.node} /\ Top.node \in NodesOf(calls)
    BY <1>1, <1>3, PopProps DEF StackSound, Top
  <1>5. OnPath' = OnPath \ {Top.node} /\ Top.node \in OnPath
    BY <1>3, <1>4, PathPropsPrime
  <1>6. PICK d \in Names : d = Top.node
    BY <1>1, HereProps DEF Frames
  <1>7. d \in visited /\ d \notin reported
    BY <1>1, <1>5, <1>6 DEF StackSound, ReportsGrounded
  <1>8. Settled' = Settled \cup {d} /\ d \notin Settled
    BY <1>1, <1>5, <1>6, <1>7 DEF Settled
  <1>9. /\ Len(calls) \in DOMAIN calls /\ DOMAIN calls = 1..Len(calls) /\ Len(calls) \in Nat \ {0}
        /\ Top = calls[Len(calls)]
    BY <1>1, HereProps DEF Top
  <1>10. SUFFICES ASSUME task # "update", cycles = {}
                  PROVE  SettledSound'
    BY <1>1, <1>2 DEF SettledSound
  <1>11. Edges(d) \subseteq Settled
    BY <1>1, <1>6, <1>9, <1>10 DEF SettledSound
  <1>12. Settled \subseteq Names /\ \A n \in Settled : Edges(n) \subseteq Settled
    BY <1>10 DEF SettledSound, Settled, TypeOK
  <1>13. d \notin Reach(d)
    BY <1>8, <1>11, <1>12, ReachProps
  <1>14. ASSUME NEW S \in SUBSET Settled', S # {}
         PROVE  \E n \in S : Edges(n) \cap S = {}
    <2>1. CASE d \notin S
      BY <2>1, <1>8, <1>10, <1>14 DEF SettledSound
    <2>2. CASE S = {d}
      BY <2>2, <1>8, <1>11
    <2>3. CASE d \in S /\ S # {d}
      <3>1. PICK n \in S \ {d} : Edges(n) \cap (S \ {d}) = {}
        <4>1. S \ {d} \in SUBSET Settled /\ S \ {d} # {}
          BY <2>3, <1>8
        <4> QED BY <4>1, <1>10 DEF SettledSound
      <3>2. d \notin Edges(n)
        BY <3>1, <1>8, <1>12
      <3> QED BY <3>1, <3>2
    <2> QED BY <2>1, <2>2, <2>3
  <1>15. \A n \in Settled' \cup (started' \ OnPath') : n \notin Reach(n)
    BY <1>1, <1>5, <1>6, <1>8, <1>10, <1>13 DEF SettledSound
  <1>16. ASSUME NEW i \in DOMAIN calls', NEW x \in Edges(calls'[i].node) \ calls'[i].left
         PROVE  x \in Settled' \/ (i < Len(calls') /\ calls'[i + 1].node = x)
    <2>1. DOMAIN calls' = 1..(Len(calls) - 1)
      BY <1>4
    <2>2. i \in DOMAIN calls /\ calls'[i] = calls[i] /\ i \in 1..(Len(calls) - 1)
      BY <1>4, <1>9, <2>1
    <2>3. x \in Settled \/ (i < Len(calls) /\ calls[i + 1].node = x)
      BY <1>1, <1>10, <1>16, <2>2 DEF SettledSound
    <2>4. CASE i + 1 = Len(calls)
      BY <1>6, <1>8, <1>9, <2>3, <2>4
    <2>5. CASE i + 1 # Len(calls)
      <3>1. i + 1 \in 1..(Len(calls) - 1) /\ i < Len(calls')
        BY <1>4, <1>9, <2>2, <2>5
      <3> QED BY <1>4, <1>8, <2>3, <3>1
    <2> QED BY <2>4, <2>5
  <1> QED BY <1>2, <1>8, <1>11, <1>12, <1>14, <1>15, <1>16 DEF SettledSound

LEMMA SearchSettles ==
  ASSUME SearchInv, SettledSound, StagesSound, NEW n \in Names,
         \/ Start(n) \/ StartAnew(n) \/ RaiseSelf(n) \/ Descend(n) \/ Skip(n)
         \/ Report(n) \/ BackRaises(n) \/ BackCollects(n)
  PROVE  SettledSound'
  <1> USE DEF SearchInv
  <1>0. calls \in Seq(Frames)
    BY DEF TypeOK
  <1>1. CASE Start(n)
    <2>1. /\ UNCHANGED <<input, started, unwinding, reported, cycles>>
          /\ Enter(n, <<>>) /\ ~unwinding /\ calls = <<>> /\ n \notin visited
      BY <1>1 DEF Start, Searching
    <2> DEFINE c == calls
    <2>2. c \in Seq(Frames) /\ Enter(n, c) /\ DOMAIN calls = {}
      BY <2>1, <1>0
    <2>3. OnPath' = OnPath \cup {n}
      <3>1. \A i \in 1..Len(c) : c[i].node = calls[i].node /\ c[i].left \subseteq calls[i].left
        OBVIOUS
      <3>2. ~(Len(c) > 0)
        BY <2>1
      <3> QED BY <2>1, <2>2, <3>1, <3>2, Pushed
    <2> QED BY <2>1, <2>2, <2>3, EnterSettles
  <1>2. CASE Descend(n)
    <2>1. /\ UNCHANGED <<input, started, unwinding, reported, cycles>>
          /\ Enter(n, Rest(n)) /\ ~unwinding /\ calls # <<>> /\ n \notin visited /\ n \in Here.left
      BY <1>2 DEF Descend, Searching
    <2> DEFINE c == Rest(n)
    <2>2. /\ c \in Seq(Frames) /\ Len(c) = Len(calls)
          /\ \A i \in 1..Len(calls) : c[i].node = calls[i].node /\ c[i].left \subseteq calls[i].left
          /\ NodesOf(c) = NodesOf(calls)
      BY <2>1, <1>0, RestProps
    <2>3. /\ DOMAIN c = DOMAIN calls
          /\ \A i \in DOMAIN calls : c[i].node = calls[i].node
          /\ \A i \in DOMAIN calls : i # Len(calls) => c[i].left = calls[i].left
          /\ c[Len(calls)].left = calls[Len(calls)].left \ {n}
      BY <2>1, <1>0, RestExact
    <2>4. n \in Edges(c[Len(c)].node)
      BY <2>1, <2>2, HereProps DEF Top
    <2>5. Enter(n, c)
      BY <2>1
    <2> HIDE DEF c
    <2>6. OnPath' = OnPath \cup {n}
      BY <2>1, <2>2, <2>4, <2>5, Pushed
    <2> QED BY <2>1, <2>2, <2>3, <2>5, <2>6, EnterSettles
  <1>3. CASE StartAnew(n)
    <2>1. /\ UNCHANGED <<input, unwinding, reported, cycles>> /\ calls = <<>>
          /\ started' = started \cup {n} /\ visited' = {n} /\ rec' = {n}
          /\ calls' = <<[node |-> n, left |-> Edges(n)]>> /\ ~unwinding /\ task = "detector"
      BY <1>3 DEF StartAnew, Searching
    <2>2. \A m : Edges(m)' = Edges(m) /\ Reach(m)' = Reach(m)
      BY <2>1, EdgesFixed, ReachFixed
    <2>3. OnPath' = {n} /\ OnPath = {}
      <3>1. reported = {}
        BY <2>1 DEF ReportsGrounded
      <3>2. SearchInv'
        BY <1>3, StartAnewKeeps
      <3>3. OnPath' = {n}
        <4>1. Edges(n) \in SUBSET Names
          BY EdgesType
        <4>2. calls' \in Seq(Frames) /\ DOMAIN calls' = {1} /\ calls'[1].node = n
          BY <2>1, <4>1 DEF Frames
        <4>3. NodesOf(calls') = {n}
          BY <4>2 DEF NodesOf
        <4> QED BY <4>2, <4>3, PathPropsPrime
      <3>4. NodesOf(calls) = {}
        BY <2>1 DEF NodesOf
      <3> QED BY <3>3, <3>4, <1>0, PathProps
    <2>4. Settled' = {}
      BY <2>1, <2>3 DEF Settled
    <2>5. calls' = <<[node |-> n, left |-> Edges(n)]>> /\ DOMAIN calls' = {1}
          /\ calls'[1].node = n /\ calls'[1].left = Edges(n)
      BY <2>1
    <2> QED BY <2>1, <2>2, <2>3, <2>4, <2>5 DEF SettledSound, input
  <1>4. CASE Skip(n)
    <2>1. /\ UNCHANGED <<input, visited, started, unwinding, reported, cycles>> /\ ~unwinding
          /\ calls # <<>> /\ n \in Here.left /\ calls' = Rest(n)
          /\ n \in visited /\ (n \notin rec \/ task = "update")
      BY <1>4 DEF Skip, Searching, OnStack
    <2>2. \A m : Edges(m)' = Edges(m) /\ Reach(m)' = Reach(m)
      BY <2>1, EdgesFixed, ReachFixed
    <2>3. /\ DOMAIN calls' = DOMAIN calls /\ Len(calls') = Len(calls)
          /\ \A i \in DOMAIN calls : calls'[i].node = calls[i].node
          /\ \A i \in DOMAIN calls : i # Len(calls) => calls'[i].left = calls[i].left
          /\ calls'[Len(calls)].left = calls[Len(calls)].left \ {n}
      BY <2>1, <1>0, RestExact, RestProps
    <2>4. OnPath' = OnPath
      <3>1. calls' \in Seq(Frames) /\ NodesOf(calls') = NodesOf(calls)
        BY <2>1, <1>0, RestProps
      <3> QED BY <3>1, <1>0, PathProps, PathPropsPrime
    <2>5. Settled' = Settled
      BY <2>1, <2>4 DEF Settled
    <2>6. task # "update" => n \in Settled
      BY <2>1 DEF Settled, StackSound
    <2>7. DOMAIN calls = 1..Len(calls) /\ Len(calls) \in Nat
      BY <1>0
    <2>8. ASSUME task # "update", cycles = {},
                 NEW i \in DOMAIN calls', NEW x \in Edges(calls'[i].node) \ calls'[i].left
          PROVE  x \in Settled \/ (i < Len(calls') /\ calls'[i + 1].node = x)
      <3>1. x = n \/ x \in Edges(calls[i].node) \ calls[i].left
        BY <2>3, <2>8
      <3>2. x = n \/ x \in Settled \/ (i < Len(calls) /\ calls[i + 1].node = x)
        BY <3>1, <2>1, <2>3, <2>8 DEF SettledSound
      <3>3. i < Len(calls) => i + 1 \in DOMAIN calls
        BY <2>3, <2>7, <2>8
      <3> QED BY <3>2, <3>3, <2>3, <2>6, <2>8
    <2> QED BY <2>1, <2>2, <2>4, <2>5, <2>8 DEF SettledSound, input
  <1>5. CASE Report(n)
    <2>1. /\ UNCHANGED <<input, visited, started, calls, cycles>> /\ unwinding' = TRUE
          /\ reported' = reported \cup {n} /\ n \in rec
      BY <1>5 DEF Report, OnStack
    <2>2. OnPath' = OnPath
      BY <2>1 DEF OnPath, Path, Elems
    <2>3. Settled' = Settled
      BY <2>1, <2>2 DEF Settled, StackSound
    <2>4. \A m : Edges(m)' = Edges(m) /\ Reach(m)' = Reach(m)
      BY <2>1, EdgesFixed, ReachFixed
    <2> QED BY <2>1, <2>2, <2>3, <2>4 DEF SettledSound, input
  <1>6. CASE RaiseSelf(n) \/ BackRaises(n) \/ BackCollects(n)
    <2>1. cycles' # {}
      BY <1>6 DEF RaiseSelf, BackRaises, BackCollects
    <2> QED BY <2>1 DEF SettledSound
  <1> QED BY <1>1, <1>2, <1>3, <1>4, <1>5, <1>6

LEMMA UnwindSettles ==
  ASSUME SearchInv, SettledSound, StagesSound, Unwind
  PROVE  SettledSound'
  <1> USE DEF SearchInv
  <1>1. /\ UNCHANGED <<input, visited, started, cycles>> /\ unwinding
        /\ reported' = reported \cup {Top.node} /\ unwinding' = (Len(calls) > 1)
        /\ calls' = SubSeq(calls, 1, Len(calls) - 1)
    BY DEF Unwind, Here, Top
  <1>2. calls # <<>> /\ task = "cross"
    BY <1>1 DEF ReportsGrounded
  <1>3. /\ \A n : Edges(n)' = Edges(n) /\ Reach(n)' = Reach(n)
        /\ task' = task
    BY <1>1, EdgesFixed, ReachFixed DEF input
  <1>4. calls \in Seq(Frames) /\ OnPath = NodesOf(calls)
    BY PathProps DEF TypeOK
  <1>5. /\ calls' \in Seq(Frames) /\ Len(calls') = Len(calls) - 1
        /\ NodesOf(calls') = NodesOf(calls) \ {Top.node} /\ Top.node \in NodesOf(calls)
    BY <1>1, <1>2, <1>4, PopProps DEF StackSound, Top
  <1>6. OnPath' = OnPath \ {Top.node} /\ Top.node \in OnPath
    BY <1>4, <1>5, PathPropsPrime
  <1>7. Settled' = Settled
    BY <1>1, <1>6 DEF Settled
  <1>8. ~unwinding' => DOMAIN calls' = {}
    <2>1. Len(calls) \in Nat \ {0} /\ DOMAIN calls' = 1..(Len(calls) - 1)
      BY <1>2, <1>4, <1>5
    <2>2. ~unwinding' => ~(Len(calls) > 1)
      BY <1>1
    <2>3. ~(Len(calls) > 1) => 1..(Len(calls) - 1) = {}
      BY <2>1
    <2> QED BY <2>1, <2>2, <2>3
  <1>9. SUFFICES ASSUME task # "update", cycles = {}
                 PROVE  \A n \in Settled \cup (started \ OnPath') : n \notin Reach(n)
    BY <1>1, <1>3, <1>7, <1>8 DEF SettledSound
  <1>10. started = {}
    BY <1>2 DEF StagesSound
  <1> QED BY <1>9, <1>10 DEF SettledSound

\* A name is entered only from the top of the path, which thereby leads to it.
LEMMA EnterUpdates ==
  ASSUME SearchInv, UpdateSound, UNCHANGED input, task = "update", result' = result,
         NEW c \in Seq(Frames), DOMAIN c = DOMAIN calls, NEW d \in Names, d \notin visited,
         Enter(d, c), OnPath' = OnPath \cup {d},
         \A i \in DOMAIN calls : c[i].node = calls[i].node,
         \A i \in DOMAIN calls : calls[i].left \ {d} \subseteq c[i].left,
         calls # <<>> => d \in Edges(calls[Len(calls)].node)
  PROVE  UpdateSound'
  <1> USE DEF SearchInv
  <1>1. /\ \A n : Edges(n)' = Edges(n) /\ Reach(n)' = Reach(n)
        /\ task' = task
    BY EdgesFixed, ReachFixed
  <1>2. visited' = visited \cup {d}
    BY DEF Enter
  <1>3. calls \in Seq(Frames) /\ Edges(d) \in SUBSET Names
    BY EdgesType DEF TypeOK
  <1>4. Len(c) = Len(calls) /\ Len(calls) \in Nat /\ DOMAIN calls = 1..Len(calls)
    BY <1>3
  <1>5. /\ calls' \in Seq(Frames) /\ Len(calls') = Len(c) + 1
        /\ \A i \in 1..Len(c) : calls'[i] = c[i]
        /\ calls'[Len(c) + 1].node = d /\ calls'[Len(c) + 1].left = Edges(d)
    BY <1>3, PushProps DEF Enter
  <1> DEFINE n == Len(calls)
  <1>6. DOMAIN calls' = 1..(n + 1) /\ n \in Nat
    BY <1>4, <1>5
  <1> HIDE DEF n
  <1>7. \A i \in 1..(n + 1) :
           \/ /\ i \in 1..n /\ calls'[i].node = calls[i].node
              /\ Edges(calls'[i].node) \ calls'[i].left
                   \subseteq (Edges(calls[i].node) \ calls[i].left) \cup {d}
           \/ i = n + 1 /\ calls'[i].node = d /\ Edges(calls'[i].node) \ calls'[i].left = {}
    <2>1. \A i \in 1..(n + 1) : i \in 1..n \/ i = n + 1
      BY <1>6
    <2> QED BY <2>1, <1>4, <1>5 DEF n
  <1>8. \A i \in 1..n : Edges(calls[i].node) \ calls[i].left \subseteq visited
    BY <1>4 DEF UpdateSound, n
  <1>9. \A i \in DOMAIN calls' : Edges(calls'[i].node) \ calls'[i].left \subseteq visited'
    BY <1>2, <1>6, <1>7, <1>8
  <1>10. ASSUME NEW i \in 1..(n + 1), NEW j \in 1..(n + 1), i < j
         PROVE  calls'[j].node \in Reach(calls'[i].node)
    <2>1. i \in 1..n /\ calls'[i].node = calls[i].node
      BY <1>6, <1>7, <1>10
    <2>2. CASE j # n + 1
      BY <1>4, <1>7, <1>10, <2>1, <2>2 DEF UpdateSound, n
    <2>3. CASE j = n + 1
      <3>1. d \in Edges(calls[n].node) /\ n \in 1..n /\ calls'[j].node = d
        BY <1>6, <1>7, <2>1, <2>3 DEF n
      <3>2. CASE i = n
        BY <2>1, <3>1, <3>2, ReachProps
      <3>3. CASE i # n
        <4>1. i < n
          BY <1>6, <2>1, <3>3
        <4>2. calls[n].node \in Reach(calls[i].node)
          BY <1>4, <2>1, <3>1, <4>1 DEF UpdateSound, n
        <4> QED BY <2>1, <3>1, <4>2, ReachProps
      <3> QED BY <3>2, <3>3
    <2> QED BY <2>2, <2>3
  <1>11. visited' \ OnPath' \subseteq Elems(result')
    BY <1>2 DEF UpdateSound
  <1> QED BY <1>1, <1>6, <1>9, <1>10, <1>11 DEF UpdateSound

\* What is left has all it reads in the order before it, or is in a cycle with it.
LEMMA LeaveUpdates ==
  ASSUME SearchInv, UpdateSound, task = "update", Leave
  PROVE  UpdateSound'
  <1> USE DEF SearchInv
  <1>1. /\ UNCHANGED <<input, visited>> /\ calls # <<>> /\ Top.left = {}
        /\ calls' = SubSeq(calls, 1, Len(calls) - 1)
        /\ result' = Append(result, Top.node)
    BY DEF Leave, Searching, Here, Top
  <1>2. /\ \A n : Edges(n)' = Edges(n) /\ Reach(n)' = Reach(n)
        /\ task' = task
    BY <1>1, EdgesFixed, ReachFixed DEF input
  <1>3. calls \in Seq(Frames) /\ OnPath = NodesOf(calls)
    BY PathProps DEF TypeOK
  <1>4. /\ calls' \in Seq(Frames) /\ Len(calls') = Len(calls) - 1
        /\ \A i \in 1..(Len(calls) - 1) : calls'[i] = calls[i]
        /\ NodesOf(calls') = NodesOf(calls) \ {Top.node} /\ Top.node \in NodesOf(calls)
    BY <1>1, <1>3, PopProps DEF StackSound, Top
  <1>5. OnPath' = OnPath \ {Top.node} /\ Top.node \in OnPath
    BY <1>3, <1>4, PathPropsPrime
  <1>6. PICK t \in Names : t = Top.node
    BY <1>1, HereProps DEF Frames
  <1> DEFINE n == Len(calls)
             l == Len(result)
  <1>7. /\ n \in DOMAIN calls /\ DOMAIN calls = 1..n /\ n \in Nat \ {0}
        /\ Top = calls[n] /\ DOMAIN calls' = 1..(n - 1)
    BY <1>1, <1>4, HereProps DEF Top
  <1>8. /\ result' \in Seq(Names) /\ Len(result') = l + 1
        /\ \A i \in 1..l : result'[i] = result[i]
        /\ result'[l + 1] = t /\ Elems(result') = Elems(result) \cup {t}
    BY <1>1, <1>6, AppendElems DEF TypeOK
  <1>9. l \in Nat /\ DOMAIN result = 1..l /\ DOMAIN result' = 1..(l + 1)
    BY <1>8 DEF TypeOK
  <1> HIDE DEF n, l
  <1>10. \A i \in 1..(n - 1) : i \in 1..n
    BY <1>7
  <1>11. \A i \in DOMAIN calls' : Edges(calls'[i].node) \ calls'[i].left \subseteq visited
    BY <1>4, <1>7, <1>10 DEF UpdateSound, n
  <1>12. \A i, j \in DOMAIN calls' : i < j => calls'[j].node \in Reach(calls'[i].node)
    BY <1>4, <1>7, <1>10 DEF UpdateSound, n
  <1>13. visited \ OnPath' \subseteq Elems(result')
    BY <1>5, <1>6, <1>8 DEF UpdateSound
  <1>14. ASSUME NEW d \in Edges(t) PROVE (\E j \in 1..l : result[j] = d) \/ t \in Reach(d)
    <2>1. d \in visited
      BY <1>1, <1>6, <1>7, <1>14 DEF UpdateSound
    <2>2. CASE d \notin OnPath
      BY <2>1, <2>2, <1>9 DEF UpdateSound, Elems
    <2>3. CASE d \in OnPath
      <3>1. PICK i \in 1..n : calls[i].node = d
        BY <2>3, <1>3, <1>7 DEF NodesOf
      <3>2. CASE i = n
        BY <3>1, <3>2, <1>6, <1>7, <1>14, ReachProps
      <3>3. CASE i # n
        <4>1. i < n
          BY <1>7, <3>3
        <4> QED BY <3>1, <4>1, <1>6, <1>7 DEF UpdateSound
      <3> QED BY <3>2, <3>3
    <2> QED BY <2>2, <2>3
  <1>15. ASSUME NEW i \in 1..(l + 1), NEW d \in Edges(result'[i])
         PROVE  (\E j \in 1..(i - 1) : result'[j] = d) \/ result'[i] \in Reach(d)
    <2>1. CASE i = l + 1
      <3>1. (\E j \in 1..l : result[j] = d) \/ t \in Reach(d)
        BY <2>1, <1>8, <1>14, <1>15
      <3>2. i - 1 = l
        BY <2>1, <1>9
      <3> QED BY <2>1, <3>1, <3>2, <1>8
    <2>2. CASE i # l + 1
      <3>1. i \in 1..l /\ \A j \in 1..(i - 1) : j \in 1..l
        BY <2>2, <1>9
      <3> QED BY <3>1, <1>8, <1>9, <1>15 DEF UpdateSound
    <2> QED BY <2>1, <2>2
  <1> QED BY <1>1, <1>2, <1>9, <1>11, <1>12, <1>13, <1>15 DEF UpdateSound

LEMMA SearchUpdates ==
  ASSUME SearchInv, UpdateSound, task = "update", NEW n \in Names,
         \/ Start(n) \/ StartAnew(n) \/ RaiseSelf(n) \/ Descend(n) \/ Skip(n)
         \/ Report(n) \/ BackRaises(n) \/ BackCollects(n)
  PROVE  UpdateSound'
  <1> USE DEF SearchInv
  <1>0. calls \in Seq(Frames)
    BY DEF TypeOK
  <1>1. CASE Start(n)
    <2>1. /\ UNCHANGED <<input, unwinding, reported>> /\ result' = result
          /\ Enter(n, <<>>) /\ calls = <<>> /\ n \notin visited
      BY <1>1 DEF Start, Searching, sort
    <2> DEFINE c == calls
    <2>2. c \in Seq(Frames) /\ Enter(n, c) /\ DOMAIN calls = {}
      BY <2>1, <1>0
    <2>3. OnPath' = OnPath \cup {n}
      <3>1. \A i \in 1..Len(c) : c[i].node = calls[i].node /\ c[i].left \subseteq calls[i].left
        OBVIOUS
      <3>2. ~(Len(c) > 0)
        BY <2>1
      <3> QED BY <2>1, <2>2, <3>1, <3>2, Pushed
    <2> QED BY <2>1, <2>2, <2>3, EnterUpdates
  <1>2. CASE Descend(n)
    <2>1. /\ UNCHANGED <<input, unwinding, reported>> /\ result' = result
          /\ Enter(n, Rest(n)) /\ calls # <<>> /\ n \notin visited /\ n \in Here.left
      BY <1>2 DEF Descend, Searching, sort
    <2> DEFINE c == Rest(n)
    <2>2. /\ c \in Seq(Frames) /\ Len(c) = Len(calls)
          /\ \A i \in 1..Len(calls) : c[i].node = calls[i].node /\ c[i].left \subseteq calls[i].left
          /\ NodesOf(c) = NodesOf(calls)
      BY <2>1, <1>0, RestProps
    <2>3. /\ DOMAIN c = DOMAIN calls
          /\ \A i \in DOMAIN calls : c[i].node = calls[i].node
          /\ \A i \in DOMAIN calls : calls[i].left \ {n} \subseteq c[i].left
      BY <2>1, <1>0, RestExact
    <2>4. n \in Edges(c[Len(c)].node) /\ n \in Edges(calls[Len(calls)].node)
      BY <2>1, <2>2, HereProps DEF Top
    <2>5. Enter(n, c)
      BY <2>1
    <2> HIDE DEF c
    <2>6. OnPath' = OnPath \cup {n}
      BY <2>1, <2>2, <2>4, <2>5, Pushed
    <2> QED BY <2>1, <2>2, <2>3, <2>4, <2>5, <2>6, EnterUpdates
  <1>3. CASE Skip(n)
    <2>1. /\ UNCHANGED <<input, visited>> /\ result' = result
          /\ calls # <<>> /\ calls' = Rest(n) /\ n \in visited
      BY <1>3 DEF Skip, Searching, sort
    <2>2. /\ \A m : Edges(m)' = Edges(m) /\ Reach(m)' = Reach(m)
          /\ task' = task
      BY <2>1, EdgesFixed, ReachFixed DEF input
    <2>3. /\ DOMAIN calls' = DOMAIN calls
          /\ \A i \in DOMAIN calls : calls'[i].node = calls[i].node
          /\ \A i \in DOMAIN calls : calls[i].left \ {n} \subseteq calls'[i].left
      BY <2>1, <1>0, RestExact
    <2>4. OnPath' = OnPath
      <3>1. calls' \in Seq(Frames) /\ NodesOf(calls') = NodesOf(calls)
        BY <2>1, <1>0, RestProps
      <3> QED BY <3>1, <1>0, PathProps, PathPropsPrime
    <2>5. \A i \in DOMAIN calls : Edges(calls[i].node) \ calls[i].left \subseteq visited
      BY DEF UpdateSound
    <2>6. \A i \in DOMAIN calls' : Edges(calls'[i].node) \ calls'[i].left \subseteq visited'
      BY <2>1, <2>3, <2>5
    <2> QED BY <2>1, <2>2, <2>3, <2>4, <2>6 DEF UpdateSound
  <1>4. ~(StartAnew(n) \/ RaiseSelf(n) \/ Report(n) \/ BackRaises(n) \/ BackCollects(n))
    BY DEF StartAnew, RaiseSelf, NamesItself, Report, BackRaises, BackCollects
  <1> QED BY <1>1, <1>2, <1>3, <1>4

Second == SettledSound /\ StagesSound /\ ContextFollows /\ UpdateSound

\* The part of the next-state relation that looks for cycles.
SearchStep ==
  \/ \E n \in Names : \/ Start(n) \/ StartAnew(n) \/ RaiseSelf(n) \/ Descend(n) \/ Skip(n)
                      \/ Report(n) \/ BackRaises(n) \/ BackCollects(n)
  \/ Unwind \/ Leave

\* The part after it, in which the search rests.
StageStep ==
  \/ Searched \/ Validate \/ Process \/ Sorted \/ Evaluate \/ EvaluateFails \/ Evaluated
  \/ \E n \in Names : Enqueue(n)
  \/ UNCHANGED vars

LEMMA StepKinds ==
  ASSUME [Next]_vars PROVE SearchStep \/ StageStep
  BY DEF Next, SearchStep, StageStep

LEMMA ReadyFixed ==
  ASSUME UNCHANGED <<input, sort>> PROVE Ready' = Ready
  <1>1. /\ \A n : Edges(n)' = Edges(n)
        /\ listed' = listed /\ queue' = queue /\ result' = result
    BY EdgesFixed DEF input, sort
  <1>2. All' = All /\ Elems(queue)' = Elems(queue) /\ Elems(result)' = Elems(result)
    BY <1>1 DEF All
  <1> QED BY <1>1, <1>2 DEF Ready

LEMMA SearchStages ==
  ASSUME StagesSound, SearchStep PROVE StagesSound'
  <1>1. /\ UNCHANGED input /\ stage = "search" /\ stage' \in {"search", "raised"}
        /\ task = "cross" => cycles' = cycles
        /\ task = "update" => stage' = stage
        /\ task # "detector" => started' = started
    BY DEF SearchStep, Start, StartAnew, RaiseSelf, NamesItself, Descend, Skip, Report, BackRaises,
           BackCollects, Unwind, Leave, Searching
  <1> QED BY <1>1 DEF StagesSound, input

LEMMA StageStages ==
  ASSUME TypeOK, StagesSound, StageStep PROVE StagesSound'
  <1>1. UNCHANGED <<input, search>>
    BY DEF StageStep, Searched, Validate, Process, Sorted, Evaluate, EvaluateFails, Evaluated,
           Enqueue, vars
  <1>2. /\ listed' = listed /\ reads' = reads /\ task' = task /\ visited' = visited /\ started' = started
        /\ cycles' = cycles
    BY <1>1 DEF input, search
  <1>3. CASE Searched
    <2>1. stage' # "search" /\ (task = "update" => stage' = "done")
          /\ (task = "cross" => stage' = "validate")
          /\ listed \subseteq (IF task = "detector" THEN started ELSE visited)
      BY <1>3 DEF Searched
    <2> QED BY <1>2, <2>1 DEF StagesSound
  <1>4. CASE Validate
    <2>1. stage = "validate" /\ stage' \in {"sort", "raised"}
      BY <1>4 DEF Validate
    <2> QED BY <1>2, <2>1 DEF StagesSound
  <1>5. CASE Process \/ \E n \in Names : Enqueue(n)
    <2>1. stage = "sort" /\ stage' = "sort"
      BY <1>5 DEF Process, Enqueue
    <2> QED BY <1>2, <2>1 DEF StagesSound
  <1>6. CASE Sorted
    <2>1. /\ stage = "sort" /\ stage' \in {"done", "evaluate", "raised"}
          /\ Ready = {} /\ queue = <<>> /\ UNCHANGED <<input, sort>>
          /\ task = "cross" => stage' = "done"
      BY <1>6 DEF Sorted
    <2>2. Ready' = {} /\ queue' = <<>>
      BY <2>1, ReadyFixed DEF sort
    <2> QED BY <1>2, <2>1, <2>2 DEF StagesSound
  <1>7. CASE Evaluate \/ EvaluateFails \/ Evaluated
    <2>1. /\ stage = "evaluate" /\ stage' \in {"evaluate", "raised", "done"} /\ UNCHANGED <<input, sort>>
          /\ (stage' = "done" => UNCHANGED <<input, sort>>)
      BY <1>7 DEF Evaluate, EvaluateFails, Evaluated
    <2> QED BY <1>2, <2>1 DEF StagesSound
  <1>8. CASE UNCHANGED vars
    <2>1. stage' = stage /\ UNCHANGED <<input, sort>>
      BY <1>8 DEF vars
    <2>2. Ready' = Ready /\ queue' = queue
      BY <2>1, ReadyFixed DEF sort
    <2> QED BY <1>2, <2>1, <2>2 DEF StagesSound
  <1> QED BY <1>3, <1>4, <1>5, <1>6, <1>7, <1>8 DEF StageStep

LEMMA ContextKept ==
  ASSUME TypeOK, ContextFollows, [Next]_vars PROVE ContextFollows'
  <1>1. context \in Seq(Names) /\ result \in Seq(Names) /\ queue \in Seq(Names) /\ calls \in Seq(Frames)
    BY DEF TypeOK
  <1> DEFINE l == Len(result)
             k == Len(context)
  <1>2. /\ l \in Nat /\ k \in Nat /\ DOMAIN result = 1..l /\ DOMAIN context = 1..k
        /\ k <= l /\ \A i \in 1..k : context[i] = result[i] /\ i \in 1..l
    BY <1>1 DEF ContextFollows
  <1>3. CASE UNCHANGED <<result, context>>
    BY <1>3 DEF ContextFollows
  <1>4. ASSUME NEW e \in Names, result' = Append(result, e), context' = context
        PROVE  ContextFollows'
    <2>1. Len(result') = l + 1 /\ \A i \in 1..l : result'[i] = result[i]
      BY <1>1, <1>4, AppendElems
    <2> QED BY <1>2, <1>4, <2>1 DEF ContextFollows
  <1>5. CASE Process
    <2>1. Head(queue) \in Names /\ result' = Append(result, Head(queue)) /\ context' = context
      BY <1>1, <1>5 DEF Process
    <2> QED BY <1>4, <2>1
  <1>6. CASE Leave
    <2>1. context' = context /\ calls # <<>>
          /\ result' = (IF task = "update" THEN Append(result, Here.node) ELSE result)
      BY <1>6 DEF Leave
    <2>2. Here.node \in Names
      <3>1. calls[Len(calls)] \in Frames
        BY <1>1, <2>1
      <3> QED BY <3>1 DEF Here, Frames
    <2> QED BY <1>3, <1>4, <2>1, <2>2
  <1>7. CASE Evaluate
    <2>1. k < l /\ context' = Append(context, result[k + 1]) /\ result' = result
      BY <1>7 DEF Evaluate, Following, sort
    <2>2. result[k + 1] \in Names
      BY <1>1, <1>2, <2>1
    <2>3. /\ Len(context') = k + 1 /\ \A i \in 1..k : context'[i] = context[i]
          /\ context'[k + 1] = result[k + 1] /\ DOMAIN context' = 1..(k + 1)
      BY <1>1, <2>1, <2>2, AppendElems
    <2> HIDE DEF k, l
    <2>4. k + 1 <= l /\ \A i \in 1..(k + 1) : i \in 1..k \/ i = k + 1
      BY <1>2, <2>1
    <2> QED BY <1>2, <2>1, <2>3, <2>4 DEF ContextFollows, l
  <1>8. CASE EvaluateFails
    <2>1. context' = <<>> /\ result' = result
      BY <1>8 DEF EvaluateFails, sort
    <2> QED BY <1>2, <2>1 DEF ContextFollows
  <1>9. CASE \/ \E n \in Names : \/ Start(n) \/ StartAnew(n) \/ RaiseSelf(n) \/ Descend(n) \/ Skip(n)
                                 \/ Report(n) \/ BackRaises(n) \/ BackCollects(n) \/ Enqueue(n)
             \/ Unwind \/ Searched \/ Validate \/ Sorted \/ Evaluated \/ UNCHANGED vars
    <2>1. UNCHANGED <<result, context>>
      BY <1>9 DEF Start, StartAnew, RaiseSelf, Descend, Skip, Report, BackRaises, BackCollects,
                  Enqueue, Unwind, Searched, Validate, Sorted, Evaluated, vars, sort
    <2> QED BY <2>1, <1>3
  <1> QED BY <1>5, <1>6, <1>7, <1>8, <1>9 DEF Next

LEMMA UpdateKept ==
  ASSUME SearchInv, StagesSound, UpdateSound, [Next]_vars PROVE UpdateSound'
  <1>1. UNCHANGED input
    BY DEF Next, Start, StartAnew, RaiseSelf, Descend, Skip, Report, BackRaises, BackCollects,
           Enqueue, Unwind, Leave, Searched, Validate, Process, Sorted, Evaluate, EvaluateFails,
           Evaluated, vars
  <1>2. /\ \A n : Edges(n)' = Edges(n) /\ Reach(n)' = Reach(n)
        /\ task' = task
    BY <1>1, EdgesFixed, ReachFixed DEF input
  <1>3. CASE task # "update"
    BY <1>2, <1>3 DEF UpdateSound
  <1>4. CASE task = "update"
    <2>1. CASE SearchStep
      <3>1. ~Unwind
        BY <1>4 DEF Unwind, SearchInv, ReportsGrounded
      <3> QED BY <1>4, <2>1, <3>1, SearchUpdates, LeaveUpdates DEF SearchStep
    <2>2. CASE StageStep
      <3>1. /\ UNCHANGED <<visited, calls>>
            /\ result' = result
        BY <1>4, <2>2 DEF StageStep, StagesSound, Searched, Validate, Process, Sorted, Evaluate,
             EvaluateFails, Evaluated, Enqueue, vars, search, sort
      <3>2. OnPath' = OnPath /\ Elems(result)' = Elems(result)
        BY <3>1 DEF OnPath, Path, Elems
      <3> QED BY <1>2, <3>1, <3>2 DEF UpdateSound
    <2> QED BY <2>1, <2>2, StepKinds
  <1> QED BY <1>3, <1>4

LEMMA SettledStays ==
  ASSUME SearchInv, SettledSound, StagesSound, [Next]_vars PROVE SettledSound'
  <1>1. CASE SearchStep
    BY <1>1, SearchSettles, UnwindSettles, LeaveSettles DEF SearchStep
  <1>2. CASE StageStep
    <2>1. UNCHANGED <<input, search>>
      BY <1>2 DEF StageStep, Searched, Validate, Process, Sorted, Evaluate, EvaluateFails,
                  Evaluated, Enqueue, vars
    <2>2. UNCHANGED <<input, visited, started, calls, unwinding, cycles, reported>>
      BY <2>1 DEF search
    <2>3. OnPath' = OnPath
      BY <2>2 DEF OnPath, Path, Elems
    <2>4. Settled' = Settled
      BY <2>2, <2>3 DEF Settled
    <2> QED BY <2>2, <2>4, SettledKept
  <1> QED BY <1>1, <1>2, StepKinds

LEMMA SecondInit == Init => Second
  <1> SUFFICES ASSUME Init PROVE Second
    OBVIOUS
  <1>1. /\ visited = {} /\ started = {} /\ calls = <<>> /\ cycles = {} /\ stage = "search"
        /\ result = <<>> /\ context = <<>> /\ DOMAIN <<>> = {}
        /\ \A n \in Names \ listed : reads[n] = {}
    BY DEF Init
  <1>2. Settled = {}
    BY <1>1 DEF Settled
  <1> QED BY <1>1, <1>2 DEF Second, SettledSound, StagesSound, ContextFollows, UpdateSound

LEMMA SecondNext == IInv /\ Second /\ [Next]_vars => Second'
  <1> SUFFICES ASSUME IInv, Second, [Next]_vars PROVE Second'
    OBVIOUS
  <1>1. SearchInv /\ TypeOK
    BY DEF IInv, SearchInv
  <1>2. SettledSound /\ StagesSound /\ ContextFollows /\ UpdateSound
    BY DEF Second
  <1>3. StagesSound'
    BY <1>1, <1>2, SearchStages, StageStages, StepKinds
  <1> QED BY <1>1, <1>2, <1>3, SettledStays, ContextKept, UpdateKept DEF Second

LEMMA SecondHolds == Spec => [](IInv /\ Second)
  <1>1. Init => IInv /\ Second
    BY InitHolds, SecondInit
  <1>2. IInv /\ Second /\ [Next]_vars => IInv' /\ Second'
    BY NextKeeps, SecondNext
  <1> QED BY <1>1, <1>2, PTL DEF Spec

\* Every variable keeps its type, whatever graph is walked.
THEOREM TypesHold == Spec => []TypeOK
  <1>1. IInv => TypeOK
    BY DEF IInv
  <1> QED BY IInvHolds, <1>1, PTL

\* The order of sensors, and that of the formulas of one sensor, has nothing
\* twice and nothing before what it reads.
THEOREM OrderIsSound == Spec => []OrderRespectsReads
  <1>1. IInv => OrderRespectsReads
    BY DEF IInv
  <1> QED BY IInvHolds, <1>1, PTL

\* The two algorithms of the sensors' cycles agree: no reported sensor is in the
\* order, and what the complete order omits is reported or leads to what is.
THEOREM OmittedHold == Spec => []OmittedAreReported
  <1> SUFFICES ASSUME IInv, Second PROVE OmittedAreReported
    BY SecondHolds, PTL
  <1>1. TypeOK /\ StackSound /\ ReportsGrounded /\ ReportedAreOmitted
    BY DEF IInv
  <1>2. SettledSound /\ StagesSound
    BY DEF Second
  <1>3. SUFFICES ASSUME task = "cross", stage = "done", NEW n \in All \ Elems(result),
                        ({n} \cup Reach(n)) \cap reported = {}
                 PROVE  FALSE
    BY <1>1 DEF OmittedAreReported
  <1>4. queue = <<>> /\ Ready = {} /\ cycles = {} /\ listed \subseteq visited
    BY <1>2, <1>3 DEF StagesSound
  <1>5. Elems(queue) = {} /\ OnPath = {}
    <2>1. calls = <<>>
      BY <1>1, <1>3 DEF ReportsGrounded
    <2>2. NodesOf(calls) = {} /\ calls \in Seq(Frames)
      BY <2>1 DEF NodesOf
    <2> QED BY <1>4, <2>2, PathProps DEF Elems
  <1> DEFINE S == ({n} \cup Reach(n)) \ Elems(result)
  <1>6. Reach(n) \subseteq Names /\ Edges(n) \subseteq Reach(n)
        /\ \A m \in Reach(n) : Edges(m) \subseteq Reach(n)
    BY <1>1, ReachProps
  <1>7. ASSUME NEW m \in S PROVE m \in Settled /\ Edges(m) \cap S # {}
    <2>1. m \in All
      <3>1. CASE m = n
        BY <3>1
      <3>2. CASE m \in Reach(n)
        <4>1. \A k : Edges(k) \subseteq All \cap Names
          BY <1>1, EdgesType DEF All, Edges
        <4>2. Reach(n) \subseteq All \cap Names
          BY <1>1, <4>1, ReachProps
        <4> QED BY <3>2, <4>2
      <3> QED BY <1>7, <3>1, <3>2
    <2>2. m \notin Ready /\ m \notin Elems(queue) \cup Elems(result)
      BY <1>4, <1>5, <1>7
    <2>3. PICK d \in Edges(m) : d \notin Elems(result)
      BY <2>1, <2>2 DEF Ready
    <2>4. m \in listed
      BY <2>3 DEF Edges
    <2>5. m \in visited /\ m \notin reported
      BY <1>3, <1>4, <1>7, <2>4
    <2>6. d \in S
      BY <1>6, <1>7, <2>3
    <2> QED BY <1>5, <2>3, <2>5, <2>6 DEF Settled
  <1>8. S \in SUBSET Settled /\ n \in S
    BY <1>3, <1>7
  <1>9. \E m \in S : Edges(m) \cap S = {}
    <2> HIDE DEF S
    <2> QED BY <1>2, <1>3, <1>4, <1>8 DEF SettledSound
  <1> QED BY <1>7, <1>9

\* What a search raises or collects as a cycle is one, and a search that ends
\* without any, other than the validator's, has seen a graph in which nothing
\* leads to itself.
THEOREM CyclesHold == Spec => []CyclesAreReal
  <1> SUFFICES ASSUME IInv, Second PROVE CyclesAreReal
    BY SecondHolds, PTL
  <1>1. TypeOK /\ ReportsGrounded /\ RaisedAreCycles
    BY DEF IInv
  <1>2. SettledSound /\ StagesSound
    BY DEF Second
  <1>3. SUFFICES ASSUME task \in {"generic", "detector", "resolver"},
                        stage \in {"sort", "evaluate", "done"}, cycles = {}, NEW n \in listed
                 PROVE  n \notin Reach(n)
    BY <1>1 DEF CyclesAreReal
  <1>4. OnPath = {} /\ reported = {}
    <2>1. calls = <<>> /\ reported = {}
      BY <1>1, <1>3 DEF ReportsGrounded
    <2>2. NodesOf(calls) = {} /\ calls \in Seq(Frames)
      BY <2>1 DEF NodesOf
    <2> QED BY <2>1, <2>2, PathProps
  <1>5. n \in Settled \cup (started \ OnPath)
    BY <1>2, <1>3, <1>4 DEF StagesSound, Settled
  <1> QED BY <1>2, <1>3, <1>5 DEF SettledSound

LEMMA SubSeqBefore ==
  ASSUME NEW S, NEW s \in Seq(S), NEW i \in DOMAIN s, NEW d,
         \E j \in 1..(i - 1) : s[j] = d
  PROVE  Before(d, SubSeq(s, 1, i - 1))
  <1>1. i \in 1..Len(s) /\ Len(s) \in Nat
    OBVIOUS
  <1>2. PICK j \in 1..(i - 1) : s[j] = d
    OBVIOUS
  <1> DEFINE k == i - 1
  <1>3. k \in Nat /\ 1 \in Int /\ k \in Int /\ k <= Len(s) /\ j \in 1..k
    BY <1>1, <1>2
  <1>4. \A m \in 1..k : s[m] \in S
    BY <1>1
  <1>5. /\ SubSeq(s, 1, k) \in Seq(S)
        /\ Len(SubSeq(s, 1, k)) = IF 1 <= k THEN k - 1 + 1 ELSE 0
        /\ \A m \in 1..(k - 1 + 1) : SubSeq(s, 1, k)[m] = s[1 + m - 1]
    <2> HIDE DEF k
    <2> QED BY <1>3, <1>4, SubSeqProperties
  <1>6. k - 1 + 1 = k /\ 1 <= k /\ 1 + j - 1 = j
    BY <1>3
  <1> DEFINE f == SubSeq(s, 1, k)
  <1>7. f \in Seq(S) /\ Len(f) = k /\ f[j] = s[j]
    BY <1>3, <1>5, <1>6
  <1> HIDE DEF f
  <1>8. j \in DOMAIN f
    BY <1>3, <1>7
  <1> QED BY <1>2, <1>7, <1>8 DEF Before, f

\* A formula finds the attributes it reads in the context unless their names have
\* underscores, and an update has what a sensor reads before it unless the two
\* are in a cycle.
THEOREM ReadsHold == Spec => []ReadsAreEvaluated
  <1> SUFFICES ASSUME IInv, Second PROVE ReadsAreEvaluated
    BY SecondHolds, PTL
  <1>1. TypeOK /\ OrderRespectsReads
    BY DEF IInv
  <1>2. ContextFollows /\ UpdateSound /\ StagesSound
    BY DEF Second
  <1>3. context \in Seq(Names) /\ result \in Seq(Names)
    BY <1>1 DEF TypeOK
  <1>4. ASSUME task = "generic", NEW i \in DOMAIN context,
               NEW d \in (reads[context[i]] \cap listed) \ {Main}, LastPart[d] = d
        PROVE  Before(d, SubSeq(context, 1, i - 1))
    <2>1. i \in DOMAIN result /\ context[i] = result[i]
          /\ \A j \in 1..(i - 1) : j \in DOMAIN context /\ context[j] = result[j]
      <3>1. /\ Len(context) \in Nat /\ Len(result) \in Nat /\ DOMAIN context = 1..Len(context)
            /\ DOMAIN result = 1..Len(result) /\ Len(context) <= Len(result)
        BY <1>2, <1>3 DEF ContextFollows
      <3>2. i \in DOMAIN result /\ \A j \in 1..(i - 1) : j \in DOMAIN context
        BY <3>1
      <3> QED BY <3>2, <1>2 DEF ContextFollows
    <2>2. context[i] \in listed
      <3>1. context[i] \in Names
        BY <1>3
      <3> QED BY <3>1, <1>2, <1>4 DEF StagesSound
    <2>3. d \in Edges(context[i])
      BY <1>4, <2>2 DEF Edges, FormulaReads, Matches
    <2>4. \E j \in 1..(i - 1) : result[j] = d
      BY <1>1, <1>4, <2>1, <2>3 DEF OrderRespectsReads
    <2>5. \E j \in 1..(i - 1) : context[j] = d
      BY <2>1, <2>4
    <2> QED BY <1>3, <2>5, SubSeqBefore
  <1>5. ASSUME task = "update", NEW i \in DOMAIN result, NEW d \in Edges(result[i])
        PROVE  Before(d, SubSeq(result, 1, i - 1)) \/ result[i] \in Reach(d)
    BY <1>2, <1>3, <1>5, SubSeqBefore DEF UpdateSound
  <1> QED BY <1>4, <1>5 DEF ReadsAreEvaluated
=============================================================================
