----------------------------- MODULE References -----------------------------
(***************************************************************************)
(* How the sensors of a set refer to each other, and what an import        *)
(* (storage_sensor_set_ops.py, cross_sensor_reference_reassignment.py) and *)
(* the completion of the registrations (formula_reference_resolver.py)     *)
(* make of the references once Home Assistant has given the entity ids.    *)
(*                                                                         *)
(* A formula is the set of the names in it, a name being bare, <<Bare, n>>,*)
(* or an entity id, <<domain, n>>.  The domains other than sensor stand    *)
(* for those that do not end in "sensor".                                  *)
(***************************************************************************)
EXTENDS Integers, FiniteSets

CONSTANTS
  Keys,      \* the unique ids of sensors, their keys in the YAML
  Names,     \* the keys and whatever else is a name
  Domains, Sensor,
  Bare, StateName,
  Variants,  \* Names -> what Home Assistant makes of a name that is taken
  Rank,      \* Keys -> the place among the sensors of a document
  None

Tokens == ({Bare} \cup Domains) \X (Names \cup {StateName})
Ids == {Sensor} \X Names

State == <<Bare, StateName>>
Key(k) == <<Bare, k>>
Own(k) == <<Sensor, k>>

\* A sensor: its explicit entity id, the names in its formulas and the values
\* of its variables.
Entries == [entity : Ids \cup {None}, text : SUBSET Tokens, vars : SUBSET Tokens,
            enabled : BOOLEAN]

\* What the names in a sensor's formulas and variables were meant to be.
Meanings == [text : SUBSET Tokens, vars : SUBSET Tokens]

ASSUME ReferencesConstants ==
  /\ IsFiniteSet(Keys) /\ Keys \subseteq Names /\ Sensor \in Domains /\ Bare \notin Domains
  /\ StateName \notin Names
  /\ Variants \in [Names -> SUBSET Names]
  /\ Rank \in [Keys -> Nat] /\ \A j, k \in Keys : Rank[j] = Rank[k] => j = k
  /\ None \notin Entries \cup Tokens \cup Meanings

Listed(doc) == {k \in Keys : doc[k] # None}
Enabled(doc) == {k \in Listed(doc) : doc[k].enabled}
-----------------------------------------------------------------------------
(* A sensor's references to itself *)

\* Mistake: an explicit entity id is not looked for.
SelfNames_KeyOnly(k, entry) == {k}

SelfNames(k, entry) == {k} \cup IF entry.entity = None THEN {} ELSE {entry.entity[2]}

\* The name is replaced in an entity id of another domain too.
SelfReplaced(t, k, entry) ==
  IF t[2] \notin SelfNames(k, entry) THEN t
  ELSE IF t[1] = Sensor THEN State ELSE <<t[1], StateName>>

WithState(k, entry) ==
  [entry EXCEPT !.text = {SelfReplaced(t, k, entry) : t \in @},
                !.vars = {SelfReplaced(t, k, entry) : t \in @}]
-----------------------------------------------------------------------------
(* Replacing references by entity ids *)

\* Mappings from names to entity ids, None for a name that is not mapped.
Mappings == [Tokens -> Ids \cup {None}]

KeysOnly(ids) ==
  [t \in Tokens |-> IF t[1] = Bare /\ t[2] \in Keys THEN ids[t[2]] ELSE None]

\* Who was meant by an entity id before Home Assistant gave the ids.
Claimants(doc, ids, e) ==
  {k \in Listed(doc) : e = Own(k) \/ (e = doc[k].entity /\ e # ids[k])}

LastOf(S) == CHOOSE k \in S : \A j \in S : Rank[j] <= Rank[k]

\* Sensors given ids by an import; the last to claim an entity id has it.
Enhanced(doc, ids) ==
  [t \in Tokens |->
     IF t[1] = Bare THEN IF t[2] \in Listed(doc) THEN ids[t[2]] ELSE None
     ELSE LET S == Claimants(doc, ids, t)
          IN  IF S = {} THEN None ELSE ids[LastOf(S)]]

\* In a formula, an entity id of any domain that ends in a key counts as a
\* reference to the sensor; a self-reference becomes the state token.
InText(t, k, map) ==
  IF t[1] # Bare /\ map[t] # None THEN map[t]
  ELSE IF map[<<Bare, t[2]>>] = None THEN t
  ELSE IF t[2] = k THEN State ELSE map[<<Bare, t[2]>>]

InVariable(t, k, map) ==
  IF t \in {Key(k), Own(k)} \/ (map[t] # None /\ map[t] = map[Key(k)]) THEN State
  ELSE IF map[t] # None THEN map[t] ELSE t

InFormula(text, k, map) == {InText(t, k, map) : t \in text}

ResolvedEntry(k, entry, map) ==
  [entry EXCEPT !.entity = IF map[Key(k)] # None THEN map[Key(k)] ELSE @,
                !.text = InFormula(@, k, map),
                !.vars = {InVariable(t, k, map) : t \in @}]

Resolved(doc, map) ==
  [k \in Keys |-> IF doc[k] = None THEN None ELSE ResolvedEntry(k, doc[k], map)]

\* An import, once every sensor has its entity id.
Imported(doc, ids) ==
  Resolved([k \in Keys |-> IF doc[k] = None THEN None ELSE WithState(k, doc[k])],
           Enhanced(doc, ids))

MentionedIn(text, keys) == {j \in keys : Key(j) \in text}

\* The keys a document's formulas mention; its variables are not searched.
Detected(doc) ==
  [k \in Keys |-> IF doc[k] = None THEN {} ELSE MentionedIn(doc[k].text, Listed(doc))]
-----------------------------------------------------------------------------
(* What a document means *)

\* The sensors a name may stand for.
Claims(doc, t) ==
  {k \in Listed(doc) : t \in {Key(k), Own(k)} \/ t = doc[k].entity}

\* A name of the sensor itself, of another sensor, or of something else.
Meaning(doc, t, k) ==
  LET S == Claims(doc, t)
  IN  IF S = {} THEN t ELSE IF S = {k} THEN State ELSE Key(CHOOSE j \in S : TRUE)

\* Nothing in the document stands for two things: entity ids do not contain
\* other sensors' keys, and foreign ones are those of existing entities.
Clear(doc, foreign) ==
  /\ \A j, k \in Listed(doc) :
       j # k /\ doc[j].entity # None => doc[j].entity # doc[k].entity /\ doc[j].entity[2] # k
  /\ \A k \in Listed(doc) : \A t \in doc[k].text \cup doc[k].vars :
       Claims(doc, t) = {} =>
         /\ t[2] \notin Listed(doc) \cup SelfNames(k, doc[k])
         /\ t = State \/ t \in foreign \/ (t[1] = Bare /\ t[2] \notin Keys)
=============================================================================
