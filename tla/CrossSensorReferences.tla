----------------------- MODULE CrossSensorReferences -----------------------
(***************************************************************************)
(* References between sensors from the YAML to the running entities.  An   *)
(* import registers every sensor with Home Assistant's entity registry and *)
(* stores the document with the entity ids it was given.  Sensors created  *)
(* from a document (create_sensors) are added by Home Assistant one by one;*)
(* cross_sensor_reference_manager.py waits for all that refer or are       *)
(* referred to, then the formulas are rewritten, put into the running      *)
(* sensors and stored.  The user may rename entities at any time.          *)
(***************************************************************************)
EXTENDS References

CONSTANTS
  Docs,      \* the documents imported and created
  Foreign,   \* entity ids of other integrations
  PrefixOf,  \* pairs of names of which the first is a prefix of the second
  NewIds,    \* bound: what the user renames to
  MaxRounds, \* bound: calls of create_sensors
  MaxRenames \* bound: renamings by the user

VARIABLES
  registry,  \* Home Assistant's entity registry: Keys -> entity id or None
  stored,    \* the stored sensors
  managed,   \* _sensors_by_unique_id: configuration and round, or None
  waiting,   \* sensors handed to Home Assistant
  live,      \* sensors added by it
  pending, completed,
  entityOf,  \* _sensor_key_to_entity_id
  original,  \* _original_config, with its round
  resolved,  \* _resolved_config
  newest,    \* the last round, and whether it had references
  renames,
  meant,     \* what the stored references were meant to be
  clear      \* no step so far had references that could mean two things

manager == <<managed, waiting, live, pending, completed, entityOf, original, resolved, newest>>
ghosts == <<meant, clear>>
vars == <<registry, stored, manager, renames, ghosts>>

Running == [entry : Entries, round : Nat]
Taken(reg) == Foreign \cup {reg[k] : k \in Keys}

ASSUME CrossConstants ==
  /\ Docs \subseteq [Keys -> Entries \cup {None}]
  /\ Foreign \subseteq Domains \X Names
  /\ PrefixOf \subseteq Names \X Names /\ NewIds \subseteq Ids
  /\ MaxRounds \in Nat /\ MaxRenames \in Nat
  /\ None \notin Running

Suggested(k, entry) == IF entry.entity = None THEN Own(k) ELSE entry.entity

\* Home Assistant's entity registry keeps an entity id, else gives the one
\* suggested, else a variant of it that is free.
Given(reg, k, e) ==
  IF reg[k] # None THEN {reg[k]}
  ELSE IF e \notin Taken(reg) THEN {e}
  ELSE {<<Sensor, n>> : n \in Variants[e[2]]} \ Taken(reg)

\* The sensors of a document registered one after the other.
Registrations(doc) ==
  LET New == {k \in Listed(doc) : registry[k] = None}
      Before(ids, k) == [j \in Keys |->
                           IF j \in New /\ Rank[j] < Rank[k] THEN ids[j] ELSE registry[j]]
  IN  {[k \in Keys |-> IF k \in New THEN ids[k] ELSE registry[k]] :
         ids \in {ids \in [New -> Ids] :
                    \A k \in New : ids[k] \in Given(Before(ids, k), k, Suggested(k, doc[k]))}}

MeaningsOf(doc) ==
  [k \in Keys |->
     IF doc[k] = None THEN None
     ELSE [text |-> {Meaning(doc, t, k) : t \in doc[k].text},
           vars |-> {Meaning(doc, t, k) : t \in doc[k].vars}]]

Over(new, old, replace) ==
  [k \in Keys |-> IF new[k] # None THEN new[k] ELSE IF replace THEN None ELSE old[k]]

\* async_from_yaml into the sensor set.
Import(doc, replace) ==
  /\ \E reg \in Registrations(doc) :
       /\ registry' = reg
       /\ stored' = Over(Imported(doc, reg), stored, replace)
  /\ meant' = Over(MeaningsOf(doc), meant, replace)
  /\ clear' = (clear /\ Clear(doc, Foreign))
  /\ UNCHANGED <<manager, renames>>

\* No stored reference to something else looks like a sensor of the set.
Unmistaken ==
  \A k \in Listed(stored) : \A t \in stored[k].text \cup stored[k].vars :
    \A j \in Claims(stored, t) : registry[j] = t

\* The YAML export of the set is imported again: it means what it meant.
Reimport ==
  /\ Listed(stored) # {}
  /\ \E reg \in Registrations(stored) :
       /\ registry' = reg
       /\ stored' = Imported(stored, reg)
  /\ clear' = (clear /\ Unmistaken /\ Clear(stored, Taken(registry)))
  /\ UNCHANGED <<manager, renames, meant>>
-----------------------------------------------------------------------------
(* Waiting for the entity ids *)

\* Mistake: only the sensors that refer to others are waited for.
Needed_Referring(doc) == {k \in Keys : Detected(doc)[k] # {}}

Needed(doc) == {k \in Keys : Detected(doc)[k] # {}} \cup UNION {Detected(doc)[k] : k \in Keys}

Round == newest.round + 1

\* create_sensors; a document without references leaves the previous one in
\* the manager.
Create(doc) ==
  /\ newest.round < MaxRounds   \* the bound
  /\ newest' = [round |-> Round, refers |-> Needed(doc) # {}]
  /\ IF Needed(doc) = {} THEN UNCHANGED <<pending, original>>
     ELSE pending' = Needed(doc) /\ original' = [doc |-> doc, round |-> Round]
  /\ managed' = [k \in Keys |-> IF k \in Enabled(doc) THEN [entry |-> doc[k], round |-> Round]
                                ELSE managed[k]]
  /\ waiting' = waiting \cup Enabled(doc)
  /\ UNCHANGED <<registry, stored, live, completed, entityOf, resolved, renames, ghosts>>

\* Mistake: the last registration is noticed by the next one.
AllDone_Late(k) == pending = {} /\ original # None

AllDone(k) == k \in pending /\ pending \ {k} = {}

\* The storage is updated in the document's order up to the first sensor that
\* is not stored, whose update raises.
Persisted(doc) ==
  {k \in Listed(doc) : \A j \in Listed(doc) : Rank[j] <= Rank[k] => stored[j] # None}

\* The references of the document are bare keys of sensors that have the entity
\* id in the registry, and nothing else in it ends in the key of a sensor, of
\* another document either.
Plain(doc, ids) ==
  /\ Clear(doc, Foreign)
  /\ \A k \in Persisted(doc) :
       /\ ids[k] = registry'[k]
       /\ \A t \in doc[k].text \cup doc[k].vars :
            /\ \A j \in Claims(doc, t) \ {k} : t = Key(j) /\ ids[j] = registry'[j] /\ ids[j] # None
            /\ k \in Claims(doc, t) => t \in {Key(k), Own(k)}
            /\ t[2] \in Keys => Claims(doc, t) # {}

\* The rewriting, and then _on_phase_3_complete, as often as it was asked for.
PhaseThree(ids) ==
  LET doc == original.doc
      result == Resolved(doc, KeysOnly(ids))
  IN  /\ resolved' = result
      /\ managed' = [k \in Keys |->
                       IF managed[k] # None /\ result[k] # None
                       THEN [entry |-> result[k], round |-> original.round] ELSE managed[k]]
      /\ stored' = [k \in Keys |-> IF k \in Persisted(doc) THEN result[k] ELSE stored[k]]
      /\ meant' = [k \in Keys |-> IF k \in Persisted(doc) THEN MeaningsOf(doc)[k] ELSE meant[k]]
      /\ clear' = (clear /\ (Persisted(doc) # {} => Plain(doc, ids)))

\* Home Assistant adds a sensor, which registers its entity id
\* (async_added_to_hass).
HassAdds(k) ==
  /\ k \in waiting \ live
  /\ \E e \in Given(registry, k, Suggested(k, managed[k].entry)) :
       /\ registry' = [registry EXCEPT ![k] = e]
       /\ entityOf' = [entityOf EXCEPT ![k] = e]
  /\ waiting' = waiting \ {k} /\ live' = live \cup {k}
  /\ pending' = pending \ {k}
  /\ completed' = completed \cup ({k} \cap pending)
  /\ IF AllDone(k) THEN PhaseThree(entityOf') ELSE UNCHANGED <<managed, resolved, stored, ghosts>>
  /\ UNCHANGED <<original, newest, renames>>

\* A second sensor with the unique id is not added and registers nothing.
HassRejects(k) ==
  /\ k \in waiting \cap live
  /\ waiting' = waiting \ {k}
  /\ UNCHANGED <<registry, stored, managed, live, pending, completed, entityOf, original,
                 resolved, newest, renames, ghosts>>

\* The integration is set up again, with a new sensor manager.
Restart ==
  /\ live # {}
  /\ managed' = [k \in Keys |-> None] /\ waiting' = {} /\ live' = {}
  /\ pending' = {} /\ completed' = {} /\ entityOf' = [k \in Keys |-> None]
  /\ original' = None /\ resolved' = None
  /\ newest' = [newest EXCEPT !.refers = FALSE]
  /\ UNCHANGED <<registry, stored, renames, ghosts>>
-----------------------------------------------------------------------------
(* Renaming *)

Garbled == <<Sensor, StateName>>

\* The listener's text replacement reaches into longer entity ids.
RenamedInText(t, old, new) ==
  IF t = old THEN new
  ELSE IF t[1] = Sensor /\ <<old[2], t[2]>> \in PrefixOf THEN Garbled ELSE t

Renamed(x, old, new) ==
  LET Swap(e) == IF e = old THEN new ELSE e
  IN  IF x = None THEN None
      ELSE [x EXCEPT !.entity = Swap(@), !.text = {RenamedInText(t, old, new) : t \in @},
                     !.vars = {Swap(t) : t \in @}]

\* The user renames an entity: the registry listener rewrites the storage, and
\* Home Assistant removes a live sensor and adds it again under its new id.
Rename(k, new) ==
  /\ renames < MaxRenames   \* the bound
  /\ registry[k] # None /\ new \notin Taken(registry)
  /\ renames' = renames + 1
  /\ registry' = [registry EXCEPT ![k] = new]
  /\ stored' = [j \in Keys |-> Renamed(stored[j], registry[k], new)]
  /\ waiting' = waiting \cup ({k} \cap live) /\ live' = live \ {k}
  /\ clear' = (clear /\ \A j \in Listed(stored'): Garbled \notin stored'[j].text)
  /\ UNCHANGED <<managed, pending, completed, entityOf, original, resolved, newest, meant>>

Init ==
  /\ registry = [k \in Keys |-> None] /\ stored = [k \in Keys |-> None]
  /\ managed = [k \in Keys |-> None] /\ waiting = {} /\ live = {}
  /\ pending = {} /\ completed = {} /\ entityOf = [k \in Keys |-> None]
  /\ original = None /\ resolved = None /\ newest = [round |-> 0, refers |-> FALSE]
  /\ renames = 0
  /\ meant = [k \in Keys |-> None] /\ clear = TRUE

Next ==
  \/ \E doc \in Docs : Create(doc) \/ \E replace \in BOOLEAN : Import(doc, replace)
  \/ Reimport \/ Restart
  \/ \E k \in Keys : HassAdds(k) \/ HassRejects(k) \/ \E new \in NewIds : Rename(k, new)

Spec == Init /\ [][Next]_vars

\* Home Assistant adds the entities it is handed.
FairSpec == Spec /\ \A k \in Keys : WF_vars(HassAdds(k))
-----------------------------------------------------------------------------
(* Properties *)

\* The type of every variable.
TypeOK ==
  /\ registry \in [Keys -> Ids \cup {None}]
  /\ stored \in [Keys -> Entries \cup {None}]
  /\ managed \in [Keys -> Running \cup {None}]
  /\ waiting \subseteq Keys /\ live \subseteq Keys
  /\ pending \subseteq Keys /\ completed \subseteq Keys
  /\ entityOf \in [Keys -> Ids \cup {None}]
  /\ newest \in [round : 0..MaxRounds, refers : BOOLEAN] /\ renames \in 0..MaxRenames
  /\ meant \in [Keys -> Meanings \cup {None}] /\ clear \in BOOLEAN

\* The entity id of what was meant.
Denoted(m) == IF m[1] = Bare /\ m[2] \in Keys THEN registry[m[2]] ELSE m

\* Through imports over what is stored or instead of it, imports of the export,
\* completions and renamings, every stored reference is the entity id that the
\* sensor it was meant for has now, and a self-reference is the state token,
\* unless a document or an entity id could mean two things on the way
\* (cross_sensor_reference_reassignment.py).
ReferencesKept ==
  clear =>
    \A k \in Listed(stored) :
      /\ stored[k].entity = registry[k]
      /\ stored[k].text = {Denoted(m) : m \in meant[k].text}
      /\ stored[k].vars = {Denoted(m) : m \in meant[k].vars}

Completion(k) == k \in pending /\ HassAdds(k) /\ pending' = {}

\* When the last entity id arrives, every running sensor of the document has
\* its formulas rewritten, with the ids its references have now if they are not
\* being renamed; and unless a later document without references was created,
\* no sensor is put back to an older configuration (_on_phase_3_complete).
CompletionResolves ==
  [][\A last \in Keys : Completion(last) =>
       \A k \in Listed(original.doc) : managed[k] # None =>
         /\ newest.refers => managed'[k].round >= managed[k].round
         /\ managed'[k].entry.text \cap {Key(j) : j \in Listed(original.doc)} = {}
         /\ \A j \in Detected(original.doc)[k] \ {k} :
              j \in live' => registry'[j] \in managed'[k].entry.text]_vars

\* A round whose sensors can all be added completes, or gives way to the next
\* one, is set up anew, or is renamed meanwhile (register_sensor_entity_id).
Completes ==
  \A r \in 1..MaxRounds :
    (newest.round = r /\ pending # {} /\ pending \subseteq waiting \ live)
      ~> (pending = {} /\ resolved # None) \/ newest.round # r \/ ~newest.refers
=============================================================================
