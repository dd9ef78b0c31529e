-------------------- MODULE CrossSensorReferences_proofs --------------------
(***************************************************************************)
(* For any sensors, documents, entity ids and renamings, in any number of  *)
(* rounds: the completion of the registrations leaves every running sensor *)
(* of the document with the entity ids of what it refers to (IInv), and    *)
(* stored references stay with the sensors they were meant for (Stays).    *)
(***************************************************************************)
EXTENDS CrossSensorReferences, FiniteSetTheorems, WellFoundedInduction, TLAPS

\* The types of all but the storage and what it was meant to be.
RunningTypes ==
  /\ registry \in [Keys -> Ids \cup {None}]
  /\ managed \in [Keys -> Running \cup {None}]
  /\ waiting \subseteq Keys /\ live \subseteq Keys /\ pending \subseteq Keys
  /\ entityOf \in [Keys -> Ids \cup {None}]
  /\ newest.round \in Nat

\* Home Assistant is handed sensors of the manager only.
HandedAreManaged == \A k \in waiting \cup live : managed[k] # None

\* What a live sensor has registered is the entity id it has now.
LiveAreKnown == \A k \in live : entityOf[k] = registry[k] /\ registry[k] # None

\* No sensor is ahead of the last round.
RoundsInOrder == \A k \in Keys : managed[k] # None => managed[k].round <= newest.round

\* A round that is waited for has the entity id of every sensor it needs but for
\* those that are pending.
PendingIsSound ==
  pending # {} =>
    /\ original.doc \in Docs
    /\ original.round \in Nat /\ original.round <= newest.round
    /\ \A j \in Needed(original.doc) : j \in pending \/ entityOf[j] # None

\* The round whose references are resolved is the last one.
LastHasReferences == newest.refers => original.round = newest.round

IInv ==
  /\ RunningTypes /\ HandedAreManaged /\ LiveAreKnown
  /\ RoundsInOrder /\ PendingIsSound /\ LastHasReferences
-----------------------------------------------------------------------------
(* Rewriting *)

LEMMA IdsAreTokens == /\ Ids \subseteq Tokens /\ None \notin Ids /\ State \in Tokens
                      /\ \A e \in Ids : e[1] # Bare /\ e[2] \in Names
  BY ReferencesConstants DEF Ids, Tokens, State

LEMMA KeysOnlyType ==
  ASSUME NEW ids \in [Keys -> Ids \cup {None}]
  PROVE  /\ KeysOnly(ids) \in Mappings
         /\ \A k \in Keys : Key(k) \in Tokens /\ KeysOnly(ids)[Key(k)] = ids[k]
  BY ReferencesConstants DEF KeysOnly, Mappings, Key, Tokens

\* A name of a formula becomes a name.
LEMMA InTextType ==
  ASSUME NEW map \in Mappings, NEW t \in Tokens, NEW k \in Keys
  PROVE  InText(t, k, map) \in Tokens
  <1>1. <<Bare, t[2]>> \in Tokens
    BY DEF Tokens
  <1> QED BY <1>1, IdsAreTokens DEF InText, Mappings

LEMMA ResolvedEntryType ==
  ASSUME NEW map \in Mappings, NEW k \in Keys, NEW entry \in Entries
  PROVE  /\ ResolvedEntry(k, entry, map) \in Entries
         /\ ResolvedEntry(k, entry, map).text = InFormula(entry.text, k, map)
  <1>1. InFormula(entry.text, k, map) \subseteq Tokens
    BY InTextType DEF InFormula, Entries
  <1>2. Key(k) \in Tokens
    BY ReferencesConstants DEF Key, Tokens
  <1>3. \A t \in entry.vars : InVariable(t, k, map) \in Tokens
    BY <1>2, IdsAreTokens DEF InVariable, Mappings, Entries
  <1>4. {InVariable(t, k, map) : t \in entry.vars} \subseteq Tokens
    BY <1>3
  <1>5. map[Key(k)] \in Ids \cup {None}
    BY <1>2 DEF Mappings
  <1> QED BY <1>1, <1>4, <1>5 DEF ResolvedEntry, Entries

\* A formula whose keys have entity ids names none of them by its key afterwards
\* and has the entity ids of those other than the sensor's own.
LEMMA InFormulaResolves ==
  ASSUME NEW ids \in [Keys -> Ids \cup {None}], NEW k \in Keys, NEW text \in SUBSET Tokens,
         NEW L \in SUBSET Keys, \A j \in MentionedIn(text, L) : ids[j] # None
  PROVE  /\ InFormula(text, k, KeysOnly(ids)) \cap {Key(j) : j \in L} = {}
         /\ \A j \in MentionedIn(text, L) \ {k} : ids[j] \in InFormula(text, k, KeysOnly(ids))
  <1> DEFINE map == KeysOnly(ids)
  <1>1. map \in Mappings /\ \A j \in Keys : Key(j) \in Tokens /\ map[Key(j)] = ids[j]
    BY KeysOnlyType
  <1> HIDE DEF map
  <1>2. ASSUME NEW t \in text, NEW j \in L, InText(t, k, map) = Key(j)
        PROVE  FALSE
    <2>1. <<Bare, t[2]>> \in Tokens
      BY DEF Tokens
    <2>2. \A e \in Ids : e # Key(j)
      BY IdsAreTokens DEF Key
    <2>3. State # Key(j)
      BY ReferencesConstants DEF State, Key
    <2>4. t = Key(j) /\ map[<<Bare, t[2]>>] = None
      BY <1>1, <1>2, <2>1, <2>2, <2>3 DEF InText, Mappings
    <2>5. map[Key(j)] = None
      BY <2>4 DEF Key
    <2>6. j \in MentionedIn(text, L)
      BY <2>4 DEF MentionedIn
    <2> QED BY <1>1, <2>5, <2>6
  <1>3. ASSUME NEW j \in MentionedIn(text, L) \ {k}
        PROVE  ids[j] \in InFormula(text, k, map)
    <2>1. Key(j) \in text /\ j \in Keys /\ j # k /\ ids[j] # None
      BY DEF MentionedIn
    <2>2. InText(Key(j), k, map) = ids[j]
      BY <1>1, <2>1 DEF InText, Key
    <2> QED BY <2>1, <2>2 DEF InFormula
  <1>4. InFormula(text, k, map) \cap {Key(j) : j \in L} = {}
    BY <1>2 DEF InFormula
  <1> QED BY <1>3, <1>4 DEF map

\* The entity id Home Assistant gives a sensor.
LEMMA GivenType ==
  ASSUME NEW reg \in [Keys -> Ids \cup {None}], NEW k \in Keys, NEW e \in Ids,
         NEW g \in Given(reg, k, e)
  PROVE  g \in Ids /\ (reg[k] # None => g = reg[k])
  <1>1. \A n \in Variants[e[2]] : <<Sensor, n>> \in Ids
    BY ReferencesConstants, IdsAreTokens DEF Ids
  <1> QED BY <1>1 DEF Given

LEMMA SuggestedType ==
  ASSUME NEW k \in Keys, NEW entry \in Entries
  PROVE  Suggested(k, entry) \in Ids
  BY ReferencesConstants DEF Suggested, Own, Ids, Entries
-----------------------------------------------------------------------------
(* The last registration *)

\* Every sensor the round needs has an entity id when nothing is pending.
LEMMA CompletionHasIds ==
  ASSUME IInv, NEW k \in Keys, HassAdds(k), AllDone(k)
  PROVE  /\ entityOf' \in [Keys -> Ids \cup {None}] /\ registry' \in [Keys -> Ids \cup {None}]
         /\ original.doc \in Docs
         /\ \A j \in Needed(original.doc) : entityOf'[j] # None
         /\ \A j \in live' : entityOf'[j] = registry'[j] /\ registry'[j] # None
  <1> USE DEF IInv
  <1>1. managed[k].entry \in Entries
    BY DEF HassAdds, HandedAreManaged, RunningTypes, Running
  <1>2. PICK e \in Given(registry, k, Suggested(k, managed[k].entry)) :
          registry' = [registry EXCEPT ![k] = e] /\ entityOf' = [entityOf EXCEPT ![k] = e]
    BY DEF HassAdds
  <1>3. e \in Ids /\ e # None
    BY <1>1, GivenType, SuggestedType, IdsAreTokens DEF RunningTypes
  <1>4. pending # {} /\ \A j \in pending : j = k
    BY DEF AllDone
  <1>5. Needed(original.doc) \subseteq Keys
    BY DEF Needed, Detected, MentionedIn, Listed
  <1>6. live' = live \cup {k}
    BY DEF HassAdds
  <1> QED BY <1>2, <1>3, <1>4, <1>5, <1>6 DEF RunningTypes, PendingIsSound, LiveAreKnown

\* What the last registration makes of the running sensors.
LEMMA CompletionRewrites ==
  ASSUME IInv, NEW k \in Keys, HassAdds(k), AllDone(k)
  PROVE  /\ managed' \in [Keys -> Running \cup {None}]
         /\ \A j \in Keys : managed[j] # None =>
              managed'[j] # None /\ managed'[j].round \in {managed[j].round, original.round}
         /\ \A j \in Keys : managed[j] = None => managed'[j] = None
         /\ \A j \in Listed(original.doc) : managed[j] # None =>
              /\ managed'[j].round = original.round
              /\ managed'[j].entry.text = InFormula(original.doc[j].text, j, KeysOnly(entityOf'))
  <1>1. PICK ids \in [Keys -> Ids \cup {None}] : ids = entityOf'
    BY CompletionHasIds
  <1>2. PICK doc \in Docs : doc = original.doc
    BY CompletionHasIds
  <1>3. original.round \in Nat /\ managed \in [Keys -> Running \cup {None}]
    BY DEF IInv, AllDone, PendingIsSound, RunningTypes
  <1> DEFINE result == Resolved(doc, KeysOnly(ids))
  <1>4. managed' = [j \in Keys |->
                      IF managed[j] # None /\ result[j] # None
                      THEN [entry |-> result[j], round |-> original.round] ELSE managed[j]]
    BY <1>1, <1>2 DEF HassAdds, PhaseThree
  <1>5. \A j \in Listed(doc) : /\ result[j] \in Entries /\ result[j] # None
                               /\ result[j].text = InFormula(doc[j].text, j, KeysOnly(ids))
    <2>1. TAKE j \in Listed(doc)
    <2>2. j \in Keys /\ doc[j] \in Entries
      BY CrossConstants DEF Listed
    <2>3. result[j] = ResolvedEntry(j, doc[j], KeysOnly(ids))
      BY <2>2 DEF Resolved, Listed
    <2>4. KeysOnly(ids) \in Mappings
      BY KeysOnlyType
    <2> QED BY <2>2, <2>3, <2>4, ResolvedEntryType, ReferencesConstants
  <1>6. \A j \in Keys \ Listed(doc) : result[j] = None
    BY DEF Resolved, Listed
  <1> HIDE DEF result
  <1>7. \A j \in Listed(doc) : [entry |-> result[j], round |-> original.round] \in Running
    BY <1>3, <1>5 DEF Running
  <1>8. None \notin Running
    BY CrossConstants
  <1>9. Listed(doc) \subseteq Keys
    BY DEF Listed
  <1>10. managed' \in [Keys -> Running \cup {None}]
    BY <1>3, <1>4, <1>6, <1>7
  <1>11. \A j \in Keys : managed[j] # None =>
           managed'[j] # None /\ managed'[j].round \in {managed[j].round, original.round}
    <2>1. TAKE j \in Keys
    <2>2. CASE j \in Listed(doc) /\ managed[j] # None
      BY <1>4, <1>5, <1>7, <1>8, <2>2
    <2>3. CASE j \notin Listed(doc) \/ managed[j] = None
      BY <1>4, <1>6, <2>3
    <2> QED BY <2>2, <2>3
  <1>12. \A j \in Listed(doc) : managed[j] # None =>
           /\ managed'[j].round = original.round
           /\ managed'[j].entry.text = InFormula(doc[j].text, j, KeysOnly(ids))
    BY <1>4, <1>5, <1>9
  <1> QED BY <1>1, <1>2, <1>4, <1>10, <1>11, <1>12

\* The completion as CompletionResolves states it.
LEMMA CompletionStep ==
  ASSUME IInv, NEW last \in Keys, Completion(last),
         NEW k \in Listed(original.doc), managed[k] # None
  PROVE  /\ newest.refers => managed'[k].round >= managed[k].round
         /\ managed'[k].entry.text \cap {Key(j) : j \in Listed(original.doc)} = {}
         /\ \A j \in Detected(original.doc)[k] \ {k} :
              j \in live' => registry'[j] \in managed'[k].entry.text
  <1>1. HassAdds(last) /\ AllDone(last)
    BY DEF Completion, HassAdds, AllDone
  <1>2. PICK ids \in [Keys -> Ids \cup {None}] : ids = entityOf'
    BY <1>1, CompletionHasIds
  <1>3. PICK doc \in Docs : doc = original.doc
    BY <1>1, CompletionHasIds
  <1>4. k \in Keys /\ k \in Listed(doc) /\ doc[k] \in Entries /\ Listed(doc) \subseteq Keys
    BY <1>3, CrossConstants DEF Listed
  <1>5. /\ managed'[k].round = original.round
        /\ managed'[k].entry.text = InFormula(doc[k].text, k, KeysOnly(ids))
    BY <1>1, <1>2, <1>3, <1>4, CompletionRewrites
  <1>6. doc[k].text \in SUBSET Tokens
    BY <1>4 DEF Entries
  <1>7. Detected(doc)[k] = MentionedIn(doc[k].text, Listed(doc))
    BY <1>4 DEF Detected, Listed
  <1>8. \A j \in Detected(doc)[k] : j \in Keys /\ ids[j] # None
    <2>1. \A j \in Detected(doc)[k] : j \in Needed(doc) /\ j \in Keys
      BY <1>4, <1>7 DEF Needed, MentionedIn
    <2> QED BY <1>1, <1>2, <1>3, <2>1, CompletionHasIds
  <1>9. /\ InFormula(doc[k].text, k, KeysOnly(ids)) \cap {Key(j) : j \in Listed(doc)} = {}
        /\ \A j \in Detected(doc)[k] \ {k} : ids[j] \in InFormula(doc[k].text, k, KeysOnly(ids))
    BY <1>4, <1>6, <1>7, <1>8, InFormulaResolves
  <1>10. newest.refers => managed'[k].round >= managed[k].round
    <2>1. managed[k].round \in Nat /\ managed[k].round <= newest.round /\ newest.round \in Nat
      BY <1>4 DEF IInv, RunningTypes, Running, RoundsInOrder
    <2> QED BY <1>5, <2>1 DEF IInv, LastHasReferences
  <1>11. \A j \in live' : ids[j] = registry'[j]
    BY <1>1, <1>2, CompletionHasIds
  <1> QED BY <1>3, <1>5, <1>9, <1>10, <1>11
-----------------------------------------------------------------------------
(* Steps *)

LEMMA InitHolds == Init => IInv
  BY DEF Init, IInv, RunningTypes, HandedAreManaged, LiveAreKnown, RoundsInOrder,
         PendingIsSound, LastHasReferences

\* An import registers new sensors and keeps the entity ids there are.
LEMMA RegistrationsKeep ==
  ASSUME registry \in [Keys -> Ids \cup {None}], NEW doc, NEW reg \in Registrations(doc)
  PROVE  /\ reg \in [Keys -> Ids \cup {None}]
         /\ \A k \in Keys : registry[k] # None => reg[k] = registry[k]
  <1> DEFINE New == {k \in Listed(doc) : registry[k] = None}
  <1>1. PICK ids \in [New -> Ids] : reg = [k \in Keys |-> IF k \in New THEN ids[k] ELSE registry[k]]
    BY DEF Registrations
  <1> QED BY <1>1

LEMMA RegistryStep ==
  ASSUME IInv, UNCHANGED manager, registry' \in [Keys -> Ids \cup {None}],
         \A k \in Keys : registry[k] # None => registry'[k] = registry[k]
  PROVE  IInv'
  BY DEF IInv, RunningTypes, HandedAreManaged, LiveAreKnown, RoundsInOrder,
         PendingIsSound, LastHasReferences, manager

LEMMA ImportStep ==
  ASSUME IInv, NEW doc, NEW replace, Import(doc, replace)
  PROVE  IInv'
  <1>1. PICK reg \in Registrations(doc) : registry' = reg
    BY DEF Import
  <1>2. UNCHANGED manager
    BY DEF Import
  <1> QED BY <1>1, <1>2, RegistrationsKeep, RegistryStep DEF IInv, RunningTypes

LEMMA ReimportStep ==
  ASSUME IInv, Reimport
  PROVE  IInv'
  <1>1. PICK doc : doc = stored
    OBVIOUS
  <1>2. PICK reg \in Registrations(doc) : registry' = reg
    BY <1>1 DEF Reimport
  <1>3. UNCHANGED manager
    BY DEF Reimport
  <1> QED BY <1>2, <1>3, RegistrationsKeep, RegistryStep DEF IInv, RunningTypes

\* A document with references is waited for; one without leaves what is pending.
LEMMA CreateStep ==
  ASSUME IInv, NEW doc \in Docs, Create(doc)
  PROVE  IInv'
  <1> USE DEF IInv
  <1>1. /\ newest' = [round |-> Round, refers |-> Needed(doc) # {}]
        /\ managed' = [k \in Keys |-> IF k \in Enabled(doc) THEN [entry |-> doc[k], round |-> Round]
                                      ELSE managed[k]]
        /\ waiting' = waiting \cup Enabled(doc)
        /\ registry' = registry /\ live' = live /\ entityOf' = entityOf
    BY DEF Create
  <1>2. Round \in Nat /\ Round > newest.round /\ newest'.round = Round
    BY <1>1 DEF Round, RunningTypes
  <1>3. \A k \in Enabled(doc) : k \in Keys /\ [entry |-> doc[k], round |-> Round] \in Running
    BY <1>2, CrossConstants DEF Enabled, Listed, Running
  <1>4. Needed(doc) \subseteq Keys
    BY DEF Needed, Detected, MentionedIn, Listed
  <1>5. pending' \subseteq Keys
    BY <1>4 DEF Create, RunningTypes
  <1>6. RunningTypes'
    BY <1>1, <1>2, <1>3, <1>5 DEF RunningTypes
  <1>7. /\ \A k \in Enabled(doc) : managed'[k] # None /\ managed'[k].round = Round
        /\ \A k \in Keys \ Enabled(doc) : managed'[k] = managed[k]
    BY <1>1, <1>3, CrossConstants
  <1>8. HandedAreManaged' /\ LiveAreKnown'
    <2>1. \A k \in waiting' \cup live' : k \in Keys /\ (k \notin Enabled(doc) => managed[k] # None)
      BY <1>1, <1>3 DEF HandedAreManaged, RunningTypes
    <2>2. HandedAreManaged'
      BY <1>7, <2>1 DEF HandedAreManaged
    <2> QED BY <1>1, <2>2 DEF LiveAreKnown
  <1>9. RoundsInOrder'
    <2>1. ASSUME NEW k \in Keys, managed'[k] # None
          PROVE  managed'[k].round <= Round
      <3>1. CASE k \in Enabled(doc)
        BY <1>2, <1>7, <3>1
      <3>2. CASE k \notin Enabled(doc)
        <4>1. managed'[k] = managed[k]
          BY <1>7, <3>2
        <4>2. managed[k].round \in Nat /\ managed[k].round <= newest.round
          BY <2>1, <4>1 DEF RunningTypes, Running, RoundsInOrder
        <4> QED BY <1>2, <4>1, <4>2 DEF RunningTypes
      <3> QED BY <3>1, <3>2
    <2> QED BY <1>2, <2>1 DEF RoundsInOrder
  <1>10. CASE Needed(doc) = {}
    <2>1. pending' = pending /\ original' = original /\ newest'.refers = FALSE
      <3>1. (Needed(doc) # {}) = FALSE
        BY <1>10
      <3>2. newest' = [round |-> Round, refers |-> FALSE]
        BY <1>1, <3>1
      <3> QED BY <1>10, <3>2 DEF Create
    <2>2. PendingIsSound'
      BY <1>1, <1>2, <2>1 DEF PendingIsSound, RunningTypes
    <2> QED BY <1>6, <1>8, <1>9, <2>1, <2>2 DEF LastHasReferences
  <1>11. CASE Needed(doc) # {}
    <2>1. pending' = Needed(doc) /\ original' = [doc |-> doc, round |-> Round]
      BY <1>11 DEF Create
    <2>2. original'.doc = doc /\ original'.round = Round
      BY <2>1
    <2>3. PendingIsSound' /\ LastHasReferences'
      BY <1>2, <2>1, <2>2 DEF PendingIsSound, LastHasReferences
    <2> QED BY <1>6, <1>8, <1>9, <2>3
  <1> QED BY <1>10, <1>11

LEMMA HassAddsStep ==
  ASSUME IInv, NEW k \in Keys, HassAdds(k)
  PROVE  IInv'
  <1> USE DEF IInv
  <1>1. /\ waiting' = waiting \ {k} /\ live' = live \cup {k} /\ pending' = pending \ {k}
        /\ original' = original /\ newest' = newest /\ k \in waiting
    BY DEF HassAdds
  <1>2. PICK e \in Given(registry, k, Suggested(k, managed[k].entry)) :
          registry' = [registry EXCEPT ![k] = e] /\ entityOf' = [entityOf EXCEPT ![k] = e]
    BY DEF HassAdds
  <1>3. e \in Ids /\ e # None
    <2>1. managed[k].entry \in Entries
      BY DEF HassAdds, HandedAreManaged, RunningTypes, Running
    <2> QED BY <2>1, GivenType, SuggestedType, IdsAreTokens DEF RunningTypes
  <1>4. LiveAreKnown'
    BY <1>1, <1>2, <1>3 DEF LiveAreKnown, RunningTypes
  <1>5. LastHasReferences'
    BY <1>1 DEF LastHasReferences
  <1>6. PendingIsSound'
    <2>1. \A j \in Keys : j = k \/ entityOf[j] # None => entityOf'[j] # None
      BY <1>2, <1>3 DEF RunningTypes
    <2>2. Needed(original.doc) \subseteq Keys
      BY DEF Needed, Detected, MentionedIn, Listed
    <2>3. pending' # {} => pending # {}
      BY <1>1
    <2> QED BY <1>1, <2>1, <2>2, <2>3 DEF PendingIsSound
  <1>7. CASE ~AllDone(k)
    <2>1. managed' = managed
      BY <1>7 DEF HassAdds
    <2>2. RunningTypes' /\ HandedAreManaged' /\ RoundsInOrder'
      BY <1>1, <1>2, <1>3, <2>1 DEF RunningTypes, HandedAreManaged, RoundsInOrder
    <2> QED BY <1>4, <1>5, <1>6, <2>2
  <1>8. CASE AllDone(k)
    <2>1. managed' \in [Keys -> Running \cup {None}]
      BY <1>8, CompletionRewrites
    <2>2. \A j \in Keys : managed[j] # None =>
            managed'[j] # None /\ managed'[j].round \in {managed[j].round, original.round}
      BY <1>8, CompletionRewrites
    <2>3. \A j \in Keys : managed[j] = None => managed'[j] = None
      BY <1>8, CompletionRewrites
    <2>4. original.round <= newest.round
      BY <1>8 DEF AllDone, PendingIsSound
    <2>5. RunningTypes' /\ HandedAreManaged'
      BY <1>1, <1>2, <1>3, <2>1, <2>2 DEF RunningTypes, HandedAreManaged
    <2>6. RoundsInOrder'
      BY <1>1, <2>2, <2>3, <2>4 DEF RoundsInOrder
    <2> QED BY <1>4, <1>5, <1>6, <2>5, <2>6
  <1> QED BY <1>7, <1>8

LEMMA HassRejectsStep ==
  ASSUME IInv, NEW k \in Keys, HassRejects(k)
  PROVE  IInv'
  BY DEF HassRejects, IInv, RunningTypes, HandedAreManaged, LiveAreKnown, RoundsInOrder,
         PendingIsSound, LastHasReferences

LEMMA RestartStep ==
  ASSUME IInv, Restart
  PROVE  IInv'
  <1>1. /\ managed' = [k \in Keys |-> None] /\ waiting' = {} /\ live' = {} /\ pending' = {}
        /\ entityOf' = [k \in Keys |-> None] /\ registry' = registry
        /\ newest' = [newest EXCEPT !.refers = FALSE]
    BY DEF Restart
  <1>2. newest'.round = newest.round /\ newest'.refers # TRUE
    BY <1>1
  <1> QED BY <1>1, <1>2 DEF IInv, RunningTypes, HandedAreManaged, LiveAreKnown, RoundsInOrder,
                          PendingIsSound, LastHasReferences

\* A live sensor whose entity is renamed is not live until it is added again.
LEMMA RenameStep ==
  ASSUME IInv, NEW k \in Keys, NEW new \in NewIds, Rename(k, new)
  PROVE  IInv'
  <1>1. new \in Ids
    BY CrossConstants
  <1>2. /\ registry' = [registry EXCEPT ![k] = new]
        /\ waiting' = waiting \cup ({k} \cap live) /\ live' = live \ {k}
        /\ UNCHANGED <<managed, pending, entityOf, original, newest>>
    BY DEF Rename
  <1>3. RunningTypes' /\ LiveAreKnown' /\ HandedAreManaged'
    BY <1>1, <1>2 DEF IInv, RunningTypes, LiveAreKnown, HandedAreManaged
  <1> QED BY <1>2, <1>3 DEF IInv, RoundsInOrder, PendingIsSound, LastHasReferences

LEMMA StutteringStep ==
  ASSUME IInv, UNCHANGED vars
  PROVE  IInv'
  <1>1. UNCHANGED <<registry, manager>>
    BY DEF vars
  <1> QED BY <1>1, RegistryStep DEF IInv, RunningTypes

\* The inductive invariant of the rounds.
LEMMA Inductive == IInv /\ [Next]_vars => IInv'
  <1> SUFFICES ASSUME IInv, [Next]_vars PROVE IInv'
    OBVIOUS
  <1>1. CASE \E doc \in Docs : Create(doc)
    BY <1>1, CreateStep
  <1>2. CASE \E doc \in Docs, replace \in BOOLEAN : Import(doc, replace)
    BY <1>2, ImportStep
  <1>3. CASE Reimport
    BY <1>3, ReimportStep
  <1>4. CASE Restart
    BY <1>4, RestartStep
  <1>5. CASE \E k \in Keys : HassAdds(k)
    BY <1>5, HassAddsStep
  <1>6. CASE \E k \in Keys : HassRejects(k)
    BY <1>6, HassRejectsStep
  <1>7. CASE \E k \in Keys, new \in NewIds : Rename(k, new)
    BY <1>7, RenameStep
  <1>8. CASE UNCHANGED vars
    BY <1>8, StutteringStep
  <1> QED BY <1>1, <1>2, <1>3, <1>4, <1>5, <1>6, <1>7, <1>8 DEF Next
-----------------------------------------------------------------------------
(* The last of some sensors *)

LEMMA Least ==
  ASSUME NEW T \in SUBSET Nat, T # {}
  PROVE  \E n \in T : \A m \in T : n <= m
  <1> DEFINE R == OpToRel(<, Nat)
  <1>1. \A O, S : IsWellFoundedOn(O, S) =>
          \A U : U \subseteq S /\ U # {} => \E x \in U : \A y \in U : ~(<<y, x>> \in O)
    BY WFMin
  <1>2. IsWellFoundedOn(R, Nat)
    BY NatLessThanWellFounded
  <1> HIDE DEF R
  <1>3. PICK n \in T : \A m \in T : ~(<<m, n>> \in R)
    BY <1>1, <1>2
  <1>4. \A m \in T : ~(m < n)
    BY <1>3 DEF R, OpToRel
  <1> QED BY <1>4

\* A document is finite, so among any of its sensors one comes last.
LEMMA LastOfProps ==
  ASSUME NEW S \in SUBSET Keys, S # {}
  PROVE  LastOf(S) \in S
  <1> DEFINE Above(k) == {j \in S : Rank[j] > Rank[k]}
             T == {Cardinality(Above(k)) : k \in S}
  <1>1. \A k \in S : Rank[k] \in Nat
    BY ReferencesConstants
  <1>2. \A k \in S : IsFiniteSet(Above(k)) /\ Cardinality(Above(k)) \in Nat
    <2>1. TAKE k \in S
    <2>2. Above(k) \in SUBSET Keys
      OBVIOUS
    <2> HIDE DEF Above
    <2> QED BY <2>2, ReferencesConstants, FS_Subset, FS_CardinalityType
  <1>3. PICK n \in T : \A m \in T : n <= m
    <2>1. T \in SUBSET Nat /\ T # {}
      <3> HIDE DEF Above
      <3> QED BY <1>2
    <2> HIDE DEF T
    <2> QED BY <2>1, Least
  <1>4. PICK k \in S : n = Cardinality(Above(k))
    BY <1>3
  <1>5. ASSUME NEW j \in S, Rank[j] > Rank[k] PROVE FALSE
    <2>1. Above(j) \in SUBSET Above(k) /\ j \in Above(k) /\ j \notin Above(j)
      BY <1>1, <1>5
    <2>2. Cardinality(Above(k)) <= Cardinality(Above(j))
      <3> HIDE DEF Above
      <3> QED BY <1>3, <1>4
    <2> HIDE DEF Above
    <2>3. Cardinality(Above(j)) <= Cardinality(Above(k))
          /\ (Cardinality(Above(k)) = Cardinality(Above(j)) => Above(k) = Above(j))
      BY <1>2, <2>1, FS_Subset
    <2>4. Cardinality(Above(j)) \in Nat /\ Cardinality(Above(k)) \in Nat
      BY <1>2
    <2>5. Above(k) = Above(j)
      BY <2>2, <2>3, <2>4
    <2> QED BY <2>1, <2>5
  <1>6. \A j \in S : Rank[j] <= Rank[k]
    BY <1>1, <1>5
  <1> QED BY <1>6 DEF LastOf
-----------------------------------------------------------------------------
(* Names *)

LEMMA NamesApart ==
  /\ State \in Tokens /\ State[1] = Bare /\ State[2] = StateName /\ StateName \notin Keys
  /\ \A k \in Keys : /\ Key(k) \in Tokens /\ Key(k)[1] = Bare /\ Key(k)[2] = k
                     /\ Own(k) \in Ids /\ Own(k)[2] = k
  /\ \A e \in Ids : e \in Tokens /\ e[1] = Sensor /\ e = <<Sensor, e[2]>>
  /\ \A t \in Tokens : t = <<t[1], t[2]>> /\ <<Bare, t[2]>> \in Tokens /\ <<t[1], StateName>> \in Tokens
  /\ Sensor # Bare /\ None \notin Tokens
  /\ \A t \in Foreign : t \in Tokens /\ t[1] # Bare
  <1>1. Foreign \subseteq Domains \X Names /\ Bare \notin Domains
    BY CrossConstants, ReferencesConstants
  <1>2. \A t \in Foreign : t \in Tokens /\ t[1] # Bare
    BY <1>1 DEF Tokens
  <1> QED BY <1>2, ReferencesConstants DEF State, Key, Own, Ids, Tokens

Documents == [Keys -> Entries \cup {None}]

LEMMA DocumentProps ==
  ASSUME NEW doc \in Documents
  PROVE  /\ Listed(doc) \subseteq Keys
         /\ \A k \in Listed(doc) :
              /\ doc[k] \in Entries /\ doc[k].text \subseteq Tokens /\ doc[k].vars \subseteq Tokens
              /\ doc[k].entity \in Ids \cup {None}
         /\ \A k \in Keys \ Listed(doc) : doc[k] = None
  BY DEF Documents, Listed, Entries

LEMMA EnhancedType ==
  ASSUME NEW doc \in Documents, NEW ids \in [Keys -> Ids \cup {None}]
  PROVE  Enhanced(doc, ids) \in Mappings
  <1>1. \A S \in SUBSET Keys : S # {} => ids[LastOf(S)] \in Ids \cup {None}
    BY LastOfProps
  <1>2. \A e : Claimants(doc, ids, e) \in SUBSET Keys
    BY DEF Claimants, Listed
  <1>3. \A t \in Tokens : t[2] \in Listed(doc) => ids[t[2]] \in Ids \cup {None}
    BY DEF Listed
  <1> QED BY <1>1, <1>2, <1>3 DEF Enhanced, Mappings

LEMMA WithStateType ==
  ASSUME NEW k, NEW entry \in Entries
  PROVE  /\ WithState(k, entry) \in Entries
         /\ WithState(k, entry).text = {SelfReplaced(t, k, entry) : t \in entry.text}
         /\ WithState(k, entry).vars = {SelfReplaced(t, k, entry) : t \in entry.vars}
         /\ WithState(k, entry).entity = entry.entity
  <1>1. \A t \in Tokens : SelfReplaced(t, k, entry) \in Tokens
    BY NamesApart DEF SelfReplaced
  <1> QED BY <1>1 DEF WithState, Entries

LEMMA ResolvedEntryProps ==
  ASSUME NEW map \in Mappings, NEW k \in Keys, NEW entry \in Entries
  PROVE  /\ ResolvedEntry(k, entry, map) \in Entries
         /\ ResolvedEntry(k, entry, map).entity = IF map[Key(k)] # None THEN map[Key(k)] ELSE entry.entity
         /\ ResolvedEntry(k, entry, map).text = {InText(t, k, map) : t \in entry.text}
         /\ ResolvedEntry(k, entry, map).vars = {InVariable(t, k, map) : t \in entry.vars}
  <1>1. ResolvedEntry(k, entry, map) \in Entries
    BY ResolvedEntryType
  <1> QED BY <1>1 DEF ResolvedEntry, InFormula, Entries

\* What an import stores.
LEMMA ImportedProps ==
  ASSUME NEW doc \in Documents, NEW ids \in [Keys -> Ids \cup {None}]
  PROVE  /\ Imported(doc, ids) \in Documents /\ Listed(Imported(doc, ids)) = Listed(doc)
         /\ \A k \in Listed(doc) :
              LET map == Enhanced(doc, ids)
                  entry == Imported(doc, ids)[k]
              IN  /\ entry.entity = IF ids[k] # None THEN ids[k] ELSE doc[k].entity
                  /\ entry.text = {InText(SelfReplaced(t, k, doc[k]), k, map) : t \in doc[k].text}
                  /\ entry.vars = {InVariable(SelfReplaced(t, k, doc[k]), k, map) : t \in doc[k].vars}
  <1> DEFINE map == Enhanced(doc, ids)
             with == [k \in Keys |-> IF doc[k] = None THEN None ELSE WithState(k, doc[k])]
             out == Imported(doc, ids)
  <1>1. map \in Mappings
    BY EnhancedType
  <1>2. \A k \in Listed(doc) : map[Key(k)] = ids[k]
    BY DocumentProps, NamesApart DEF Enhanced
  <1>3. out = [k \in Keys |-> IF with[k] = None THEN None ELSE ResolvedEntry(k, with[k], map)]
    BY DEF Imported, Resolved
  <1> HIDE DEF map, out
  <1>4. ASSUME NEW k \in Listed(doc)
        PROVE  /\ out[k] \in Entries /\ out[k] # None
               /\ out[k].entity = IF ids[k] # None THEN ids[k] ELSE doc[k].entity
               /\ out[k].text = {InText(SelfReplaced(t, k, doc[k]), k, map) : t \in doc[k].text}
               /\ out[k].vars = {InVariable(SelfReplaced(t, k, doc[k]), k, map) : t \in doc[k].vars}
    <2>1. k \in Keys /\ doc[k] \in Entries /\ None \notin Entries
      BY DocumentProps, ReferencesConstants
    <2> DEFINE w == WithState(k, doc[k])
    <2>2. /\ w \in Entries /\ w.entity = doc[k].entity
          /\ w.text = {SelfReplaced(t, k, doc[k]) : t \in doc[k].text}
          /\ w.vars = {SelfReplaced(t, k, doc[k]) : t \in doc[k].vars}
      BY <2>1, WithStateType
    <2>3. with[k] = w
      BY <2>1
    <2> HIDE DEF w, with
    <2>4. out[k] = ResolvedEntry(k, w, map)
      BY <1>3, <2>1, <2>2, <2>3
    <2> QED BY <1>1, <1>2, <2>1, <2>2, <2>4, ResolvedEntryProps
  <1>5. \A k \in Keys \ Listed(doc) : out[k] = None
    BY <1>3, DocumentProps
  <1> HIDE DEF with
  <1>6. out \in Documents /\ Listed(out) = Listed(doc)
    BY <1>3, <1>4, <1>5, DocumentProps DEF Documents, Listed
  <1> QED BY <1>4, <1>6 DEF out, map
-----------------------------------------------------------------------------
(* What a clear document means *)

Written(entry) == entry.text \cup entry.vars

\* A name stands for one sensor at most.
LEMMA ClaimsSingle ==
  ASSUME NEW doc \in Documents, NEW F, Clear(doc, F), NEW t \in Tokens,
         NEW i \in Claims(doc, t), NEW j \in Claims(doc, t)
  PROVE  i = j
  <1>1. i \in Listed(doc) /\ j \in Listed(doc) /\ i \in Keys /\ j \in Keys
    BY DocumentProps DEF Claims
  <1>2. /\ t \in {Key(i), Own(i)} \/ t = doc[i].entity
        /\ t \in {Key(j), Own(j)} \/ t = doc[j].entity
    BY DEF Claims
  <1>3. /\ doc[i].entity \in Ids \cup {None} /\ doc[j].entity \in Ids \cup {None}
        /\ Key(i) # None /\ Own(i) # None /\ Key(j) # None /\ Own(j) # None
        /\ Key(i)[1] = Bare /\ Own(i)[1] # Bare /\ Key(j)[1] = Bare /\ Own(j)[1] # Bare
        /\ Key(i)[2] = i /\ Own(i)[2] = i /\ Key(j)[2] = j /\ Own(j)[2] = j
        /\ \A e \in Ids : e[1] # Bare /\ e # None
    BY <1>1, DocumentProps, NamesApart
  <1>4. \A a, b \in Listed(doc) :
          a # b /\ doc[a].entity # None => doc[a].entity # doc[b].entity /\ doc[a].entity[2] # b
    BY DEF Clear
  <1>5. CASE t \in {Key(i), Own(i)} /\ t \in {Key(j), Own(j)}
    <2>1. t[2] = i /\ t[2] = j
      BY <1>3, <1>5
    <2> QED BY <2>1
  <1>6. CASE t \in {Key(i), Own(i)} /\ t = doc[j].entity
    <2>1. t[2] = i /\ doc[j].entity # None
      BY <1>3, <1>6
    <2> QED BY <1>1, <1>4, <1>6, <2>1
  <1>7. CASE t = doc[i].entity /\ t \in {Key(j), Own(j)}
    <2>1. t[2] = j /\ doc[i].entity # None
      BY <1>3, <1>7
    <2> QED BY <1>1, <1>4, <1>7, <2>1
  <1>8. CASE t = doc[i].entity /\ t = doc[j].entity
    <2>1. t # None
      BY NamesApart
    <2> QED BY <1>1, <1>4, <1>8, <2>1
  <1> QED BY <1>2, <1>5, <1>6, <1>7, <1>8

LEMMA MeaningCases ==
  ASSUME NEW doc \in Documents, NEW F, Clear(doc, F), NEW t \in Tokens, NEW k \in Listed(doc)
  PROVE  \/ Claims(doc, t) = {} /\ Meaning(doc, t, k) = t
         \/ Claims(doc, t) = {k} /\ Meaning(doc, t, k) = State
         \/ \E j \in Listed(doc) \ {k} : Claims(doc, t) = {j} /\ Meaning(doc, t, k) = Key(j)
  <1>1. Claims(doc, t) \subseteq Listed(doc)
    BY DEF Claims
  <1>2. \A i, j \in Claims(doc, t) : i = j
    BY ClaimsSingle
  <1>3. CASE Claims(doc, t) = {}
    BY <1>3 DEF Meaning
  <1>4. CASE Claims(doc, t) # {}
    <2>1. PICK j \in Listed(doc) : Claims(doc, t) = {j}
      BY <1>1, <1>2, <1>4
    <2>2. CASE j = k
      BY <2>1, <2>2 DEF Meaning
    <2>3. CASE j # k
      <3>1. (CHOOSE i \in {j} : TRUE) = j
        OBVIOUS
      <3> QED BY <2>1, <2>3, <3>1 DEF Meaning
    <2> QED BY <2>1, <2>2, <2>3
  <1> QED BY <1>3, <1>4

LEMMA MeaningsType ==
  ASSUME NEW doc \in Documents
  PROVE  /\ MeaningsOf(doc) \in [Keys -> Meanings \cup {None}]
         /\ \A k \in Listed(doc) :
              /\ MeaningsOf(doc)[k] \in Meanings /\ MeaningsOf(doc)[k] # None
              /\ MeaningsOf(doc)[k].text = {Meaning(doc, t, k) : t \in doc[k].text}
              /\ MeaningsOf(doc)[k].vars = {Meaning(doc, t, k) : t \in doc[k].vars}
         /\ \A k \in Keys \ Listed(doc) : MeaningsOf(doc)[k] = None
  <1>1. ASSUME NEW t \in Tokens, NEW k \in Keys PROVE Meaning(doc, t, k) \in Tokens
    <2>1. Claims(doc, t) # {} => (CHOOSE j \in Claims(doc, t) : TRUE) \in Keys
      BY DocumentProps DEF Claims
    <2> QED BY <2>1, NamesApart DEF Meaning
  <1>2. \A k \in Listed(doc) :
          /\ {Meaning(doc, t, k) : t \in doc[k].text} \subseteq Tokens
          /\ {Meaning(doc, t, k) : t \in doc[k].vars} \subseteq Tokens
          /\ k \in Keys /\ doc[k] # None
    BY <1>1, DocumentProps DEF Listed
  <1>3. \A k \in Keys \ Listed(doc) : doc[k] = None
    BY DocumentProps
  <1>4. None \notin Meanings
    BY ReferencesConstants
  <1>5. \A k \in Listed(doc) : /\ MeaningsOf(doc)[k] \in Meanings
                               /\ MeaningsOf(doc)[k].text = {Meaning(doc, t, k) : t \in doc[k].text}
                               /\ MeaningsOf(doc)[k].vars = {Meaning(doc, t, k) : t \in doc[k].vars}
    BY <1>2 DEF MeaningsOf, Meanings
  <1>6. \A k \in Keys \ Listed(doc) : MeaningsOf(doc)[k] = None
    BY <1>3 DEF MeaningsOf
  <1>7. MeaningsOf(doc) = [k \in Keys |-> MeaningsOf(doc)[k]]
    BY DEF MeaningsOf
  <1>8. MeaningsOf(doc) \in [Keys -> Meanings \cup {None}]
    BY <1>5, <1>6, <1>7
  <1> QED BY <1>4, <1>5, <1>6, <1>8

\* In a clear document an import rewrites each name to what it means.
LEMMA ImportRewrites ==
  ASSUME NEW doc \in Documents, NEW ids \in [Keys -> Ids \cup {None}], NEW F, Clear(doc, F),
         \A k \in Listed(doc) : ids[k] # None,
         \A j, k \in Listed(doc) : ids[j] = ids[k] => j = k,
         NEW k \in Listed(doc), NEW t \in Written(doc[k]), t \in Tokens
  PROVE  LET map == Enhanced(doc, ids)
             self == SelfReplaced(t, k, doc[k])
             result == CASE Claims(doc, t) = {} -> t
                         [] Claims(doc, t) = {k} -> State
                         [] OTHER -> ids[CHOOSE j \in Claims(doc, t) : TRUE]
         IN  InText(self, k, map) = result /\ InVariable(self, k, map) = result
  <1> DEFINE map == Enhanced(doc, ids)
             self == SelfReplaced(t, k, doc[k])
             own == doc[k].entity
  <1>1. /\ k \in Keys /\ own \in Ids \cup {None} /\ Listed(doc) \subseteq Keys
        /\ \A e \in Ids : e[1] = Sensor /\ e = <<Sensor, e[2]>> /\ e # None
    BY DocumentProps, NamesApart
  <1>2. /\ \A n \in Tokens : n[1] = Bare =>
             map[n] = IF n[2] \in Listed(doc) THEN ids[n[2]] ELSE None
        /\ \A n \in Tokens : n[1] # Bare =>
             map[n] = IF Claimants(doc, ids, n) = {} THEN None ELSE ids[LastOf(Claimants(doc, ids, n))]
    BY DEF Enhanced
  <1>3. \A e, i : e \in Tokens /\ i \in Claimants(doc, ids, e) => i \in Claims(doc, e)
    BY DEF Claimants, Claims
  <1>4. map[Key(k)] = ids[k] /\ map[State] = None
    BY <1>1, <1>2, NamesApart
  <1>5. t = <<t[1], t[2]>> /\ <<Bare, t[2]>> \in Tokens
        /\ map[<<Bare, t[2]>>] = IF t[2] \in Listed(doc) THEN ids[t[2]] ELSE None
    BY <1>2, NamesApart
  <1>s. State \in Tokens /\ State[1] = Bare /\ State = <<Bare, State[2]>>
        /\ State \notin {Key(k), Own(k)}
    BY <1>1, NamesApart DEF State
  <1> HIDE DEF map
  <1>6. CASE Claims(doc, t) = {}
    <2>1. t[2] \notin Listed(doc) /\ t[2] \notin SelfNames(k, doc[k])
      BY <1>6 DEF Clear, Written
    <2>2. self = t
      BY <2>1 DEF SelfReplaced
    <2>3. map[t] = None /\ map[<<Bare, t[2]>>] = None
      BY <1>2, <1>3, <1>5, <1>6, <2>1
    <2>4. t \notin {Key(k), Own(k)}
      BY <1>6 DEF Claims
    <2> HIDE DEF self
    <2> QED BY <1>6, <2>2, <2>3, <2>4 DEF InText, InVariable, map, self
  <1>7. CASE Claims(doc, t) = {k}
    <2>1. t \in {Key(k), Own(k)} \/ (t = own /\ own \in Ids)
      <3>1. t \in {Key(k), Own(k)} \/ t = own
        BY <1>7 DEF Claims
      <3>2. t # None
        BY NamesApart
      <3> QED BY <1>1, <3>1, <3>2
    <2>2. t[2] \in SelfNames(k, doc[k]) /\ t[1] \in {Bare, Sensor}
      BY <1>1, <2>1, NamesApart DEF SelfNames
    <2>3. self = State
      BY <2>2, NamesApart DEF SelfReplaced, State
    <2>4. InText(State, k, map) = State /\ InVariable(State, k, map) = State
      BY <1>4, <1>s DEF InText, InVariable
    <2> QED BY <1>7, <2>3, <2>4 DEF map
  <1>8. CASE Claims(doc, t) # {} /\ Claims(doc, t) # {k}
    <2>1. PICK j \in Listed(doc) \ {k} : Claims(doc, t) = {j}
      BY <1>7, <1>8, MeaningCases
    <2>2. (CHOOSE i \in Claims(doc, t) : TRUE) = j
      BY <2>1
    <2>3. /\ doc[k].entity # None => doc[k].entity # doc[j].entity /\ doc[k].entity[2] # j
          /\ doc[j].entity # None => doc[j].entity # doc[k].entity /\ doc[j].entity[2] # k
      BY <2>1 DEF Clear
    <2>4. t \in {Key(j), Own(j)} \/ (t = doc[j].entity /\ t \in Ids)
      <3>1. t \in {Key(j), Own(j)} \/ t = doc[j].entity
        BY <2>1 DEF Claims
      <3> QED BY <2>1, <3>1, DocumentProps, NamesApart
    <2>5. Key(j)[2] = j /\ Own(j)[2] = j /\ j \in Keys /\ Own(j) \in Ids /\ Key(j)[1] = Bare
          /\ Sensor # Bare
      BY <1>1, <2>1, NamesApart
    <2>6. t[2] \notin SelfNames(k, doc[k]) /\ t \notin {Key(k), Own(k)}
      <3>1. CASE t \in {Key(j), Own(j)}
        BY <2>1, <2>3, <2>5, <3>1, <1>1, NamesApart DEF SelfNames
      <3>2. CASE t = doc[j].entity /\ t \in Ids
        <4>1. t[2] # k /\ own # t
          BY <1>1, <2>3, <3>2
        <4>2. own # None => own = <<Sensor, own[2]>> /\ t = <<Sensor, t[2]>>
          BY <1>1, <3>2
        <4>3. own # None => t[2] # own[2]
          BY <4>1, <4>2
        <4> QED BY <1>1, <4>1, <4>3, NamesApart DEF SelfNames
      <3> QED BY <2>4, <3>1, <3>2
    <2>7. self = t
      BY <2>6 DEF SelfReplaced
    <2>8. ids[j] # None /\ ids[j] # ids[k] /\ t[2] # k
      BY <2>1, <2>6 DEF SelfNames
    <2>9. CASE t = Key(j)
      <3>1. map[t] = ids[j] /\ map[<<Bare, t[2]>>] = ids[j] /\ t[1] = Bare
        BY <1>2, <1>5, <2>1, <2>5, <2>9
      <3> QED BY <1>4, <1>8, <2>1, <2>2, <2>6, <2>7, <2>8, <3>1 DEF InText, InVariable, map
    <2>10. CASE t # Key(j)
      <3>1. t[1] # Bare /\ t[1] = Sensor
        BY <1>1, <2>4, <2>5, <2>10
      <3>2. Claimants(doc, ids, t) \subseteq {j}
        BY <1>3, <2>1
      <3>3. CASE j \in Claimants(doc, ids, t)
        <4>1. Claimants(doc, ids, t) = {j} /\ {j} \in SUBSET Keys
          BY <2>5, <3>2, <3>3
        <4>2. LastOf({j}) = j
          BY <4>1, LastOfProps
        <4>3. map[t] = ids[j]
          BY <1>2, <3>1, <4>1, <4>2
        <4> QED BY <1>4, <1>8, <2>1, <2>2, <2>6, <2>7, <2>8, <3>1, <4>3 DEF InText, InVariable, map
      <3>4. CASE j \notin Claimants(doc, ids, t)
        <4>1. t = ids[j] /\ t # Own(j) /\ t = doc[j].entity
          BY <2>1, <2>4, <2>10, <3>4 DEF Claimants
        <4>2. Claimants(doc, ids, t) = {}
          BY <3>2, <3>4
        <4>3. map[t] = None
          BY <1>2, <3>1, <4>2
        <4>4. t[2] \notin Listed(doc)
          <5>1. SUFFICES ASSUME t[2] \in Listed(doc) PROVE FALSE
            OBVIOUS
          <5>2. t[2] # j
            BY <1>5, <3>1, <4>1 DEF Own
          <5>3. doc[j].entity # None /\ doc[j].entity[2] # t[2]
            BY <2>1, <4>1, <5>1, <5>2, NamesApart DEF Clear
          <5> QED BY <4>1, <5>3
        <4>5. map[<<Bare, t[2]>>] = None
          BY <1>5, <4>4
        <4> QED BY <1>4, <1>8, <2>1, <2>2, <2>6, <2>7, <2>8, <4>1, <4>3, <4>5 DEF InText, InVariable, map
      <3> QED BY <3>3, <3>4
    <2> QED BY <2>9, <2>10
  <1> QED BY <1>6, <1>7, <1>8

\* What a completion rewrites a name to, if its document and its sensors are plain.
LEMMA CompletionRewritesNames ==
  ASSUME NEW doc \in Documents, NEW ids \in [Keys -> Ids \cup {None}], NEW F, Clear(doc, F),
         NEW k \in Listed(doc), NEW t \in Written(doc[k]), t \in Tokens,
         ids[k] # None, \A j \in Claims(doc, t) : ids[j] = ids[k] => j = k,
         \A j \in Claims(doc, t) \ {k} : t = Key(j) /\ ids[j] # None,
         k \in Claims(doc, t) => t \in {Key(k), Own(k)},
         t[2] \in Keys => Claims(doc, t) # {}
  PROVE  LET map == KeysOnly(ids)
             result == CASE Claims(doc, t) = {} -> t
                         [] Claims(doc, t) = {k} -> State
                         [] OTHER -> ids[CHOOSE j \in Claims(doc, t) : TRUE]
         IN  InText(t, k, map) = result /\ InVariable(t, k, map) = result
  <1> DEFINE map == KeysOnly(ids)
  <1>1. /\ k \in Keys /\ t = <<t[1], t[2]>> /\ <<Bare, t[2]>> \in Tokens
        /\ map[t] = IF t[1] = Bare /\ t[2] \in Keys THEN ids[t[2]] ELSE None
        /\ map[<<Bare, t[2]>>] = IF t[2] \in Keys THEN ids[t[2]] ELSE None
        /\ map[Key(k)] = ids[k]
    <2>1. \A n \in Tokens : map[n] = IF n[1] = Bare /\ n[2] \in Keys THEN ids[n[2]] ELSE None
      BY DEF KeysOnly
    <2>2. k \in Keys /\ t = <<t[1], t[2]>> /\ <<Bare, t[2]>> \in Tokens
          /\ Key(k) \in Tokens /\ Key(k)[1] = Bare /\ Key(k)[2] = k
      BY DocumentProps, NamesApart
    <2> HIDE DEF map
    <2> QED BY <2>1, <2>2
  <1> HIDE DEF map
  <1>2. CASE Claims(doc, t) = {}
    <2>1. t \notin {Key(k), Own(k)}
      BY <1>2 DEF Claims
    <2> QED BY <1>1, <1>2, <2>1 DEF InText, InVariable, map
  <1>3. CASE Claims(doc, t) = {k}
    <2>1. t \in {Key(k), Own(k)} /\ t[2] = k
      BY <1>1, <1>3, NamesApart
    <2>2. map[<<Bare, t[2]>>] = ids[k] /\ (t[1] # Bare => map[t] = None)
      BY <1>1, <2>1
    <2> QED BY <1>3, <2>1, <2>2 DEF InText, InVariable, map
  <1>4. CASE Claims(doc, t) # {} /\ Claims(doc, t) # {k}
    <2>1. PICK j \in Listed(doc) \ {k} : Claims(doc, t) = {j}
      BY <1>3, <1>4, MeaningCases
    <2>2. (CHOOSE i \in Claims(doc, t) : TRUE) = j
      BY <2>1
    <2>3. t = Key(j) /\ ids[j] # None /\ j \in Keys /\ t[1] = Bare /\ t[2] = j
      BY <2>1, DocumentProps, NamesApart
    <2>4. map[t] = ids[j] /\ map[<<Bare, t[2]>>] = ids[j] /\ ids[j] # ids[k]
      BY <1>1, <2>1, <2>3
    <2>5. t \notin {Key(k), Own(k)}
      BY <1>1, <2>1, <2>3, NamesApart
    <2> QED BY <1>1, <1>4, <2>1, <2>2, <2>3, <2>4, <2>5 DEF InText, InVariable, map
  <1> QED BY <1>2, <1>3, <1>4
-----------------------------------------------------------------------------
(* Keeping the references *)

\* Home Assistant gives an entity id once and none of another integration.
IdsDistinct ==
  /\ \A j, k \in Keys : registry[j] # None /\ registry[j] = registry[k] => j = k
  /\ \A k \in Keys : registry[k] \notin Foreign

\* What a sensor's reference may mean: itself, another sensor that has its entity
\* id, or something else that no sensor has for its entity id.
Denotable(reg, k, m) ==
  \/ m = State \/ m \in Foreign \/ (m \in Tokens /\ m[1] = Bare /\ m[2] \notin Keys)
  \/ \E j \in Keys \ {k} : m = Key(j) /\ reg[j] # None

DenotedBy(reg, m) == IF m[1] = Bare /\ m[2] \in Keys THEN reg[m[2]] ELSE m

\* As long as nothing could mean two things, what is stored is what was meant.
KeptAt(k) ==
  /\ registry[k] # None /\ meant[k] # None
  /\ \A m \in Written(meant[k]) : Denotable(registry, k, m)
  /\ stored[k].entity = registry[k]
  /\ stored[k].text = {Denoted(m) : m \in meant[k].text}
  /\ stored[k].vars = {Denoted(m) : m \in meant[k].vars}

Kept == clear => \A k \in Listed(stored) : KeptAt(k)

StoredTypes ==
  /\ stored \in Documents /\ meant \in [Keys -> Meanings \cup {None}] /\ clear \in BOOLEAN

\* A sensor's stored references stay what they are when others get entity ids.
LEMMA KeptLater ==
  ASSUME NEW k \in Keys, KeptAt(k), stored'[k] = stored[k], meant'[k] = meant[k],
         \A j \in Keys : registry[j] # None => registry'[j] = registry[j]
  PROVE  KeptAt(k)'
  <1>1. ASSUME NEW m, Denotable(registry, k, m)
        PROVE  Denoted(m)' = Denoted(m) /\ Denotable(registry', k, m)
    <2>1. m[1] = Bare /\ m[2] \in Keys => registry'[m[2]] = registry[m[2]]
      BY <1>1, NamesApart DEF Denotable
    <2>2. Denoted(m)' = Denoted(m)
      BY <2>1 DEF Denoted
    <2>3. Denotable(registry', k, m)
      BY <1>1 DEF Denotable
    <2> QED BY <2>2, <2>3
  <1>2. \A m \in Written(meant[k]) : Denotable(registry, k, m)
    BY DEF KeptAt
  <1>3. \A m \in Written(meant[k]) : Denoted(m)' = Denoted(m) /\ Denotable(registry', k, m)
    BY <1>1, <1>2
  <1>4. /\ {Denoted(m)' : m \in meant[k].text} = {Denoted(m) : m \in meant[k].text}
        /\ {Denoted(m)' : m \in meant[k].vars} = {Denoted(m) : m \in meant[k].vars}
    BY <1>3 DEF Written
  <1> QED BY <1>3, <1>4 DEF KeptAt

\* The entity ids an import is given: the registered ones stay, and the new ones
\* are distinct.
LEMMA GivenFresh ==
  ASSUME NEW reg, NEW k \in Keys, NEW e, reg[k] = None, NEW g \in Given(reg, k, e)
  PROVE  g \notin Foreign /\ \A j \in Keys : reg[j] # g
  BY DEF Given, Taken

LEMMA RegistrationsGive ==
  ASSUME registry \in [Keys -> Ids \cup {None}], IdsDistinct, NEW doc \in Documents,
         NEW reg \in Registrations(doc)
  PROVE  /\ reg \in [Keys -> Ids \cup {None}]
         /\ \A k \in Keys : registry[k] # None => reg[k] = registry[k]
         /\ \A k \in Listed(doc) : reg[k] # None
         /\ \A j, k \in Keys : reg[j] # None /\ reg[j] = reg[k] => j = k
         /\ \A k \in Keys : reg[k] \notin Foreign
  <1> DEFINE New == {k \in Listed(doc) : registry[k] = None}
             Before(i, k) == [j \in Keys |->
                                IF j \in New /\ Rank[j] < Rank[k] THEN i[j] ELSE registry[j]]
  <1>1. PICK ids \in [New -> Ids] :
          /\ reg = [k \in Keys |-> IF k \in New THEN ids[k] ELSE registry[k]]
          /\ \A k \in New : ids[k] \in Given(Before(ids, k), k, Suggested(k, doc[k]))
    BY DEF Registrations
  <1>2. /\ New \subseteq Keys /\ None \notin Ids /\ \A k \in New : registry[k] = None
        /\ \A k \in Keys : Rank[k] \in Nat
        /\ \A j, k \in Keys : Rank[j] = Rank[k] => j = k
    BY IdsAreTokens, DocumentProps, ReferencesConstants
  <1>3. ASSUME NEW k \in New
        PROVE  /\ ids[k] \in Ids /\ ids[k] \notin Foreign
               /\ \A j \in Keys \ New : registry[j] # ids[k]
               /\ \A j \in New : Rank[j] < Rank[k] => ids[j] # ids[k]
    <2> DEFINE before == Before(ids, k)
    <2>1. before[k] = None
      BY <1>2
    <2>2. /\ \A j \in Keys \ New : before[j] = registry[j]
          /\ \A j \in New : Rank[j] < Rank[k] => before[j] = ids[j]
      BY <1>2
    <2>3. ids[k] \in Given(before, k, Suggested(k, doc[k]))
      BY <1>1
    <2> HIDE DEF before
    <2>4. ids[k] \notin Foreign /\ \A j \in Keys : before[j] # ids[k]
      BY <1>2, <2>1, <2>3, GivenFresh
    <2> QED BY <1>2, <2>2, <2>4
  <1>4. \A k \in Keys : reg[k] = IF k \in New THEN ids[k] ELSE registry[k]
    BY <1>1
  <1>5. \A k \in Listed(doc) : reg[k] # None
    BY <1>2, <1>3, <1>4, DocumentProps
  <1>6. ASSUME NEW j \in Keys, NEW k \in Keys, reg[j] # None, reg[j] = reg[k]
        PROVE  j = k
    <2>1. CASE j \in New /\ k \in New
      <3>1. Rank[j] < Rank[k] \/ Rank[k] < Rank[j] \/ j = k
        BY <1>2
      <3> QED BY <1>3, <1>4, <1>6, <2>1, <3>1
    <2>2. CASE j \notin New \/ k \notin New
      BY <1>3, <1>4, <1>6, <2>2 DEF IdsDistinct
    <2> QED BY <2>1, <2>2
  <1>7. \A k \in Keys : reg[k] \notin Foreign
    BY <1>3, <1>4 DEF IdsDistinct
  <1> HIDE DEF New
  <1>8. reg \in [Keys -> Ids \cup {None}] /\ \A k \in Keys : registry[k] # None => reg[k] = registry[k]
    BY <1>1, <1>2, <1>3
  <1> QED BY <1>5, <1>6, <1>7, <1>8

\* What a clear document's names mean can be denoted.
LEMMA MeaningDenotes ==
  ASSUME NEW doc \in Documents, Clear(doc, Foreign), NEW k \in Listed(doc), NEW reg,
         NEW t \in Written(doc[k]), t \in Tokens,
         \A j \in Claims(doc, t) : reg[j] # None
  PROVE  /\ Denotable(reg, k, Meaning(doc, t, k))
         /\ DenotedBy(reg, Meaning(doc, t, k)) = CASE Claims(doc, t) = {} -> t
                                            [] Claims(doc, t) = {k} -> State
                                            [] OTHER -> reg[CHOOSE j \in Claims(doc, t) : TRUE]
  <1>1. CASE Claims(doc, t) = {}
    <2>1. Meaning(doc, t, k) = t
      BY <1>1 DEF Meaning
    <2>2. t = State \/ t \in Foreign \/ (t[1] = Bare /\ t[2] \notin Keys)
      BY <1>1 DEF Clear, Written
    <2>3. ~(t[1] = Bare /\ t[2] \in Keys)
      BY <2>2, NamesApart
    <2> QED BY <1>1, <2>1, <2>2, <2>3 DEF Denotable, DenotedBy
  <1>2. CASE Claims(doc, t) = {k}
    <2>1. Meaning(doc, t, k) = State
      BY <1>2 DEF Meaning
    <2> QED BY <1>2, <2>1, NamesApart DEF Denotable, DenotedBy
  <1>3. CASE Claims(doc, t) # {} /\ Claims(doc, t) # {k}
    <2>1. PICK j \in Listed(doc) \ {k} : Claims(doc, t) = {j} /\ Meaning(doc, t, k) = Key(j)
      BY <1>2, <1>3, MeaningCases
    <2>2. (CHOOSE i \in Claims(doc, t) : TRUE) = j
      BY <2>1
    <2>3. j \in Keys \ {k} /\ reg[j] # None /\ Key(j)[1] = Bare /\ Key(j)[2] = j
      BY <2>1, DocumentProps, NamesApart
    <2> QED BY <1>3, <2>1, <2>2, <2>3 DEF Denotable, DenotedBy
  <1> QED BY <1>1, <1>2, <1>3

Result(doc, reg, k, t) ==
  CASE Claims(doc, t) = {} -> t
    [] Claims(doc, t) = {k} -> State
    [] OTHER -> reg[CHOOSE j \in Claims(doc, t) : TRUE]

\* A sensor whose names are all rewritten to what they mean, with the entity ids
\* there are.
LEMMA KeptNow ==
  ASSUME NEW doc \in Documents, Clear(doc, Foreign), NEW k \in Listed(doc), NEW reg,
         \A t \in Written(doc[k]) : \A j \in Claims(doc, t) : reg[j] # None
  PROVE  LET m == MeaningsOf(doc)[k]
         IN  /\ m # None /\ \A x \in Written(m) : Denotable(reg, k, x)
             /\ {Result(doc, reg, k, t) : t \in doc[k].text} = {DenotedBy(reg, x) : x \in m.text}
             /\ {Result(doc, reg, k, t) : t \in doc[k].vars} = {DenotedBy(reg, x) : x \in m.vars}
  <1> DEFINE m == MeaningsOf(doc)[k]
  <1>1. /\ m # None /\ m.text = {Meaning(doc, t, k) : t \in doc[k].text}
        /\ m.vars = {Meaning(doc, t, k) : t \in doc[k].vars}
    BY MeaningsType
  <1>2. doc[k].text \subseteq Tokens /\ doc[k].vars \subseteq Tokens
    BY DocumentProps
  <1>3. \A t \in Written(doc[k]) : /\ Denotable(reg, k, Meaning(doc, t, k))
                                   /\ Result(doc, reg, k, t) = DenotedBy(reg, Meaning(doc, t, k))
    BY <1>2, MeaningDenotes DEF Written, Result
  <1> HIDE DEF m
  <1>4. /\ {Result(doc, reg, k, t) : t \in doc[k].text} = {DenotedBy(reg, x) : x \in m.text}
        /\ {Result(doc, reg, k, t) : t \in doc[k].vars} = {DenotedBy(reg, x) : x \in m.vars}
        /\ \A x \in Written(m) : Denotable(reg, k, x)
    BY <1>1, <1>3 DEF Written
  <1> QED BY <1>1, <1>4 DEF m

\* What an import stores of a clear document.
LEMMA ImportKeeps ==
  ASSUME NEW doc \in Documents, NEW ids \in [Keys -> Ids \cup {None}], NEW F, Clear(doc, F),
         \A k \in Listed(doc) : ids[k] # None,
         \A j, k \in Keys : ids[j] # None /\ ids[j] = ids[k] => j = k,
         NEW k \in Listed(doc)
  PROVE  LET entry == Imported(doc, ids)[k]
         IN  /\ entry.entity = ids[k]
             /\ entry.text = {Result(doc, ids, k, t) : t \in doc[k].text}
             /\ entry.vars = {Result(doc, ids, k, t) : t \in doc[k].vars}
  <1> DEFINE map == Enhanced(doc, ids)
             entry == Imported(doc, ids)[k]
  <1>1. /\ entry.entity = ids[k]
        /\ entry.text = {InText(SelfReplaced(t, k, doc[k]), k, map) : t \in doc[k].text}
        /\ entry.vars = {InVariable(SelfReplaced(t, k, doc[k]), k, map) : t \in doc[k].vars}
    BY ImportedProps
  <1>2. doc[k].text \subseteq Tokens /\ doc[k].vars \subseteq Tokens /\ Listed(doc) \subseteq Keys
    BY DocumentProps
  <1>3. \A j, i \in Listed(doc) : ids[j] = ids[i] => j = i
    BY <1>2
  <1>4. ASSUME NEW t \in Written(doc[k])
        PROVE  /\ InText(SelfReplaced(t, k, doc[k]), k, map) = Result(doc, ids, k, t)
               /\ InVariable(SelfReplaced(t, k, doc[k]), k, map) = Result(doc, ids, k, t)
    <2>1. t \in Tokens
      BY <1>2 DEF Written
    <2> QED BY <1>3, <2>1, ImportRewrites DEF Result
  <1> HIDE DEF map, entry
  <1>5. /\ \A t \in doc[k].text : InText(SelfReplaced(t, k, doc[k]), k, map) = Result(doc, ids, k, t)
        /\ \A t \in doc[k].vars : InVariable(SelfReplaced(t, k, doc[k]), k, map) = Result(doc, ids, k, t)
    BY <1>4 DEF Written
  <1> QED BY <1>1, <1>5 DEF entry

\* A sensor of a plain document whose references have the entity ids there are.
PlainAt(doc, ids, reg, k) ==
  /\ k \in Listed(doc) /\ Clear(doc, Foreign)
  /\ ids[k] # None /\ ids[k] = reg[k]
  /\ \A i, j \in Keys : reg[i] # None /\ reg[i] = reg[j] => i = j
  /\ \A t \in Written(doc[k]) :
       /\ \A j \in Claims(doc, t) \ {k} : t = Key(j) /\ ids[j] = reg[j] /\ ids[j] # None
       /\ k \in Claims(doc, t) => t \in {Key(k), Own(k)}
       /\ t[2] \in Keys => Claims(doc, t) # {}

\* What a completion stores of it.
LEMMA CompletionKeeps ==
  ASSUME NEW doc \in Documents, NEW ids \in [Keys -> Ids \cup {None}], NEW reg, NEW k,
         PlainAt(doc, ids, reg, k)
  PROVE  LET entry == Resolved(doc, KeysOnly(ids))[k]
         IN  /\ entry.entity = reg[k]
             /\ entry.text = {Result(doc, reg, k, t) : t \in doc[k].text}
             /\ entry.vars = {Result(doc, reg, k, t) : t \in doc[k].vars}
  <1> DEFINE map == KeysOnly(ids)
             entry == Resolved(doc, KeysOnly(ids))[k]
  <1> USE DEF PlainAt
  <1>1. /\ map \in Mappings /\ map[Key(k)] = ids[k] /\ k \in Keys /\ doc[k] \in Entries
        /\ doc[k] # None
    BY KeysOnlyType, DocumentProps DEF Listed
  <1>2. entry = ResolvedEntry(k, doc[k], map)
    BY <1>1 DEF Resolved
  <1>3. doc[k].text \subseteq Tokens /\ doc[k].vars \subseteq Tokens
    BY DocumentProps
  <1> HIDE DEF map, entry
  <1>4. /\ entry.entity = reg[k]
        /\ entry.text = {InText(t, k, map) : t \in doc[k].text}
        /\ entry.vars = {InVariable(t, k, map) : t \in doc[k].vars}
    BY <1>1, <1>2, ResolvedEntryProps
  <1>5. ASSUME NEW t \in Written(doc[k])
        PROVE  InText(t, k, map) = Result(doc, reg, k, t) /\ InVariable(t, k, map) = Result(doc, reg, k, t)
    <2>1. t \in Tokens
      BY <1>3 DEF Written
    <2>2. InText(t, k, map) = Result(doc, ids, k, t) /\ InVariable(t, k, map) = Result(doc, ids, k, t)
      <3>1. \A j \in Claims(doc, t) : ids[j] = ids[k] => j = k
        BY DocumentProps DEF Claims
      <3> QED BY <2>1, <3>1, CompletionRewritesNames DEF Result, map
    <2>3. Result(doc, ids, k, t) = Result(doc, reg, k, t)
      <3>1. \A j \in Claims(doc, t) : ids[j] = reg[j]
        OBVIOUS
      <3>2. Claims(doc, t) # {} => (CHOOSE j \in Claims(doc, t) : TRUE) \in Claims(doc, t)
        OBVIOUS
      <3> QED BY <3>1, <3>2 DEF Result
    <2> QED BY <2>2, <2>3
  <1>6. /\ \A t \in doc[k].text : InText(t, k, map) = Result(doc, reg, k, t)
        /\ \A t \in doc[k].vars : InVariable(t, k, map) = Result(doc, reg, k, t)
    BY <1>5 DEF Written
  <1> QED BY <1>4, <1>6 DEF entry

Stays == StoredTypes /\ IdsDistinct /\ Kept

\* A step in which sensors get entity ids and some are stored anew.
LEMMA KeptByStep ==
  ASSUME Kept, clear' => clear,
         \A j \in Keys : registry[j] # None => registry'[j] = registry[j],
         clear' => \A k \in Listed(stored)' : \/ KeptAt(k)'
                                              \/ k \in Listed(stored) /\ stored'[k] = stored[k]
                                                   /\ meant'[k] = meant[k]
  PROVE  Kept'
  <1> SUFFICES ASSUME clear', NEW k \in Listed(stored)' PROVE KeptAt(k)'
    BY DEF Kept
  <1>1. CASE KeptAt(k)'
    BY <1>1
  <1>2. CASE k \in Listed(stored) /\ stored'[k] = stored[k] /\ meant'[k] = meant[k]
    <2>1. k \in Keys /\ KeptAt(k)
      BY <1>2 DEF Kept, Listed
    <2> QED BY <1>2, <2>1, KeptLater
  <1> QED BY <1>1, <1>2

LEMMA ClaimedAreListed ==
  \A doc, t : \A j \in Claims(doc, t) : j \in Listed(doc)
  BY DEF Claims

\* An import, over what is stored or instead of it.
LEMMA ImportStays ==
  ASSUME RunningTypes, Stays, NEW doc \in Docs, NEW replace \in BOOLEAN, Import(doc, replace)
  PROVE  Stays'
  <1>1. PICK reg \in Registrations(doc) :
          registry' = reg /\ stored' = Over(Imported(doc, reg), stored, replace)
    BY DEF Import
  <1>2. meant' = Over(MeaningsOf(doc), meant, replace) /\ clear' = (clear /\ Clear(doc, Foreign))
    BY DEF Import
  <1>3. doc \in Documents
    BY CrossConstants DEF Documents
  <1>4. /\ reg \in [Keys -> Ids \cup {None}]
        /\ \A k \in Keys : registry[k] # None => reg[k] = registry[k]
        /\ \A k \in Listed(doc) : reg[k] # None
        /\ \A j, k \in Keys : reg[j] # None /\ reg[j] = reg[k] => j = k
        /\ \A k \in Keys : reg[k] \notin Foreign
    BY <1>3, RegistrationsGive DEF RunningTypes, Stays
  <1> DEFINE new == Imported(doc, reg)
             means == MeaningsOf(doc)
  <1>5. new \in Documents /\ Listed(new) = Listed(doc)
    BY <1>3, <1>4, ImportedProps
  <1>6. /\ means \in [Keys -> Meanings \cup {None}]
        /\ \A k \in Listed(doc) : means[k] # None
        /\ \A k \in Keys \ Listed(doc) : means[k] = None
    BY <1>3, MeaningsType
  <1> HIDE DEF new, means
  <1>7. /\ stored' = [k \in Keys |-> IF new[k] # None THEN new[k] ELSE IF replace THEN None ELSE stored[k]]
        /\ meant' = [k \in Keys |-> IF means[k] # None THEN means[k] ELSE IF replace THEN None ELSE meant[k]]
    BY <1>1, <1>2 DEF Over, new, means
  <1>8. StoredTypes'
    BY <1>2, <1>5, <1>6, <1>7 DEF Stays, StoredTypes, Documents
  <1>9. IdsDistinct'
    BY <1>1, <1>4 DEF IdsDistinct
  <1>10. ASSUME clear', NEW k \in Listed(stored)'
         PROVE  \/ KeptAt(k)'
                \/ k \in Listed(stored) /\ stored'[k] = stored[k] /\ meant'[k] = meant[k]
    <2>1. k \in Keys /\ stored'[k] # None
      BY <1>10 DEF Listed
    <2>2. CASE k \in Listed(doc)
      <3>1. stored'[k] = new[k] /\ meant'[k] = means[k] /\ Clear(doc, Foreign)
        BY <1>2, <1>5, <1>6, <1>7, <1>10, <2>1, <2>2 DEF Listed
      <3>2. /\ new[k].entity = reg[k]
            /\ new[k].text = {Result(doc, reg, k, t) : t \in doc[k].text}
            /\ new[k].vars = {Result(doc, reg, k, t) : t \in doc[k].vars}
        BY <1>3, <1>4, <2>2, <3>1, ImportKeeps DEF new
      <3>3. \A t \in Written(doc[k]) : \A j \in Claims(doc, t) : reg[j] # None
        BY <1>4, ClaimedAreListed
      <3>4. /\ means[k] # None /\ \A x \in Written(means[k]) : Denotable(reg, k, x)
            /\ new[k].text = {DenotedBy(reg, x) : x \in means[k].text}
            /\ new[k].vars = {DenotedBy(reg, x) : x \in means[k].vars}
        BY <1>3, <2>2, <3>1, <3>2, <3>3, KeptNow DEF means
      <3>5. \A x : Denoted(x)' = DenotedBy(reg, x)
        BY <1>1 DEF Denoted, DenotedBy
      <3> QED BY <1>1, <1>4, <2>2, <3>1, <3>2, <3>4, <3>5 DEF KeptAt
    <2>3. CASE k \notin Listed(doc)
      <3>1. new[k] = None /\ means[k] = None
        BY <1>5, <1>6, <2>1, <2>3 DEF Listed
      <3> QED BY <1>7, <2>1, <3>1 DEF Listed
    <2> QED BY <2>2, <2>3
  <1>11. Kept'
    BY <1>1, <1>2, <1>4, <1>10, KeptByStep DEF Stays
  <1> QED BY <1>8, <1>9, <1>11 DEF Stays

\* An import of the export: what is stored is already what it means.
LEMMA ReimportStays ==
  ASSUME RunningTypes, Stays, Reimport
  PROVE  Stays'
  <1> DEFINE doc == stored
  <1>1. PICK reg \in Registrations(doc) : registry' = reg /\ stored' = Imported(doc, reg)
    BY DEF Reimport
  <1>2. /\ clear' = (clear /\ Unmistaken /\ Clear(doc, Taken(registry)))
        /\ meant' = meant
    BY DEF Reimport
  <1>3. doc \in Documents
    BY DEF Stays, StoredTypes
  <1>4. /\ reg \in [Keys -> Ids \cup {None}]
        /\ \A k \in Keys : registry[k] # None => reg[k] = registry[k]
        /\ \A k \in Listed(doc) : reg[k] # None
        /\ \A j, k \in Keys : reg[j] # None /\ reg[j] = reg[k] => j = k
        /\ \A k \in Keys : reg[k] \notin Foreign
    BY <1>3, RegistrationsGive DEF RunningTypes, Stays
  <1> DEFINE new == Imported(doc, reg)
  <1>5. new \in Documents /\ Listed(new) = Listed(doc)
    BY <1>3, <1>4, ImportedProps
  <1>6. StoredTypes' /\ IdsDistinct'
    BY <1>1, <1>2, <1>4, <1>5 DEF Stays, StoredTypes, IdsDistinct
  <1>7. ASSUME clear', NEW k \in Listed(stored)'
        PROVE  \/ KeptAt(k)'
               \/ k \in Listed(stored) /\ stored'[k] = stored[k] /\ meant'[k] = meant[k]
    <2>1. k \in Listed(doc) /\ k \in Keys
      BY <1>1, <1>5, <1>7 DEF Listed
    <2>2. clear /\ Unmistaken /\ Clear(doc, Taken(registry)) /\ KeptAt(k)
      BY <1>2, <1>7, <2>1 DEF Stays, Kept
    <2>3. /\ new[k].entity = reg[k]
          /\ new[k].text = {Result(doc, reg, k, t) : t \in doc[k].text}
          /\ new[k].vars = {Result(doc, reg, k, t) : t \in doc[k].vars}
      BY <1>3, <1>4, <2>1, <2>2, ImportKeeps DEF new
    <2>4. doc[k].text \subseteq Tokens /\ doc[k].vars \subseteq Tokens
      BY <1>3, <2>1, DocumentProps
    <2>5. \A j \in Keys : registry[j] # None => reg[j] = registry[j]
      BY <1>4
    <2>6. ASSUME NEW t \in Written(doc[k]) PROVE Result(doc, reg, k, t) = t
      <3>1. t \in Tokens /\ \A j \in Claims(doc, t) : registry[j] = t /\ j \in Keys
        BY <1>3, <2>1, <2>2, <2>4, DocumentProps, ClaimedAreListed DEF Unmistaken, Written
      <3>2. CASE Claims(doc, t) = {}
        BY <3>2 DEF Result
      <3>3. CASE k \in Claims(doc, t)
        <4>1. registry[k] = t
          BY <3>1, <3>3
        <4>2. PICK m \in Written(meant[k]) : t = Denoted(m) /\ Denotable(registry, k, m)
          BY <2>2 DEF KeptAt, Written
        <4>3. CASE \E j \in Keys \ {k} : m = Key(j) /\ registry[j] # None
          <5>1. PICK j \in Keys \ {k} : m = Key(j) /\ registry[j] # None
            BY <4>3
          <5>2. t = registry[j]
            BY <4>2, <5>1, NamesApart DEF Denoted
          <5> QED BY <4>1, <5>1, <5>2, <2>1 DEF Stays, IdsDistinct
        <4>4. CASE m = State \/ m \in Foreign \/ (m \in Tokens /\ m[1] = Bare /\ m[2] \notin Keys)
          <5>1. t = m
            BY <4>2, <4>4, NamesApart DEF Denoted
          <5>2. registry[k] \in Ids /\ registry[k] \notin Foreign
            BY <2>1, <2>2 DEF KeptAt, RunningTypes, Stays, IdsDistinct
          <5> QED BY <4>1, <4>4, <5>1, <5>2, NamesApart
        <4> QED BY <4>2, <4>3, <4>4 DEF Denotable
      <3>4. CASE Claims(doc, t) # {} /\ k \notin Claims(doc, t)
        <4>1. (CHOOSE j \in Claims(doc, t) : TRUE) \in Claims(doc, t)
          BY <3>4
        <4>2. t # None
          BY <3>1, NamesApart
        <4> QED BY <3>1, <3>4, <4>1, <4>2, <2>5 DEF Result
      <3> QED BY <3>2, <3>3, <3>4
    <2>7. new[k].text = doc[k].text /\ new[k].vars = doc[k].vars
      BY <2>3, <2>6 DEF Written
    <2>8. ASSUME NEW m \in Written(meant[k])
          PROVE  Denotable(reg, k, m) /\ Denoted(m)' = Denoted(m)
      <3>1. Denotable(registry, k, m)
        BY <2>2 DEF KeptAt
      <3>2. m[1] = Bare /\ m[2] \in Keys => reg[m[2]] = registry[m[2]]
        BY <2>5, <3>1, NamesApart DEF Denotable
      <3> QED BY <1>1, <2>5, <3>1, <3>2 DEF Denotable, Denoted
    <2>9. /\ {Denoted(m)' : m \in meant[k].text} = {Denoted(m) : m \in meant[k].text}
          /\ {Denoted(m)' : m \in meant[k].vars} = {Denoted(m) : m \in meant[k].vars}
      BY <2>8 DEF Written
    <2>10. stored'[k] = new[k] /\ meant'[k] = meant[k] /\ registry'[k] = reg[k]
      BY <1>1, <1>2
    <2> HIDE DEF new, doc
    <2> QED BY <1>1, <1>4, <2>1, <2>2, <2>3, <2>7, <2>8, <2>9, <2>10 DEF KeptAt, doc
  <1>8. Kept'
    BY <1>1, <1>2, <1>4, <1>7, KeptByStep DEF Stays
  <1> QED BY <1>6, <1>8 DEF Stays

\* Home Assistant gives the sensor it adds a free entity id, or keeps its own.
LEMMA HassAddsGives ==
  ASSUME IInv, Stays, NEW k \in Keys, HassAdds(k)
  PROVE  /\ \A j \in Keys : registry[j] # None => registry'[j] = registry[j]
         /\ IdsDistinct'
  <1>1. PICK e \in Given(registry, k, Suggested(k, managed[k].entry)) :
          registry' = [registry EXCEPT ![k] = e]
    BY DEF HassAdds
  <1>2. registry \in [Keys -> Ids \cup {None}] /\ managed[k].entry \in Entries
    BY DEF HassAdds, IInv, HandedAreManaged, RunningTypes, Running
  <1>3. e \in Ids /\ (registry[k] # None => e = registry[k])
    BY <1>2, GivenType, SuggestedType
  <1>4. registry[k] = None => e \notin Foreign /\ \A j \in Keys : registry[j] # e
    BY GivenFresh
  <1>5. \A j \in Keys : registry'[j] = IF j = k THEN e ELSE registry[j]
    BY <1>1, <1>2
  <1>6. IdsDistinct'
    BY <1>3, <1>4, <1>5 DEF IdsDistinct, Stays
  <1> QED BY <1>3, <1>5, <1>6

\* What the completion stores has the entity ids there are.
LEMMA CompletionStays ==
  ASSUME IInv, Stays, NEW k \in Keys, HassAdds(k), AllDone(k)
  PROVE  Stays'
  <1>1. PICK ids \in [Keys -> Ids \cup {None}] : ids = entityOf'
    BY CompletionHasIds
  <1>2. PICK doc \in Docs : doc = original.doc
    BY CompletionHasIds
  <1>3. doc \in Documents
    BY CrossConstants DEF Documents
  <1>4. PICK reg \in [Keys -> Ids \cup {None}] : reg = registry'
    BY CompletionHasIds
  <1>5. /\ \A j \in Keys : registry[j] # None => reg[j] = registry[j]
        /\ \A i, j \in Keys : reg[i] # None /\ reg[i] = reg[j] => i = j
        /\ IdsDistinct'
    BY <1>4, HassAddsGives DEF IdsDistinct
  <1> DEFINE result == Resolved(doc, KeysOnly(ids))
             means == MeaningsOf(doc)
             P == Persisted(doc)
  <1>6. /\ stored' = [j \in Keys |-> IF j \in P THEN result[j] ELSE stored[j]]
        /\ meant' = [j \in Keys |-> IF j \in P THEN means[j] ELSE meant[j]]
        /\ clear' = (clear /\ (P # {} => Plain(doc, ids)))
    BY <1>1, <1>2 DEF HassAdds, PhaseThree
  <1>7. \A j \in P : j \in Listed(doc) /\ j \in Keys /\ j \in Listed(stored)
    <2>1. TAKE j \in P
    <2>2. j \in Listed(doc) /\ j \in Keys /\ Rank[j] <= Rank[j]
      BY ReferencesConstants DEF Persisted, Listed
    <2> QED BY <2>2 DEF Persisted, Listed
  <1>8. \A j \in Listed(doc) : result[j] \in Entries
    <2>1. TAKE j \in Listed(doc)
    <2>2. j \in Keys /\ doc[j] \in Entries /\ doc[j] # None
      BY <1>3, DocumentProps DEF Listed
    <2>3. KeysOnly(ids) \in Mappings
      BY KeysOnlyType
    <2> QED BY <2>2, <2>3, ResolvedEntryProps DEF Resolved
  <1>9. means \in [Keys -> Meanings \cup {None}]
    BY <1>3, MeaningsType
  <1>10. \A j \in P : clear' =>
           LET entry == result[j]
               m == means[j]
           IN  /\ reg[j] # None /\ m # None
               /\ \A x \in Written(m) : Denotable(reg, j, x)
               /\ entry.entity = reg[j]
               /\ entry.text = {DenotedBy(reg, x) : x \in m.text}
               /\ entry.vars = {DenotedBy(reg, x) : x \in m.vars}
    <2>1. SUFFICES ASSUME NEW j \in P, clear'
                   PROVE  LET entry == result[j]
                              m == means[j]
                          IN  /\ reg[j] # None /\ m # None
                              /\ \A x \in Written(m) : Denotable(reg, j, x)
                              /\ entry.entity = reg[j]
                              /\ entry.text = {DenotedBy(reg, x) : x \in m.text}
                              /\ entry.vars = {DenotedBy(reg, x) : x \in m.vars}
      OBVIOUS
    <2>2. clear /\ Plain(doc, ids) /\ Clear(doc, Foreign)
      BY <1>6, <2>1 DEF Plain
    <2>3. ids[j] = reg[j]
      BY <1>4, <2>2 DEF Plain
    <2>4. \A t \in Written(doc[j]) :
            /\ \A i \in Claims(doc, t) \ {j} : t = Key(i) /\ ids[i] = reg[i] /\ ids[i] # None
            /\ j \in Claims(doc, t) => t \in {Key(j), Own(j)}
            /\ t[2] \in Keys => Claims(doc, t) # {}
      BY <1>4, <2>2 DEF Plain, Written
    <2>5. reg[j] # None
      BY <1>5, <1>7, <2>2 DEF Stays, Kept, KeptAt
    <2>6. j \in Listed(doc)
      BY <1>7
    <2>7. \A t \in Written(doc[j]) : \A i \in Claims(doc, t) : reg[i] # None
      BY <2>4, <2>5
    <2>8. /\ result[j].entity = reg[j]
          /\ result[j].text = {Result(doc, reg, j, t) : t \in doc[j].text}
          /\ result[j].vars = {Result(doc, reg, j, t) : t \in doc[j].vars}
      <3>1. PlainAt(doc, ids, reg, j)
        BY <1>5, <2>2, <2>3, <2>4, <2>5, <2>6 DEF PlainAt
      <3> QED BY <1>3, <3>1, CompletionKeeps
    <2>9. /\ means[j] # None /\ \A x \in Written(means[j]) : Denotable(reg, j, x)
          /\ {Result(doc, reg, j, t) : t \in doc[j].text} = {DenotedBy(reg, x) : x \in means[j].text}
          /\ {Result(doc, reg, j, t) : t \in doc[j].vars} = {DenotedBy(reg, x) : x \in means[j].vars}
      BY <1>3, <2>2, <2>6, <2>7, KeptNow
    <2> HIDE DEF result, means, P
    <2> QED BY <2>5, <2>8, <2>9
  <1> HIDE DEF result, means, P
  <1>11. StoredTypes'
    BY <1>6, <1>7, <1>8, <1>9 DEF Stays, StoredTypes, Documents, Plain
  <1>12. ASSUME clear', NEW j \in Listed(stored)'
         PROVE  \/ KeptAt(j)'
                \/ j \in Listed(stored) /\ stored'[j] = stored[j] /\ meant'[j] = meant[j]
    <2>1. j \in Keys /\ stored'[j] # None
      BY <1>12 DEF Listed
    <2>2. CASE j \in P
      <3>1. stored'[j] = result[j] /\ meant'[j] = means[j] /\ registry'[j] = reg[j]
        BY <1>4, <1>6, <2>1, <2>2
      <3>2. \A x : Denoted(x)' = DenotedBy(reg, x)
        BY <1>4 DEF Denoted, DenotedBy
      <3> QED BY <1>4, <1>10, <1>12, <2>2, <3>1, <3>2 DEF KeptAt
    <2>3. CASE j \notin P
      BY <1>6, <2>1, <2>3 DEF Listed
    <2> QED BY <2>2, <2>3
  <1>13. Kept'
    BY <1>4, <1>5, <1>6, <1>12, KeptByStep DEF Stays
  <1> QED BY <1>5, <1>11, <1>13 DEF Stays

\* A step that stores nothing.
LEMMA UnstoredStays ==
  ASSUME Stays, IdsDistinct', UNCHANGED <<stored, ghosts>>,
         \A j \in Keys : registry[j] # None => registry'[j] = registry[j]
  PROVE  Stays'
  <1>1. stored' = stored /\ meant' = meant /\ clear' = clear
    BY DEF ghosts
  <1>2. StoredTypes'
    BY <1>1 DEF Stays, StoredTypes
  <1>3. Listed(stored)' = Listed(stored)
    BY <1>1 DEF Listed
  <1>4. Kept'
    BY <1>1, <1>3, KeptByStep DEF Stays
  <1> QED BY <1>2, <1>4 DEF Stays

LEMMA HassAddsStays ==
  ASSUME IInv, Stays, NEW k \in Keys, HassAdds(k)
  PROVE  Stays'
  <1>1. CASE AllDone(k)
    BY <1>1, CompletionStays
  <1>2. CASE ~AllDone(k)
    <2>1. UNCHANGED <<stored, ghosts>>
      BY <1>2 DEF HassAdds
    <2> QED BY <2>1, HassAddsGives, UnstoredStays
  <1> QED BY <1>1, <1>2

\* A renaming, in one stored sensor.
LEMMA RenamedProps ==
  ASSUME NEW entry \in Entries, NEW old, NEW new \in Ids
  PROVE  /\ Renamed(entry, old, new) \in Entries
         /\ Renamed(entry, old, new).entity = IF entry.entity = old THEN new ELSE entry.entity
         /\ Renamed(entry, old, new).text = {RenamedInText(t, old, new) : t \in entry.text}
         /\ Renamed(entry, old, new).vars = {IF t = old THEN new ELSE t : t \in entry.vars}
  <1>1. Garbled \in Tokens /\ new \in Tokens /\ entry # None
    BY NamesApart, ReferencesConstants DEF Garbled, Tokens
  <1>2. \A t \in entry.text : RenamedInText(t, old, new) \in Tokens
    BY <1>1 DEF RenamedInText, Entries
  <1>3. \A t \in entry.vars : (IF t = old THEN new ELSE t) \in Tokens
    BY <1>1 DEF Entries
  <1>4. /\ {RenamedInText(t, old, new) : t \in entry.text} \subseteq Tokens
        /\ {IF t = old THEN new ELSE t : t \in entry.vars} \subseteq Tokens
    BY <1>2, <1>3
  <1> QED BY <1>1, <1>4 DEF Renamed, Entries

\* What was meant is denoted by the new entity id, or as before.
LEMMA RenamedDenotes ==
  ASSUME registry \in [Keys -> Ids \cup {None}], IdsDistinct, NEW k \in Keys, NEW new \in Ids,
         registry[k] # None, registry' = [registry EXCEPT ![k] = new],
         NEW j \in Keys, NEW m, Denotable(registry, j, m)
  PROVE  /\ Denoted(m)' = IF Denoted(m) = registry[k] THEN new ELSE Denoted(m)
         /\ Denotable(registry', j, m)
  <1>1. \A i \in Keys : registry'[i] = IF i = k THEN new ELSE registry[i]
    OBVIOUS
  <1>2. new # None /\ registry[k] \in Ids /\ registry[k] \notin Foreign
    BY NamesApart DEF IdsDistinct
  <1>3. CASE \E i \in Keys \ {j} : m = Key(i) /\ registry[i] # None
    <2>1. PICK i \in Keys \ {j} : m = Key(i) /\ registry[i] # None
      BY <1>3
    <2>2. Denoted(m) = registry[i] /\ Denoted(m)' = registry'[i]
      BY <2>1, NamesApart DEF Denoted
    <2>3. registry[i] = registry[k] => i = k
      BY <2>1 DEF IdsDistinct
    <2>4. registry'[i] # None
      BY <1>1, <1>2, <2>1
    <2> QED BY <1>1, <2>1, <2>2, <2>3, <2>4 DEF Denotable
  <1>4. CASE m = State \/ m \in Foreign \/ (m \in Tokens /\ m[1] = Bare /\ m[2] \notin Keys)
    <2>1. Denoted(m) = m /\ Denoted(m)' = m
      BY <1>4, NamesApart DEF Denoted
    <2>2. m # registry[k]
      BY <1>2, <1>4, NamesApart
    <2> QED BY <1>4, <2>1, <2>2 DEF Denotable
  <1> QED BY <1>3, <1>4 DEF Denotable

\* A renaming leaves the sensors the others, and rewrites what was meant.
LEMMA RenameStays ==
  ASSUME IInv, Stays, NEW k \in Keys, NEW new \in NewIds, Rename(k, new)
  PROVE  Stays'
  <1> DEFINE old == registry[k]
  <1>1. /\ registry' = [registry EXCEPT ![k] = new] /\ meant' = meant
        /\ stored' = [j \in Keys |-> Renamed(stored[j], old, new)]
        /\ clear' = (clear /\ \A j \in Listed(stored') : Garbled \notin stored'[j].text)
        /\ registry[k] # None /\ new \notin Taken(registry)
    BY DEF Rename
  <1>2. new \in Ids /\ new \notin Foreign /\ \A j \in Keys : registry[j] # new
    BY <1>1, CrossConstants DEF Taken
  <1>3. registry \in [Keys -> Ids \cup {None}] /\ stored \in Documents /\ IdsDistinct
    BY DEF IInv, RunningTypes, Stays, StoredTypes
  <1>4. \A j \in Keys : registry'[j] = IF j = k THEN new ELSE registry[j]
    BY <1>1, <1>3
  <1>5. IdsDistinct'
    BY <1>2, <1>3, <1>4 DEF IdsDistinct
  <1>6. /\ \A j \in Listed(stored) : stored[j] \in Entries /\ stored'[j] = Renamed(stored[j], old, new)
        /\ \A j \in Keys \ Listed(stored) : stored'[j] = None
    BY <1>1, <1>3, DocumentProps DEF Renamed
  <1>7. \A j \in Listed(stored) : stored'[j] \in Entries
    BY <1>2, <1>6, RenamedProps
  <1>8. StoredTypes' /\ Listed(stored)' = Listed(stored)
    <2>1. \A j \in Keys : stored'[j] \in Entries \cup {None}
      BY <1>6, <1>7
    <2>2. stored' \in Documents
      BY <1>1, <2>1 DEF Documents
    <2>3. Listed(stored') = Listed(stored)
      BY <1>6, <1>7, ReferencesConstants DEF Listed
    <2> QED BY <1>1, <2>2, <2>3 DEF Stays, StoredTypes
  <1>9. ASSUME clear', NEW j \in Listed(stored)
        PROVE  KeptAt(j)'
    <2>1. clear /\ KeptAt(j) /\ j \in Keys /\ Garbled \notin stored'[j].text
      BY <1>1, <1>8, <1>9 DEF Stays, Kept, Listed
    <2>2. \A m \in Written(meant[j]) :
            /\ Denoted(m)' = IF Denoted(m) = old THEN new ELSE Denoted(m)
            /\ Denotable(registry', j, m)
      BY <1>1, <1>2, <1>3, <2>1, RenamedDenotes DEF KeptAt
    <2>3. /\ stored'[j].entity = IF stored[j].entity = old THEN new ELSE stored[j].entity
          /\ stored'[j].text = {RenamedInText(t, old, new) : t \in stored[j].text}
          /\ stored'[j].vars = {IF t = old THEN new ELSE t : t \in stored[j].vars}
      BY <1>2, <1>6, RenamedProps
    <2>4. \A t \in stored[j].text : RenamedInText(t, old, new) = IF t = old THEN new ELSE t
      BY <2>1, <2>3 DEF RenamedInText
    <2>5. /\ stored'[j].text = {Denoted(m)' : m \in meant[j].text}
          /\ stored'[j].vars = {Denoted(m)' : m \in meant[j].vars}
      <3>1. /\ stored'[j].text = {IF t = old THEN new ELSE t : t \in {Denoted(m) : m \in meant[j].text}}
            /\ stored'[j].vars = {IF t = old THEN new ELSE t : t \in {Denoted(m) : m \in meant[j].vars}}
        BY <2>1, <2>3, <2>4 DEF KeptAt
      <3>2. /\ \A m \in meant[j].text : Denoted(m)' = IF Denoted(m) = old THEN new ELSE Denoted(m)
            /\ \A m \in meant[j].vars : Denoted(m)' = IF Denoted(m) = old THEN new ELSE Denoted(m)
        BY <2>2 DEF Written
      <3> QED BY <3>1, <3>2
    <2>6. stored'[j].entity = registry'[j] /\ registry'[j] # None
      BY <1>2, <1>3, <1>4, <2>1, <2>3, NamesApart DEF KeptAt, IdsDistinct
    <2> QED BY <1>1, <2>1, <2>2, <2>5, <2>6 DEF KeptAt
  <1>10. Kept'
    BY <1>8, <1>9 DEF Kept
  <1> QED BY <1>5, <1>8, <1>10 DEF Stays

LEMMA InitStays == Init => Stays
  BY NamesApart, CrossConstants DEF Init, Stays, StoredTypes, Documents, IdsDistinct, Kept, Listed

\* The inductive invariant of what is stored.
LEMMA StaysInductive == IInv /\ Stays /\ [Next]_vars => Stays'
  <1> SUFFICES ASSUME IInv, Stays, [Next]_vars PROVE Stays'
    OBVIOUS
  <1>1. ASSUME UNCHANGED <<registry, stored, ghosts>> PROVE Stays'
    <2>1. IdsDistinct'
      BY <1>1 DEF Stays, IdsDistinct
    <2> QED BY <1>1, <2>1, UnstoredStays
  <1>2. CASE \E doc \in Docs : Create(doc)
    BY <1>1, <1>2 DEF Create
  <1>3. CASE \E doc \in Docs, replace \in BOOLEAN : Import(doc, replace)
    BY <1>3, ImportStays DEF IInv
  <1>4. CASE Reimport
    BY <1>4, ReimportStays DEF IInv
  <1>5. CASE Restart
    BY <1>1, <1>5 DEF Restart
  <1>6. CASE \E k \in Keys : HassAdds(k)
    BY <1>6, HassAddsStays
  <1>7. CASE \E k \in Keys : HassRejects(k)
    BY <1>1, <1>7 DEF HassRejects
  <1>8. CASE \E k \in Keys, new \in NewIds : Rename(k, new)
    BY <1>8, RenameStays
  <1>9. CASE UNCHANGED vars
    BY <1>1, <1>9 DEF vars
  <1> QED BY <1>2, <1>3, <1>4, <1>5, <1>6, <1>7, <1>8, <1>9 DEF Next

\* What is bounded, and what has been completed.
Bounded ==
  /\ completed \subseteq Keys /\ renames \in 0..MaxRenames
  /\ newest \in [round : 0..MaxRounds, refers : BOOLEAN]

LEMMA InitBounded == Init => Bounded
  BY CrossConstants DEF Init, Bounded

LEMMA BoundedStep ==
  ASSUME IInv, Bounded, [Next]_vars
  PROVE  Bounded'
  <1>1. CASE \E doc \in Docs : Create(doc)
    <2>1. PICK doc \in Docs : Create(doc)
      BY <1>1
    <2>2. newest.round \in 0..MaxRounds /\ newest.round < MaxRounds
      BY <2>1 DEF Create, Bounded
    <2>3. Round \in 0..MaxRounds
      BY <2>2, CrossConstants DEF Round
    <2>4. newest' = [round |-> Round, refers |-> Needed(doc) # {}]
      BY <2>1 DEF Create
    <2>5. (Needed(doc) # {}) \in BOOLEAN
      OBVIOUS
    <2> HIDE DEF Needed
    <2> QED BY <2>1, <2>3, <2>4, <2>5 DEF Create, Bounded
  <1>2. CASE \E doc \in Docs, replace \in BOOLEAN : Import(doc, replace)
    BY <1>2 DEF Import, manager, Bounded
  <1>3. CASE Reimport
    BY <1>3 DEF Reimport, manager, Bounded
  <1>4. CASE Restart
    BY <1>4 DEF Restart, Bounded
  <1>5. CASE \E k \in Keys : HassAdds(k)
    BY <1>5 DEF HassAdds, Bounded
  <1>6. CASE \E k \in Keys : HassRejects(k)
    BY <1>6 DEF HassRejects, Bounded
  <1>7. CASE \E k \in Keys, new \in NewIds : Rename(k, new)
    BY <1>7, CrossConstants DEF Rename, Bounded
  <1>8. CASE UNCHANGED vars
    BY <1>8 DEF vars, manager, Bounded
  <1> QED BY <1>1, <1>2, <1>3, <1>4, <1>5, <1>6, <1>7, <1>8 DEF Next
-----------------------------------------------------------------------------
(* Theorems *)

\* Every variable has its type.
THEOREM TypesHold == Spec => []TypeOK
  <1>1. Init => IInv /\ Stays /\ Bounded
    BY InitHolds, InitStays, InitBounded
  <1>2. IInv /\ Stays /\ Bounded /\ [Next]_vars => (IInv /\ Stays /\ Bounded)'
    BY Inductive, StaysInductive, BoundedStep
  <1>3. IInv /\ Stays /\ Bounded => TypeOK
    BY DEF IInv, RunningTypes, Stays, StoredTypes, Documents, Bounded, TypeOK
  <1> QED BY <1>1, <1>2, <1>3, PTL DEF Spec

\* For any documents, in any order of imports, exports, rounds and renamings: every
\* stored reference is the entity id that the sensor it was meant for has now, and a
\* self-reference is the state token, as long as nothing could mean two things.
THEOREM ReferencesHold == Spec => []ReferencesKept
  <1>1. Stays => ReferencesKept
    BY DEF Stays, Kept, KeptAt, ReferencesKept
  <1> QED BY <1>1, InitHolds, Inductive, InitStays, StaysInductive, PTL DEF Spec

\* In any number of rounds, with imports, renamings, sensors that are handed twice
\* and restarts of the manager: what Home Assistant has added has told the manager
\* the entity id it has now, and what a round waits for is known once it is no
\* longer pending.
THEOREM RegistrationsHold == Spec => [](LiveAreKnown /\ PendingIsSound)
  <1>1. IInv => LiveAreKnown /\ PendingIsSound
    BY DEF IInv
  <1> QED BY <1>1, InitHolds, Inductive, PTL DEF Spec

\* When the last entity id arrives, every running sensor of the document has its
\* formulas rewritten with the ids of its references, and none is put back to an
\* older configuration unless a later document had no references.
THEOREM CompletionHolds == Spec => CompletionResolves
  <1> DEFINE Good ==
        \A last \in Keys : Completion(last) =>
          \A k \in Listed(original.doc) : managed[k] # None =>
            /\ newest.refers => managed'[k].round >= managed[k].round
            /\ managed'[k].entry.text \cap {Key(j) : j \in Listed(original.doc)} = {}
            /\ \A j \in Detected(original.doc)[k] \ {k} :
                 j \in live' => registry'[j] \in managed'[k].entry.text
  <1>1. IInv => Good
    BY CompletionStep
  <1>2. IInv /\ [Next]_vars => [Good]_vars
    BY <1>1
  <1> HIDE DEF Good
  <1>3. Spec => [][Good]_vars
    BY <1>2, InitHolds, Inductive, PTL DEF Spec
  <1> QED BY <1>3 DEF CompletionResolves, Good
=============================================================================
