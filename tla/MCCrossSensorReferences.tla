---------------------- MODULE MCCrossSensorReferences ----------------------
(***************************************************************************)
(* An instance of CrossSensorReferences with two sensors.  The entity id   *)
(* sensor.a is another integration's, so that "a" becomes sensor.a_2.      *)
(***************************************************************************)
EXTENDS CrossSensorReferences

MCVariants == [n \in Names |-> CASE n = "a" -> {"a_2", "a_3"} [] n = "b" -> {"b_2"} [] n = "hall" -> {"hall_2"} [] OTHER -> {}]
MCRank == [k \in Keys |-> IF k = "a" THEN 2 ELSE 1]
MCForeign == {<<"sensor", "a">>, <<"cover", "door">>}
MCNewIds == {<<"sensor", "b">>, <<"sensor", "door">>}
MCPrefixOf == {<<"a", "a_2">>}

Entry(e, text, values, on) == [entity |-> e, text |-> text, vars |-> values, enabled |-> on]
Doc(x, y) == [k \in Keys |-> IF k = "a" THEN x ELSE y]

\* The sensors refer to each other and to themselves, by key and by entity id.
Mutual == Doc(Entry(None, {Key("b"), Own("a")}, {Own("a")}, TRUE),
              Entry(<<"sensor", "hall">>, {Key("a"), <<"sensor", "hall">>}, {Key("a")}, TRUE))
\* "b" refers to "a" by the entity id "a" would have, and to a foreign entity.
ById == Doc(Entry(None, {}, {<<"cover", "door">>}, TRUE),
            Entry(None, {Own("a"), <<"cover", "door">>}, {Own("a")}, TRUE))
\* A sensor with a reference to a disabled one, and one alone.
Partial == Doc(Entry(None, {}, {Key("b")}, FALSE), Entry(None, {Key("a")}, {}, TRUE))
Alone == Doc(None, Entry(None, {<<"cover", "door">>}, {}, TRUE))

MCDocs == {Mutual, ById, Partial, Alone}
=============================================================================
