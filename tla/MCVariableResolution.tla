------------------------ MODULE MCVariableResolution ------------------------
(* Four sensors that read three entities and an attribute. *)
EXTENDS VariableResolution

CONSTANTS meter, solar, volts, total, share, power, grid

MCSensors == {total, share, power, grid}
MCEntities == {meter, solar, volts}
Literal(n) == [kind |-> "literal", of |-> n]
Entity(e) == [kind |-> "entity", of |-> e]
Attribute(e) == [kind |-> "attribute", of |-> e]
Sensor(s) == [kind |-> "sensor", of |-> s]

MCObserved ==
  [e \in MCEntities |-> IF e = meter THEN Readings
                        ELSE IF e = solar THEN {"number", "unavailable", "unknown", "missing"}
                        ELSE {"number", "missing", "unknown"}]

\* The names a, b and c are variables, d and e computed ones, u is never defined.
MCNames == {"a", "b", "c", "d", "e", "u"}

MCVariables ==
  [s \in MCSensors |->
     CASE s = total -> <<[name |-> "a", value |-> Entity(meter)],
                         [name |-> "b", value |-> Literal("b")]>>
       [] s = share -> <<[name |-> "a", value |-> Entity(solar)]>>
       [] s = power -> <<[name |-> "a", value |-> Entity(meter)]>>
       [] OTHER     -> <<>>]

\* share's first computed variable needs its second, and the third has the text
\* of the first.
MCComputed ==
  [s \in MCSensors |->
     CASE s = total -> <<[name |-> "d", formula |-> <<NameOf("a"), NameOf("b")>>],
                         [name |-> "e", formula |-> <<NameOf("d"), Entity(solar)>>]>>
       [] s = share -> <<[name |-> "e", formula |-> <<NameOf("d"), NameOf("a")>>],
                         [name |-> "d", formula |-> <<NameOf("a")>>],
                         [name |-> "c", formula |-> <<NameOf("d"), NameOf("a")>>]>>
       [] OTHER     -> <<>>]

MCFormula ==
  [s \in MCSensors |->
     CASE s = total -> <<NameOf("e"), NameOf("b")>>
       [] s = share -> <<NameOf("c"), NameOf("d")>>
       [] s = power -> <<NameOf("a")>>
       [] OTHER     -> <<Entity(solar), State, Sensor(grid), Attribute(volts)>>]

MCOwnState == [s \in MCSensors |-> IF s = grid THEN meter ELSE Nothing]

MCHandlers ==
  [s \in MCSensors |->
     CASE s = total -> [none |-> "number", unknown |-> "text", unavailable |-> "number", fallback |-> Absent]
       [] s = power -> [none |-> Absent, unknown |-> "number", unavailable |-> Absent, fallback |-> "text"]
       [] s = grid  -> [none |-> "fails", unknown |-> "number", unavailable |-> "number", fallback |-> Absent]
       [] OTHER     -> NoHandler]

MCGlobalSettings == {{}, {"b"}, {"a", "d"}}
=============================================================================
