-------------------------- MODULE MCSensorManager --------------------------
(***************************************************************************)
(* An instance of SensorManager with two sensors.  Home Assistant may give *)
(* "a" another entity id than its configuration asks for, that of "b" is   *)
(* built from a device's name.  Each reads the entity behind the other's   *)
(* state token; the one behind that of "a" is not of the domain sensor, so *)
(* it is unregistered with "a" although a variable of "b" names it.  What  *)
(* the provider does not have, "hass", is no backing entity.               *)
(***************************************************************************)
EXTENDS SensorManager

MCEntityIds == {"a1", "a2", "b1"}
MCAssigns == [e \in MCEntityIds |-> IF e = "a1" THEN {"a1", "a2"} ELSE {e}]
MCFormulas == {"f", "g"}
MCBackings == {"meter", "panel", "relay"}
MCVariables ==
  [u \in Uids |-> IF u = "a" THEN {"meter", "hass"} ELSE {"relay", "panel"}]
MCSensorDomain == {"meter", "panel", "hass"}
MCStateOf == [u \in Uids |-> IF u = "a" THEN "relay" ELSE "meter"]

On(e, f) == [enabled |-> TRUE, entity |-> e, formula |-> f]
Off(e, f) == [enabled |-> FALSE, entity |-> e, formula |-> f]
Config(x, y) == [u \in Uids |-> IF u = "a" THEN x ELSE y]

\* Both sensors; other ids and formulas; one of them disabled; one of them
\* dropped and the other disabled; no sensor.
Both == Config(On("a1", "f"), On("b1", "f"))
Other == Config(On("a2", "g"), On("b1", "f"))
OneOff == Config(On("a1", "f"), Off("b1", "f"))
NoneOn == Config(Off("a1", "f"), None)
Empty == Config(None, None)

MCConfigs == {Both, Other, OneOff, NoneOn, Empty}
=============================================================================
