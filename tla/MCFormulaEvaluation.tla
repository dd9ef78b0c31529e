------------------------ MODULE MCFormulaEvaluation ------------------------
(***************************************************************************)
(* Small instances of FormulaEvaluation for TLC.                           *)
(***************************************************************************)
EXTENDS FormulaEvaluation

CONSTANTS
  sensor, second, \* main formulas of two sensors
  plain,          \* reads its context only
  area,           \* a collection function over an area
  rated,          \* names a global variable
  loop,           \* refers to itself
  typo,           \* a syntax error
  e1, e2, v1, v2, ctx, rate

Itself == [f \in Formulas |-> f]

\* Two formulas by one name, and the texts of the service under one id and name.
OneName == [f \in Formulas |-> IF f = loop THEN typo ELSE f]
Texts == [f \in Formulas |-> IF f \in {area, rated} THEN plain ELSE f]

ReadsOne == [f \in Formulas |-> IF f \in {sensor, second} THEN {e1} ELSE {}]
ReadsEach ==
  [f \in Formulas |-> IF f = sensor THEN {e1} ELSE IF f = second THEN {e2} ELSE {}]
SecondsAreNamed ==
  [f \in Formulas |-> IF f = sensor THEN {} ELSE Reads[f]]

AreaHides == [f \in Formulas |-> IF f = area THEN {e2} ELSE {}]
NothingHidden == [f \in Formulas |-> {}]

NoGlobals == {{}}
RateMaySet == {{}, {<<rate, v1>>}}

Anything == Values \cup {Missing, Unavailable, Invalid}
=============================================================================
