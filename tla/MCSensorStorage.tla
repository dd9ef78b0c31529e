-------------------------- MODULE MCSensorStorage --------------------------
(***************************************************************************)
(* Small instances of SensorStorage for TLC.                               *)
(***************************************************************************)
EXTENDS SensorStorage

CONSTANTS u1, u2, s1, s2, c1, c2, l1, l2, A, B, C, v

\* One variable is enough for every conflict and every reference.
To(e) == (v :> e)

Cfg(own, e) == [entity_id |-> own, variables |-> To(e), formula |-> {}]

ConfigA   == {Cfg(Absent, A)}
ConfigsAB == {Cfg(Absent, A), Cfg(Absent, B)}

NoGlobals == {To(Absent)}
GlobalsAB == {To(Absent), To(A), To(B)}

NoPrefixes == {}

NoBatches == {}
OneBatch == {[u \in {u1, u2} |-> IF u = u1 THEN Cfg(Absent, A) ELSE Absent]}

NoModifications == {}
Modify(g, r, gone, upd, add) ==
  [globals |-> g, rename |-> r, remove |-> gone, update |-> upd, add |-> add]
Nobody == [u \in Uids |-> Absent]
Only(u, c) == [Nobody EXCEPT ![u] = c]
AToB == [old |-> A, new |-> B]
SomeModifications ==
  {Modify(Absent, Absent, {u1}, Nobody, Only(u2, Cfg(Absent, A))),
   Modify(Absent, AToB, {}, Nobody, Nobody),
   Modify(To(B), AToB, {}, Only(u1, Cfg(A, Absent)), Nobody),
   Modify(To(A), Absent, {u2}, Nobody, Nobody)}

NoImports == {}
SomeImports ==
  {[globals |-> To(A), sensors |-> Only(u1, Cfg(Absent, A)), replace |-> TRUE],
   [globals |-> To(Absent), sensors |-> [u \in Uids |-> Cfg(Absent, B)], replace |-> FALSE]}

\* Of one of them the second sensor may be rejected after the first is stored.
IndexImports ==
  SomeImports \cup
    {[globals |-> To(Absent), replace |-> FALSE,
      sensors |-> [u \in Uids |-> IF u = u1 THEN Cfg(B, Absent) ELSE Cfg(Absent, B)]]}
=============================================================================
