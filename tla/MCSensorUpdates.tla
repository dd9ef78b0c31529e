-------------------------- MODULE MCSensorUpdates --------------------------
(***************************************************************************)
(* Instances of SensorUpdates: "a" reads an entity; "b" reads "a" under an *)
(* entity id that is its key, and once it is made again it names "a" by    *)
(* the key and has configured an entity id that the entity has already.    *)
(***************************************************************************)
EXTENDS SensorUpdates

MCOnce == [u \in Uids |-> 1]
MCMaxMade == [u \in Uids |-> IF u = "a" THEN 1 ELSE 2]

MCUses == [o \in Objects |-> IF o[1] = "a" THEN {"meter"} ELSE {}]
MCReads == [o \in Objects |-> IF o = <<"b", 1>> THEN {"a"} ELSE {}]
MCNamed == [o \in Objects |-> IF o = <<"b", 2>> THEN {"a"} ELSE {}]
MCOwn == [o \in Objects |-> IF o = <<"b", 2>> THEN "meter" ELSE o[1]]

MCResult(o, read) == IF o[1] = "a" THEN read["meter"] ELSE IF o[2] = 1 THEN read["a"] ELSE 0
=============================================================================
