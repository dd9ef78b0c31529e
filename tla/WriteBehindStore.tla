-------------------------- MODULE WriteBehindStore --------------------------
(***************************************************************************)
(* What the storage layer promises about persistence, and nothing else:    *)
(* contents live in memory; a write takes a copy of the memory, one write  *)
(* at a time, and lands as a whole or not at all; after a crash the memory *)
(* is exactly what the last write that landed had copied; and what has     *)
(* been promised to a caller as saved is never behind what is stable.      *)
(***************************************************************************)
EXTENDS Integers

CONSTANTS
  Contents,  \* what can be stored: records with a version
  Initial,   \* the contents of an empty store
  None       \* no write is under way

VARIABLES
  mem,       \* the contents in memory
  pending,   \* the copy being written, or None
  stable,    \* the contents that survive a crash
  promised   \* the newest version that callers were told is saved

wvars == <<mem, pending, stable, promised>>

WInit ==
  /\ mem = Initial /\ stable = Initial
  /\ pending = None
  /\ promised = Initial.version

\* New contents are newer than the ones they replace.
Mutated == mem' \in Contents /\ mem'.version > mem.version

Mutate == Mutated /\ UNCHANGED <<pending, stable, promised>>

\* A write starts with what is in memory, possibly just changed.
BeginWrite ==
  /\ pending = None
  /\ Mutated \/ UNCHANGED mem
  /\ pending' = mem'
  /\ UNCHANGED <<stable, promised>>

\* The write lands.  Callers may be told of anything it contains.
CompleteWrite ==
  /\ pending # None
  /\ stable' = pending /\ pending' = None
  /\ promised' \in promised .. (IF promised > pending.version THEN promised ELSE pending.version)
  /\ UNCHANGED mem

AbortWrite == pending # None /\ pending' = None /\ UNCHANGED <<mem, stable, promised>>

Crash == mem' = stable /\ pending' = None /\ UNCHANGED <<stable, promised>>

WNext == Mutate \/ BeginWrite \/ CompleteWrite \/ AbortWrite \/ Crash

WSpec == WInit /\ [][WNext]_wvars
=============================================================================
