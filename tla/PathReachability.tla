-------------------------- MODULE PathReachability --------------------------
(***************************************************************************)
(* What a property path p* or p+ of SPARQL from a fixed subject promises:  *)
(* a stream of terms that can be reached, that ends only when all of them  *)
(* were delivered, or an error.  SPARQL calls this ALP (arbitrary length   *)
(* path); p* starts from the subject, p+ from the terms one step away.     *)
(***************************************************************************)
CONSTANTS Terms,    \* the terms of the data
          Next,     \* [Terms -> SUBSET Terms]: one step of the path p
          Subject

VARIABLES emitFirstSubject,  \* TRUE for p*, FALSE for p+
          delivered,         \* the terms the consumer has read
          outcome            \* "running", "ended" or "failed"

absVars == <<emitFirstSubject, delivered, outcome>>

(* The least set that holds S and is closed under one more step. *)
ReachableFrom(S) ==
  {t \in Terms : \A C \in SUBSET Terms :
                   S \subseteq C /\ (\A c \in C : Next[c] \subseteq C) => t \in C}

Solutions ==
  ReachableFrom(IF emitFirstSubject THEN {Subject} ELSE Next[Subject])

AbsInit ==
  /\ emitFirstSubject \in BOOLEAN
  /\ delivered = {} /\ outcome = "running"

(* After an error more may come, but never the end of the stream. *)
AbsDeliver ==
  /\ outcome # "ended"
  /\ \E t \in Solutions \ delivered : delivered' = delivered \cup {t}
  /\ UNCHANGED <<emitFirstSubject, outcome>>

(* The last term may be delivered in the very step that ends the stream. *)
AbsEnd ==
  /\ outcome = "running" /\ outcome' = "ended"
  /\ delivered' = Solutions
  /\ \A t, u \in Solutions \ delivered : t = u
  /\ UNCHANGED emitFirstSubject

AbsFail ==
  /\ outcome = "running" /\ outcome' = "failed"
  /\ UNCHANGED <<emitFirstSubject, delivered>>

AbsNext == AbsDeliver \/ AbsEnd \/ AbsFail

AbsSpec == AbsInit /\ [][AbsNext]_absVars
=============================================================================
