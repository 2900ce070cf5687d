----------------------------- MODULE Mediation -----------------------------
(***************************************************************************)
(* What packages/core/lib/Mediator.ts promises its caller, whatever        *)
(* strategy a subclass follows: the actors of the bus test the action, an  *)
(* actor runs it only after it passed the test and at most once, and the   *)
(* caller gets one answer or one error, after which nothing runs any more. *)
(***************************************************************************)
VARIABLES
  request,    \* "none", "open", "answered" or "refused"
  passed,     \* the positions in the list of replies whose test passed
  ran         \* those that ran the action

vars == <<request, passed, ran>>

Init == request = "none" /\ passed = {} /\ ran = {}

Ask == request = "none" /\ request' = "open" /\ UNCHANGED <<passed, ran>>

\* Nobody may be able to reply to the action.
AskNobody ==
  /\ request = "none"
  /\ request' \in {"answered", "refused"}
  /\ UNCHANGED <<passed, ran>>

Pass ==
  /\ request # "none"
  /\ \E c \in passed' : passed' = passed \cup {c}
  /\ UNCHANGED <<request, ran>>

Run ==
  /\ request = "open"
  /\ \E cs \in (SUBSET (passed \ ran)) \ {{}} : ran' = ran \cup cs
  /\ UNCHANGED <<request, passed>>

Finish ==
  /\ request = "open"
  /\ request' \in {"answered", "refused"}
  /\ UNCHANGED <<passed, ran>>

Next == Ask \/ AskNobody \/ Pass \/ Run \/ Finish

Spec == Init /\ [][Next]_vars

=============================================================================
