---------------------------- MODULE Aggregation ----------------------------
(***************************************************************************)
(* What GROUP BY promises: when its input has ended, one row per group of  *)
(* the solutions that came in, each with the aggregates of that group; or  *)
(* an error, and then never any row.                                       *)
(*                                                                         *)
(* The value of an aggregate is given as the set of the solutions whose    *)
(* terms it is made of: COUNT, SUM, SAMPLE and the others are functions of *)
(* those terms.                                                            *)
(***************************************************************************)
CONSTANTS Solutions, Groups, Aggregates,
          Terms, Unbound, Failed,  \* what evaluating an expression may give
          Undefined,               \* the value of an aggregate with an error
          Everything,              \* the group of a query that groups by nothing
          Distinct,                \* the aggregates with DISTINCT
          Inputs                   \* the groups and evaluations of the solutions

VARIABLES input, consumed, status, rows

vars == <<input, consumed, status, rows>>

key(s) == input.key[s]
evaluation(s, a) == input.evaluation[s][a]

termsOf(g, a, from) == {s \in from : key(s) = g /\ evaluation(s, a) \in Terms}

(* An aggregate is made of all terms of its group or, with DISTINCT, of    *)
(* each term once; an error leaves it undefined.                           *)
CorrectAggregate(v, g, a, from) ==
  IF \E s \in from : key(s) = g /\ evaluation(s, a) = Failed
  THEN v = Undefined
  ELSE /\ v # Undefined /\ v \subseteq termsOf(g, a, from)
       /\ a \notin Distinct => v = termsOf(g, a, from)
       /\ \A s \in termsOf(g, a, from) :
            \E t \in v : evaluation(t, a) = evaluation(s, a)
       /\ a \in Distinct =>
            \A s, t \in v : evaluation(s, a) = evaluation(t, a) => s = t

(* Without input there is no group, except for a query that groups by      *)
(* nothing.                                                                *)
groupsOf(from) ==
  IF from = {} /\ \A s \in Solutions : key(s) = Everything
  THEN {Everything} ELSE {key(s) : s \in from}

CorrectRows(r, from) ==
  /\ DOMAIN r = groupsOf(from)
  /\ \A g \in groupsOf(from), a \in Aggregates : CorrectAggregate(r[g][a], g, a, from)

Values == {Undefined} \cup SUBSET Solutions

Init == /\ input \in Inputs
        /\ consumed = {} /\ status = "running" /\ rows = [g \in {} |-> Undefined]

Consume(s) ==
  /\ status # "finished" /\ s \notin consumed
  /\ consumed' = consumed \cup {s}
  /\ UNCHANGED <<input, status, rows>>

Finish ==
  /\ status = "running"
  /\ status' = "finished"
  /\ rows' \in [groupsOf(consumed) -> [Aggregates -> Values]]
  /\ CorrectRows(rows', consumed)
  /\ UNCHANGED <<input, consumed>>

Fail ==
  /\ status = "running"
  /\ status' = "failed"
  /\ UNCHANGED <<input, consumed, rows>>

Next == (\E s \in Solutions : Consume(s)) \/ Finish \/ Fail

AbsSpec == Init /\ [][Next]_vars
=============================================================================
