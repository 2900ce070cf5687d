-------------------- MODULE MCPathVariableObjectIterator --------------------
(* Data for TLC: a subject with two successors that share one, a cycle     *)
(* back to the subject and a term that cannot be reached.                  *)
EXTENDS PathVariableObjectIterator

CONSTANTS s, a, b, c, start

MCTerms == {s, a, b, c}
MCNext == [t \in MCTerms |-> CASE t = s -> {a, b}
                               [] t = a -> {b}
                               [] t = b -> {s}
                               [] t = c -> {a}]
=============================================================================
