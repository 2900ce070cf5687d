------------------------- MODULE MCLinkedRdfSources -------------------------
(* Documents for TLC: a first page that announces two others, of which one *)
(* announces the other, and the other the first page again: a link found   *)
(* twice and a cycle.  One page answers nothing, one answers two bindings. *)
EXTENDS LinkedRdfSources

CONSTANTS page1, page2, page3

MCLinks == {page1, page2, page3}

MCNextLinks ==
  [l \in MCLinks |-> CASE l = page1 -> {page2, page3}
                       [] l = page2 -> {page3}
                       [] l = page3 -> {page1}]

MCBindings == 1..3

MCBindingsOf ==
  [l \in MCLinks |-> CASE l = page1 -> {1}
                       [] l = page2 -> {2, 3}
                       [] l = page3 -> {}]
=============================================================================
