------------------------------ MODULE MCCaches ------------------------------
(* The caches of sources and of metadata are independent of each other: TLC *)
(* checks them side by side, one subject in each behaviour.                 *)
EXTENDS SourceCaches, MetadataStates, TLC

CONSTANTS r1, r2, w1, w2, index, page, absent, s1, s2, union, join

VARIABLE subject

MCPageOf == (index :> page)
MCCohorts == {{r1, r2}, {r1, w1}, {w1, w2}}
MCWriters == {{w1, w2}}

\* A join of a union of two streams with one of them.
MCChildren == (s1 :> {}) @@ (s2 :> {}) @@ (union :> {s1, s2}) @@ (join :> {union, s2})

MCInit == subject \in {"sources", "metadata"} /\ SourcesInit /\ MetadataInit

MCNext ==
  /\ UNCHANGED subject
  /\ \/ subject = "sources" /\ SourcesNext /\ UNCHANGED metadataVars
     \/ subject = "metadata" /\ MetadataNext /\ UNCHANGED sourceVars

MCSpec == MCInit /\ [][MCNext]_<<subject, sourceVars, metadataVars>> /\ SourcesFairness
=============================================================================
