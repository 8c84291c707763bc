-------------------------- MODULE IndexGenerations --------------------------
(***************************************************************************)
(* What indexing promises the searches: the generation of a document that  *)
(* is served is complete in the vector store, stays there while it is      *)
(* served, and is replaced by later generations only.  "Enforces strict    *)
(* failure-safe sequencing" (services/retrieval/indexing_service.py:54).   *)
(***************************************************************************)
EXTENDS Naturals

CONSTANT Generations    \* the versions a document can have

VARIABLES
    complete,   \* the generations all of whose points are in the store
    served      \* the generation the searches use, 0 for none

vars == <<complete, served>>

Init == complete = {} /\ served = 0

\* All points of a generation have been stored.
Build(g) == complete' = complete \union {g} /\ UNCHANGED served

\* Points are removed, of generations that are not served.
Drop(gone) ==
    /\ served \notin gone
    /\ complete' = complete \ gone
    /\ UNCHANGED served

\* A later generation takes over.
Switch(g) ==
    /\ g \in complete
    /\ g > served
    /\ served' = g
    /\ UNCHANGED complete

Next ==
    \/ \E g \in Generations : Build(g) \/ Switch(g)
    \/ \E gone \in SUBSET Generations : Drop(gone)

Spec == Init /\ [][Next]_vars
=============================================================================
