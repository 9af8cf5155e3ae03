------------------------------ MODULE VersionLog ------------------------------
(***************************************************************************)
(* What database/stores/versions.go promises of a document's history: a    *)
(* list that only grows at its end, one whole save at a time, and only by  *)
(* an author who names the version it ends in (optimistic concurrency).    *)
(***************************************************************************)
EXTENDS Naturals, Sequences

CONSTANTS Docs, Authors

VARIABLE log    \* a document's saves, oldest first: who saved onto which head

LogInit == log = [d \in Docs |-> <<>>]

\* A save is accepted only onto the head: the length of the log.
CompareAndAppend(d, a) ==
    log' = [log EXCEPT ![d] = Append(@, [author |-> a, onto |-> Len(log[d])])]

\* The document is deleted, and its history with it.
Forget(d) == log' = [log EXCEPT ![d] = <<>>]

LogNext ==
    \E d \in Docs :
        \/ \E a \in Authors : CompareAndAppend(d, a)
        \/ Forget(d)

LogSpec == LogInit /\ [][LogNext]_log

=============================================================================
