----------------------------- MODULE ReleaseDiff -----------------------------
(***************************************************************************)
(* Release manifests and the comparison of two adjacent ones               *)
(* (database/stores/releases.go diffEntries).  A manifest is the set of    *)
(* entries of one release: which document is served, at which key, at      *)
(* which version.  A version is its number within its document, which      *)
(* identifies it: versions(document_id, version_number) is unique.         *)
(*                                                                         *)
(* The module is pure: it has no state and no recursion, so that the       *)
(* lemmas of ReleaseDiff_proofs can be cited wherever manifests are used.  *)
(***************************************************************************)
EXTENDS Integers

CONSTANTS
    Docs,     \* document ids
    Keys,     \* materialized paths a document or an entry can have
    NoKey     \* the NULL of a key column

ASSUME KeysAssumption == NoKey \notin Keys

Vers == Nat \ {0}

Entry == [doc : Docs, key : Keys, ver : Vers]

DocsOf(es) == {e.doc : e \in es}

OnePerDoc(es) == \A e, f \in es : e.doc = f.doc => e = f

\* The unique index release_entries(release_id, key).
OnePerKey(es) == \A e, f \in es : e.key = f.key => e = f

Manifest(es) == es \subseteq Entry /\ OnePerDoc(es) /\ OnePerKey(es)

-----------------------------------------------------------------------------
(* Change rows.  A column the code leaves NULL is NoKey or 0. *)

Change == [change : {"added", "moved", "changed", "removed"},
           doc : Docs, key : Keys, ver : Nat, prevKey : Keys \cup {NoKey}, prevVer : Nat]

Added(e) == [change |-> "added", doc |-> e.doc, key |-> e.key, ver |-> e.ver,
             prevKey |-> NoKey, prevVer |-> 0]

Moved(old, e) == [change |-> "moved", doc |-> e.doc, key |-> e.key, ver |-> e.ver,
                  prevKey |-> old.key, prevVer |-> old.ver]

Changed(old, e) == [change |-> "changed", doc |-> e.doc, key |-> e.key, ver |-> e.ver,
                    prevKey |-> NoKey, prevVer |-> old.ver]

Removed(old) == [change |-> "removed", doc |-> old.doc, key |-> old.key, ver |-> 0,
                 prevKey |-> NoKey, prevVer |-> old.ver]

\* Keyed by document: a document at a new key is one move (its version may have
\* changed too), never a removal plus an addition; an unchanged entry has no row.
Diff(prev, next) ==
    {Added(e) : e \in {f \in next : f.doc \notin DocsOf(prev)}}
    \cup {Moved(p[1], p[2]) : p \in {q \in prev \X next :
                                        q[1].doc = q[2].doc /\ q[1].key # q[2].key}}
    \cup {Changed(p[1], p[2]) : p \in {q \in prev \X next :
                                        /\ q[1].doc = q[2].doc
                                        /\ q[1].key = q[2].key
                                        /\ q[1].ver # q[2].ver}}
    \cup {Removed(e) : e \in {f \in prev : f.doc \notin DocsOf(next)}}

-----------------------------------------------------------------------------
(* The outbox jobs of a diff, and what they do to an index keyed by document. *)

Job == [op : {"index", "delete"}, doc : Docs, key : Keys \cup {NoKey}, ver : Nat]

JobOf(row) ==
    IF row.change = "removed"
    THEN [op |-> "delete", doc |-> row.doc, key |-> NoKey, ver |-> 0]
    ELSE [op |-> "index", doc |-> row.doc, key |-> row.key, ver |-> row.ver]

\* Faulty: moved paths are not projected.
JobsOfUnmoved(rows) == {JobOf(r) : r \in {x \in rows : x.change # "moved"}}

JobsOf(rows) == {JobOf(r) : r \in rows}

\* The index after a set of jobs of different documents: a job of a document
\* replaces or deletes that document's entry and touches no other.
ApplyJobs(index, jobs) ==
    {e \in index : e.doc \notin DocsOf(jobs)}
    \cup {[doc |-> j.doc, key |-> j.key, ver |-> j.ver] : j \in {i \in jobs : i.op = "index"}}

=============================================================================
