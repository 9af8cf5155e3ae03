------------------------------ MODULE Releases ------------------------------
(***************************************************************************)
(* The release machinery of one app, over Postgres at READ COMMITTED:      *)
(*   database/stores/releases.go    full cuts, explicit cuts, rollbacks    *)
(*   database/stores/publishing.go  publish and unpublish of one document  *)
(*   database/stores/documents.go   create, move and delete of documents   *)
(*   database/stores/versions.go    the head a snapshot reads              *)
(*                                                                         *)
(* A worker is a request in flight in some server process.  Each of its    *)
(* actions is what one or more statements of the request see and write at  *)
(* one instant; whatever other requests commit in between is visible to    *)
(* the next action.  A transaction's writes become visible together, in    *)
(* its last action.  A request that loses its context or its server        *)
(* rolls back and is gone (Abandon).                                       *)
(*                                                                         *)
(* Releases, versions and documents are rows: a release is identified by   *)
(* its position in the table's insertion order, its number is the column   *)
(* the code computes.                                                      *)
(***************************************************************************)
EXTENDS ReleaseDiff, Sequences, FiniteSets

CONSTANTS
    Workers,       \* requests that may be in flight
    Nobody,        \* holder of a free row lock
    MaxVer,        \* bound: versions saved per document
    MaxReleases    \* bound: releases cut

ASSUME WorkersAssumption == Nobody \notin Workers
ASSUME BoundsAssumption  == MaxVer \in Nat /\ MaxReleases \in Nat

VARIABLES
    docs,       \* the documents table: row state and materialized key
    heads,      \* number of versions of a document, numbered 1..heads[d]
    releases,   \* the releases table with its entries and change rows
    current,    \* apps.current_release_id: 0 (NULL) or a position of releases
    appLock,    \* holder of the app row's FOR UPDATE lock
    outbox,     \* jobs enqueued, one set per committed cut, in commit order
    work        \* the requests in flight

vars == <<docs, heads, releases, current, appLock, outbox, work>>

RowStates == {"none", "live", "tombstone", "gone"}

Kinds == {"cut", "publish", "unpublish", "rollback"}

Release == [number : Nat, kind : Kinds, subject : SUBSET Docs, source : Nat,
            entries : SUBSET Entry, changes : SUBSET Change]

Phases == {"idle", "heads", "carry", "lock", "write", "remove"}

Request == [pc : Phases, kind : Kinds, subject : SUBSET Docs, source : Nat,
            key : Keys \cup {NoKey}, ver : Nat,
            todo : SUBSET (Docs \X Keys), specs : SUBSET Entry,
            prev : SUBSET Entry, number : Nat]

Idle == [pc |-> "idle", kind |-> "cut", subject |-> {}, source |-> 0,
         key |-> NoKey, ver |-> 0, todo |-> {}, specs |-> {}, prev |-> {}, number |-> 0]

TypeOK ==
    /\ docs \in [Docs -> [row : RowStates, key : Keys \cup {NoKey}]]
    /\ heads \in [Docs -> Nat]
    /\ releases \in Seq(Release)
    /\ current \in 0..Len(releases)
    /\ appLock \in Workers \cup {Nobody}
    /\ outbox \in Seq(SUBSET Job)
    /\ work \in [Workers -> Request]

Init ==
    /\ docs = [d \in Docs |-> [row |-> "none", key |-> NoKey]]
    /\ heads = [d \in Docs |-> 0]
    /\ releases = <<>>
    /\ current = 0
    /\ appLock = Nobody
    /\ outbox = <<>>
    /\ work = [w \in Workers |-> Idle]

-----------------------------------------------------------------------------

HasRow(d) == docs[d].row \in {"live", "tombstone"}

KeyFree(k) == \A d \in Docs : docs[d].row = "live" => docs[d].key # k

EntriesAt(rels, n) == IF n = 0 THEN {} ELSE rels[n].entries

CurrentEntries == EntriesAt(releases, current)

\* The FK release_entries.document_id RESTRICT looks at every release.
Referenced(d) == \E n \in 1..Len(releases) : d \in DocsOf(releases[n].entries)

Cutting(w) == work[w].pc \in {"heads", "carry", "lock", "write"}

\* Bound: a cut starts only if it and the ones in flight fit.
Room == Len(releases) + Cardinality({w \in Workers : Cutting(w)}) < MaxReleases

-----------------------------------------------------------------------------
(* Authoring: each is one transaction, or one statement.                   *)

\* Documents.Create.  The partial unique index keeps a live document's key free.
CreateDoc(d, k) ==
    /\ docs[d].row = "none"
    /\ KeyFree(k)
    /\ docs' = [docs EXCEPT ![d] = [row |-> "live", key |-> k]]
    /\ UNCHANGED <<heads, releases, current, appLock, outbox, work>>

\* Documents.Move, and the key rewrite of a collection rename or move.  Neither
\* looks at deleted_at, and a tombstone is outside the partial index.
MoveDoc(d, k) ==
    /\ HasRow(d)
    /\ docs[d].row = "live" => KeyFree(k)
    /\ docs' = [docs EXCEPT ![d].key = k]
    /\ UNCHANGED <<heads, releases, current, appLock, outbox, work>>

\* Versions.Save under the document row lock.
SaveVersion(d) ==
    /\ HasRow(d)
    /\ heads[d] < MaxVer
    /\ heads' = [heads EXCEPT ![d] = @ + 1]
    /\ UNCHANGED <<docs, releases, current, appLock, outbox, work>>

\* Faulty: deletion does not look at the current release.
BeginDeleteUnchecked(w, d) ==
    /\ work[w].pc = "idle"
    /\ HasRow(d)
    /\ work' = [work EXCEPT ![w] = [Idle EXCEPT !.pc = "remove", !.subject = {d}]]
    /\ UNCHANGED <<docs, heads, releases, current, appLock, outbox>>

\* Documents.Delete, first half: the document and the current release are read
\* outside any transaction; a live document is refused.
BeginDelete(w, d) ==
    /\ work[w].pc = "idle"
    /\ HasRow(d)
    /\ d \notin DocsOf(CurrentEntries)
    /\ work' = [work EXCEPT ![w] = [Idle EXCEPT !.pc = "remove", !.subject = {d}]]
    /\ UNCHANGED <<docs, heads, releases, current, appLock, outbox>>

\* Faulty: the foreign key cascades to the entries instead of restricting.
RemoveDocCascading(w, d) ==
    /\ work[w].pc = "remove"
    /\ work[w].subject = {d}
    /\ work' = [work EXCEPT ![w] = Idle]
    /\ docs' = [docs EXCEPT ![d] = [row |-> "gone", key |-> NoKey]]
    /\ heads' = [heads EXCEPT ![d] = 0]
    /\ releases' = [n \in 1..Len(releases) |->
                      [releases[n] EXCEPT !.entries = {e \in @ : e.doc # d}]]
    /\ UNCHANGED <<current, appLock, outbox>>

\* Second half: the DELETE, which cascades to the versions, or, when an entry of
\* any release refuses it, the soft delete.  A row gone meanwhile is ErrNotFound.
RemoveDoc(w, d) ==
    /\ work[w].pc = "remove"
    /\ work[w].subject = {d}
    /\ work' = [work EXCEPT ![w] = Idle]
    /\ \/ /\ HasRow(d) /\ ~Referenced(d)
          /\ docs' = [docs EXCEPT ![d] = [row |-> "gone", key |-> NoKey]]
          /\ heads' = [heads EXCEPT ![d] = 0]
       \/ /\ HasRow(d) /\ Referenced(d)
          /\ docs' = [docs EXCEPT ![d].row = "tombstone"]
          /\ UNCHANGED heads
       \/ /\ ~HasRow(d)
          /\ UNCHANGED <<docs, heads>>
    /\ UNCHANGED <<releases, current, appLock, outbox>>

-----------------------------------------------------------------------------
(* Choosing a release's entries: before the app row is locked.             *)

\* Releases.Cut: snapshotHeads lists the live documents in one statement ...
LiveTree == {<<d, docs[d].key>> : d \in {e \in Docs : docs[e].row = "live"}}

BeginCut(w) ==
    /\ work[w].pc = "idle"
    /\ Room
    /\ work' = [work EXCEPT ![w] = [Idle EXCEPT !.pc = "heads", !.kind = "cut",
                                                !.todo = LiveTree]]
    /\ UNCHANGED <<docs, heads, releases, current, appLock, outbox>>

\* Faulty: the versions are ordered oldest first.
ReadHeadOldest(w, d, k) ==
    /\ work[w].pc = "heads"
    /\ <<d, k>> \in work[w].todo
    /\ work' = [work EXCEPT
                  ![w].todo = @ \ {<<d, k>>},
                  ![w].specs = @ \cup {[doc |-> e, key |-> k, ver |-> 1] :
                                          e \in {f \in {d} : heads[f] > 0}}]
    /\ UNCHANGED <<docs, heads, releases, current, appLock, outbox>>

\* ... and then queries the head of each, one statement per document.  A document
\* with no version has nothing to publish.
ReadHead(w, d, k) ==
    /\ work[w].pc = "heads"
    /\ <<d, k>> \in work[w].todo
    /\ work' = [work EXCEPT
                  ![w].todo = @ \ {<<d, k>>},
                  ![w].specs = @ \cup {[doc |-> e, key |-> k, ver |-> heads[e]] :
                                          e \in {f \in {d} : heads[f] > 0}}]
    /\ UNCHANGED <<docs, heads, releases, current, appLock, outbox>>

EndSnapshot(w) ==
    /\ work[w].pc = "heads"
    /\ work[w].todo = {}
    /\ work' = [work EXCEPT ![w].pc = "lock"]
    /\ UNCHANGED <<docs, heads, releases, current, appLock, outbox>>

\* Stores.Publish and Stores.Rollback: cutForDocument reads the document and the
\* version.  Documents.Get does not look at deleted_at.
BeginPublish(w, d, v) ==
    /\ work[w].pc = "idle"
    /\ Room
    /\ HasRow(d)
    /\ v \in 1..heads[d]
    /\ work' = [work EXCEPT ![w] = [Idle EXCEPT !.pc = "carry", !.kind = "publish",
                                      !.subject = {d}, !.key = docs[d].key, !.ver = v]]
    /\ UNCHANGED <<docs, heads, releases, current, appLock, outbox>>

\* Stores.Unpublish: a document that is not live is cut around all the same.
BeginUnpublish(w, d) ==
    /\ work[w].pc = "idle"
    /\ Room
    /\ HasRow(d)
    /\ work' = [work EXCEPT ![w] = [Idle EXCEPT !.pc = "carry", !.kind = "unpublish",
                                      !.subject = {d}]]
    /\ UNCHANGED <<docs, heads, releases, current, appLock, outbox>>

\* Faulty: the subject's own entry is carried too.
CarriedTwice(w) ==
    CurrentEntries
    \cup {[doc |-> d, key |-> work[w].key, ver |-> work[w].ver] :
             d \in {s \in work[w].subject : work[w].kind = "publish"}}

\* Faulty: only the subject is kept.
CarriedAlone(w) ==
    {[doc |-> d, key |-> work[w].key, ver |-> work[w].ver] :
        d \in {s \in work[w].subject : work[w].kind = "publish"}}

\* Every current entry but the subject's is carried, and a publish adds the
\* subject at the key and version read before.
Carried(w) ==
    LET req == work[w] IN
    {e \in CurrentEntries : e.doc \notin req.subject}
    \cup {[doc |-> d, key |-> req.key, ver |-> req.ver] :
             d \in {s \in req.subject : req.kind = "publish"}}

Carry(w) ==
    /\ work[w].pc = "carry"
    /\ work' = [work EXCEPT ![w].pc = "lock", ![w].specs = Carried(w)]
    /\ UNCHANGED <<docs, heads, releases, current, appLock, outbox>>

\* Releases.Rollback copies an old release's entries.
BeginRollback(w, n) ==
    /\ work[w].pc = "idle"
    /\ Room
    /\ n \in 1..Len(releases)
    /\ work' = [work EXCEPT ![w] = [Idle EXCEPT !.pc = "lock", !.kind = "rollback",
                                      !.source = n, !.specs = releases[n].entries]]
    /\ UNCHANGED <<docs, heads, releases, current, appLock, outbox>>

-----------------------------------------------------------------------------
(* Releases.cut: the shared transaction.                                   *)

\* SELECT ... FOR UPDATE of the app row returns the row as last committed; under
\* the lock the releases are counted and the current entries read.
LockApp(w) ==
    /\ work[w].pc = "lock"
    /\ appLock = Nobody
    /\ appLock' = w
    /\ work' = [work EXCEPT ![w].pc = "write", ![w].prev = CurrentEntries,
                            ![w].number = Len(releases) + 1]
    /\ UNCHANGED <<docs, heads, releases, current, outbox>>

\* Faulty: no foreign key on the entries.
InsertableUnchecked(req) ==
    /\ OnePerKey(req.specs)
    /\ \A n \in 1..Len(releases) : releases[n].number # req.number

\* What the schema lets the transaction insert: keys unique in the release, the
\* document and the version of each entry there, the number not taken.
Insertable(req) ==
    /\ OnePerKey(req.specs)
    /\ \A e \in req.specs : HasRow(e.doc) /\ e.ver <= heads[e.doc]
    /\ \A n \in 1..Len(releases) : releases[n].number # req.number

\* Faulty: a rollback is compared with the release it copies.
NewReleaseAgainstSource(req) ==
    [number |-> req.number, kind |-> req.kind, subject |-> req.subject,
     source |-> req.source, entries |-> req.specs,
     changes |-> Diff(IF req.kind = "rollback" THEN EntriesAt(releases, req.source) ELSE req.prev,
                      req.specs)]

NewRelease(req) ==
    [number |-> req.number, kind |-> req.kind, subject |-> req.subject,
     source |-> req.source, entries |-> req.specs,
     changes |-> Diff(req.prev, req.specs)]

\* The release, its entries and change rows, the pointer and the jobs commit
\* together, and the lock is released.
CommitCut(w) ==
    /\ work[w].pc = "write"
    /\ Insertable(work[w])
    /\ releases' = Append(releases, NewRelease(work[w]))
    /\ current' = Len(releases) + 1
    /\ outbox' = Append(outbox, JobsOf(NewRelease(work[w]).changes))
    /\ appLock' = Nobody
    /\ work' = [work EXCEPT ![w] = Idle]
    /\ UNCHANGED <<docs, heads>>

\* Faulty: the error path leaves the transaction open.
RefuseCutHoldingLock(w) ==
    /\ work[w].pc = "write"
    /\ ~Insertable(work[w])
    /\ work' = [work EXCEPT ![w] = Idle]
    /\ UNCHANGED <<docs, heads, releases, current, appLock, outbox>>

\* A constraint violation rolls the transaction back.
RefuseCut(w) ==
    /\ work[w].pc = "write"
    /\ ~Insertable(work[w])
    /\ appLock' = Nobody
    /\ work' = [work EXCEPT ![w] = Idle]
    /\ UNCHANGED <<docs, heads, releases, current, outbox>>

\* Any request may be cancelled, or lose its server: an open transaction rolls
\* back, which releases its lock.
Abandon(w) ==
    /\ work[w].pc # "idle"
    /\ appLock' = IF appLock = w THEN Nobody ELSE appLock
    /\ work' = [work EXCEPT ![w] = Idle]
    /\ UNCHANGED <<docs, heads, releases, current, outbox>>

-----------------------------------------------------------------------------

\* The steps that finish what a worker has begun.
Proceed(w) ==
    \/ \E d \in Docs : RemoveDoc(w, d)
    \/ \E d \in Docs, k \in Keys : ReadHead(w, d, k)
    \/ EndSnapshot(w)
    \/ Carry(w)
    \/ LockApp(w)
    \/ CommitCut(w)
    \/ RefuseCut(w)

Begin(w) ==
    \/ BeginCut(w)
    \/ \E d \in Docs : BeginDelete(w, d)
    \/ \E d \in Docs : BeginUnpublish(w, d)
    \/ \E d \in Docs : \E v \in 1..heads[d] : BeginPublish(w, d, v)
    \/ \E n \in 1..Len(releases) : BeginRollback(w, n)

Author ==
    \/ \E d \in Docs, k \in Keys : CreateDoc(d, k)
    \/ \E d \in Docs, k \in Keys : MoveDoc(d, k)
    \/ \E d \in Docs : SaveVersion(d)

Next ==
    \/ Author
    \/ \E w \in Workers : Begin(w) \/ Proceed(w) \/ Abandon(w)

Spec == Init /\ [][Next]_vars

\* A live server drives every request to its end, and Postgres grants the app
\* row's lock to its waiters in turn.
Fairness == \A w \in Workers :
    /\ WF_vars(Proceed(w))
    /\ SF_vars(LockApp(w))

FairSpec == Spec /\ Fairness

-----------------------------------------------------------------------------
(* What holds however the requests interleave.                             *)

\* Release numbers are the straight line 1, 2, 3, ... and the app points at the
\* newest release: the pointer never moves backward (cut, Rollback).
StraightLine ==
    /\ \A n \in 1..Len(releases) : releases[n].number = n
    /\ current = Len(releases)

\* A release's change rows are the comparison of its entries with those of the
\* release numbered one below, though its entries were chosen before the cut held
\* the app row and others may have cut since (cut, diffEntries).
ChangesMatchHistory ==
    \A n \in 1..Len(releases) :
        releases[n].changes = Diff(EntriesAt(releases, n - 1), releases[n].entries)

\* Applying the jobs of each cut, in commit order, takes an index that holds one
\* release to one that holds the next, and to nothing else (enqueueProjection).
OutboxFollowsLine ==
    /\ Len(outbox) = Len(releases)
    /\ \A n \in 1..Len(outbox) :
          ApplyJobs(EntriesAt(releases, n - 1), outbox[n]) = releases[n].entries

\* No release ever loses the document or the version behind an entry, whatever is
\* deleted: a rollback to it can still be cut and served (RESTRICT, Delete).
EntriesResolve ==
    \A n \in 1..Len(releases) : \A e \in releases[n].entries :
        HasRow(e.doc) /\ e.ver \in 1..heads[e.doc]

\* A release serves a document at most once and a path at most once; the schema
\* enforces only the second (release_entries has no index on the document).
EntriesAreManifests ==
    \A n \in 1..Len(releases) : Manifest(releases[n].entries)

\* The machinery implements the promise: seen from outside, every step of every
\* request either leaves the line, the live entries and the outbox alone or is one
\* whole cut, and no release is ever rewritten (cut, the schema's RESTRICT).
Line == INSTANCE ReleaseLine WITH
    line <- [n \in 1..Len(releases) |-> [number |-> releases[n].number,
                                         entries |-> releases[n].entries,
                                         changes |-> releases[n].changes]],
    live <- CurrentEntries,
    sent <- outbox

ImplementsLine == Line!Spec

\* Every request that starts ends, though cuts queue on one row lock and any of
\* them may be refused or lost while it holds it.
RequestsEnd == \A w \in Workers : work[w].pc # "idle" ~> work[w].pc = "idle"

-----------------------------------------------------------------------------
(* The inductive invariant behind the properties above.                    *)

RowsHaveKeys == \A d \in Docs : HasRow(d) => docs[d].key \in Keys

\* The outbox is the change rows, cut by cut.
OutboxIsChanges ==
    /\ Len(outbox) = Len(releases)
    /\ \A n \in 1..Len(releases) : outbox[n] = JobsOf(releases[n].changes)

\* What a request has read: under the lock it is current, and its entries name a
\* document once, the ones of a snapshot still to be read included.
RequestOK(w) ==
    LET req == work[w] IN
    /\ req.pc = "write" <=> appLock = w
    /\ req.pc = "write" => req.number = Len(releases) + 1 /\ req.prev = CurrentEntries
    /\ req.pc = "carry" /\ req.kind = "publish" => req.key \in Keys /\ req.ver \in Vers
    /\ \A d, e \in req.subject : d = e
    /\ OnePerDoc(req.specs)
    /\ req.pc = "heads" => /\ \A t, u \in req.todo : t[1] = u[1] => t = u
                           /\ \A t \in req.todo : t[1] \notin DocsOf(req.specs)

IInv ==
    /\ TypeOK
    /\ RowsHaveKeys
    /\ \A w \in Workers : RequestOK(w)
    /\ StraightLine
    /\ ChangesMatchHistory
    /\ OutboxIsChanges
    /\ EntriesAreManifests
    /\ EntriesResolve

-----------------------------------------------------------------------------
(* What the comments say and overlapping requests break.                   *)

\* A publish or unpublish changes its own document's entry and no other
\* ("cuts a release of the app's current entries with this document's entry set").
PublishTouchesOnlySubject ==
    \A n \in 1..Len(releases) :
        releases[n].kind \in {"publish", "unpublish"} =>
            \A row \in releases[n].changes : row.doc \in releases[n].subject

\* A full cut carries every document's head, so it never serves an older version
\* of a document than the release before it.
CutNeverRegresses ==
    \A n \in 2..Len(releases) : releases[n].kind = "cut" =>
        \A e \in releases[n].entries, old \in releases[n - 1].entries :
            e.doc = old.doc => e.ver >= old.ver

\* A document carried by the current release is refused deletion.
DeleteRefusesLive ==
    [][\A d \in Docs : HasRow(d) /\ docs'[d].row # docs[d].row
                            => d \notin DocsOf(CurrentEntries)]_vars

=============================================================================
