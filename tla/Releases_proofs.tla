--------------------------- MODULE Releases_proofs ---------------------------
(***************************************************************************)
(* Proofs about Releases, for any documents, paths, requests and bounds.   *)
(*                                                                         *)
(* IInv is inductive.  The steps fall in three groups: those that only     *)
(* move one request along (RequestStep), those of the authors and of       *)
(* deletion, which change the documents table, and CommitCut, which adds   *)
(* a release.                                                              *)
(***************************************************************************)
EXTENDS Releases, ReleaseDiff_proofs

Tables == <<docs, heads, releases, current, outbox>>

\* The part of IInv that speaks of the tables alone.
TablesOK ==
    /\ docs \in [Docs -> [row : RowStates, key : Keys \cup {NoKey}]]
    /\ heads \in [Docs -> Nat]
    /\ releases \in Seq(Release)
    /\ current \in 0..Len(releases)
    /\ outbox \in Seq(SUBSET Job)
    /\ RowsHaveKeys
    /\ StraightLine
    /\ ChangesMatchHistory
    /\ OutboxIsChanges
    /\ EntriesAreManifests
    /\ EntriesResolve

LEMMA IInvParts ==
    IInv <=> /\ TablesOK
             /\ appLock \in Workers \cup {Nobody}
             /\ work \in [Workers -> Request]
             /\ \A w \in Workers : RequestOK(w)
BY DEF IInv, TypeOK, TablesOK

-----------------------------------------------------------------------------
(* Small facts *)

LEMMA IdleIsRequest == Idle \in Request
BY DEF Idle, Request, Phases, Kinds

LEMMA EntriesAtManifest ==
    ASSUME TablesOK, NEW n \in 0..Len(releases)
    PROVE  Manifest(EntriesAt(releases, n))
BY DEF TablesOK, EntriesAreManifests, EntriesAt, Manifest, OnePerDoc, OnePerKey

LEMMA CurrentIsManifest ==
    ASSUME TablesOK
    PROVE  Manifest(CurrentEntries)
BY EntriesAtManifest DEF TablesOK, CurrentEntries

LEMMA RequestTyped ==
    ASSUME IInv, NEW w \in Workers
    PROVE  work[w] \in Request /\ RequestOK(w)
BY DEF IInv, TypeOK

\* A step that changes one request, and at most takes or frees the lock for it,
\* keeps the invariant if the request's next state is as it should be.
LEMMA RequestStep ==
    ASSUME IInv, NEW w \in Workers, NEW r \in Request,
           work' = [work EXCEPT ![w] = r],
           UNCHANGED Tables,
           \/ UNCHANGED appLock
           \/ appLock = Nobody /\ appLock' = w
           \/ appLock = w /\ appLock' = Nobody,
           RequestOK(w)'
    PROVE  IInv'
<1>1. TablesOK'
  BY IInvParts DEF Tables, TablesOK, RowsHaveKeys, HasRow, StraightLine, ChangesMatchHistory,
     OutboxIsChanges, EntriesAreManifests, EntriesResolve, EntriesAt
<1>2. appLock' \in Workers \cup {Nobody}
  BY DEF IInv, TypeOK
<1>3. work' \in [Workers -> Request]
  BY DEF IInv, TypeOK
<1>4. ASSUME NEW x \in Workers
      PROVE  RequestOK(x)'
  <2>1. CASE x = w
    BY <2>1
  <2>2. CASE x # w
    <3>1. work'[x] = work[x]
      BY <2>2 DEF IInv, TypeOK
    <3>2. appLock' = x <=> appLock = x
      BY <2>2, WorkersAssumption
    <3>3. CurrentEntries' = CurrentEntries
      BY DEF Tables, CurrentEntries, EntriesAt
    <3> QED BY <3>1, <3>2, <3>3, RequestTyped DEF RequestOK, Tables
  <2> QED BY <2>1, <2>2
<1> QED BY <1>1, <1>2, <1>3, <1>4 DEF IInv, TypeOK, TablesOK

-----------------------------------------------------------------------------
(* Steps of one request *)

LEMMA IdleStep ==
    ASSUME IInv, NEW w \in Workers,
           work' = [work EXCEPT ![w] = Idle],
           appLock' = IF appLock = w THEN Nobody ELSE appLock,
           UNCHANGED Tables
    PROVE  IInv'
<1>1. work'[w] = Idle
  BY DEF IInv, TypeOK
<1>2. appLock' # w
  BY WorkersAssumption
<1>3. RequestOK(w)'
  BY <1>1, <1>2 DEF RequestOK, Idle, OnePerDoc
<1> QED BY <1>3, IdleIsRequest, RequestStep

LEMMA BeginCutStep ==
    ASSUME IInv, NEW w \in Workers, BeginCut(w)
    PROVE  IInv'
<1> DEFINE r == [Idle EXCEPT !.pc = "heads", !.kind = "cut", !.todo = LiveTree]
<1>1. LiveTree \subseteq Docs \X Keys
  BY DEF LiveTree, IInv, RowsHaveKeys, HasRow
<1>2. r \in Request
  BY <1>1, IdleIsRequest DEF Request, Phases, Kinds
<1>3. work'[w] = r /\ appLock' = appLock /\ appLock # w
  BY RequestTyped DEF BeginCut, IInv, TypeOK, RequestOK
<1>4. \A t, u \in LiveTree : t[1] = u[1] => t = u
  BY DEF LiveTree
<1>5. RequestOK(w)'
  <2>1. r.pc = "heads" /\ r.specs = {} /\ r.subject = {} /\ r.todo = LiveTree
    BY DEF Idle
  <2> QED BY <1>3, <1>4, <2>1 DEF RequestOK, OnePerDoc, DocsOf
<1> QED BY <1>2, <1>3, <1>5, RequestStep DEF BeginCut, Tables

LEMMA ReadHeadStep ==
    ASSUME IInv, NEW w \in Workers, NEW d \in Docs, NEW k \in Keys, ReadHead(w, d, k)
    PROVE  IInv'
<1> DEFINE new == {[doc |-> e, key |-> k, ver |-> heads[e]] : e \in {f \in {d} : heads[f] > 0}}
           r == [work[w] EXCEPT !.todo = @ \ {<<d, k>>}, !.specs = @ \cup new]
<1>1. new \subseteq Entry /\ \A e \in new : e.doc = d /\ \A f \in new : e = f
  BY DEF IInv, TypeOK, Entry, Vers
<1>2. r \in Request
  BY <1>1, RequestTyped DEF Request
<1>3. work' = [work EXCEPT ![w] = r] /\ work'[w] = r
  BY DEF ReadHead, IInv, TypeOK
<1>4. appLock' = appLock /\ UNCHANGED Tables
  BY DEF ReadHead, Tables
<1>5. RequestOK(w)'
  <2>1. work[w].pc = "heads" /\ <<d, k>> \in work[w].todo /\ RequestOK(w) /\ work[w] \in Request
    BY RequestTyped DEF ReadHead
  <2>2. d \notin DocsOf(work[w].specs)
    BY <2>1 DEF RequestOK
  <2>3. r.pc = "heads" /\ r.todo = work[w].todo \ {<<d, k>>} /\ r.specs = work[w].specs \cup new
        /\ r.subject = work[w].subject
    BY <2>1 DEF Request
  <2>4. OnePerDoc(r.specs)
    BY <1>1, <2>1, <2>2, <2>3 DEF RequestOK, OnePerDoc, DocsOf
  <2>5. \A t \in r.todo : t[1] \notin DocsOf(r.specs)
    <3> SUFFICES ASSUME NEW t \in r.todo
                 PROVE  t[1] # d /\ t[1] \notin DocsOf(work[w].specs)
      BY <1>1, <2>3 DEF DocsOf
    <3>1. t \in work[w].todo /\ t # <<d, k>> /\ <<d, k>>[1] = d
      BY <2>3
    <3> QED BY <3>1, <2>1 DEF RequestOK
  <2> QED BY <1>3, <1>4, <2>1, <2>3, <2>4, <2>5 DEF RequestOK
<1> QED BY <1>2, <1>3, <1>4, <1>5, RequestStep

LEMMA EndSnapshotStep ==
    ASSUME IInv, NEW w \in Workers, EndSnapshot(w)
    PROVE  IInv'
<1> DEFINE r == [work[w] EXCEPT !.pc = "lock"]
<1>1. r \in Request
  BY RequestTyped DEF Request, Phases
<1>2. work' = [work EXCEPT ![w] = r] /\ work'[w] = r /\ appLock' = appLock /\ UNCHANGED Tables
  BY DEF EndSnapshot, IInv, TypeOK, Tables
<1>3. r.pc = "lock" /\ r.specs = work[w].specs /\ r.subject = work[w].subject
  BY RequestTyped DEF Request
<1>4. RequestOK(w)'
  BY <1>2, <1>3, RequestTyped DEF RequestOK, EndSnapshot
<1> QED BY <1>1, <1>2, <1>4, RequestStep

LEMMA BeginPublishStep ==
    ASSUME IInv, NEW w \in Workers, NEW d \in Docs, NEW v \in 1..heads[d], BeginPublish(w, d, v)
    PROVE  IInv'
<1> DEFINE r == [Idle EXCEPT !.pc = "carry", !.kind = "publish",
                             !.subject = {d}, !.key = docs[d].key, !.ver = v]
<1>1. docs[d].key \in Keys /\ v \in Vers
  BY DEF IInv, TypeOK, RowsHaveKeys, BeginPublish, Vers
<1>2. r \in Request
  BY <1>1, IdleIsRequest DEF Request, Phases, Kinds, Vers
<1>3. work'[w] = r /\ appLock' = appLock /\ appLock # w
  BY RequestTyped DEF BeginPublish, IInv, TypeOK, RequestOK
<1>4. RequestOK(w)'
  <2>1. r.pc = "carry" /\ r.specs = {} /\ r.subject = {d} /\ r.key = docs[d].key /\ r.ver = v
    BY DEF Idle
  <2> QED BY <1>1, <1>3, <2>1 DEF RequestOK, OnePerDoc
<1> QED BY <1>2, <1>3, <1>4, RequestStep DEF BeginPublish, Tables

LEMMA BeginUnpublishStep ==
    ASSUME IInv, NEW w \in Workers, NEW d \in Docs, BeginUnpublish(w, d)
    PROVE  IInv'
<1> DEFINE r == [Idle EXCEPT !.pc = "carry", !.kind = "unpublish", !.subject = {d}]
<1>1. r \in Request
  BY IdleIsRequest DEF Request, Phases, Kinds
<1>2. work'[w] = r /\ appLock' = appLock /\ appLock # w
  BY RequestTyped DEF BeginUnpublish, IInv, TypeOK, RequestOK
<1>3. RequestOK(w)'
  <2>1. r.pc = "carry" /\ r.kind = "unpublish" /\ r.specs = {} /\ r.subject = {d}
    BY DEF Idle
  <2> QED BY <1>2, <2>1 DEF RequestOK, OnePerDoc
<1> QED BY <1>1, <1>2, <1>3, RequestStep DEF BeginUnpublish, Tables

\* cutForDocument's entry set names a document once: the subject is left out of
\* what is carried before it is added.
LEMMA CarriedOnce ==
    ASSUME IInv, NEW w \in Workers, work[w].pc = "carry"
    PROVE  Carried(w) \subseteq Entry /\ OnePerDoc(Carried(w))
<1> DEFINE req == work[w]
           kept == {e \in CurrentEntries : e.doc \notin req.subject}
           own == {[doc |-> d, key |-> req.key, ver |-> req.ver] :
                      d \in {s \in req.subject : req.kind = "publish"}}
<1>1. req \in Request /\ RequestOK(w)
  BY RequestTyped
<1>2. kept \subseteq Entry /\ OnePerDoc(kept)
  BY IInvParts, CurrentIsManifest DEF Manifest, OnePerDoc
<1>3. own \subseteq Entry /\ \A e, f \in own : e = f
  BY <1>1 DEF Entry, RequestOK, Request
<1>4. \A e \in own, f \in kept : e.doc # f.doc
  BY <1>1
<1>5. Carried(w) = kept \cup own
  BY DEF Carried
<1>6. \A e, f \in kept \cup own : e.doc = f.doc => e = f
  BY <1>2, <1>3, <1>4 DEF OnePerDoc
<1> QED BY <1>2, <1>3, <1>5, <1>6 DEF OnePerDoc

LEMMA CarryStep ==
    ASSUME IInv, NEW w \in Workers, Carry(w)
    PROVE  IInv'
<1> DEFINE r == [work[w] EXCEPT !.pc = "lock", !.specs = Carried(w)]
<1>1. Carried(w) \subseteq Entry /\ OnePerDoc(Carried(w))
  BY CarriedOnce DEF Carry
<1>2. r \in Request
  BY <1>1, RequestTyped DEF Request, Phases
<1>3. work' = [work EXCEPT ![w] = r] /\ work'[w] = r /\ appLock' = appLock /\ UNCHANGED Tables
  BY DEF Carry, IInv, TypeOK, Tables
<1>4. r.pc = "lock" /\ r.specs = Carried(w) /\ r.subject = work[w].subject
  BY RequestTyped DEF Request
<1> HIDE DEF r
<1>5. work[w].pc = "carry" /\ RequestOK(w)
  BY RequestTyped DEF Carry
<1>6. OnePerDoc(r.specs)
  BY <1>1, <1>4
<1>7. RequestOK(w)'
  BY <1>3, <1>4, <1>5, <1>6 DEF RequestOK
<1> QED BY <1>2, <1>3, <1>7, RequestStep

LEMMA BeginRollbackStep ==
    ASSUME IInv, NEW w \in Workers, NEW n \in 1..Len(releases), BeginRollback(w, n)
    PROVE  IInv'
<1> DEFINE r == [Idle EXCEPT !.pc = "lock", !.kind = "rollback",
                             !.source = n, !.specs = releases[n].entries]
<1>1. Manifest(releases[n].entries) /\ n \in Nat
  BY DEF IInv, TypeOK, EntriesAreManifests
<1>2. r \in Request
  BY <1>1, IdleIsRequest DEF Request, Phases, Kinds, Manifest
<1>3. work'[w] = r /\ appLock' = appLock /\ appLock # w
  BY RequestTyped DEF BeginRollback, IInv, TypeOK, RequestOK
<1>4. RequestOK(w)'
  <2>1. r.pc = "lock" /\ r.specs = releases[n].entries /\ r.subject = {}
    BY DEF Idle
  <2> QED BY <1>1, <1>3, <2>1 DEF RequestOK, Manifest
<1> QED BY <1>2, <1>3, <1>4, RequestStep DEF BeginRollback, Tables

LEMMA BeginDeleteStep ==
    ASSUME IInv, NEW w \in Workers, NEW d \in Docs, BeginDelete(w, d)
    PROVE  IInv'
<1> DEFINE r == [Idle EXCEPT !.pc = "remove", !.subject = {d}]
<1>1. r \in Request
  BY IdleIsRequest DEF Request, Phases
<1>2. work'[w] = r /\ appLock' = appLock /\ appLock # w
  BY RequestTyped DEF BeginDelete, IInv, TypeOK, RequestOK
<1>3. RequestOK(w)'
  <2>1. r.pc = "remove" /\ r.specs = {} /\ r.subject = {d}
    BY DEF Idle
  <2> QED BY <1>2, <2>1 DEF RequestOK, OnePerDoc
<1> QED BY <1>1, <1>2, <1>3, RequestStep DEF BeginDelete, Tables

LEMMA LockAppStep ==
    ASSUME IInv, NEW w \in Workers, LockApp(w)
    PROVE  IInv'
<1> DEFINE r == [work[w] EXCEPT !.pc = "write", !.prev = CurrentEntries,
                                !.number = Len(releases) + 1]
<1>1. CurrentEntries \subseteq Entry /\ Len(releases) + 1 \in Nat
  BY IInvParts, CurrentIsManifest DEF Manifest, IInv, TypeOK
<1>2. r \in Request
  BY <1>1, RequestTyped DEF Request, Phases
<1>3. work' = [work EXCEPT ![w] = r] /\ work'[w] = r /\ appLock = Nobody /\ appLock' = w
      /\ UNCHANGED Tables
  BY DEF LockApp, IInv, TypeOK, Tables
<1>4. /\ r.pc = "write" /\ r.specs = work[w].specs /\ r.subject = work[w].subject
      /\ r.prev = CurrentEntries /\ r.number = Len(releases) + 1
  BY RequestTyped DEF Request
<1>5. CurrentEntries' = CurrentEntries /\ releases' = releases
  BY <1>3 DEF Tables, CurrentEntries, EntriesAt
<1>6. RequestOK(w)'
  BY <1>3, <1>4, <1>5, RequestTyped DEF RequestOK
<1> QED BY <1>2, <1>3, <1>6, RequestStep

LEMMA RefuseCutStep ==
    ASSUME IInv, NEW w \in Workers, RefuseCut(w)
    PROVE  IInv'
<1>1. appLock = w
  BY RequestTyped DEF RefuseCut, RequestOK
<1> QED BY <1>1, IdleStep DEF RefuseCut, Tables

LEMMA AbandonStep ==
    ASSUME IInv, NEW w \in Workers, Abandon(w)
    PROVE  IInv'
BY IdleStep DEF Abandon, Tables

-----------------------------------------------------------------------------
(* Steps of the documents table *)

\* A step of documents and versions only keeps the invariant if rows keep their
\* keys and no entry of any release loses its document or version.
LEMMA DocumentStep ==
    ASSUME IInv,
           docs' \in [Docs -> [row : RowStates, key : Keys \cup {NoKey}]],
           heads' \in [Docs -> Nat],
           RowsHaveKeys', EntriesResolve',
           UNCHANGED <<releases, current, outbox, appLock, work>>
    PROVE  IInv'
<1>1. TypeOK'
  BY DEF IInv, TypeOK
<1>2. StraightLine' /\ ChangesMatchHistory' /\ OutboxIsChanges' /\ EntriesAreManifests'
  BY DEF IInv, StraightLine, ChangesMatchHistory, OutboxIsChanges, EntriesAreManifests
<1>3. CurrentEntries' = CurrentEntries
  BY DEF CurrentEntries
<1>4. \A w \in Workers : RequestOK(w)'
  BY <1>3, RequestTyped DEF RequestOK
<1> QED BY <1>1, <1>2, <1>4 DEF IInv

LEMMA CreateDocStep ==
    ASSUME IInv, NEW d \in Docs, NEW k \in Keys, CreateDoc(d, k)
    PROVE  IInv'
<1>1. docs' \in [Docs -> [row : RowStates, key : Keys \cup {NoKey}]] /\ heads' \in [Docs -> Nat]
  BY DEF CreateDoc, IInv, TypeOK, RowStates
<1>2. RowsHaveKeys'
  BY DEF CreateDoc, IInv, TypeOK, RowsHaveKeys, HasRow
<1>3. EntriesResolve'
  <2>1. \A e \in Docs : HasRow(e) => HasRow(e)'
    BY DEF CreateDoc, IInv, TypeOK, HasRow
  <2>2. \A n \in 1..Len(releases) : \A e \in releases[n].entries : e.doc \in Docs
    BY DEF IInv, EntriesAreManifests, Manifest, Entry
  <2> QED BY <2>1, <2>2 DEF CreateDoc, IInv, EntriesResolve
<1> QED BY <1>1, <1>2, <1>3, DocumentStep DEF CreateDoc

LEMMA MoveDocStep ==
    ASSUME IInv, NEW d \in Docs, NEW k \in Keys, MoveDoc(d, k)
    PROVE  IInv'
<1>1. docs' \in [Docs -> [row : RowStates, key : Keys \cup {NoKey}]] /\ heads' \in [Docs -> Nat]
  BY DEF MoveDoc, IInv, TypeOK
<1>2. RowsHaveKeys'
  BY DEF MoveDoc, IInv, TypeOK, RowsHaveKeys, HasRow
<1>3. EntriesResolve'
  <2>1. \A e \in Docs : HasRow(e) => HasRow(e)'
    BY DEF MoveDoc, IInv, TypeOK, HasRow
  <2>2. \A n \in 1..Len(releases) : \A e \in releases[n].entries : e.doc \in Docs
    BY DEF IInv, EntriesAreManifests, Manifest, Entry
  <2> QED BY <2>1, <2>2 DEF MoveDoc, IInv, EntriesResolve
<1> QED BY <1>1, <1>2, <1>3, DocumentStep DEF MoveDoc

LEMMA SaveVersionStep ==
    ASSUME IInv, NEW d \in Docs, SaveVersion(d)
    PROVE  IInv'
<1>1. heads' \in [Docs -> Nat] /\ \A e \in Docs : heads'[e] >= heads[e]
  BY DEF SaveVersion, IInv, TypeOK
<1>2. RowsHaveKeys'
  BY DEF SaveVersion, IInv, RowsHaveKeys, HasRow
<1>3. EntriesResolve'
  <2> SUFFICES ASSUME NEW n \in 1..Len(releases), NEW e \in releases[n].entries
               PROVE  HasRow(e.doc)' /\ e.ver \in 1..heads'[e.doc]
    BY DEF SaveVersion, EntriesResolve
  <2>1. HasRow(e.doc) /\ e.ver \in 1..heads[e.doc] /\ e.doc \in Docs
    BY DEF IInv, EntriesResolve, EntriesAreManifests, Manifest, Entry
  <2> QED BY <1>1, <2>1 DEF SaveVersion, HasRow, IInv, TypeOK
<1> QED BY <1>1, <1>2, <1>3, DocumentStep DEF SaveVersion, IInv, TypeOK

\* The hard delete needs no entry of any release; the soft one keeps the row and
\* the versions.
LEMMA RemoveDocStep ==
    ASSUME IInv, NEW w \in Workers, NEW d \in Docs, RemoveDoc(w, d)
    PROVE  IInv'
<1> DEFINE atRest == [work EXCEPT ![w] = Idle]
<1>0. work' = atRest /\ UNCHANGED <<releases, current, appLock, outbox>> /\ appLock # w
  BY RequestTyped DEF RemoveDoc, RequestOK
<1>a. \/ docs' = [docs EXCEPT ![d] = [row |-> "gone", key |-> NoKey]] /\ heads' = [heads EXCEPT ![d] = 0]
      \/ docs' = [docs EXCEPT ![d].row = "tombstone"] /\ heads' = heads /\ docs[d].key \in Keys
      \/ docs' = docs /\ heads' = heads
  BY DEF RemoveDoc, IInv, RowsHaveKeys
<1>b. docs' \in [Docs -> [row : RowStates, key : Keys \cup {NoKey}]]
  <2>1. docs \in [Docs -> [row : RowStates, key : Keys \cup {NoKey}]]
    BY DEF IInv, TypeOK
  <2>2. [row |-> "gone", key |-> NoKey] \in [row : RowStates, key : Keys \cup {NoKey}]
    BY DEF RowStates
  <2>3. [docs[d] EXCEPT !.row = "tombstone"] \in [row : RowStates, key : Keys \cup {NoKey}]
    BY <2>1 DEF RowStates
  <2> QED BY <1>a, <2>1, <2>2, <2>3
<1>1. heads' \in [Docs -> Nat]
  BY <1>a DEF IInv, TypeOK
<1>2. RowsHaveKeys'
  <2> SUFFICES ASSUME NEW e \in Docs, docs'[e].row \in {"live", "tombstone"}
               PROVE  docs'[e].key \in Keys
    BY DEF RowsHaveKeys, HasRow
  <2>1. docs[e].row \in {"live", "tombstone"} => docs[e].key \in Keys
    BY DEF IInv, RowsHaveKeys, HasRow
  <2>2. CASE e = d
    BY <1>a, <2>1, <2>2 DEF IInv, TypeOK
  <2>3. CASE e # d
    BY <1>a, <2>1, <2>3 DEF IInv, TypeOK
  <2> QED BY <2>2, <2>3
<1>3. EntriesResolve'
  <2> SUFFICES ASSUME NEW n \in 1..Len(releases), NEW e \in releases[n].entries
               PROVE  HasRow(e.doc)' /\ e.ver \in 1..heads'[e.doc]
    BY <1>0 DEF EntriesResolve
  <2>1. HasRow(e.doc) /\ e.ver \in 1..heads[e.doc] /\ e.doc \in Docs
    BY DEF IInv, EntriesResolve, EntriesAreManifests, Manifest, Entry
  <2>2. CASE ~Referenced(d)
    <3>1. e.doc # d
      BY <2>2 DEF Referenced, DocsOf
    <3> QED BY <2>1, <3>1 DEF RemoveDoc, HasRow, IInv, TypeOK
  <2>3. CASE Referenced(d)
    BY <2>1, <2>3 DEF RemoveDoc, HasRow, IInv, TypeOK
  <2> QED BY <2>2, <2>3
<1>4. CurrentEntries' = CurrentEntries
  BY <1>0 DEF CurrentEntries
<1>5. \A x \in Workers : RequestOK(x)'
  <2> TAKE x \in Workers
  <2>1. CASE x = w
    <3>1. work'[x] = Idle
      BY <1>0, <2>1 DEF IInv, TypeOK
    <3> QED BY <1>0, <2>1, <3>1 DEF RequestOK, Idle, OnePerDoc
  <2>2. CASE x # w
    <3>1. work'[x] = work[x]
      BY <1>0, <2>2 DEF IInv, TypeOK
    <3> QED BY <1>0, <1>4, <3>1, RequestTyped DEF RequestOK
  <2> QED BY <2>1, <2>2
<1>6. TypeOK'
  BY <1>0, <1>b, <1>1, IdleIsRequest DEF IInv, TypeOK
<1>7. StraightLine' /\ ChangesMatchHistory' /\ OutboxIsChanges' /\ EntriesAreManifests'
  BY <1>0 DEF IInv, StraightLine, ChangesMatchHistory, OutboxIsChanges, EntriesAreManifests
<1> QED BY <1>2, <1>3, <1>5, <1>6, <1>7 DEF IInv

-----------------------------------------------------------------------------
(* The cut *)

\* The release a cut writes: the next number, a manifest, compared with the entries
\* of the newest release, which the lock has kept the newest.
LEMMA CutRelease ==
    ASSUME IInv, NEW w \in Workers, CommitCut(w)
    PROVE  /\ NewRelease(work[w]) \in Release
           /\ NewRelease(work[w]).number = Len(releases) + 1
           /\ NewRelease(work[w]).entries = work[w].specs
           /\ NewRelease(work[w]).changes = Diff(CurrentEntries, work[w].specs)
           /\ Manifest(work[w].specs)
           /\ CurrentEntries = EntriesAt(releases, Len(releases))
<1>1. work[w] \in Request /\ RequestOK(w) /\ work[w].pc = "write" /\ Insertable(work[w])
  BY RequestTyped DEF CommitCut
<1>2. work[w].number = Len(releases) + 1 /\ work[w].prev = CurrentEntries
  BY <1>1 DEF RequestOK
<1>3. work[w].specs \in SUBSET Entry /\ work[w].prev \in SUBSET Entry
  BY <1>1 DEF Request
<1>4. Diff(work[w].prev, work[w].specs) \in SUBSET Change
  BY <1>3, DiffTyped
<1>5. NewRelease(work[w]) \in Release
  BY <1>1, <1>3, <1>4 DEF NewRelease, Release, Request
<1>6. Manifest(work[w].specs)
  BY <1>1, <1>3 DEF RequestOK, Insertable, Manifest
<1>7. CurrentEntries = EntriesAt(releases, Len(releases))
  BY DEF IInv, StraightLine, CurrentEntries
<1> QED BY <1>2, <1>5, <1>6, <1>7 DEF NewRelease

LEMMA CommitCutStep ==
    ASSUME IInv, NEW w \in Workers, CommitCut(w)
    PROVE  IInv'
<1> DEFINE new == NewRelease(work[w])
           len == Len(releases)
<1>1. /\ new \in Release
      /\ new.number = len + 1
      /\ new.entries = work[w].specs
      /\ new.changes = Diff(EntriesAt(releases, len), new.entries)
      /\ Manifest(new.entries)
  BY CutRelease
<1>2. releases \in Seq(Release) /\ outbox \in Seq(SUBSET Job) /\ len \in Nat
  BY DEF IInv, TypeOK
<1>3. /\ releases' = Append(releases, new)
      /\ current' = len + 1
      /\ outbox' = Append(outbox, JobsOf(new.changes))
      /\ appLock' = Nobody
      /\ work' = [work EXCEPT ![w] = Idle]
      /\ UNCHANGED <<docs, heads>>
  BY DEF CommitCut
<1>4. JobsOf(new.changes) \in SUBSET Job
  BY <1>1, JobsTyped DEF Release
<1> HIDE DEF new
<1>5. /\ releases' \in Seq(Release) /\ Len(releases') = len + 1
      /\ releases'[len + 1] = new
      /\ \A n \in 1..len : releases'[n] = releases[n]
  BY <1>1, <1>2, <1>3
<1>6. /\ outbox' \in Seq(SUBSET Job) /\ Len(outbox') = len + 1
      /\ outbox'[len + 1] = JobsOf(new.changes)
      /\ \A n \in 1..len : outbox'[n] = outbox[n]
  BY <1>2, <1>3, <1>4 DEF IInv, OutboxIsChanges
<1>7. \A n \in 0..len : EntriesAt(releases', n) = EntriesAt(releases, n)
  BY <1>2, <1>5 DEF EntriesAt
<1>8. \A n \in 1..(len + 1) : n = len + 1 \/ n \in 1..len
  BY <1>2
<1>9. TypeOK'
  BY <1>2, <1>3, <1>5, <1>6, IdleIsRequest DEF IInv, TypeOK
<1>10. RowsHaveKeys'
  BY <1>3 DEF IInv, RowsHaveKeys, HasRow
<1>11. \A x \in Workers : RequestOK(x)'
  <2> TAKE x \in Workers
  <2>1. appLock = w
    BY RequestTyped DEF CommitCut, RequestOK
  <2>2. CASE x = w
    <3>1. work'[x] = Idle
      BY <1>3, <2>2 DEF IInv, TypeOK
    <3> QED BY <1>3, <2>2, <3>1, WorkersAssumption DEF RequestOK, Idle, OnePerDoc
  <2>3. CASE x # w
    <3>1. work'[x] = work[x]
      BY <1>3, <2>3 DEF IInv, TypeOK
    <3>2. work[x].pc # "write"
      BY <2>1, <2>3, RequestTyped DEF RequestOK
    <3>3. appLock' # x
      BY <1>3, WorkersAssumption
    <3> QED BY <3>1, <3>2, <3>3, RequestTyped DEF RequestOK
  <2> QED BY <2>2, <2>3
<1>12. StraightLine'
  BY <1>1, <1>2, <1>3, <1>5, <1>8 DEF IInv, StraightLine
<1>13. ChangesMatchHistory'
  <2> SUFFICES ASSUME NEW n \in 1..(len + 1)
               PROVE  releases'[n].changes = Diff(EntriesAt(releases', n - 1), releases'[n].entries)
    BY <1>5 DEF ChangesMatchHistory
  <2>1. EntriesAt(releases', n - 1) = EntriesAt(releases, n - 1)
    BY <1>2, <1>7
  <2>2. CASE n = len + 1
    BY <1>1, <1>2, <1>5, <2>1, <2>2
  <2>3. CASE n \in 1..len
    BY <1>5, <2>1, <2>3 DEF IInv, ChangesMatchHistory
  <2> QED BY <1>8, <2>2, <2>3
<1>14. OutboxIsChanges'
  BY <1>5, <1>6, <1>8 DEF IInv, OutboxIsChanges
<1>15. EntriesAreManifests'
  BY <1>1, <1>5, <1>8 DEF IInv, EntriesAreManifests
<1>16. EntriesResolve'
  <2> SUFFICES ASSUME NEW n \in 1..(len + 1), NEW e \in releases'[n].entries
               PROVE  HasRow(e.doc)' /\ e.ver \in 1..heads'[e.doc]
    BY <1>5 DEF EntriesResolve
  <2>1. CASE n = len + 1
    <3>1. e \in work[w].specs /\ e \in Entry
      BY <1>1, <1>5, <2>1 DEF Manifest, new, NewRelease
    <3>2. HasRow(e.doc) /\ e.ver <= heads[e.doc]
      BY <3>1 DEF CommitCut, Insertable
    <3> QED BY <1>3, <3>1, <3>2 DEF HasRow, Entry, Vers, IInv, TypeOK
  <2>2. CASE n \in 1..len
    BY <1>3, <1>5, <2>2 DEF IInv, EntriesResolve, HasRow
  <2> QED BY <1>8, <2>1, <2>2
<1> QED BY <1>9, <1>10, <1>11, <1>12, <1>13, <1>14, <1>15, <1>16 DEF IInv

-----------------------------------------------------------------------------
(* The theorems *)

LEMMA InitIInv == Init => IInv
<1> SUFFICES ASSUME Init PROVE IInv
  OBVIOUS
<1>1. TypeOK
  BY IdleIsRequest DEF Init, TypeOK, RowStates
<1>2. RowsHaveKeys
  BY DEF Init, RowsHaveKeys, HasRow
<1>3. \A w \in Workers : RequestOK(w)
  <2> TAKE w \in Workers
  <2>1. work[w] = Idle /\ appLock # w
    BY WorkersAssumption DEF Init
  <2> QED BY <2>1 DEF RequestOK, Idle, OnePerDoc
<1>4. releases = <<>> /\ outbox = <<>> /\ current = 0
  BY DEF Init
<1> QED BY <1>1, <1>2, <1>3, <1>4 DEF IInv, StraightLine, ChangesMatchHistory, OutboxIsChanges,
        EntriesAreManifests, EntriesResolve

LEMMA NextIInv == IInv /\ [Next]_vars => IInv'
<1> SUFFICES ASSUME IInv, [Next]_vars PROVE IInv'
  OBVIOUS
<1>1. CASE UNCHANGED vars
  <2>1. UNCHANGED <<docs, heads, releases, current, appLock, outbox, work>>
    BY <1>1 DEF vars
  <2>2. RowsHaveKeys' /\ EntriesResolve'
    BY <2>1 DEF IInv, RowsHaveKeys, EntriesResolve, HasRow
  <2> QED BY <2>1, <2>2, DocumentStep DEF IInv, TypeOK
<1>2. CASE Author
  BY <1>2, CreateDocStep, MoveDocStep, SaveVersionStep DEF Author
<1>3. ASSUME NEW w \in Workers, Begin(w)
      PROVE  IInv'
  BY <1>3, BeginCutStep, BeginDeleteStep, BeginUnpublishStep, BeginPublishStep, BeginRollbackStep
     DEF Begin
<1>4. ASSUME NEW w \in Workers, Proceed(w)
      PROVE  IInv'
  BY <1>4, RemoveDocStep, ReadHeadStep, EndSnapshotStep, CarryStep, LockAppStep, CommitCutStep,
     RefuseCutStep DEF Proceed
<1> QED BY <1>1, <1>2, <1>3, <1>4, AbandonStep DEF Next

\* The inductive invariant holds of every behaviour.
THEOREM Invariance == Spec => []IInv
BY InitIInv, NextIInv, PTL DEF Spec

\* Every column keeps its type.
THEOREM TypeCorrect == Spec => []TypeOK
<1>1. IInv => TypeOK
  BY DEF IInv
<1> QED BY <1>1, Invariance, PTL

\* However many requests cut at once, release numbers are 1, 2, 3, ... and the app
\* points at the last (the app row's lock in cut).
THEOREM NumbersAreStraight == Spec => []StraightLine
<1>1. IInv => StraightLine
  BY DEF IInv
<1> QED BY <1>1, Invariance, PTL

\* The change rows a cut writes are the difference to the release numbered one
\* below, whatever was cut between the choice of its entries and the lock.
THEOREM ChangesAreDifferences == Spec => []ChangesMatchHistory
<1>1. IInv => ChangesMatchHistory
  BY DEF IInv
<1> QED BY <1>1, Invariance, PTL

\* No release loses a document or a version to deletion.
THEOREM ReleasesStayWhole == Spec => []EntriesResolve
<1>1. IInv => EntriesResolve
  BY DEF IInv
<1> QED BY <1>1, Invariance, PTL

\* A release never serves a document twice, nor a path twice.
THEOREM ReleasesAreManifests == Spec => []EntriesAreManifests
<1>1. IInv => EntriesAreManifests
  BY DEF IInv
<1> QED BY <1>1, Invariance, PTL

\* The jobs of a cut turn an index of the release before it into an index of it.
THEOREM OutboxReplaysLine == Spec => []OutboxFollowsLine
<1>1. IInv => OutboxFollowsLine
  <2> SUFFICES ASSUME IInv, NEW n \in 1..Len(outbox)
               PROVE  ApplyJobs(EntriesAt(releases, n - 1), outbox[n]) = releases[n].entries
    BY DEF OutboxFollowsLine, IInv, OutboxIsChanges
  <2>1. n \in 1..Len(releases) /\ n - 1 \in 0..Len(releases)
    BY DEF IInv, OutboxIsChanges, TypeOK
  <2>2. Manifest(EntriesAt(releases, n - 1))
    BY <2>1, IInvParts, EntriesAtManifest
  <2>3. Manifest(releases[n].entries)
    BY <2>1 DEF IInv, EntriesAreManifests
  <2>4. outbox[n] = JobsOf(Diff(EntriesAt(releases, n - 1), releases[n].entries))
    BY <2>1 DEF IInv, OutboxIsChanges, ChangesMatchHistory
  <2> QED BY <2>2, <2>3, <2>4, DiffReplays DEF Manifest
<1> QED BY <1>1, Invariance, PTL

-----------------------------------------------------------------------------
(* Refinement: requests, locks and phases are invisible outside.           *)

\* The instance's copies of the operators of ReleaseDiff are the operators.
LEMMA SameOperators ==
    /\ \A prev, next : Line!Diff(prev, next) = Diff(prev, next)
    /\ \A rows : Line!JobsOf(rows) = JobsOf(rows)
    /\ \A es : Line!Manifest(es) = Manifest(es)
<1>1. ASSUME NEW es
      PROVE  Line!DocsOf(es) = DocsOf(es)
  BY DEF Line!DocsOf, DocsOf
<1>2. ASSUME NEW prev, NEW next
      PROVE  Line!Diff(prev, next) = Diff(prev, next)
  BY <1>1 DEF Line!Diff, Diff, Line!Added, Added, Line!Moved, Moved, Line!Changed, Changed,
     Line!Removed, Removed
<1>3. ASSUME NEW rows
      PROVE  Line!JobsOf(rows) = JobsOf(rows)
  BY DEF Line!JobsOf, JobsOf, Line!JobOf, JobOf
<1>4. ASSUME NEW es
      PROVE  Line!Manifest(es) = Manifest(es)
  BY DEF Line!Manifest, Manifest, Line!Entry, Entry, Line!Vers, Vers, Line!OnePerDoc, OnePerDoc,
     Line!OnePerKey, OnePerKey
<1> QED BY <1>2, <1>3, <1>4

\* The step of a commit is one cut of the line, to the entries the request carries.
LEMMA CommitIsCut ==
    ASSUME IInv, NEW w \in Workers, CommitCut(w)
    PROVE  Line!Next
<1> DEFINE new == NewRelease(work[w])
           len == Len(releases)
           Row(r) == [number |-> r.number, entries |-> r.entries, changes |-> r.changes]
           line == [n \in 1..Len(releases) |-> Row(releases[n])]
<1>1. /\ new.number = len + 1 /\ new.entries = work[w].specs
      /\ new.changes = Diff(CurrentEntries, work[w].specs)
      /\ Manifest(work[w].specs)
      /\ new \in Release
  BY CutRelease
<1>2. releases \in Seq(Release) /\ len \in Nat
  BY DEF IInv, TypeOK
<1>3. releases' = Append(releases, new) /\ current' = len + 1
      /\ outbox' = Append(outbox, JobsOf(new.changes))
  BY DEF CommitCut
<1> HIDE DEF new
<1>4. Len(releases') = len + 1 /\ releases'[len + 1] = new /\ \A n \in 1..len : releases'[n] = releases[n]
  BY <1>1, <1>2, <1>3
<1>5. CurrentEntries' = work[w].specs
  BY <1>1, <1>2, <1>3, <1>4 DEF CurrentEntries, EntriesAt
<1>6. Len(line) = len
  BY <1>2
<1>7. line' = Append(line, Row(new))
  <2>1. line' = [n \in 1..(len + 1) |-> Row(releases'[n])]
    BY <1>4
  <2>2. Append(line, Row(new)) = [n \in 1..(len + 1) |-> IF n = len + 1 THEN Row(new) ELSE line[n]]
    BY <1>2, <1>6
  <2>3. \A n \in 1..(len + 1) : Row(releases'[n]) = IF n = len + 1 THEN Row(new) ELSE line[n]
    BY <1>2, <1>4
  <2> QED BY <2>1, <2>2, <2>3
<1>8. Row(new) = [number |-> Len(line) + 1, entries |-> CurrentEntries',
                  changes |-> Diff(CurrentEntries, CurrentEntries')]
  BY <1>1, <1>5, <1>6
<1>9. line' = Append(line, [number |-> Len(line) + 1, entries |-> CurrentEntries',
                            changes |-> Diff(CurrentEntries, CurrentEntries')])
  BY <1>7, <1>8
<1>10. outbox' = Append(outbox, JobsOf(Diff(CurrentEntries, CurrentEntries')))
  BY <1>1, <1>3, <1>5
<1>11. Manifest(CurrentEntries')
  BY <1>1, <1>5
<1> QED BY <1>9, <1>10, <1>11, SameOperators DEF Line!Next, Line!Cut

LEMMA StepIsLineStep == IInv /\ [Next]_vars => [Line!Next]_(Line!lineVars)
<1> SUFFICES ASSUME IInv, [Next]_vars
             PROVE  [Line!Next]_(Line!lineVars)
  OBVIOUS
<1>1. ASSUME UNCHANGED <<releases, current, outbox>>
      PROVE  UNCHANGED Line!lineVars
  <2>1. CurrentEntries' = CurrentEntries
    BY <1>1 DEF CurrentEntries
  <2> QED BY <1>1, <2>1 DEF Line!lineVars
<1>2. CASE UNCHANGED vars
  BY <1>1, <1>2 DEF vars
<1>3. CASE Author
  BY <1>1, <1>3 DEF Author, CreateDoc, MoveDoc, SaveVersion
<1>4. ASSUME NEW w \in Workers, Begin(w)
      PROVE  UNCHANGED Line!lineVars
  BY <1>1, <1>4 DEF Begin, BeginCut, BeginDelete, BeginUnpublish, BeginPublish, BeginRollback
<1>5. ASSUME NEW w \in Workers, Proceed(w)
      PROVE  [Line!Next]_(Line!lineVars)
  <2>1. CASE CommitCut(w)
    BY <2>1, CommitIsCut
  <2>2. CASE \E d \in Docs : RemoveDoc(w, d)
    BY <1>1, <2>2 DEF RemoveDoc
  <2>3. CASE \E d \in Docs, k \in Keys : ReadHead(w, d, k)
    BY <1>1, <2>3 DEF ReadHead
  <2>4. CASE EndSnapshot(w) \/ Carry(w) \/ LockApp(w) \/ RefuseCut(w)
    BY <1>1, <2>4 DEF EndSnapshot, Carry, LockApp, RefuseCut
  <2> QED BY <1>5, <2>1, <2>2, <2>3, <2>4 DEF Proceed
<1>6. ASSUME NEW w \in Workers, Abandon(w)
      PROVE  UNCHANGED Line!lineVars
  BY <1>1, <1>6 DEF Abandon
<1> QED BY <1>2, <1>3, <1>4, <1>5, <1>6 DEF Next

\* The machinery implements the promise of ReleaseLine: an append-only line, cut
\* one whole release at a time.
THEOREM Refinement == Spec => ImplementsLine
<1>1. Init => Line!Init
  BY DEF Init, Line!Init, CurrentEntries, EntriesAt
<1> QED BY <1>1, StepIsLineStep, Invariance, PTL DEF Spec, ImplementsLine, Line!Spec

-----------------------------------------------------------------------------
(* One request at a time, authors editing meanwhile: what the comments      *)
(* promise holds when no cut comes between a request's reads and its end.   *)

OneAtATime == \A v, w \in Workers : v = w

\* What a request that nothing overtakes has read: a document it deletes is not
\* live, a publish carries the current entries of every other document, and a full
\* cut has read of no document a version older than the current one.
Undisturbed(w) ==
    LET req == work[w] IN
    /\ req.pc = "heads" => req.kind = "cut"
    /\ req.pc = "carry" => req.kind \in {"publish", "unpublish"}
    /\ req.pc = "remove" => \A d \in req.subject : d \notin DocsOf(CurrentEntries)
    /\ req.pc \in {"lock", "write"} /\ req.kind \in {"publish", "unpublish"} =>
          \A e \in Entry : e.doc \notin req.subject => (e \in req.specs <=> e \in CurrentEntries)
    /\ req.pc \in {"heads", "lock", "write"} /\ req.kind = "cut" =>
          \A e \in req.specs, old \in CurrentEntries : e.doc = old.doc => e.ver >= old.ver

AllUndisturbed == \A w \in Workers : Undisturbed(w)

\* A request that stays as it is while no release is cut stays undisturbed.
LEMMA StaysUndisturbed ==
    ASSUME NEW w \in Workers, Undisturbed(w), work'[w] = work[w], UNCHANGED <<releases, current>>
    PROVE  Undisturbed(w)'
<1>1. CurrentEntries' = CurrentEntries
  BY DEF CurrentEntries
<1> QED BY <1>1 DEF Undisturbed

\* So does one that is over.
LEMMA OverUndisturbed ==
    ASSUME NEW w \in Workers, work'[w] = Idle
    PROVE  Undisturbed(w)'
BY DEF Undisturbed, Idle

LEMMA BeginsUndisturbed ==
    ASSUME IInv, NEW w \in Workers, Begin(w)
    PROVE  Undisturbed(w)'
<1>1. CurrentEntries' = CurrentEntries
  BY DEF Begin, BeginCut, BeginDelete, BeginUnpublish, BeginPublish, BeginRollback, CurrentEntries
<1>2. ASSUME BeginCut(w)
      PROVE  Undisturbed(w)'
  <2>1. work'[w].pc = "heads" /\ work'[w].kind = "cut" /\ work'[w].specs = {}
    BY <1>2 DEF BeginCut, IInv, TypeOK, Idle
  <2> QED BY <2>1 DEF Undisturbed
<1>3. ASSUME NEW d \in Docs, BeginDelete(w, d)
      PROVE  Undisturbed(w)'
  <2>1. work'[w].pc = "remove" /\ work'[w].subject = {d} /\ d \notin DocsOf(CurrentEntries)
    BY <1>3 DEF BeginDelete, IInv, TypeOK, Idle
  <2> QED BY <1>1, <2>1 DEF Undisturbed
<1>4. ASSUME NEW d \in Docs, BeginUnpublish(w, d)
      PROVE  Undisturbed(w)'
  <2>1. work'[w].pc = "carry" /\ work'[w].kind = "unpublish"
    BY <1>4 DEF BeginUnpublish, IInv, TypeOK, Idle
  <2> QED BY <2>1 DEF Undisturbed
<1>5. ASSUME NEW d \in Docs, NEW v \in 1..heads[d], BeginPublish(w, d, v)
      PROVE  Undisturbed(w)'
  <2>1. work'[w].pc = "carry" /\ work'[w].kind = "publish"
    BY <1>5 DEF BeginPublish, IInv, TypeOK, Idle
  <2> QED BY <2>1 DEF Undisturbed
<1>6. ASSUME NEW n \in 1..Len(releases), BeginRollback(w, n)
      PROVE  Undisturbed(w)'
  <2>1. work'[w].pc = "lock" /\ work'[w].kind = "rollback"
    BY <1>6 DEF BeginRollback, IInv, TypeOK, Idle
  <2> QED BY <2>1 DEF Undisturbed
<1> QED BY <1>2, <1>3, <1>4, <1>5, <1>6 DEF Begin

\* The head a full cut reads is no older than the version live now: the version is
\* there, since no release loses one (EntriesResolve).
LEMMA ReadHeadUndisturbed ==
    ASSUME IInv, NEW w \in Workers, NEW d \in Docs, NEW k \in Keys, ReadHead(w, d, k),
           Undisturbed(w)
    PROVE  Undisturbed(w)'
<1> DEFINE new == {[doc |-> e, key |-> k, ver |-> heads[e]] : e \in {f \in {d} : heads[f] > 0}}
<1>1. work[w].pc = "heads" /\ work[w].kind = "cut"
  BY DEF ReadHead, Undisturbed
<1>2. work'[w].pc = "heads" /\ work'[w].kind = "cut" /\ work'[w].specs = work[w].specs \cup new
  BY <1>1, RequestTyped DEF ReadHead, IInv, TypeOK, Request
<1>3. CurrentEntries' = CurrentEntries
  BY DEF ReadHead, CurrentEntries
<1>4. \A old \in CurrentEntries : old.ver \in 1..heads[old.doc]
  <2>1. current \in 0..Len(releases)
    BY DEF IInv, TypeOK
  <2> QED BY <2>1 DEF CurrentEntries, EntriesAt, IInv, EntriesResolve
<1>5. \A e \in new : e.doc = d /\ e.ver = heads[d]
  OBVIOUS
<1>6. heads[d] \in Nat
  BY DEF IInv, TypeOK
<1> HIDE DEF new
<1>7. \A e \in work[w].specs \cup new, old \in CurrentEntries : e.doc = old.doc => e.ver >= old.ver
  <2> SUFFICES ASSUME NEW e \in work[w].specs \cup new, NEW old \in CurrentEntries,
                      e.doc = old.doc
               PROVE  e.ver >= old.ver
    OBVIOUS
  <2>1. CASE e \in new
    BY <1>4, <1>5, <1>6, <2>1
  <2>2. CASE e \in work[w].specs
    BY <1>1, <2>2 DEF Undisturbed
  <2> QED BY <2>1, <2>2
<1> QED BY <1>2, <1>3, <1>7 DEF Undisturbed

LEMMA CarryUndisturbed ==
    ASSUME IInv, NEW w \in Workers, Carry(w), Undisturbed(w)
    PROVE  Undisturbed(w)'
<1>1. work[w].pc = "carry" /\ work[w].kind \in {"publish", "unpublish"}
  BY DEF Carry, Undisturbed
<1>2. /\ work'[w].pc = "lock" /\ work'[w].kind = work[w].kind
      /\ work'[w].subject = work[w].subject /\ work'[w].specs = Carried(w)
  BY RequestTyped DEF Carry, IInv, TypeOK, Request
<1>3. CurrentEntries' = CurrentEntries
  BY DEF Carry, CurrentEntries
<1>4. \A e \in Entry : e.doc \notin work[w].subject => (e \in Carried(w) <=> e \in CurrentEntries)
  BY DEF Carried
<1> QED BY <1>1, <1>2, <1>3, <1>4 DEF Undisturbed

LEMMA ProceedsUndisturbed ==
    ASSUME IInv, NEW w \in Workers, Proceed(w), Undisturbed(w)
    PROVE  Undisturbed(w)'
<1>1. ASSUME EndSnapshot(w)
      PROVE  Undisturbed(w)'
  <2>1. /\ work[w].pc = "heads" /\ work'[w].pc = "lock" /\ work'[w].kind = work[w].kind
        /\ work'[w].specs = work[w].specs
    BY <1>1, RequestTyped DEF EndSnapshot, IInv, TypeOK, Request
  <2>2. CurrentEntries' = CurrentEntries
    BY <1>1 DEF EndSnapshot, CurrentEntries
  <2> QED BY <2>1, <2>2 DEF Undisturbed
<1>2. ASSUME LockApp(w)
      PROVE  Undisturbed(w)'
  <2>1. /\ work[w].pc = "lock" /\ work'[w].pc = "write" /\ work'[w].kind = work[w].kind
        /\ work'[w].specs = work[w].specs /\ work'[w].subject = work[w].subject
    BY <1>2, RequestTyped DEF LockApp, IInv, TypeOK, Request
  <2>2. CurrentEntries' = CurrentEntries
    BY <1>2 DEF LockApp, CurrentEntries
  <2> QED BY <2>1, <2>2 DEF Undisturbed
<1>3. ASSUME (\E d \in Docs : RemoveDoc(w, d)) \/ CommitCut(w) \/ RefuseCut(w)
      PROVE  Undisturbed(w)'
  <2>1. work'[w] = Idle
    BY <1>3 DEF RemoveDoc, CommitCut, RefuseCut, IInv, TypeOK
  <2> QED BY <2>1, OverUndisturbed
<1> QED BY <1>1, <1>2, <1>3, ReadHeadUndisturbed, CarryUndisturbed DEF Proceed

\* With no second request, every step leaves every request undisturbed.
LEMMA NextUndisturbed ==
    ASSUME OneAtATime, IInv, AllUndisturbed, [Next]_vars
    PROVE  AllUndisturbed'
<1>1. ASSUME NEW w \in Workers, Undisturbed(w)'
      PROVE  AllUndisturbed'
  BY <1>1 DEF OneAtATime, AllUndisturbed
<1>2. CASE Author \/ UNCHANGED vars
  <2>1. UNCHANGED <<releases, current, work>>
    BY <1>2 DEF Author, CreateDoc, MoveDoc, SaveVersion, vars
  <2> QED BY <2>1, StaysUndisturbed DEF AllUndisturbed
<1>3. ASSUME NEW w \in Workers, Begin(w)
      PROVE  AllUndisturbed'
  BY <1>1, <1>3, BeginsUndisturbed
<1>4. ASSUME NEW w \in Workers, Proceed(w)
      PROVE  AllUndisturbed'
  BY <1>1, <1>4, ProceedsUndisturbed DEF AllUndisturbed
<1>5. ASSUME NEW w \in Workers, Abandon(w)
      PROVE  AllUndisturbed'
  <2>1. work'[w] = Idle
    BY <1>5 DEF Abandon, IInv, TypeOK
  <2> QED BY <1>1, <2>1, OverUndisturbed
<1> QED BY <1>2, <1>3, <1>4, <1>5 DEF Next

\* Releases change only when a cut commits, which adds one.
LEMMA ReleasesGrow ==
    ASSUME IInv, [Next]_vars,
           ~ \E w \in Workers : CommitCut(w)
    PROVE  UNCHANGED <<releases, current>>
<1>1. CASE Author \/ UNCHANGED vars
  BY <1>1 DEF Author, CreateDoc, MoveDoc, SaveVersion, vars
<1>2. ASSUME NEW w \in Workers, Begin(w)
      PROVE  UNCHANGED <<releases, current>>
  BY <1>2 DEF Begin, BeginCut, BeginDelete, BeginUnpublish, BeginPublish, BeginRollback
<1>3. ASSUME NEW w \in Workers, Proceed(w)
      PROVE  UNCHANGED <<releases, current>>
  BY <1>3 DEF Proceed, RemoveDoc, ReadHead, EndSnapshot, Carry, LockApp, RefuseCut
<1>4. ASSUME NEW w \in Workers, Abandon(w)
      PROVE  UNCHANGED <<releases, current>>
  BY <1>4 DEF Abandon
<1> QED BY <1>1, <1>2, <1>3, <1>4 DEF Next

\* The release of an undisturbed request, against the one before it.
LEMMA CommitKeepsPromise ==
    ASSUME IInv, NEW w \in Workers, Undisturbed(w), CommitCut(w)
    PROVE  LET new == NewRelease(work[w]) IN
           /\ new.kind \in {"publish", "unpublish"} => \A row \in new.changes : row.doc \in new.subject
           /\ new.kind = "cut" =>
                 \A e \in new.entries, old \in CurrentEntries : e.doc = old.doc => e.ver >= old.ver
<1> DEFINE req == work[w]
           new == NewRelease(req)
<1>1. req \in Request /\ req.pc = "write" /\ Undisturbed(w)
  BY RequestTyped DEF CommitCut
<1>2. new.kind = req.kind /\ new.subject = req.subject /\ new.entries = req.specs
      /\ new.changes = Diff(CurrentEntries, req.specs)
  BY CutRelease DEF NewRelease
<1>3. CurrentEntries \subseteq Entry /\ req.specs \subseteq Entry
  BY IInvParts, CurrentIsManifest, CutRelease DEF Manifest
<1> HIDE DEF new
<1>4. ASSUME req.kind \in {"publish", "unpublish"}
      PROVE  \A row \in Diff(CurrentEntries, req.specs) : row.doc \in req.subject
  <2>1. \A e \in Entry : e.doc \notin req.subject => (e \in req.specs <=> e \in CurrentEntries)
    BY <1>1, <1>4 DEF Undisturbed
  <2>2. OnePerDoc(CurrentEntries) /\ OnePerDoc(req.specs)
    BY IInvParts, CurrentIsManifest, CutRelease DEF Manifest
  <2> QED BY <1>3, <2>1, <2>2, DiffWithin
<1>5. ASSUME req.kind = "cut", NEW e \in req.specs, NEW old \in CurrentEntries, e.doc = old.doc
      PROVE  e.ver >= old.ver
  BY <1>1, <1>5 DEF Undisturbed
<1> QED BY <1>2, <1>4, <1>5 DEF new

LEMMA NextKeepsPromise ==
    ASSUME IInv, AllUndisturbed, PublishTouchesOnlySubject, CutNeverRegresses, [Next]_vars
    PROVE  PublishTouchesOnlySubject' /\ CutNeverRegresses'
<1>1. CASE ~ \E w \in Workers : CommitCut(w)
  BY <1>1, ReleasesGrow DEF PublishTouchesOnlySubject, CutNeverRegresses
<1>2. ASSUME NEW w \in Workers, CommitCut(w)
      PROVE  PublishTouchesOnlySubject' /\ CutNeverRegresses'
  <2> DEFINE new == NewRelease(work[w])
             len == Len(releases)
  <2>1. /\ new.kind \in {"publish", "unpublish"} => \A row \in new.changes : row.doc \in new.subject
        /\ new.kind = "cut" =>
              \A e \in new.entries, old \in CurrentEntries : e.doc = old.doc => e.ver >= old.ver
        /\ CurrentEntries = EntriesAt(releases, len)
        /\ new \in Release
    BY <1>2, CommitKeepsPromise, CutRelease DEF AllUndisturbed
  <2>2. releases \in Seq(Release) /\ len \in Nat
    BY DEF IInv, TypeOK
  <2>3. releases' = Append(releases, new)
    BY <1>2 DEF CommitCut
  <2> HIDE DEF new
  <2>4. /\ Len(releases') = len + 1 /\ releases'[len + 1] = new
        /\ \A n \in 1..len : releases'[n] = releases[n]
    BY <2>1, <2>2, <2>3
  <2>5. ASSUME NEW n \in 1..(len + 1), releases'[n].kind \in {"publish", "unpublish"}
        PROVE  \A row \in releases'[n].changes : row.doc \in releases'[n].subject
    <3>1. CASE n = len + 1
      BY <2>1, <2>4, <2>5, <3>1
    <3>2. CASE n \in 1..len
      BY <2>4, <2>5, <3>2 DEF PublishTouchesOnlySubject
    <3> QED BY <2>2, <3>1, <3>2
  <2>6. ASSUME NEW n \in 2..(len + 1), releases'[n].kind = "cut",
               NEW e \in releases'[n].entries, NEW old \in releases'[n - 1].entries,
               e.doc = old.doc
        PROVE  e.ver >= old.ver
    <3>1. n - 1 \in 1..len /\ releases'[n - 1] = releases[n - 1]
      BY <2>2, <2>4
    <3>2. CASE n = len + 1
      <4>1. old \in CurrentEntries
        BY <2>1, <2>2, <3>1, <3>2 DEF EntriesAt
      <4> QED BY <2>1, <2>4, <2>6, <3>2, <4>1
    <3>3. CASE n \in 2..len
      BY <2>2, <2>4, <2>6, <3>1, <3>3 DEF CutNeverRegresses
    <3> QED BY <2>2, <3>2, <3>3
  <2> QED BY <2>4, <2>5, <2>6 DEF PublishTouchesOnlySubject, CutNeverRegresses
<1> QED BY <1>1, <1>2

LEMMA InitUndisturbed == Init => AllUndisturbed /\ PublishTouchesOnlySubject /\ CutNeverRegresses
BY DEF Init, AllUndisturbed, Undisturbed, Idle, PublishTouchesOnlySubject, CutNeverRegresses

\* What an undisturbed history is: every request undisturbed, every promise kept.
Orderly == AllUndisturbed /\ PublishTouchesOnlySubject /\ CutNeverRegresses

LEMMA OneAtATimeIsOrderly == OneAtATime => (Spec => []Orderly)
<1>1. Init => Orderly
  BY InitUndisturbed DEF Orderly
<1>2. OneAtATime /\ IInv /\ Orderly /\ [Next]_vars => Orderly'
  BY NextUndisturbed, NextKeepsPromise DEF Orderly
<1>3. ASSUME OneAtATime
      PROVE  Spec => []Orderly
  <2>1. IInv /\ Orderly /\ [Next]_vars => Orderly'
    BY <1>2, <1>3
  <2> QED BY <1>1, <2>1, Invariance, PTL DEF Spec
<1> QED BY <1>3

\* A publish or unpublish that nothing overtakes changes the entry of its own
\* document and no other, whatever authors do meanwhile (cutForDocument).
THEOREM PublishIsLocal ==
    ASSUME OneAtATime
    PROVE  Spec => []PublishTouchesOnlySubject
<1>1. Orderly => PublishTouchesOnlySubject
  BY DEF Orderly
<1> QED BY <1>1, OneAtATimeIsOrderly, PTL

\* A full cut that nothing overtakes never serves an older version of a document
\* than the release before it, though authors save versions between the reads of
\* its snapshot (snapshotHeads).
THEOREM CutsNeverRegress ==
    ASSUME OneAtATime
    PROVE  Spec => []CutNeverRegresses
<1>1. Orderly => CutNeverRegresses
  BY DEF Orderly
<1> QED BY <1>1, OneAtATimeIsOrderly, PTL

\* A row disappears, or turns tombstone, only while the current release does not
\* carry its document, if no cut comes between the check and the delete (Delete).
LEMMA StepRefusesLive ==
    ASSUME IInv, AllUndisturbed, [Next]_vars, NEW d \in Docs, HasRow(d), docs'[d].row # docs[d].row
    PROVE  d \notin DocsOf(CurrentEntries)
<1>1. PICK w \in Workers, e \in Docs : RemoveDoc(w, e)
  <2>1. docs' # docs
    OBVIOUS
  <2>2. CASE Author
    <3>1. ASSUME NEW e \in Docs, NEW k \in Keys, CreateDoc(e, k)
          PROVE  FALSE
      BY <3>1 DEF CreateDoc, IInv, TypeOK, HasRow
    <3>2. ASSUME NEW e \in Docs, NEW k \in Keys, MoveDoc(e, k)
          PROVE  FALSE
      BY <3>2 DEF MoveDoc, IInv, TypeOK
    <3>3. ASSUME NEW e \in Docs, SaveVersion(e)
          PROVE  FALSE
      BY <2>1, <3>3 DEF SaveVersion
    <3> QED BY <2>2, <3>1, <3>2, <3>3 DEF Author
  <2>3. ASSUME NEW w \in Workers, Begin(w) \/ Abandon(w)
        PROVE  FALSE
    BY <2>1, <2>3 DEF Begin, BeginCut, BeginDelete, BeginUnpublish, BeginPublish, BeginRollback, Abandon
  <2>4. ASSUME NEW w \in Workers, Proceed(w)
        PROVE  \E e \in Docs : RemoveDoc(w, e)
    BY <2>1, <2>4 DEF Proceed, ReadHead, EndSnapshot, Carry, LockApp, CommitCut, RefuseCut
  <2> QED BY <2>1, <2>2, <2>3, <2>4 DEF Next, vars
<1>2. d = e
  BY <1>1 DEF RemoveDoc, IInv, TypeOK
<1>3. work[w].pc = "remove" /\ work[w].subject = {e}
  BY <1>1 DEF RemoveDoc
<1> QED BY <1>2, <1>3 DEF AllUndisturbed, Undisturbed

THEOREM DeletionRefusesLive ==
    ASSUME OneAtATime
    PROVE  Spec => DeleteRefusesLive
<1>1. IInv /\ Orderly /\ [Next]_vars =>
          [\A d \in Docs : HasRow(d) /\ docs'[d].row # docs[d].row
                            => d \notin DocsOf(CurrentEntries)]_vars
  BY StepRefusesLive DEF Orderly
<1> QED BY <1>1, OneAtATimeIsOrderly, Invariance, PTL DEF Spec, DeleteRefusesLive

================================================================================
