------------------------- MODULE ReleaseDiff_proofs -------------------------
(***************************************************************************)
(* Lemmas about the comparison of two manifests, for all manifests.        *)
(***************************************************************************)
EXTENDS ReleaseDiff, TLAPS

\* Every row of a diff is of one of the four kinds, and says which (diffEntries).
LEMMA DiffRows ==
    ASSUME NEW prev, NEW next, NEW row \in Diff(prev, next)
    PROVE  \/ \E e \in next : e.doc \notin DocsOf(prev) /\ row = Added(e)
           \/ \E o \in prev, e \in next : o.doc = e.doc /\ o.key # e.key /\ row = Moved(o, e)
           \/ \E o \in prev, e \in next : /\ o.doc = e.doc /\ o.key = e.key /\ o.ver # e.ver
                                          /\ row = Changed(o, e)
           \/ \E o \in prev : o.doc \notin DocsOf(next) /\ row = Removed(o)
<1>1. CASE row \in {Added(e) : e \in {f \in next : f.doc \notin DocsOf(prev)}}
  BY <1>1
<1>2. CASE row \in {Moved(p[1], p[2]) : p \in {q \in prev \X next :
                                        q[1].doc = q[2].doc /\ q[1].key # q[2].key}}
  <2>1. PICK p \in prev \X next : p[1].doc = p[2].doc /\ p[1].key # p[2].key /\ row = Moved(p[1], p[2])
    BY <1>2
  <2>2. p[1] \in prev /\ p[2] \in next
    OBVIOUS
  <2> QED BY <2>1, <2>2
<1>3. CASE row \in {Changed(p[1], p[2]) : p \in {q \in prev \X next :
                                        /\ q[1].doc = q[2].doc
                                        /\ q[1].key = q[2].key
                                        /\ q[1].ver # q[2].ver}}
  <2>1. PICK p \in prev \X next : /\ p[1].doc = p[2].doc /\ p[1].key = p[2].key
                                  /\ p[1].ver # p[2].ver /\ row = Changed(p[1], p[2])
    BY <1>3
  <2>2. p[1] \in prev /\ p[2] \in next
    OBVIOUS
  <2> QED BY <2>1, <2>2
<1>4. CASE row \in {Removed(e) : e \in {f \in prev : f.doc \notin DocsOf(next)}}
  BY <1>4
<1> QED BY <1>1, <1>2, <1>3, <1>4 DEF Diff

\* The four ways to be a row of a diff.
LEMMA DiffHasRows ==
    ASSUME NEW prev, NEW next
    PROVE  /\ \A e \in next : e.doc \notin DocsOf(prev) => Added(e) \in Diff(prev, next)
           /\ \A o \in prev, e \in next :
                 o.doc = e.doc /\ o.key # e.key => Moved(o, e) \in Diff(prev, next)
           /\ \A o \in prev, e \in next :
                 o.doc = e.doc /\ o.key = e.key /\ o.ver # e.ver => Changed(o, e) \in Diff(prev, next)
           /\ \A o \in prev : o.doc \notin DocsOf(next) => Removed(o) \in Diff(prev, next)
<1>1. ASSUME NEW e \in next, e.doc \notin DocsOf(prev)
      PROVE  Added(e) \in Diff(prev, next)
  BY <1>1 DEF Diff
<1>2. ASSUME NEW o \in prev, NEW e \in next, o.doc = e.doc, o.key # e.key
      PROVE  Moved(o, e) \in Diff(prev, next)
  <2> DEFINE p == <<o, e>>
  <2>1. p \in prev \X next /\ p[1] = o /\ p[2] = e
    OBVIOUS
  <2>2. p \in {q \in prev \X next : q[1].doc = q[2].doc /\ q[1].key # q[2].key}
    BY <1>2, <2>1
  <2> QED BY <2>1, <2>2 DEF Diff
<1>3. ASSUME NEW o \in prev, NEW e \in next, o.doc = e.doc, o.key = e.key, o.ver # e.ver
      PROVE  Changed(o, e) \in Diff(prev, next)
  <2> DEFINE p == <<o, e>>
  <2>1. p \in prev \X next /\ p[1] = o /\ p[2] = e
    OBVIOUS
  <2>2. p \in {q \in prev \X next : q[1].doc = q[2].doc /\ q[1].key = q[2].key /\ q[1].ver # q[2].ver}
    BY <1>3, <2>1
  <2> QED BY <2>1, <2>2 DEF Diff
<1>4. ASSUME NEW o \in prev, o.doc \notin DocsOf(next)
      PROVE  Removed(o) \in Diff(prev, next)
  BY <1>4 DEF Diff
<1> QED BY <1>1, <1>2, <1>3, <1>4

\* The rows of a diff are change rows: the columns have their types.
LEMMA DiffTyped ==
    ASSUME NEW prev \in SUBSET Entry, NEW next \in SUBSET Entry
    PROVE  Diff(prev, next) \subseteq Change
<1> SUFFICES ASSUME NEW row \in Diff(prev, next)
             PROVE  row \in Change
  OBVIOUS
<1>1. \A e \in Entry : Added(e) \in Change /\ Removed(e) \in Change
  BY DEF Entry, Change, Added, Removed, Vers
<1>2. \A o, e \in Entry : Moved(o, e) \in Change /\ Changed(o, e) \in Change
  BY DEF Entry, Change, Moved, Changed, Vers
<1> QED BY <1>1, <1>2, DiffRows

LEMMA JobsTyped ==
    ASSUME NEW rows \in SUBSET Change
    PROVE  JobsOf(rows) \subseteq Job
BY DEF JobsOf, JobOf, Job, Change

\* The comparison says nothing of a document whose entries are the same on both sides.
LEMMA DiffWithin ==
    ASSUME NEW prev \in SUBSET Entry, NEW next \in SUBSET Entry, NEW D,
           OnePerDoc(prev), OnePerDoc(next),
           \A e \in Entry : e.doc \notin D => (e \in next <=> e \in prev)
    PROVE  \A row \in Diff(prev, next) : row.doc \in D
<1> SUFFICES ASSUME NEW row \in Diff(prev, next)
             PROVE  row.doc \in D
  OBVIOUS
<1>1. CASE \E e \in next : e.doc \notin DocsOf(prev) /\ row = Added(e)
  BY <1>1 DEF Added, DocsOf
<1>2. CASE \E o \in prev : o.doc \notin DocsOf(next) /\ row = Removed(o)
  BY <1>2 DEF Removed, DocsOf
<1>3. ASSUME NEW o \in prev, NEW e \in next, o.doc = e.doc, o # e
      PROVE  e.doc \in D
  BY <1>3 DEF OnePerDoc
<1>4. CASE \E o \in prev, e \in next : o.doc = e.doc /\ o.key # e.key /\ row = Moved(o, e)
  BY <1>3, <1>4 DEF Moved
<1>5. CASE \E o \in prev, e \in next : /\ o.doc = e.doc /\ o.key = e.key /\ o.ver # e.ver
                                       /\ row = Changed(o, e)
  BY <1>3, <1>5 DEF Changed
<1> QED BY <1>1, <1>2, <1>4, <1>5, DiffRows

\* An index holding one manifest, after the jobs of the diff to the next, holds
\* exactly the next: no entry is missed, left behind or written stale
\* (diffEntries, enqueueProjection, and the pipeline's index and delete).
THEOREM DiffReplays ==
    ASSUME NEW prev \in SUBSET Entry, NEW next \in SUBSET Entry,
           OnePerDoc(prev), OnePerDoc(next)
    PROVE  ApplyJobs(prev, JobsOf(Diff(prev, next))) = next
<1> DEFINE rows == Diff(prev, next)
           jobs == JobsOf(rows)
           Put(j) == [doc |-> j.doc, key |-> j.key, ver |-> j.ver]
<1>0. \A j \in jobs : \E r \in rows : j = JobOf(r)
  BY DEF JobsOf
<1>1. \A r \in rows : JobOf(r) \in jobs /\ JobOf(r).doc = r.doc
  BY DEF JobsOf, JobOf
<1>2. \A r \in rows : r.doc \in DocsOf(jobs)
  BY <1>1 DEF DocsOf
<1>3. ASSUME NEW e \in next
      PROVE  e = [doc |-> e.doc, key |-> e.key, ver |-> e.ver]
  BY <1>3 DEF Entry
<1>4. ASSUME NEW j \in jobs, j.op = "index"
      PROVE  Put(j) \in next
  <2>1. PICK r \in rows : j = JobOf(r)
    BY <1>0
  <2>2. r.change # "removed" /\ Put(j) = [doc |-> r.doc, key |-> r.key, ver |-> r.ver]
    BY <1>4, <2>1 DEF JobOf
  <2>3. \E e \in next : r.doc = e.doc /\ r.key = e.key /\ r.ver = e.ver
    BY <2>2, DiffRows DEF Added, Moved, Changed, Removed
  <2> QED BY <2>2, <2>3, <1>3
<1>5. ASSUME NEW o \in prev, o.doc \notin DocsOf(jobs)
      PROVE  o \in next
  <2>1. PICK e \in next : e.doc = o.doc
    <3>1. Removed(o).doc = o.doc
      BY DEF Removed
    <3>2. Removed(o) \notin rows
      BY <1>2, <1>5, <3>1
    <3> QED BY <3>2, DiffHasRows DEF DocsOf
  <2>2. o.key = e.key
    <3>1. Moved(o, e).doc = o.doc
      BY <2>1 DEF Moved
    <3> QED BY <1>2, <1>5, <2>1, <3>1, DiffHasRows
  <2>3. o.ver = e.ver
    <3>1. Changed(o, e).doc = o.doc
      BY <2>1 DEF Changed
    <3> QED BY <1>2, <1>5, <2>1, <2>2, <3>1, DiffHasRows
  <2> QED BY <2>1, <2>2, <2>3 DEF Entry
<1>6. ASSUME NEW e \in next
      PROVE  e \in ApplyJobs(prev, jobs)
  <2>1. ASSUME NEW r \in rows, r.change # "removed", r.doc = e.doc, r.key = e.key, r.ver = e.ver
        PROVE  e \in ApplyJobs(prev, jobs)
    <3>1. JobOf(r) \in {i \in jobs : i.op = "index"} /\ Put(JobOf(r)) = e
      BY <1>1, <1>3, <2>1 DEF JobOf
    <3> QED BY <3>1 DEF ApplyJobs
  <2>2. CASE e.doc \notin DocsOf(prev)
    BY <2>1, <2>2, DiffHasRows DEF Added
  <2>3. CASE e.doc \in DocsOf(prev)
    <3>1. PICK o \in prev : o.doc = e.doc
      BY <2>3 DEF DocsOf
    <3>2. CASE o.key # e.key
      BY <2>1, <3>1, <3>2, DiffHasRows DEF Moved
    <3>3. CASE o.key = e.key /\ o.ver # e.ver
      BY <2>1, <3>1, <3>3, DiffHasRows DEF Changed
    <3>4. CASE o.key = e.key /\ o.ver = e.ver
      <4>1. o = e
        BY <3>1, <3>4 DEF Entry
      <4>2. \A f \in next : f.doc = e.doc => f = e
        BY DEF OnePerDoc
      <4>3. \A p \in prev : p.doc = e.doc => p = e
        BY <4>1 DEF OnePerDoc
      <4>4. \A r \in rows : r.doc # e.doc
        <5> SUFFICES ASSUME NEW r \in rows, r.doc = e.doc
                     PROVE  FALSE
          OBVIOUS
        <5>1. e.doc \in DocsOf(prev) /\ e.doc \in DocsOf(next)
          BY <2>3 DEF DocsOf
        <5> QED BY <5>1, <4>2, <4>3, DiffRows DEF Added, Moved, Changed, Removed
      <4>5. e.doc \notin DocsOf(jobs)
        BY <4>4, <1>0, <1>1 DEF DocsOf
      <4> QED BY <4>1, <4>5 DEF ApplyJobs
    <3> QED BY <3>2, <3>3, <3>4
  <2> QED BY <2>2, <2>3
<1> QED BY <1>4, <1>5, <1>6 DEF ApplyJobs

=============================================================================
