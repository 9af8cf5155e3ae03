--------------------------- MODULE Serving_proofs ---------------------------
(***************************************************************************)
(* Proofs about Serving, for any runners, tag requests, documents and      *)
(* bounds: IInv is inductive.  Its parts are restated as predicates of     *)
(* the values they speak of, so that a step need only show the parts whose *)
(* values it changes.                                                      *)
(***************************************************************************)
EXTENDS Serving, ReleaseDiff_proofs, FiniteSetTheorems

JobsOK(js, ever) ==
    /\ js \in Seq(OutboxJob)
    /\ \A j \in 1..Len(js) : js[j].status = "done" => js[j].wrote
    /\ \A j \in 1..Len(js) : js[j].op = "index" => EntryOf(js[j]) \in ever

RunnersOK(rs, js) ==
    /\ rs \in [Runners -> Draining]
    /\ \A r \in Runners : Holding(rs[r], js)
    /\ \A r \in Runners : \A j \in rs[r].claimed : js[j].status = "processing"
    /\ \A r, s \in Runners : r # s => rs[r].claimed \cap rs[s].claimed = {}

TagsOK(ts, qs, ever) ==
    /\ ts \in [Docs -> 0..MaxTags]
    /\ qs \in [Taggers -> Tagging]
    /\ \A t \in Taggers : TagLock(qs[t], ts, ever)
    /\ \A t, u \in Taggers : t # u => qs[t].doc \cap qs[u].doc = {}

ReindexOK(q, ever) ==
    /\ q \in Reindexing
    /\ q.todo \subseteq ever
    /\ \A p \in q.loaded : EntryOf(p) \in ever

IndexOK(ix, ever) ==
    /\ ix \in SUBSET Projection
    /\ \A p, q \in ix : p.doc = q.doc => p = q
    /\ \A p \in ix : EntryOf(p) \in ever

LiveOK(es, ever) ==
    /\ ever \in SUBSET Entry
    /\ es \subseteq ever
    /\ IsFiniteSet(es)

LastOK(last, js) == last \in [Docs -> 0..Len(js)]

Parts == /\ JobsOK(jobs, everLive) /\ RunnersOK(runner, jobs) /\ TagsOK(tags, tagger, everLive)
         /\ ReindexOK(reindexer, everLive) /\ IndexOK(index, everLive) /\ LiveOK(live, everLive)
         /\ LastOK(lastWrite, jobs)

LEMMA IInvParts == IInv => Parts
BY DEF IInv, TypeOK, Parts, JobsOK, RunnersOK, TagsOK, ReindexOK, IndexOK, LiveOK, LastOK,
   OnTheWayWasLive, ServedWasLive, ClaimsExclusive, DoneWasWritten

LEMMA PartsIInv == Parts => IInv
<1> SUFFICES ASSUME Parts PROVE IInv
  OBVIOUS
<1>1. ASSUME NEW r \in Runners
      PROVE  runner[r].claimed \cup {runner[r].doing} \subseteq 0..Len(jobs)
  BY DEF Parts, RunnersOK, Holding, JobsOK
<1>2. TypeOK
  BY <1>1 DEF Parts, TypeOK, JobsOK, RunnersOK, TagsOK, ReindexOK, IndexOK, LiveOK, LastOK
<1>3. ClaimsExclusive
  BY DEF Parts, RunnersOK, ClaimsExclusive
<1> QED BY <1>2, <1>3 DEF IInv, Parts, JobsOK, RunnersOK, TagsOK, ReindexOK, IndexOK, LiveOK,
       OnTheWayWasLive, ServedWasLive, DoneWasWritten

\* What was released stays released.
LEMMA MoreReleased ==
    ASSUME NEW old, NEW new, old \subseteq new
    PROVE  /\ \A js : JobsOK(js, old) => JobsOK(js, new)
           /\ \A ts, qs : TagsOK(ts, qs, old) => TagsOK(ts, qs, new)
           /\ \A q : ReindexOK(q, old) => ReindexOK(q, new)
           /\ \A ix : IndexOK(ix, old) => IndexOK(ix, new)
<1>1. \A js : JobsOK(js, old) => JobsOK(js, new)
  BY DEF JobsOK
<1>2. \A ts, qs : TagsOK(ts, qs, old) => TagsOK(ts, qs, new)
  BY DEF TagsOK, TagLock
<1>3. \A q : ReindexOK(q, old) => ReindexOK(q, new)
  BY DEF ReindexOK
<1>4. \A ix : IndexOK(ix, old) => IndexOK(ix, new)
  BY DEF IndexOK
<1> QED BY <1>1, <1>2, <1>3, <1>4

\* Jobs enqueued behind the others change nothing for those who hold some.
LEMMA Enqueued ==
    ASSUME NEW js \in Seq(OutboxJob), NEW s \in Seq(OutboxJob), NEW ever, NEW rs, NEW last,
           JobsOK(js, ever), RunnersOK(rs, js), LastOK(last, js),
           \A i \in 1..Len(s) : /\ s[i].status = "pending"
                                /\ s[i].op = "index" => EntryOf(s[i]) \in ever
    PROVE  JobsOK(js \o s, ever) /\ RunnersOK(rs, js \o s) /\ LastOK(last, js \o s)
<1> DEFINE all == js \o s
<1>1. /\ all \in Seq(OutboxJob)
      /\ Len(all) = Len(js) + Len(s)
      /\ Len(js) \in Nat /\ Len(s) \in Nat
      /\ \A j \in 1..Len(js) : all[j] = js[j]
      /\ \A j \in 1..Len(all) : j \notin 1..Len(js) => /\ j - Len(js) \in 1..Len(s)
                                                       /\ all[j] = s[j - Len(js)]
  OBVIOUS
<1> HIDE DEF all
<1>2. JobsOK(all, ever)
  <2>1. ASSUME NEW j \in 1..Len(all)
        PROVE  /\ all[j].status = "done" => all[j].wrote
               /\ all[j].op = "index" => EntryOf(all[j]) \in ever
    <3>1. CASE j \in 1..Len(js)
      BY <1>1, <3>1 DEF JobsOK
    <3>2. CASE j \notin 1..Len(js)
      BY <1>1, <3>2
    <3> QED BY <3>1, <3>2
  <2> QED BY <1>1, <2>1 DEF JobsOK
<1>3. RunnersOK(rs, all)
  <2>1. ASSUME NEW r \in Runners
        PROVE  /\ rs[r].claimed \subseteq 1..Len(js)
               /\ \A j \in rs[r].claimed : all[j] = js[j]
    BY <1>1 DEF RunnersOK, Holding
  <2>2. ASSUME NEW r \in Runners
        PROVE  Holding(rs[r], all)
    BY <1>1, <2>1 DEF RunnersOK, Holding
  <2> QED BY <2>1, <2>2 DEF RunnersOK
<1>4. LastOK(last, all)
  BY <1>1 DEF LastOK
<1> QED BY <1>2, <1>3, <1>4 DEF all

-----------------------------------------------------------------------------
(* Cuts and tag requests *)

IndexJob(e) == NewJob([op |-> "index", doc |-> e.doc, key |-> e.key, ver |-> e.ver], tags[e.doc])

DeleteJob(o) == NewJob([op |-> "delete", doc |-> o.doc, key |-> NoKey, ver |-> 0], 0)

\* A job of a cut indexes an entry of the new release or deletes one of the old.
LEMMA CutJobForms ==
    ASSUME NEW next, NEW job \in CutJobs(next)
    PROVE  (\E e \in next : job = IndexJob(e)) \/ (\E o \in live : job = DeleteJob(o))
<1>1. PICK row \in Diff(live, next) :
        job = NewJob(JobOf(row), IF JobOf(row).op = "index" THEN tags[JobOf(row).doc] ELSE 0)
  BY DEF CutJobs, JobsOf
<1>2. CASE \E e \in next : row = Added(e)
  BY <1>1, <1>2 DEF JobOf, Added, IndexJob
<1>3. CASE \E o \in live, e \in next : o.doc = e.doc /\ row = Moved(o, e)
  BY <1>1, <1>3 DEF JobOf, Moved, IndexJob
<1>4. CASE \E o \in live, e \in next : o.doc = e.doc /\ row = Changed(o, e)
  BY <1>1, <1>4 DEF JobOf, Changed, IndexJob
<1>5. CASE \E o \in live : row = Removed(o)
  BY <1>1, <1>5 DEF JobOf, Removed, DeleteJob
<1> QED BY <1>2, <1>3, <1>4, <1>5, DiffRows

LEMMA CutJobsFinite ==
    ASSUME Parts, NEW next \in Manifests
    PROVE  IsFiniteSet(CutJobs(next))
<1> DEFINE put == [e \in next |-> IndexJob(e)]
           del == [o \in live |-> DeleteJob(o)]
           puts == {put[e] : e \in next}
           dels == {del[o] : o \in live}
<1>1. IsFiniteSet(next) /\ IsFiniteSet(live)
  BY ManifestsAssumption DEF Parts, LiveOK
<1>2. put \in Surjection(next, puts) /\ del \in Surjection(live, dels)
  BY DEF Surjection
<1>3. IsFiniteSet(puts)
  BY <1>1, <1>2, FS_Surjection
<1>4. IsFiniteSet(dels)
  BY <1>1, <1>2, FS_Surjection
<1>5. CutJobs(next) \subseteq puts \cup dels
  BY CutJobForms
<1> HIDE DEF puts, dels
<1> QED BY <1>3, <1>4, <1>5, FS_Union, FS_Subset

\* The jobs of a cut are pending, and index entries of the new release only.
LEMMA CutJobsTyped ==
    ASSUME Parts, NEW next \in Manifests, NEW job \in CutJobs(next)
    PROVE  /\ job \in OutboxJob
           /\ job.status = "pending"
           /\ job.op = "index" => EntryOf(job) \in next
<1>1. live \in SUBSET Entry /\ next \in SUBSET Entry /\ tags \in [Docs -> 0..MaxTags]
  BY ManifestsAssumption DEF Parts, LiveOK, TagsOK, Manifest
<1>2. CASE \E e \in next : job = IndexJob(e)
  <2>1. PICK e \in next : job = IndexJob(e)
    BY <1>2
  <2>2. e \in Entry /\ e = [doc |-> e.doc, key |-> e.key, ver |-> e.ver] /\ tags[e.doc] \in 0..MaxTags
    BY <1>1 DEF Entry
  <2>3. EntryOf(job) = e
    BY <2>1, <2>2 DEF IndexJob, NewJob, EntryOf
  <2>4. job \in OutboxJob /\ job.status = "pending"
    BY <2>1, <2>2 DEF IndexJob, NewJob, OutboxJob, Entry, Vers, Statuses
  <2> QED BY <2>3, <2>4
<1>3. CASE \E o \in live : job = DeleteJob(o)
  BY <1>1, <1>3, LimitsAssumption DEF DeleteJob, NewJob, OutboxJob, Entry, Statuses
<1> QED BY <1>2, <1>3, CutJobForms

LEMMA CutStep ==
    ASSUME Parts, NEW next \in Manifests, Cut(next)
    PROVE  Parts'
<1> DEFINE ever == everLive \cup next
<1>1. /\ live' = next /\ everLive' = ever
      /\ UNCHANGED <<tags, runner, tagger, reindexer, index, lastWrite>>
  BY DEF Cut
<1>2. PICK s \in Orders(CutJobs(next)) : jobs' = jobs \o s
  BY DEF Cut
<1>3. /\ s \in Seq(OutboxJob)
      /\ \A i \in 1..Len(s) : s[i] \in CutJobs(next)
  <2>1. CutJobs(next) \subseteq OutboxJob
    BY CutJobsTyped
  <2>2. PICK n \in Nat : s \in [1..n -> CutJobs(next)]
    BY <1>2, CutJobsFinite, FS_CardinalityType DEF Orders
  <2> QED BY <2>1, <2>2
<1>4. \A i \in 1..Len(s) : /\ s[i].status = "pending"
                           /\ s[i].op = "index" => EntryOf(s[i]) \in ever
  BY <1>3, CutJobsTyped
<1>5. /\ JobsOK(jobs, ever) /\ TagsOK(tags, tagger, ever) /\ ReindexOK(reindexer, ever)
      /\ IndexOK(index, ever)
  BY MoreReleased DEF Parts
<1>6. LiveOK(next, ever)
  BY ManifestsAssumption DEF Parts, LiveOK, Manifest
<1>7. JobsOK(jobs \o s, ever) /\ RunnersOK(runner, jobs \o s) /\ LastOK(lastWrite, jobs \o s)
  BY <1>3, <1>4, <1>5, Enqueued DEF Parts, JobsOK
<1> HIDE DEF ever
<1> QED BY <1>1, <1>2, <1>5, <1>6, <1>7 DEF Parts

LEMMA TagBeginStep ==
    ASSUME Parts, NEW t \in Taggers, NEW d \in Docs, TagBegin(t, d)
    PROVE  Parts'
<1> DEFINE req == [doc |-> {d}, entry |-> {e \in live : e.doc = d}]
           next == [tagger EXCEPT ![t] = req]
<1>1. /\ tagger' = next
      /\ tags[d] < MaxTags /\ \A u \in Taggers : d \notin tagger[u].doc
      /\ UNCHANGED <<live, tags, jobs, runner, reindexer, index, everLive, lastWrite>>
  BY DEF TagBegin, RowFree
<1>2. req \in Tagging /\ req.doc = {d} /\ req.entry \subseteq live /\ \A e \in req.entry : e.doc = d
  BY DEF Parts, LiveOK, Tagging
<1>3. TagLock(req, tags, everLive)
  BY <1>1, <1>2 DEF TagLock, Parts, LiveOK
<1> HIDE DEF req
<1>4. TagsOK(tags, next, everLive)
  <2>1. tagger \in [Taggers -> Tagging] /\ next \in [Taggers -> Tagging]
    BY <1>2 DEF Parts, TagsOK
  <2>2. \A u \in Taggers : next[u] = IF u = t THEN req ELSE tagger[u]
    BY <2>1
  <2> HIDE DEF next
  <2>3. \A u \in Taggers : TagLock(next[u], tags, everLive)
    BY <1>3, <2>2 DEF Parts, TagsOK
  <2>4. \A u, v \in Taggers : u # v => next[u].doc \cap next[v].doc = {}
    BY <1>1, <1>2, <2>2 DEF Parts, TagsOK
  <2> QED BY <2>1, <2>3, <2>4 DEF Parts, TagsOK
<1> QED BY <1>1, <1>4 DEF Parts

LEMMA TagCommitStep ==
    ASSUME Parts, NEW t \in Taggers, NEW d \in Docs, TagCommit(t, d)
    PROVE  Parts'
<1> DEFINE ts == [tags EXCEPT ![d] = @ + 1]
           req == [doc |-> {}, entry |-> {}]
           qs == [tagger EXCEPT ![t] = req]
<1>1. /\ tags' = ts /\ tagger' = qs /\ d \in tagger[t].doc
      /\ UNCHANGED <<live, runner, reindexer, index, everLive, lastWrite>>
  BY DEF TagCommit
<1>2. /\ tags \in [Docs -> 0..MaxTags] /\ tags[d] < MaxTags /\ MaxTags \in Nat
      /\ tags[d] + 1 \in 0..MaxTags
  BY <1>1, LimitsAssumption DEF Parts, TagsOK, TagLock
<1>3. TagsOK(ts, qs, everLive)
  <2>1. /\ ts \in [Docs -> 0..MaxTags] /\ qs \in [Taggers -> Tagging]
        /\ \A u \in Taggers : qs[u] = IF u = t THEN req ELSE tagger[u]
        /\ \A c \in Docs : c # d => ts[c] = tags[c]
    BY <1>2 DEF Parts, TagsOK, Tagging
  <2> HIDE DEF ts, qs
  <2>2. ASSUME NEW u \in Taggers, u # t
        PROVE  TagLock(tagger[u], ts, everLive)
    <3>1. TagLock(tagger[u], tags, everLive) /\ tagger[u].doc \subseteq Docs
      BY DEF Parts, TagsOK, Tagging
    <3>2. d \notin tagger[u].doc
      BY <1>1, <2>2 DEF Parts, TagsOK
    <3> QED BY <2>1, <3>1, <3>2 DEF TagLock
  <2>3. TagLock(req, ts, everLive)
    BY DEF TagLock
  <2>4. \A u \in Taggers : TagLock(qs[u], ts, everLive)
    BY <2>1, <2>2, <2>3
  <2>5. \A u, v \in Taggers : u # v => qs[u].doc \cap qs[v].doc = {}
    BY <2>1 DEF Parts, TagsOK
  <2> QED BY <2>1, <2>4, <2>5 DEF TagsOK
<1>4. /\ JobsOK(jobs, everLive)' /\ RunnersOK(runner, jobs)' /\ LastOK(lastWrite, jobs)'
  <2>1. CASE UNCHANGED jobs
    BY <1>1, <2>1 DEF Parts
  <2>2. ASSUME NEW e \in tagger[t].entry,
               jobs' = Append(jobs, NewJob([op |-> "index", doc |-> d, key |-> e.key, ver |-> e.ver],
                                           tags[d] + 1))
        PROVE  /\ JobsOK(jobs, everLive)' /\ RunnersOK(runner, jobs)' /\ LastOK(lastWrite, jobs)'
    <3> DEFINE job == NewJob([op |-> "index", doc |-> d, key |-> e.key, ver |-> e.ver], tags[d] + 1)
    <3>1. e \in everLive /\ e.doc = d /\ e \in Entry
      BY <1>1 DEF Parts, TagsOK, TagLock, LiveOK
    <3>2. job \in OutboxJob /\ job.status = "pending" /\ EntryOf(job) = e
      BY <1>2, <3>1 DEF NewJob, OutboxJob, Entry, Vers, Statuses, EntryOf
    <3> HIDE DEF job
    <3> DEFINE s == <<job>>
    <3>3. /\ s \in Seq(OutboxJob) /\ Len(s) = 1 /\ s[1] = job
      BY <3>2
    <3>4. jobs' = jobs \o s
      BY <2>2, <3>2 DEF job, Parts, JobsOK
    <3> HIDE DEF s
    <3>5. \A i \in 1..Len(s) : /\ s[i].status = "pending"
                               /\ s[i].op = "index" => EntryOf(s[i]) \in everLive
      BY <3>1, <3>2, <3>3
    <3>6. /\ JobsOK(jobs \o s, everLive) /\ RunnersOK(runner, jobs \o s)
          /\ LastOK(lastWrite, jobs \o s)
      BY <3>3, <3>5, Enqueued DEF Parts, JobsOK
    <3> QED BY <1>1, <3>4, <3>6
  <2> QED BY <2>1, <2>2 DEF TagCommit
<1> HIDE DEF ts, qs
<1> QED BY <1>1, <1>3, <1>4 DEF Parts

-----------------------------------------------------------------------------
(* Runners *)

\* A status and a landed write leave what a job says alone.
LEMMA JobUpdated ==
    ASSUME NEW job \in OutboxJob
    PROVE  /\ \A st \in Statuses : [job EXCEPT !.status = st] \in OutboxJob
           /\ [job EXCEPT !.wrote = TRUE] \in OutboxJob
           /\ \A st : /\ [job EXCEPT !.status = st].op = job.op
                      /\ [job EXCEPT !.status = st].wrote = job.wrote
                      /\ [job EXCEPT !.status = st].status = st
                      /\ EntryOf([job EXCEPT !.status = st]) = EntryOf(job)
           /\ [job EXCEPT !.wrote = TRUE].op = job.op
           /\ [job EXCEPT !.wrote = TRUE].wrote
           /\ [job EXCEPT !.wrote = TRUE].status = job.status
           /\ EntryOf([job EXCEPT !.wrote = TRUE]) = EntryOf(job)
BY DEF OutboxJob, EntryOf

LEMMA ClaimStep ==
    ASSUME Parts, NEW r \in Runners, Claim(r)
    PROVE  Parts'
<1> DEFINE S == Oldest(Pending)
           run == [runner[r] EXCEPT !.claimed = S]
           rs == [runner EXCEPT ![r].claimed = S]
           Flipped(j) == [jobs[j] EXCEPT !.status = "processing"]
           js == [j \in 1..Len(jobs) |-> IF j \in S THEN Flipped(j) ELSE jobs[j]]
<1>1. /\ runner[r] = AtRest /\ runner' = rs /\ jobs' = js
      /\ UNCHANGED <<live, tags, tagger, reindexer, index, everLive, lastWrite>>
  BY DEF Claim
<1>2. S \subseteq 1..Len(jobs) /\ \A j \in S : jobs[j].status = "pending"
  BY DEF Oldest, Pending
<1>3. jobs \in Seq(OutboxJob) /\ Len(jobs) \in Nat /\ \A j \in 1..Len(jobs) : jobs[j] \in OutboxJob
  BY DEF Parts, JobsOK
<1>4. \A j \in 1..Len(jobs) : /\ Flipped(j) \in OutboxJob /\ Flipped(j).status = "processing"
                              /\ Flipped(j).op = jobs[j].op /\ Flipped(j).wrote = jobs[j].wrote
                              /\ EntryOf(Flipped(j)) = EntryOf(jobs[j])
  <2> SUFFICES ASSUME NEW j \in 1..Len(jobs)
               PROVE  /\ Flipped(j) \in OutboxJob /\ Flipped(j).status = "processing"
                      /\ Flipped(j).op = jobs[j].op /\ Flipped(j).wrote = jobs[j].wrote
                      /\ EntryOf(Flipped(j)) = EntryOf(jobs[j])
    OBVIOUS
  <2>1. jobs[j] \in OutboxJob /\ "processing" \in Statuses
    BY <1>3 DEF Statuses
  <2> QED BY <2>1, JobUpdated, Zenon
<1>5. run = [claimed |-> S, doing |-> 0, tries |-> 0, outcome |-> "none"]
  BY <1>1 DEF AtRest
<1>6. /\ rs \in [Runners -> Draining]
      /\ \A q \in Runners : rs[q] = IF q = r THEN run ELSE runner[q]
  <2>1. run \in Draining
    BY <1>2, <1>5, LimitsAssumption DEF Draining
  <2> QED BY <2>1 DEF Parts, RunnersOK
<1> HIDE DEF S, Flipped, run, rs
<1>7. /\ js \in Seq(OutboxJob) /\ Len(js) = Len(jobs)
      /\ \A j \in 1..Len(jobs) : js[j] = IF j \in S THEN Flipped(j) ELSE jobs[j]
  BY <1>3, <1>4
<1> HIDE DEF js
<1>8. JobsOK(js, everLive)
  BY <1>4, <1>7 DEF Parts, JobsOK
<1>9. RunnersOK(rs, js)
  <2>1. ASSUME NEW q \in Runners, q # r
        PROVE  /\ Holding(rs[q], js)
               /\ \A j \in rs[q].claimed : js[j].status = "processing"
               /\ rs[q].claimed \cap rs[r].claimed = {}
    <3>1. rs[q] = runner[q] /\ Holding(runner[q], jobs) /\ rs[r] = run
      BY <1>6, <2>1 DEF Parts, RunnersOK
    <3>2. \A j \in runner[q].claimed : /\ j \in 1..Len(jobs) /\ jobs[j].status = "processing"
                                       /\ j \notin S
      BY <1>2, <3>1 DEF Holding, Parts, RunnersOK
    <3>3. \A j \in runner[q].claimed : js[j] = jobs[j]
      BY <1>7, <3>2
    <3> QED BY <1>5, <1>7, <3>1, <3>2, <3>3 DEF Holding
  <2>2. Holding(run, js) /\ \A j \in run.claimed : js[j].status = "processing"
    BY <1>2, <1>4, <1>5, <1>7, LimitsAssumption DEF Holding
  <2>3. \A q, u \in Runners : q # u => rs[q].claimed \cap rs[u].claimed = {}
    BY <1>6, <2>1 DEF Parts, RunnersOK
  <2> QED BY <1>6, <2>1, <2>2, <2>3 DEF RunnersOK
<1>10. LastOK(lastWrite, js)
  BY <1>7 DEF Parts, LastOK
<1> QED BY <1>1, <1>8, <1>9, <1>10 DEF Parts

\* One runner goes on, with no more than it held, while the jobs the others hold
\* keep their status and no landed write is undone.
LEMMA RunnerMoved ==
    ASSUME NEW rs, NEW js, NEW new, NEW r \in Runners, NEW run \in Draining,
           RunnersOK(rs, js), Len(new) = Len(js),
           run.claimed \subseteq rs[r].claimed,
           Holding(run, new),
           \A j \in 1..Len(js) : js[j].wrote => new[j].wrote,
           \A j \in 1..Len(js) :
              j \notin rs[r].claimed \/ j \in run.claimed => new[j].status = js[j].status
    PROVE  RunnersOK([rs EXCEPT ![r] = run], new)
<1> DEFINE all == [rs EXCEPT ![r] = run]
<1>1. /\ all \in [Runners -> Draining]
      /\ \A q \in Runners : all[q] = IF q = r THEN run ELSE rs[q]
  BY DEF RunnersOK
<1> HIDE DEF all
<1>2. ASSUME NEW q \in Runners
      PROVE  /\ rs[q].claimed \subseteq 1..Len(js)
             /\ \A j \in rs[q].claimed : js[j].status = "processing"
             /\ q # r => rs[q].claimed \cap rs[r].claimed = {}
  BY DEF RunnersOK, Holding
<1>3. ASSUME NEW q \in Runners, q # r
      PROVE  Holding(rs[q], new) /\ \A j \in rs[q].claimed : new[j].status = "processing"
  <2>1. Holding(rs[q], js)
    BY DEF RunnersOK
  <2>2. Holding(rs[q], new)
    BY <1>2, <2>1 DEF Holding
  <2>3. \A j \in rs[q].claimed : new[j].status = "processing"
    BY <1>2, <1>3
  <2> QED BY <2>2, <2>3
<1>4. \A j \in run.claimed : new[j].status = "processing"
  BY <1>2
<1>5. \A q, u \in Runners : q # u => all[q].claimed \cap all[u].claimed = {}
  BY <1>1, <1>2 DEF RunnersOK
<1>6. \A q \in Runners : Holding(all[q], new)
  BY <1>1, <1>3
<1>7. \A q \in Runners : \A j \in all[q].claimed : new[j].status = "processing"
  BY <1>1, <1>3, <1>4
<1>8. RunnersOK(all, new)
  BY <1>1, <1>5, <1>6, <1>7 DEF RunnersOK
<1> QED BY <1>8 DEF all

LEMMA Upserted ==
    ASSUME IndexOK(index, everLive), NEW p \in Projection, EntryOf(p) \in everLive
    PROVE  IndexOK(Upsert(p), everLive)
<1>1. \A q \in Upsert(p) : q = p \/ (q \in index /\ q.doc # p.doc)
  BY DEF Upsert
<1> QED BY <1>1 DEF IndexOK

\* A write, landed or lost, leaves the parts it touches right.
LEMMA LandOrNot ==
    ASSUME Parts, NEW j \in 1..Len(jobs), Land(j) \/ UNCHANGED <<index, jobs, lastWrite>>
    PROVE  /\ JobsOK(jobs', everLive) /\ IndexOK(index', everLive) /\ LastOK(lastWrite', jobs')
           /\ Len(jobs') = Len(jobs)
           /\ \A i \in 1..Len(jobs) : /\ jobs'[i].status = jobs[i].status
                                      /\ jobs[i].wrote => jobs'[i].wrote
           /\ Land(j) => jobs'[j].wrote
<1>1. CASE UNCHANGED <<index, jobs, lastWrite>> /\ ~Land(j)
  BY <1>1 DEF Parts
<1>2. CASE Land(j)
  <2> DEFINE new == [jobs[j] EXCEPT !.wrote = TRUE]
             js == [jobs EXCEPT ![j].wrote = TRUE]
             last == [lastWrite EXCEPT ![jobs[j].doc] = j]
  <2>1. jobs' = js /\ index' = Effect(jobs[j]) /\ lastWrite' = last
    BY <1>2 DEF Land
  <2>2. /\ jobs \in Seq(OutboxJob) /\ Len(jobs) \in Nat /\ jobs[j] \in OutboxJob
        /\ lastWrite \in [Docs -> 0..Len(jobs)]
    BY DEF Parts, JobsOK, LastOK
  <2>3. /\ new \in OutboxJob /\ new.op = jobs[j].op /\ new.wrote
        /\ new.status = jobs[j].status /\ EntryOf(new) = EntryOf(jobs[j])
    BY <2>2, JobUpdated, Zenon
  <2>4. js = [jobs EXCEPT ![j] = new]
    OBVIOUS
  <2> HIDE DEF new, js
  <2>5. /\ js \in Seq(OutboxJob) /\ Len(js) = Len(jobs) /\ js[j] = new
        /\ \A i \in 1..Len(jobs) : i # j => js[i] = jobs[i]
    BY <2>2, <2>3, <2>4
  <2>6. \A i \in 1..Len(jobs) : /\ js[i].status = jobs[i].status /\ js[i].op = jobs[i].op
                                /\ EntryOf(js[i]) = EntryOf(jobs[i])
                                /\ jobs[i].wrote => js[i].wrote
    BY <2>3, <2>5
  <2>7. JobsOK(js, everLive)
    BY <2>5, <2>6 DEF Parts, JobsOK
  <2>8. LastOK(last, js)
    <3>1. jobs[j].doc \in Docs
      BY <2>2 DEF OutboxJob
    <3> DEFINE T == 0..Len(jobs)
               d == jobs[j].doc
    <3>2. j \in T
      BY <2>2
    <3>3. d \in Docs /\ last = [lastWrite EXCEPT ![d] = j] /\ lastWrite \in [Docs -> T]
      BY <2>2, <3>1
    <3> HIDE DEF T, d, last
    <3>4. last \in [Docs -> T]
      BY <3>2, <3>3
    <3> QED BY <2>5, <3>4 DEF LastOK, T
  <2>9. IndexOK(Effect(jobs[j]), everLive)
    <3>1. CASE jobs[j].op = "index"
      <4> DEFINE p == [doc |-> jobs[j].doc, key |-> jobs[j].key, ver |-> jobs[j].ver,
                       tags |-> jobs[j].tags]
      <4>1. EntryOf(p) = EntryOf(jobs[j])
        BY DEF EntryOf
      <4>2. EntryOf(jobs[j]) \in everLive /\ everLive \subseteq Entry
        BY <3>1 DEF Parts, JobsOK, LiveOK
      <4>3. jobs[j].key \in Keys /\ jobs[j].ver \in Vers
        BY <4>2 DEF Entry, EntryOf
      <4>4. p \in Projection
        BY <2>2, <4>3 DEF Projection, OutboxJob
      <4> HIDE DEF p
      <4>5. IndexOK(Upsert(p), everLive)
        BY <4>1, <4>2, <4>4, Upserted DEF Parts
      <4> QED BY <3>1, <4>5 DEF Effect, p
    <3>2. CASE jobs[j].op # "index"
      BY <3>2 DEF Effect, Parts, IndexOK
    <3> QED BY <3>1, <3>2
  <2> QED BY <2>1, <2>3, <2>5, <2>6, <2>7, <2>8, <2>9
<1> QED BY <1>1, <1>2

\* What a runner is about to write is a job of the table it has claimed.
LEMMA Writing ==
    ASSUME Parts, NEW r \in Runners, NEW j \in ToWrite(r), runner[r].outcome = "none"
    PROVE  /\ j \in runner[r].claimed /\ j \in 1..Len(jobs) /\ j # 0
           /\ runner[r] \in Draining /\ runner[r].claimed \subseteq 1..Len(jobs)
           /\ runner[r].tries \in Nat /\ runner[r].tries < MaxAttempts
<1>1. Holding(runner[r], jobs) /\ runner[r] \in Draining
  BY DEF Parts, RunnersOK
<1>2. Len(jobs) \in Nat
  BY DEF Parts, JobsOK
<1>3. j \in runner[r].claimed
  BY <1>1 DEF Holding, ToWrite
<1> QED BY <1>1, <1>2, <1>3, LimitsAssumption DEF Holding, Draining

LEMMA WriteStep ==
    ASSUME Parts, NEW r \in Runners, NEW j \in ToWrite(r), Write(r, j)
    PROVE  Parts'
<1> DEFINE run == [runner[r] EXCEPT !.doing = j, !.outcome = "done"]
<1>1. /\ Land(j) /\ runner[r].outcome = "none"
      /\ UNCHANGED <<live, tags, tagger, reindexer, everLive>>
  BY DEF Write
<1>2. /\ j \in runner[r].claimed /\ j \in 1..Len(jobs) /\ j # 0
      /\ runner[r] \in Draining /\ runner[r].claimed \subseteq 1..Len(jobs)
  BY <1>1, Writing
<1>3. /\ JobsOK(jobs', everLive) /\ IndexOK(index', everLive) /\ LastOK(lastWrite', jobs')
      /\ Len(jobs') = Len(jobs) /\ jobs'[j].wrote
      /\ \A i \in 1..Len(jobs) : /\ jobs'[i].status = jobs[i].status
                                 /\ jobs[i].wrote => jobs'[i].wrote
  BY <1>1, <1>2, LandOrNot
<1>4. run \in Draining /\ run.claimed = runner[r].claimed /\ run.doing = j /\ run.outcome = "done"
  BY <1>2 DEF Draining
<1>5. runner' = [runner EXCEPT ![r] = run]
  BY DEF Write
<1> HIDE DEF run
<1>6. Holding(run, jobs')
  BY <1>2, <1>3, <1>4 DEF Holding
<1>7. RunnersOK([runner EXCEPT ![r] = run], jobs')
  BY <1>3, <1>4, <1>6, RunnerMoved DEF Parts
<1> QED BY <1>1, <1>3, <1>5, <1>7 DEF Parts

LEMMA WriteFailsStep ==
    ASSUME Parts, NEW r \in Runners, NEW j \in ToWrite(r), WriteFails(r, j)
    PROVE  Parts'
<1> DEFINE out == IF runner[r].tries + 1 = MaxAttempts THEN "failed" ELSE "none"
           run == [runner[r] EXCEPT !.doing = j, !.tries = @ + 1, !.outcome = out]
<1>1. /\ Land(j) \/ UNCHANGED <<index, jobs, lastWrite>>
      /\ runner[r].outcome = "none"
      /\ UNCHANGED <<live, tags, tagger, reindexer, everLive>>
  BY DEF WriteFails
<1>2. /\ j \in runner[r].claimed /\ j \in 1..Len(jobs) /\ j # 0
      /\ runner[r] \in Draining /\ runner[r].claimed \subseteq 1..Len(jobs)
      /\ runner[r].tries \in Nat /\ runner[r].tries < MaxAttempts
  BY <1>1, Writing
<1>3. /\ JobsOK(jobs', everLive) /\ IndexOK(index', everLive) /\ LastOK(lastWrite', jobs')
      /\ Len(jobs') = Len(jobs)
      /\ \A i \in 1..Len(jobs) : /\ jobs'[i].status = jobs[i].status
                                 /\ jobs[i].wrote => jobs'[i].wrote
  BY <1>1, <1>2, LandOrNot
<1>4. /\ run \in Draining /\ run.claimed = runner[r].claimed /\ run.doing = j
      /\ run.outcome = out /\ run.tries = runner[r].tries + 1
  <2>1. out \in {"none", "done", "failed"}
    OBVIOUS
  <2> DEFINE more == runner[r].tries + 1
  <2>2. more \in 0..MaxAttempts
    BY <1>2, LimitsAssumption
  <2>3. j \in Nat
    BY <1>2
  <2>4. run = [runner[r] EXCEPT !.doing = j, !.tries = more, !.outcome = out]
    OBVIOUS
  <2> HIDE DEF out, more, run
  <2>5. /\ run \in Draining /\ run.claimed = runner[r].claimed /\ run.doing = j
        /\ run.outcome = out /\ run.tries = more
    BY <1>2, <2>1, <2>2, <2>3, <2>4 DEF Draining
  <2> QED BY <2>5 DEF more
<1>5. runner' = [runner EXCEPT ![r] = run]
  BY DEF WriteFails
<1> HIDE DEF run
<1>6. Holding(run, jobs')
  BY <1>2, <1>3, <1>4, LimitsAssumption DEF Holding
<1>7. RunnersOK([runner EXCEPT ![r] = run], jobs')
  BY <1>3, <1>4, <1>6, RunnerMoved DEF Parts
<1> QED BY <1>1, <1>3, <1>5, <1>7 DEF Parts

LEMMA MovingOn ==
    ASSUME Parts, NEW r \in Runners, runner[r].outcome # "none"
    PROVE  /\ runner[r].doing \in runner[r].claimed
           /\ runner[r].claimed \subseteq 1..Len(jobs)
           /\ runner[r].outcome \in Statuses
           /\ runner[r].outcome = "done" => jobs[runner[r].doing].wrote
           /\ MovedOn(r) \in Draining
           /\ MovedOn(r).claimed = runner[r].claimed \ {runner[r].doing}
           /\ \A js : Len(js) = Len(jobs) => Holding(MovedOn(r), js)
<1>1. runner[r] \in Draining /\ Holding(runner[r], jobs)
  BY DEF Parts, RunnersOK
<1>2. MovedOn(r) = [claimed |-> runner[r].claimed \ {runner[r].doing}, doing |-> 0, tries |-> 0,
                    outcome |-> "none"]
  BY DEF MovedOn, AtRest
<1>3. /\ runner[r].doing \in runner[r].claimed /\ runner[r].claimed \subseteq 1..Len(jobs)
      /\ runner[r].outcome = "done" => jobs[runner[r].doing].wrote
  BY <1>1 DEF Holding
<1>4. runner[r].outcome \in Statuses
  BY <1>1 DEF Draining, Statuses
<1>5. MovedOn(r) \in Draining
  BY <1>1, <1>2, LimitsAssumption DEF Draining
<1>6. \A js : Len(js) = Len(jobs) => Holding(MovedOn(r), js)
  BY <1>2, <1>3, LimitsAssumption DEF Holding
<1>7. MovedOn(r).claimed = runner[r].claimed \ {runner[r].doing}
  BY <1>2
<1> QED BY <1>3, <1>4, <1>5, <1>6, <1>7

LEMMA MarkStep ==
    ASSUME Parts, NEW r \in Runners, Mark(r)
    PROVE  Parts'
<1> DEFINE k == runner[r].doing
           st == runner[r].outcome
           new == [jobs[k] EXCEPT !.status = st]
           js == [jobs EXCEPT ![k].status = st]
           run == MovedOn(r)
<1>1. /\ st # "none" /\ jobs' = js /\ runner' = [runner EXCEPT ![r] = run]
      /\ UNCHANGED <<live, tags, tagger, reindexer, index, everLive, lastWrite>>
  BY DEF Mark
<1>2. /\ k \in runner[r].claimed /\ k \in 1..Len(jobs) /\ st \in Statuses
      /\ st = "done" => jobs[k].wrote
      /\ run \in Draining /\ run.claimed = runner[r].claimed \ {k}
      /\ \A all : Len(all) = Len(jobs) => Holding(run, all)
  BY <1>1, MovingOn
<1>3. jobs \in Seq(OutboxJob) /\ Len(jobs) \in Nat /\ jobs[k] \in OutboxJob
  BY <1>2 DEF Parts, JobsOK
<1>4. /\ new \in OutboxJob /\ new.op = jobs[k].op /\ new.wrote = jobs[k].wrote
      /\ new.status = st /\ EntryOf(new) = EntryOf(jobs[k])
  BY <1>2, <1>3, JobUpdated, Zenon
<1>5. js = [jobs EXCEPT ![k] = new]
  OBVIOUS
<1> HIDE DEF k, st, new, js, run
<1>6. /\ js \in Seq(OutboxJob) /\ Len(js) = Len(jobs) /\ js[k] = new
      /\ \A i \in 1..Len(jobs) : i # k => js[i] = jobs[i]
  BY <1>2, <1>3, <1>4, <1>5
<1>7. JobsOK(js, everLive)
  <2>1. ASSUME NEW i \in 1..Len(jobs)
        PROVE  /\ js[i].status = "done" => js[i].wrote
               /\ js[i].op = "index" => EntryOf(js[i]) \in everLive
    BY <1>2, <1>4, <1>6 DEF Parts, JobsOK
  <2> QED BY <1>6, <2>1 DEF JobsOK
<1>8. \A i \in 1..Len(jobs) : /\ jobs[i].wrote => js[i].wrote
                              /\ i # k => js[i].status = jobs[i].status
  BY <1>4, <1>6
<1>9. RunnersOK([runner EXCEPT ![r] = run], js)
  <2>1. \A i \in 1..Len(jobs) :
           i \notin runner[r].claimed \/ i \in run.claimed => js[i].status = jobs[i].status
    BY <1>2, <1>8
  <2> QED BY <1>2, <1>6, <1>8, <2>1, RunnerMoved DEF Parts
<1>10. LastOK(lastWrite, js)
  BY <1>6 DEF Parts, LastOK
<1> QED BY <1>1, <1>7, <1>9, <1>10 DEF Parts

LEMMA MarkFailsStep ==
    ASSUME Parts, NEW r \in Runners, MarkFails(r)
    PROVE  Parts'
<1>1. /\ runner[r].outcome # "none" /\ runner' = [runner EXCEPT ![r] = MovedOn(r)]
      /\ UNCHANGED <<live, tags, jobs, tagger, reindexer, index, everLive, lastWrite>>
  BY DEF MarkFails
<1>2. /\ MovedOn(r) \in Draining /\ MovedOn(r).claimed \subseteq runner[r].claimed
      /\ Holding(MovedOn(r), jobs)
  BY <1>1, MovingOn
<1>3. RunnersOK([runner EXCEPT ![r] = MovedOn(r)], jobs)
  BY <1>2, RunnerMoved DEF Parts
<1> QED BY <1>1, <1>3 DEF Parts

LEMMA StopStep ==
    ASSUME Parts, NEW r \in Runners, Stop(r)
    PROVE  Parts'
<1>1. /\ runner' = [runner EXCEPT ![r] = AtRest]
      /\ UNCHANGED <<live, tags, jobs, tagger, reindexer, index, everLive, lastWrite>>
  BY DEF Stop
<1>2. /\ AtRest \in Draining /\ AtRest.claimed \subseteq runner[r].claimed
      /\ Holding(AtRest, jobs)
  BY LimitsAssumption DEF AtRest, Draining, Holding
<1>3. RunnersOK([runner EXCEPT ![r] = AtRest], jobs)
  BY <1>2, RunnerMoved DEF Parts
<1> QED BY <1>1, <1>3 DEF Parts

-----------------------------------------------------------------------------
(* The reindex *)

LEMMA ReindexSteps ==
    ASSUME Parts, Reindex
    PROVE  Parts'
<1>1. CASE ReindexBegin
  <2>1. reindexer' = [reindexer EXCEPT !.todo = live]
    BY <1>1 DEF ReindexBegin
  <2>2. ReindexOK(reindexer', everLive)
    BY <2>1 DEF Parts, ReindexOK, LiveOK, Reindexing
  <2> QED BY <1>1, <2>2 DEF ReindexBegin, Parts
<1>2. ASSUME NEW e \in reindexer.todo, ReindexLoad(e)
      PROVE  Parts'
  <2> DEFINE p == Project(e, tags[e.doc])
             q == [todo |-> reindexer.todo \ {e}, loaded |-> {p}]
  <2>1. e \in everLive /\ e \in Entry /\ tags[e.doc] \in 0..MaxTags
    BY DEF Parts, ReindexOK, LiveOK, TagsOK, Entry
  <2>2. p \in Projection /\ EntryOf(p) = e
    BY <2>1 DEF Project, Projection, EntryOf, Entry
  <2> HIDE DEF p
  <2>3. ReindexOK(q, everLive)
    BY <2>1, <2>2 DEF Parts, ReindexOK, Reindexing
  <2>4. reindexer' = q
    BY <1>2 DEF ReindexLoad, p
  <2> HIDE DEF q
  <2> QED BY <1>2, <2>3, <2>4 DEF ReindexLoad, Parts
<1>3. ASSUME NEW p \in reindexer.loaded, ReindexWrite(p)
      PROVE  Parts'
  <2>1. /\ index' = Upsert(p) /\ lastWrite' = [lastWrite EXCEPT ![p.doc] = 0]
        /\ reindexer' = [reindexer EXCEPT !.loaded = {}]
        /\ UNCHANGED <<live, tags, jobs, runner, tagger, everLive>>
    BY <1>3 DEF ReindexWrite
  <2>2. p \in Projection /\ EntryOf(p) \in everLive
    BY DEF Parts, ReindexOK, Reindexing
  <2>3. IndexOK(index', everLive)
    BY <2>1, <2>2, Upserted DEF Parts
  <2>4. LastOK(lastWrite', jobs)
    <3>1. Len(jobs) \in Nat
      BY DEF Parts, JobsOK
    <3>2. lastWrite \in [Docs -> 0..Len(jobs)]
      BY DEF Parts, LastOK
    <3> DEFINE T == 0..Len(jobs)
               d == p.doc
    <3>3. 0 \in T /\ lastWrite \in [Docs -> T]
      BY <3>1, <3>2
    <3>4. lastWrite' = [lastWrite EXCEPT ![d] = 0]
      BY <2>1
    <3> HIDE DEF T, d
    <3>5. lastWrite' \in [Docs -> T]
      BY <3>3, <3>4
    <3> QED BY <3>5 DEF LastOK, T
  <2>5. ReindexOK(reindexer', everLive)
    BY <2>1 DEF Parts, ReindexOK, Reindexing
  <2> QED BY <2>1, <2>3, <2>4, <2>5 DEF Parts
<1>4. CASE ReindexFails
  <2>1. ReindexOK(reindexer', everLive)
    BY <1>4 DEF ReindexFails, ReindexOK, Reindexing
  <2> QED BY <1>4, <2>1 DEF ReindexFails, Parts
<1> QED BY <1>1, <1>2, <1>3, <1>4 DEF Reindex

-----------------------------------------------------------------------------

LEMMA InitParts == Init => Parts
<1> SUFFICES ASSUME Init PROVE Parts
  OBVIOUS
<1>1. JobsOK(jobs, everLive) /\ LastOK(lastWrite, jobs)
  BY DEF Init, JobsOK, LastOK
<1>2. RunnersOK(runner, jobs)
  BY LimitsAssumption DEF Init, RunnersOK, Holding, AtRest, Draining
<1>3. TagsOK(tags, tagger, everLive)
  BY LimitsAssumption DEF Init, TagsOK, TagLock, Tagging
<1>4. ReindexOK(reindexer, everLive) /\ IndexOK(index, everLive)
  BY DEF Init, ReindexOK, Reindexing, IndexOK
<1>5. LiveOK(live, everLive)
  BY FS_EmptySet DEF Init, LiveOK
<1> QED BY <1>1, <1>2, <1>3, <1>4, <1>5 DEF Parts

LEMMA NextParts == Parts /\ [Next]_vars => Parts'
<1> SUFFICES ASSUME Parts, [Next]_vars PROVE Parts'
  OBVIOUS
<1>1. ASSUME NEW next \in Manifests, Cut(next)
      PROVE  Parts'
  BY <1>1, CutStep
<1>2. ASSUME NEW t \in Taggers, Tag(t)
      PROVE  Parts'
  BY <1>2, TagBeginStep, TagCommitStep DEF Tag
<1>3. ASSUME NEW r \in Runners, Drain(r) \/ Stop(r)
      PROVE  Parts'
  BY <1>3, ClaimStep, WriteStep, WriteFailsStep, MarkStep, MarkFailsStep, StopStep DEF Drain
<1>4. CASE Reindex
  BY <1>4, ReindexSteps
<1>5. CASE UNCHANGED vars
  BY <1>5 DEF vars, Parts
<1> QED BY <1>1, <1>2, <1>3, <1>4, <1>5 DEF Next

\* The invariant that the following theorems rest on, for any number of runners,
\* tag requests, documents, cuts, attempts and failures.
THEOREM ServingInvariance == Spec => []IInv
<1>1. Init => Parts
  BY InitParts
<1>2. Parts /\ [Next]_vars => Parts'
  BY NextParts
<1>3. Parts => IInv
  BY PartsIInv
<1> QED BY <1>1, <1>2, <1>3, PTL DEF Spec

\* Every variable keeps to its type; a runner holds jobs that exist.
THEOREM ServingTypeCorrect == Spec => []TypeOK
<1>1. IInv => TypeOK
  BY DEF IInv
<1> QED BY <1>1, ServingInvariance, PTL

\* No draft is ever served: runners that race, retry or die, tag changes and a
\* reindex only ever write what some release carried.
THEOREM OnlyReleasedIsServed == Spec => []ServedWasLive
<1>1. IInv => ServedWasLive
  BY DEF IInv
<1> QED BY <1>1, ServingInvariance, PTL

\* However many binaries drain the outbox, a job in progress has one holder.
THEOREM OneHolderPerJob == Spec => []ClaimsExclusive
<1>1. IInv => ClaimsExclusive
  BY DEF IInv
<1> QED BY <1>1, ServingInvariance, PTL

\* A job recorded done has reached OpenSearch, whatever failed on the way.
THEOREM DoneMeansWritten == Spec => []DoneWasWritten
<1>1. IInv => DoneWasWritten
  BY DEF IInv
<1> QED BY <1>1, ServingInvariance, PTL

-----------------------------------------------------------------------------
(* The last write decides: the newest job of a document speaks of its live *)
(* entry, and what is served of a document is what the job that was last   *)
(* written says.                                                           *)

\* What is served of a document once a job of it is written.
Says(job) == IF job.op = "index" THEN {EntryOf(job)} ELSE {}

\* No later job of the same document.
Newest(js, j) == \A i \in 1..Len(js) : i > j => js[i].doc # js[j].doc

EntriesOf(ix, d) == {EntryOf(p) : p \in {q \in ix : q.doc = d}}

LiveOf(es, d) == {e \in es : e.doc = d}

\* Whatever was released had a job.
JobsCover(js, ever) == \A e \in ever : \E j \in 1..Len(js) : js[j].doc = e.doc

\* A document that is live, or whose tags are as they were.
Followed(ts, es, d) == ts[d] = 0 \/ LiveOf(es, d) # {}

\* The newest job of such a document says what is live of it.
NewestIsLive(js, ts, es) ==
    \A j \in 1..Len(js) :
        Followed(ts, es, js[j].doc) /\ Newest(js, j) => LiveOf(es, js[j].doc) = Says(js[j])

\* What a tag request has looked up of a live document is still what is live of it.
TaggersFollow(qs, es) ==
    \A t \in Taggers : \A d \in qs[t].doc : LiveOf(es, d) # {} => qs[t].entry = LiveOf(es, d)

\* What is served of a document is what the job written last says.
ServedAsWritten(js, last, ix) ==
    \A d \in Docs : last[d] # 0 =>
        js[last[d]].doc = d /\ EntriesOf(ix, d) = Says(js[last[d]])

LInv == /\ Parts
        /\ JobsCover(jobs, everLive)
        /\ NewestIsLive(jobs, tags, live)
        /\ ServedAsWritten(jobs, lastWrite, index)
        /\ TaggersFollow(tagger, live)
        /\ OnePerDoc(live)

-----------------------------------------------------------------------------
\* Jobs that keep what they say of their document keep the invariant.
LEMMA SameJobs ==
    ASSUME NEW js, NEW new, Len(new) = Len(js), Len(js) \in Nat,
           \A j \in 1..Len(js) : new[j].doc = js[j].doc /\ Says(new[j]) = Says(js[j])
    PROVE  /\ \A ever : JobsCover(js, ever) => JobsCover(new, ever)
           /\ \A ts, es : NewestIsLive(js, ts, es) => NewestIsLive(new, ts, es)
           /\ \A last, ix : last \in [Docs -> 0..Len(js)] /\ ServedAsWritten(js, last, ix)
                               => ServedAsWritten(new, last, ix)
<1>1. \A ever : JobsCover(js, ever) => JobsCover(new, ever)
  BY DEF JobsCover
<1>2. \A j \in 1..Len(js) : Newest(new, j) <=> Newest(js, j)
  BY DEF Newest
<1>3. \A ts, es : NewestIsLive(js, ts, es) => NewestIsLive(new, ts, es)
  BY <1>2 DEF NewestIsLive
<1>4. \A last, ix : last \in [Docs -> 0..Len(js)] /\ ServedAsWritten(js, last, ix)
                        => ServedAsWritten(new, last, ix)
  <2> SUFFICES ASSUME NEW last, NEW ix, last \in [Docs -> 0..Len(js)],
                      ServedAsWritten(js, last, ix), NEW d \in Docs, last[d] # 0
               PROVE  new[last[d]].doc = d /\ EntriesOf(ix, d) = Says(new[last[d]])
    BY DEF ServedAsWritten
  <2>1. last[d] \in 1..Len(js)
    OBVIOUS
  <2> QED BY <2>1 DEF ServedAsWritten
<1> QED BY <1>1, <1>3, <1>4

\* Jobs put behind the others, with the first of them left as they are.
LEMMA MoreJobs ==
    ASSUME NEW js, NEW s, js \in Seq(OutboxJob), s \in Seq(OutboxJob)
    PROVE  /\ Len(js) \in Nat /\ Len(s) \in Nat /\ Len(js \o s) = Len(js) + Len(s)
           /\ \A j \in 1..Len(js) : (js \o s)[j] = js[j]
           /\ \A i \in 1..Len(s) : (js \o s)[Len(js) + i] = s[i]
           /\ \A j \in 1..Len(js \o s) : j \notin 1..Len(js) => j - Len(js) \in 1..Len(s)
OBVIOUS

LEMMA MoreJobsKept ==
    ASSUME NEW js, NEW s, js \in Seq(OutboxJob), s \in Seq(OutboxJob)
    PROVE  /\ \A ever : JobsCover(js, ever) => JobsCover(js \o s, ever)
           /\ \A last, ix : last \in [Docs -> 0..Len(js)] /\ ServedAsWritten(js, last, ix)
                               => ServedAsWritten(js \o s, last, ix)
<1> DEFINE all == js \o s
<1>1. /\ Len(js) \in Nat /\ Len(s) \in Nat /\ Len(all) = Len(js) + Len(s)
      /\ \A j \in 1..Len(js) : all[j] = js[j]
  BY MoreJobs
<1> HIDE DEF all
<1>2. \A ever : JobsCover(js, ever) => JobsCover(all, ever)
  BY <1>1 DEF JobsCover
<1>3. \A last, ix : last \in [Docs -> 0..Len(js)] /\ ServedAsWritten(js, last, ix)
                        => ServedAsWritten(all, last, ix)
  <2> SUFFICES ASSUME NEW last, NEW ix, last \in [Docs -> 0..Len(js)],
                      ServedAsWritten(js, last, ix), NEW d \in Docs, last[d] # 0
               PROVE  all[last[d]].doc = d /\ EntriesOf(ix, d) = Says(all[last[d]])
    BY DEF ServedAsWritten
  <2>1. last[d] \in 1..Len(js)
    BY <1>1
  <2> QED BY <1>1, <2>1 DEF ServedAsWritten
<1> QED BY <1>2, <1>3 DEF all

-----------------------------------------------------------------------------
\* A document no job of a cut is about is live as it was.
LEMMA Untold ==
    ASSUME Parts, NEW next \in Manifests, NEW d,
           \A job \in CutJobs(next) : job.doc # d
    PROVE  LiveOf(next, d) = LiveOf(live, d)
<1>1. live \subseteq Entry /\ next \subseteq Entry
  BY ManifestsAssumption DEF Parts, LiveOK, Manifest
<1>2. \A row \in Diff(live, next) : row.doc # d
  <2> SUFFICES ASSUME NEW row \in Diff(live, next), row.doc = d PROVE FALSE
    OBVIOUS
  <2> DEFINE job == NewJob(JobOf(row), IF JobOf(row).op = "index" THEN tags[JobOf(row).doc] ELSE 0)
  <2>1. job \in CutJobs(next)
    BY DEF CutJobs, JobsOf
  <2>2. job.doc = row.doc
    BY DEF NewJob, JobOf
  <2> HIDE DEF job
  <2> QED BY <2>1, <2>2
<1>3. ASSUME NEW e \in next, e.doc = d
      PROVE  e \in live
  <2>1. e.doc \in DocsOf(live)
    BY <1>2, <1>3, DiffHasRows DEF Added
  <2>2. PICK o \in live : o.doc = e.doc
    BY <2>1 DEF DocsOf
  <2>3. o.key = e.key
    BY <1>2, <1>3, <2>2, DiffHasRows DEF Moved
  <2>4. o.ver = e.ver
    BY <1>2, <1>3, <2>2, <2>3, DiffHasRows DEF Changed
  <2> QED BY <1>1, <2>2, <2>3, <2>4 DEF Entry
<1>4. ASSUME NEW o \in live, o.doc = d
      PROVE  o \in next
  <2>1. o.doc \in DocsOf(next)
    BY <1>2, <1>4, DiffHasRows DEF Removed
  <2>2. PICK e \in next : o.doc = e.doc
    BY <2>1 DEF DocsOf
  <2>3. o.key = e.key
    BY <1>2, <1>4, <2>2, DiffHasRows DEF Moved
  <2>4. o.ver = e.ver
    BY <1>2, <1>4, <2>2, <2>3, DiffHasRows DEF Changed
  <2> QED BY <1>1, <2>2, <2>3, <2>4 DEF Entry
<1> QED BY <1>3, <1>4 DEF LiveOf

\* A job of a cut says what the new release has of its document.
LEMMA CutJobSays ==
    ASSUME Parts, NEW next \in Manifests, NEW job \in CutJobs(next)
    PROVE  LiveOf(next, job.doc) = Says(job)
<1>1. next \subseteq Entry /\ OnePerDoc(next)
  BY ManifestsAssumption DEF Manifest
<1>2. PICK row \in Diff(live, next) :
        job = NewJob(JobOf(row), IF JobOf(row).op = "index" THEN tags[JobOf(row).doc] ELSE 0)
  BY DEF CutJobs, JobsOf
<1>3. ASSUME NEW e \in next,
             \/ row = Added(e)
             \/ \E o \in live : o.doc = e.doc /\ row = Moved(o, e)
             \/ \E o \in live : o.doc = e.doc /\ row = Changed(o, e)
      PROVE  LiveOf(next, job.doc) = Says(job)
  <2>1. job = IndexJob(e)
    <3>1. CASE row = Added(e)
      BY <1>2, <3>1 DEF JobOf, Added, IndexJob
    <3>2. CASE \E o \in live : o.doc = e.doc /\ row = Moved(o, e)
      BY <1>2, <3>2 DEF JobOf, Moved, IndexJob
    <3>3. CASE \E o \in live : o.doc = e.doc /\ row = Changed(o, e)
      BY <1>2, <3>3 DEF JobOf, Changed, IndexJob
    <3> QED BY <1>3, <3>1, <3>2, <3>3
  <2>2. e \in Entry /\ e = [doc |-> e.doc, key |-> e.key, ver |-> e.ver]
    BY <1>1 DEF Entry
  <2>3. job.doc = e.doc /\ job.op = "index" /\ EntryOf(job) = e
    BY <2>1, <2>2 DEF IndexJob, NewJob, EntryOf
  <2>4. LiveOf(next, e.doc) = {e}
    BY <1>1 DEF LiveOf, OnePerDoc
  <2> QED BY <2>3, <2>4 DEF Says
<1>4. ASSUME NEW o \in live, o.doc \notin DocsOf(next), row = Removed(o)
      PROVE  LiveOf(next, job.doc) = Says(job)
  <2>1. job.doc = o.doc /\ job.op = "delete"
    BY <1>2, <1>4 DEF JobOf, Removed, NewJob
  <2> QED BY <1>4, <2>1 DEF Says, LiveOf, DocsOf
<1> QED BY <1>3, <1>4, DiffRows

LEMMA CutKeeps ==
    ASSUME LInv, NEW next \in Manifests, Cut(next)
    PROVE  LInv'
<1>1. /\ live' = next /\ everLive' = everLive \cup next
      /\ UNCHANGED <<tags, index, lastWrite>>
  BY DEF Cut
<1>2. PICK s \in Orders(CutJobs(next)) : jobs' = jobs \o s
  BY DEF Cut
<1>3. /\ s \in Seq(OutboxJob)
      /\ \A i \in 1..Len(s) : s[i] \in CutJobs(next)
      /\ \A job \in CutJobs(next) : \E i \in 1..Len(s) : s[i] = job
  <2>1. CutJobs(next) \subseteq OutboxJob
    BY CutJobsTyped DEF LInv
  <2>2. PICK n \in Nat : s \in [1..n -> CutJobs(next)] /\ {s[i] : i \in DOMAIN s} = CutJobs(next)
    BY <1>2, CutJobsFinite, FS_CardinalityType DEF Orders, LInv
  <2> QED BY <2>1, <2>2
<1> DEFINE js == jobs
           all == js \o s
<1>4. js \in Seq(OutboxJob) /\ lastWrite \in [Docs -> 0..Len(js)]
  BY DEF LInv, Parts, JobsOK, LastOK
<1>5. /\ Len(js) \in Nat /\ Len(s) \in Nat /\ Len(all) = Len(js) + Len(s)
      /\ \A j \in 1..Len(js) : all[j] = js[j]
      /\ \A i \in 1..Len(s) : all[Len(js) + i] = s[i]
      /\ \A j \in 1..Len(all) : j \notin 1..Len(js) => j - Len(js) \in 1..Len(s)
  BY <1>3, <1>4, MoreJobs
<1>6. JobsCover(all, everLive) /\ ServedAsWritten(all, lastWrite, index)
  BY <1>3, <1>4, MoreJobsKept DEF LInv
<1> HIDE DEF all
<1>7. JobsCover(all, everLive \cup next)
  <2> SUFFICES ASSUME NEW e \in next PROVE \E j \in 1..Len(all) : all[j].doc = e.doc
    BY <1>6 DEF JobsCover
  <2>1. CASE \E job \in CutJobs(next) : job.doc = e.doc
    <3>1. PICK i \in 1..Len(s) : s[i].doc = e.doc
      BY <1>3, <2>1
    <3>2. Len(js) + i \in 1..Len(all) /\ all[Len(js) + i] = s[i]
      BY <1>5
    <3> QED BY <3>1, <3>2
  <2>2. CASE ~\E job \in CutJobs(next) : job.doc = e.doc
    <3>1. LiveOf(next, e.doc) = LiveOf(live, e.doc)
      BY <2>2, Untold DEF LInv
    <3>2. e \in live
      BY <3>1 DEF LiveOf
    <3> QED BY <1>6, <3>2 DEF JobsCover, LInv, Parts, LiveOK
  <2> QED BY <2>1, <2>2
<1>8. NewestIsLive(all, tags, next)
  <2> SUFFICES ASSUME NEW j \in 1..Len(all), Followed(tags, next, all[j].doc), Newest(all, j)
               PROVE  LiveOf(next, all[j].doc) = Says(all[j])
    BY DEF NewestIsLive
  <2>1. CASE j \in 1..Len(js)
    <3>1. all[j] = js[j] /\ Newest(js, j)
      BY <1>5, <2>1 DEF Newest
    <3>2. ASSUME NEW i \in 1..Len(s)
          PROVE  s[i].doc # all[j].doc
      <4>1. Len(js) + i \in 1..Len(all) /\ Len(js) + i > j /\ all[Len(js) + i] = s[i]
        BY <1>5, <2>1
      <4> QED BY <4>1 DEF Newest
    <3>3. LiveOf(next, js[j].doc) = LiveOf(live, js[j].doc)
      BY <1>3, <3>1, <3>2, Untold DEF LInv
    <3>4. Followed(tags, live, js[j].doc)
      BY <3>1, <3>3 DEF Followed
    <3>5. LiveOf(live, js[j].doc) = Says(js[j])
      BY <2>1, <3>1, <3>4 DEF LInv, NewestIsLive
    <3> QED BY <3>1, <3>3, <3>5
  <2>2. CASE j \notin 1..Len(js)
    <3> DEFINE i == j - Len(js)
    <3>1. i \in 1..Len(s)
      BY <1>5, <2>2
    <3>2. Len(js) + i = j
      BY <1>5
    <3> HIDE DEF i
    <3>3. all[Len(js) + i] = s[i]
      BY <1>5, <3>1
    <3>4. all[j] \in CutJobs(next)
      BY <1>3, <3>1, <3>2, <3>3
    <3> QED BY <3>4, CutJobSays DEF LInv
  <2> QED BY <2>1, <2>2
<1>9. Parts'
  BY CutStep DEF LInv
<1>10. TaggersFollow(tagger, next)
  BY DEF Cut, RowFree, TaggersFollow, LiveOf
<1>11. UNCHANGED tagger /\ OnePerDoc(next)
  BY ManifestsAssumption DEF Cut, Manifest
<1> QED BY <1>1, <1>2, <1>6, <1>7, <1>8, <1>9, <1>10, <1>11 DEF LInv, all

-----------------------------------------------------------------------------
LEMMA TagBeginKeeps ==
    ASSUME LInv, NEW t \in Taggers, NEW d \in Docs, TagBegin(t, d), Parts'
    PROVE  LInv'
<1>1. /\ tagger' = [tagger EXCEPT ![t] = [doc |-> {d}, entry |-> {e \in live : e.doc = d}]]
      /\ UNCHANGED <<live, tags, jobs, index, everLive, lastWrite>>
  BY DEF TagBegin
<1>2. tagger \in [Taggers -> Tagging]
  BY DEF LInv, Parts, TagsOK
<1>3. TaggersFollow(tagger', live)
  <2> SUFFICES ASSUME NEW u \in Taggers, NEW c \in tagger'[u].doc, LiveOf(live, c) # {}
               PROVE  tagger'[u].entry = LiveOf(live, c)
    BY DEF TaggersFollow
  <2>1. CASE u = t
    BY <1>1, <1>2, <2>1 DEF LiveOf
  <2>2. CASE u # t
    BY <1>1, <1>2, <2>2 DEF LInv, TaggersFollow
  <2> QED BY <2>1, <2>2
<1> QED BY <1>1, <1>3 DEF LInv

LEMMA TagCommitKeeps ==
    ASSUME LInv, NEW t \in Taggers, NEW d \in Docs, TagCommit(t, d)
    PROVE  LInv'
<1> DEFINE ts == [tags EXCEPT ![d] = @ + 1]
<1>1. /\ tags' = ts /\ UNCHANGED <<live, index, everLive, lastWrite>>
  BY DEF TagCommit
<1>2. /\ tags \in [Docs -> 0..MaxTags] /\ jobs \in Seq(OutboxJob)
      /\ lastWrite \in [Docs -> 0..Len(jobs)] /\ Len(jobs) \in Nat
  BY DEF LInv, Parts, TagsOK, JobsOK, LastOK
<1>3. ts[d] # 0 /\ \A c \in Docs : c # d => ts[c] = tags[c]
  BY <1>2, LimitsAssumption
<1> HIDE DEF ts
<1>4. Parts'
  BY TagCommitStep DEF LInv
<1>5. \A j \in 1..Len(jobs) : jobs[j].doc \in Docs
  <2>1. \A j \in 1..Len(jobs) : jobs[j] \in OutboxJob
    BY <1>2
  <2> QED BY <2>1 DEF OutboxJob
<1>6. ASSUME NEW j \in 1..Len(jobs), Followed(ts, live, jobs[j].doc), Newest(jobs, j)
      PROVE  LiveOf(live, jobs[j].doc) = Says(jobs[j])
  <2>1. Followed(tags, live, jobs[j].doc)
    BY <1>3, <1>5, <1>6 DEF Followed
  <2> QED BY <1>6, <2>1 DEF LInv, NewestIsLive
<1>7. /\ tagger' = [tagger EXCEPT ![t] = [doc |-> {}, entry |-> {}]]
      /\ tagger \in [Taggers -> Tagging] /\ d \in tagger[t].doc
  BY DEF TagCommit, LInv, Parts, TagsOK
<1>8. TaggersFollow(tagger', live)
  <2> SUFFICES ASSUME NEW u \in Taggers, NEW c \in tagger'[u].doc, LiveOf(live, c) # {}
               PROVE  tagger'[u].entry = LiveOf(live, c)
    BY DEF TaggersFollow
  <2> QED BY <1>7 DEF LInv, TaggersFollow
<1>9. CASE UNCHANGED jobs
  <2>1. NewestIsLive(jobs, ts, live)
    BY <1>6 DEF NewestIsLive
  <2> QED BY <1>1, <1>4, <1>9, <1>8, <2>1 DEF LInv
<1>10. ASSUME NEW e \in tagger[t].entry,
             jobs' = Append(jobs, NewJob([op |-> "index", doc |-> d, key |-> e.key, ver |-> e.ver],
                                         tags[d] + 1))
      PROVE  LInv'
  <2> DEFINE job == NewJob([op |-> "index", doc |-> d, key |-> e.key, ver |-> e.ver], tags[d] + 1)
  <2>1. job.doc = d
    BY DEF NewJob
  <2>2. jobs' \in Seq(OutboxJob)
    BY <1>4 DEF Parts, JobsOK
  <2>3. jobs' = Append(jobs, job)
    BY <1>10
  <2> HIDE DEF job
  <2>4. /\ Len(jobs') = Len(jobs) + 1 /\ jobs'[Len(jobs) + 1] = job
        /\ \A j \in 1..Len(jobs) : jobs'[j] = jobs[j]
    BY <1>2, <2>3
  <2>5. job \in OutboxJob
    BY <1>2, <2>2, <2>4
  <2> DEFINE s == <<job>>
  <2>6. s \in Seq(OutboxJob) /\ jobs' = jobs \o s
    BY <1>2, <2>3, <2>5
  <2> HIDE DEF s
  <2>7. JobsCover(jobs', everLive) /\ ServedAsWritten(jobs', lastWrite, index)
    BY <1>2, <2>6, MoreJobsKept DEF LInv
  <2>8. NewestIsLive(jobs', ts, live)
    <3> SUFFICES ASSUME NEW j \in 1..Len(jobs'), Followed(ts, live, jobs'[j].doc), Newest(jobs', j)
                 PROVE  LiveOf(live, jobs'[j].doc) = Says(jobs'[j])
      BY DEF NewestIsLive
    <3>1. CASE j \in 1..Len(jobs)
      <4>1. jobs'[j] = jobs[j] /\ Newest(jobs, j)
        BY <1>2, <2>4, <3>1 DEF Newest
      <4> QED BY <1>6, <3>1, <4>1
    <3>2. CASE j \notin 1..Len(jobs)
      <4>1. jobs'[j] = job
        BY <1>2, <2>4, <3>2
      <4>2. LiveOf(live, d) # {}
        BY <1>3, <2>1, <4>1 DEF Followed
      <4>3. LiveOf(live, d) = tagger[t].entry
        BY <1>7, <4>2 DEF LInv, TaggersFollow
      <4>4. e \in live /\ e.doc = d /\ \A o \in LiveOf(live, d) : o = e
        BY <4>3 DEF LiveOf, LInv, OnePerDoc
      <4>5. e \in Entry
        BY <4>4 DEF LInv, Parts, LiveOK
      <4>6. e = [doc |-> d, key |-> e.key, ver |-> e.ver]
        BY <4>4, <4>5 DEF Entry
      <4>7. Says(job) = {e}
        BY <4>6 DEF job, NewJob, Says, EntryOf
      <4> QED BY <2>1, <4>1, <4>3, <4>4, <4>7 DEF LiveOf
    <3> QED BY <3>1, <3>2
  <2> QED BY <1>1, <1>4, <1>8, <2>7, <2>8 DEF LInv
<1> QED BY <1>9, <1>10 DEF TagCommit

-----------------------------------------------------------------------------
\* An effect on one document leaves the others alone.
LEMMA LandKeeps ==
    ASSUME LInv, NEW j \in 1..Len(jobs), Land(j), UNCHANGED <<live, tags, tagger, everLive>>, Parts'
    PROVE  LInv'
<1> DEFINE job == jobs[j]
           d == job.doc
           last == [lastWrite EXCEPT ![d] = j]
<1>1. /\ jobs' = [jobs EXCEPT ![j].wrote = TRUE] /\ index' = Effect(job) /\ lastWrite' = last
  BY DEF Land
<1>2. /\ jobs \in Seq(OutboxJob) /\ Len(jobs) \in Nat /\ job \in OutboxJob /\ d \in Docs
      /\ lastWrite \in [Docs -> 0..Len(jobs)]
  <2>1. /\ jobs \in Seq(OutboxJob) /\ Len(jobs) \in Nat
        /\ lastWrite \in [Docs -> 0..Len(jobs)]
    BY DEF LInv, Parts, JobsOK, LastOK
  <2>2. job \in OutboxJob
    BY <2>1
  <2>3. d \in Docs
    BY <2>2 DEF OutboxJob
  <2> QED BY <2>1, <2>2, <2>3
<1>3. /\ Len(jobs') = Len(jobs)
      /\ \A i \in 1..Len(jobs) : jobs'[i].doc = jobs[i].doc /\ Says(jobs'[i]) = Says(jobs[i])
  <2> DEFINE new == [job EXCEPT !.wrote = TRUE]
  <2>1. new.op = job.op /\ EntryOf(new) = EntryOf(job)
    BY <1>2, JobUpdated, Zenon
  <2>2. new.doc = d
    BY <1>2 DEF OutboxJob
  <2>3. jobs' = [jobs EXCEPT ![j] = new]
    BY <1>1
  <2> HIDE DEF new
  <2>4. /\ Len(jobs') = Len(jobs) /\ jobs'[j] = new
        /\ \A i \in 1..Len(jobs) : i # j => jobs'[i] = jobs[i]
    BY <1>2, <2>3
  <2>5. jobs'[j].doc = jobs[j].doc /\ Says(jobs'[j]) = Says(jobs[j])
    BY <2>1, <2>2, <2>4 DEF Says
  <2> QED BY <2>4, <2>5
<1>4. JobsCover(jobs', everLive) /\ NewestIsLive(jobs', tags, live)
  BY <1>2, <1>3, SameJobs DEF LInv
<1>5. \A c \in Docs : last[c] = IF c = d THEN j ELSE lastWrite[c]
  BY <1>2
<1>6. EntriesOf(Effect(job), d) = Says(job)
  <2>1. CASE job.op = "index"
    <3> DEFINE p == [doc |-> job.doc, key |-> job.key, ver |-> job.ver, tags |-> job.tags]
    <3>1. p.doc = d /\ EntryOf(p) = EntryOf(job)
      BY DEF EntryOf
    <3>2. Effect(job) = {q \in index : q.doc # p.doc} \cup {p}
      BY <2>1 DEF Effect, Upsert
    <3> HIDE DEF p
    <3>3. {q \in Effect(job) : q.doc = d} = {p}
      BY <3>1, <3>2
    <3> QED BY <2>1, <3>1, <3>3 DEF EntriesOf, Says
  <2>2. CASE job.op # "index"
    BY <2>2 DEF Effect, EntriesOf, Says, Served
  <2> QED BY <2>1, <2>2
<1>7. \A c \in Docs : c # d => EntriesOf(Effect(job), c) = EntriesOf(index, c)
  <2> SUFFICES ASSUME NEW c \in Docs, c # d
               PROVE  {q \in Effect(job) : q.doc = c} = {q \in index : q.doc = c}
    BY DEF EntriesOf
  <2>1. CASE job.op = "index"
    <3> DEFINE p == [doc |-> job.doc, key |-> job.key, ver |-> job.ver, tags |-> job.tags]
    <3>1. p.doc = d
      OBVIOUS
    <3>2. Effect(job) = {q \in index : q.doc # p.doc} \cup {p}
      BY <2>1 DEF Effect, Upsert
    <3> HIDE DEF p
    <3> QED BY <3>1, <3>2
  <2>2. CASE job.op # "index"
    BY <2>2 DEF Effect, Served
  <2> QED BY <2>1, <2>2
<1> HIDE DEF last
<1>8. ServedAsWritten(jobs', last, Effect(job))
  <2> SUFFICES ASSUME NEW c \in Docs, last[c] # 0
               PROVE  jobs'[last[c]].doc = c /\ EntriesOf(Effect(job), c) = Says(jobs'[last[c]])
    BY DEF ServedAsWritten
  <2>1. CASE c = d
    BY <1>3, <1>5, <1>6, <2>1
  <2>2. CASE c # d
    <3>1. last[c] = lastWrite[c] /\ lastWrite[c] \in 1..Len(jobs)
      BY <1>2, <1>5, <2>2
    <3>2. jobs[lastWrite[c]].doc = c /\ EntriesOf(index, c) = Says(jobs[lastWrite[c]])
      BY <2>2, <3>1 DEF LInv, ServedAsWritten
    <3> QED BY <1>3, <1>7, <2>2, <3>1, <3>2
  <2> QED BY <2>1, <2>2
<1> QED BY <1>1, <1>4, <1>8 DEF LInv

\* Statuses are not what a job says.
LEMMA StatusKeeps ==
    ASSUME LInv, NEW js, Parts',
           Len(js) = Len(jobs), jobs' = js,
           \A j \in 1..Len(jobs) : \E st \in Statuses \cup {jobs[j].status} :
               js[j] = [jobs[j] EXCEPT !.status = st],
           UNCHANGED <<live, tags, tagger, everLive, index, lastWrite>>
    PROVE  LInv'
<1>1. /\ jobs \in Seq(OutboxJob) /\ Len(jobs) \in Nat
      /\ lastWrite \in [Docs -> 0..Len(jobs)]
  BY DEF LInv, Parts, JobsOK, LastOK
<1>2. ASSUME NEW j \in 1..Len(jobs)
      PROVE  js[j].doc = jobs[j].doc /\ Says(js[j]) = Says(jobs[j])
  <2>1. PICK st : js[j] = [jobs[j] EXCEPT !.status = st]
    OBVIOUS
  <2>2. jobs[j] \in OutboxJob
    BY <1>1
  <2>3. js[j].op = jobs[j].op /\ EntryOf(js[j]) = EntryOf(jobs[j])
    BY <2>1, <2>2 DEF OutboxJob, EntryOf
  <2>4. js[j].doc = jobs[j].doc
    BY <2>1, <2>2 DEF OutboxJob
  <2> QED BY <2>3, <2>4 DEF Says
<1>3. /\ JobsCover(js, everLive) /\ NewestIsLive(js, tags, live)
      /\ ServedAsWritten(js, lastWrite, index)
  BY <1>1, <1>2, SameJobs DEF LInv
<1> QED BY <1>3 DEF LInv

LEMMA DrainKeeps ==
    ASSUME LInv, NEW r \in Runners, Drain(r), Parts'
    PROVE  LInv'
<1>0. jobs \in Seq(OutboxJob) /\ Len(jobs) \in Nat /\ \A j \in 1..Len(jobs) : jobs[j] \in OutboxJob
  BY DEF LInv, Parts, JobsOK
<1>1. CASE Claim(r)
  <2> DEFINE js == [j \in 1..Len(jobs) |->
                      IF j \in Oldest(Pending) THEN [jobs[j] EXCEPT !.status = "processing"]
                      ELSE jobs[j]]
  <2>1. jobs' = js /\ UNCHANGED <<live, tags, tagger, everLive, index, lastWrite>>
    BY <1>1 DEF Claim
  <2>2. Len(js) = Len(jobs)
    BY <1>0
  <2>3. \A j \in 1..Len(jobs) : \E st \in Statuses \cup {jobs[j].status} :
               js[j] = [jobs[j] EXCEPT !.status = st]
    <3> SUFFICES ASSUME NEW j \in 1..Len(jobs)
                 PROVE  \E st \in Statuses \cup {jobs[j].status} : js[j] = [jobs[j] EXCEPT !.status = st]
      OBVIOUS
    <3>1. jobs[j] = [jobs[j] EXCEPT !.status = jobs[j].status]
      BY <1>0 DEF OutboxJob
    <3>2. "processing" \in Statuses
      BY DEF Statuses
    <3> QED BY <3>1, <3>2
  <2> HIDE DEF js
  <2> QED BY <2>1, <2>2, <2>3, StatusKeeps
<1>2. ASSUME NEW j \in ToWrite(r), Write(r, j)
      PROVE  LInv'
  <2>1. j \in 1..Len(jobs)
    BY <1>2, Writing DEF LInv, Write
  <2> QED BY <1>2, <2>1, LandKeeps DEF Write
<1>3. ASSUME NEW j \in ToWrite(r), WriteFails(r, j)
      PROVE  LInv'
  <2>1. j \in 1..Len(jobs)
    BY <1>3, Writing DEF LInv, WriteFails
  <2>2. CASE Land(j)
    BY <1>3, <2>1, <2>2, LandKeeps DEF WriteFails
  <2>3. CASE UNCHANGED <<index, jobs, lastWrite>>
    BY <1>3, <2>3 DEF WriteFails, LInv
  <2> QED BY <1>3, <2>2, <2>3 DEF WriteFails
<1>4. CASE Mark(r)
  <2> DEFINE k == runner[r].doing
             out == runner[r].outcome
             js == [jobs EXCEPT ![k].status = out]
  <2>1. jobs' = js /\ UNCHANGED <<live, tags, tagger, everLive, index, lastWrite>>
    BY <1>4 DEF Mark
  <2>2. k \in 1..Len(jobs) /\ out \in Statuses
    BY <1>4, MovingOn DEF LInv, Mark
  <2> HIDE DEF k, out
  <2>3. Len(js) = Len(jobs)
    BY <1>0
  <2>4. \A j \in 1..Len(jobs) : \E st \in Statuses \cup {jobs[j].status} :
               js[j] = [jobs[j] EXCEPT !.status = st]
    <3> SUFFICES ASSUME NEW j \in 1..Len(jobs)
                 PROVE  \E st \in Statuses \cup {jobs[j].status} : js[j] = [jobs[j] EXCEPT !.status = st]
      OBVIOUS
    <3>1. jobs[j] = [jobs[j] EXCEPT !.status = jobs[j].status]
      BY <1>0 DEF OutboxJob
    <3>2. js[j] = IF j = k THEN [jobs[j] EXCEPT !.status = out] ELSE jobs[j]
      BY <1>0
    <3> QED BY <2>2, <3>1, <3>2
  <2> HIDE DEF js
  <2> QED BY <2>1, <2>3, <2>4, StatusKeeps
<1>5. CASE MarkFails(r)
  BY <1>5 DEF MarkFails, LInv
<1> QED BY <1>1, <1>2, <1>3, <1>4, <1>5 DEF Drain

\* What the reindex writes has no job: nothing is said of it.
LEMMA ReindexKeeps ==
    ASSUME LInv, Reindex, Parts'
    PROVE  LInv'
<1>1. ASSUME NEW p \in reindexer.loaded, ReindexWrite(p)
      PROVE  LInv'
  <2> DEFINE d == p.doc
             last == [lastWrite EXCEPT ![d] = 0]
  <2>1. /\ index' = Upsert(p) /\ lastWrite' = last
        /\ UNCHANGED <<live, tags, tagger, jobs, everLive>>
    BY <1>1 DEF ReindexWrite
  <2>2. lastWrite \in [Docs -> 0..Len(jobs)] /\ Len(jobs) \in Nat
    BY DEF LInv, Parts, LastOK, JobsOK
  <2>3. \A c \in Docs : last[c] # 0 => c # d /\ last[c] = lastWrite[c]
    BY <2>2
  <2>4. \A c \in Docs : c # d => EntriesOf(Upsert(p), c) = EntriesOf(index, c)
    BY DEF EntriesOf, Upsert
  <2> HIDE DEF last
  <2>5. ServedAsWritten(jobs, last, Upsert(p))
    BY <2>3, <2>4 DEF LInv, ServedAsWritten
  <2> QED BY <2>1, <2>5 DEF LInv
<1>2. CASE ReindexBegin
  BY <1>2 DEF ReindexBegin, LInv
<1>3. ASSUME NEW e \in reindexer.todo, ReindexLoad(e)
      PROVE  LInv'
  BY <1>3 DEF ReindexLoad, LInv
<1>4. CASE ReindexFails
  BY <1>4 DEF ReindexFails, LInv
<1> QED BY <1>1, <1>2, <1>3, <1>4 DEF Reindex

-----------------------------------------------------------------------------
LEMMA InitLInv == Init => LInv
<1> SUFFICES ASSUME Init PROVE LInv
  OBVIOUS
<1>1. Parts
  BY InitParts
<1>2. JobsCover(jobs, everLive) /\ NewestIsLive(jobs, tags, live)
  BY DEF Init, JobsCover, NewestIsLive
<1>3. ServedAsWritten(jobs, lastWrite, index)
  BY DEF Init, ServedAsWritten
<1>4. TaggersFollow(tagger, live) /\ OnePerDoc(live)
  BY DEF Init, TaggersFollow, OnePerDoc
<1> QED BY <1>1, <1>2, <1>3, <1>4 DEF LInv

LEMMA NextLInv == LInv /\ [Next]_vars => LInv'
<1> SUFFICES ASSUME LInv, [Next]_vars PROVE LInv'
  OBVIOUS
<1>0. Parts'
  BY NextParts DEF LInv
<1>1. ASSUME NEW next \in Manifests, Cut(next)
      PROVE  LInv'
  BY <1>1, CutKeeps
<1>2. ASSUME NEW t \in Taggers, NEW d \in Docs, TagBegin(t, d)
      PROVE  LInv'
  BY <1>0, <1>2, TagBeginKeeps
<1>3. ASSUME NEW t \in Taggers, NEW d \in Docs, TagCommit(t, d)
      PROVE  LInv'
  BY <1>3, TagCommitKeeps
<1>4. ASSUME NEW r \in Runners, Drain(r)
      PROVE  LInv'
  BY <1>0, <1>4, DrainKeeps
<1>5. ASSUME NEW r \in Runners, Stop(r)
      PROVE  LInv'
  BY <1>0, <1>5 DEF Stop, LInv
<1>6. CASE Reindex
  BY <1>0, <1>6, ReindexKeeps
<1>7. CASE UNCHANGED vars
  BY <1>0, <1>7 DEF vars, LInv
<1> QED BY <1>1, <1>2, <1>3, <1>4, <1>5, <1>6, <1>7 DEF Next, Tag

LEMMA LInvDecides == LInv => LastWriteDecides
<1> SUFFICES ASSUME LInv, NEW d \in Docs, tags[d] = 0 \/ \E e \in live : e.doc = d,
                    \A j \in (lastWrite[d] + 1)..Len(jobs) : jobs[j].doc # d
             PROVE  {EntryOf(p) : p \in Served(d)} = {e \in live : e.doc = d}
  BY DEF LastWriteDecides
<1> DEFINE k == lastWrite[d]
<1>1. k \in 0..Len(jobs) /\ Len(jobs) \in Nat
  BY DEF LInv, Parts, LastOK, JobsOK
<1>2. CASE k # 0
  <2>1. k \in 1..Len(jobs) /\ jobs[k].doc = d /\ EntriesOf(index, d) = Says(jobs[k])
    BY <1>1, <1>2 DEF LInv, ServedAsWritten
  <2>2. Newest(jobs, k)
    BY <1>1, <2>1 DEF Newest
  <2>3. LiveOf(live, d) = Says(jobs[k])
    BY <2>1, <2>2 DEF LInv, NewestIsLive, Followed, LiveOf
  <2> QED BY <2>1, <2>3 DEF EntriesOf, LiveOf, Served
<1>3. CASE k = 0
  <2>1. \A j \in 1..Len(jobs) : jobs[j].doc # d
    BY <1>1, <1>3
  <2>2. \A e \in everLive : e.doc # d
    BY <2>1 DEF LInv, JobsCover
  <2>3. \A p \in index : p.doc # d
    BY <2>2 DEF LInv, Parts, IndexOK, EntryOf
  <2>4. live \subseteq everLive
    BY DEF LInv, Parts, LiveOK
  <2> QED BY <2>2, <2>3, <2>4 DEF Served
<1> QED BY <1>2, <1>3

\* Jobs may be lost, repeated, retried or done by runners that race: where the write
\* of a document's newest job lands last, what is served of it is what is live, unless
\* its tags changed and it was taken down; for any runners, documents, cuts, tag changes
\* and failures.
THEOREM LastWriteInvariance == Spec => []LastWriteDecides
<1>1. Init => LInv
  BY InitLInv
<1>2. LInv /\ [Next]_vars => LInv'
  BY NextLInv
<1>3. LInv => LastWriteDecides
  BY LInvDecides
<1> QED BY <1>1, <1>2, <1>3, PTL DEF Spec

-----------------------------------------------------------------------------
(* Spaced clients: when every change waits for the one before to be served, *)
(* the index of a settled system is the current release with the current   *)
(* tags, though writes fail and runners die on the way.                    *)

\* What should be served of a document, and what is.
Shown(es, ts, d) == {Project(e, ts[e.doc]) : e \in LiveOf(es, d)}

Indexed(ix, d) == {p \in ix : p.doc = d}

\* What is served of a document once a job of it is written, tags included.
Puts(job) ==
    IF job.op = "index"
    THEN {[doc |-> job.doc, key |-> job.key, ver |-> job.ver, tags |-> job.tags]}
    ELSE {}

Open(js) == {j \in 1..Len(js) : js[j].status # "done"}

NoReindex == [todo |-> {}, loaded |-> {}]

\* The open jobs are of different documents, and writing one brings its document
\* up to date.
OpenAreCurrent(js, es, ts) ==
    /\ \A i, j \in Open(js) : js[i].doc = js[j].doc => i = j
    /\ \A j \in Open(js) : Puts(js[j]) = Shown(es, ts, js[j].doc)

\* A document that is not served as it should be has an open job still unwritten.
IndexAwaits(js, es, ts, ix) ==
    \A d \in Docs : \/ Indexed(ix, d) = Shown(es, ts, d)
                    \/ \E j \in Open(js) : js[j].doc = d /\ ~js[j].wrote

\* One change at a time: a tag request, a reindex, or jobs to drain.
OneChange(js, qs, q) ==
    /\ \A t \in Taggers : qs[t].doc # {} =>
          Open(js) = {} /\ q = NoReindex /\ \A u \in Taggers : qs[u].doc # {} => u = t
    /\ q # NoReindex => Open(js) = {}

\* So what a tag request or a reindex has read is still so.
TagReads(qs, es) == \A t \in Taggers : \A d \in qs[t].doc : qs[t].entry = LiveOf(es, d)

ReindexReads(q, es, ts) ==
    q.todo \subseteq es /\ \A p \in q.loaded : \E e \in es : p = Project(e, ts[e.doc])

SInv == /\ Parts
        /\ OnePerDoc(live)
        /\ OpenAreCurrent(jobs, live, tags)
        /\ IndexAwaits(jobs, live, tags, index)
        /\ OneChange(jobs, tagger, reindexer)
        /\ TagReads(tagger, live)
        /\ ReindexReads(reindexer, live, tags)

\* A change begins only when there is nothing left of the one before.
LEMMA ChangeBegins ==
    ASSUME Spaced, SInv, ClientsGo
    PROVE  /\ Open(jobs) = {} /\ reindexer = NoReindex /\ \A t \in Taggers : tagger[t].doc = {}
           /\ \A d \in Docs : Indexed(index, d) = Shown(live, tags, d)
<1>1. Open(jobs) = {} /\ reindexer = NoReindex /\ \A t \in Taggers : tagger[t].doc = {}
  BY DEF ClientsGo, Drained, Untouched, NotReindexing, NoReindex, Open
<1> QED BY <1>1 DEF SInv, IndexAwaits

\* A cut enqueues a job once.
LEMMA OrdersOnce ==
    ASSUME NEW S, IsFiniteSet(S), NEW s \in Orders(S)
    PROVE  \E n \in Nat : s \in [1..n -> S] /\ \A i, j \in 1..n : s[i] = s[j] => i = j
<1> DEFINE n == Cardinality(S)
<1>1. n \in Nat /\ s \in [1..n -> S] /\ {s[i] : i \in 1..n} = S
  BY FS_CardinalityType DEF Orders
<1>2. s \in Surjection(1..n, S)
  BY <1>1 DEF Surjection
<1>3. IsFiniteSet(1..n) /\ Cardinality(1..n) = n
  <2> HIDE DEF n
  <2> QED BY <1>1, FS_Interval
<1>4. s \in Injection(1..n, S)
  BY <1>2, <1>3, FS_Surjection
<1>5. \A i, j \in 1..n : s[i] = s[j] => i = j
  <2>1. IsInjective(s) /\ DOMAIN s = 1..n
    BY <1>1, <1>4 DEF Injection
  <2> QED BY <2>1 DEF IsInjective
<1> HIDE DEF n
<1> QED BY <1>1, <1>5

\* A job of a cut brings its document up to the new release, and is the cut's only
\* one of that document.
LEMMA CutJobPuts ==
    ASSUME Parts, NEW next \in Manifests, NEW job \in CutJobs(next)
    PROVE  Puts(job) = Shown(next, tags, job.doc)
<1>1. LiveOf(next, job.doc) = Says(job)
  BY CutJobSays
<1>2. ASSUME NEW e \in next, job = IndexJob(e)
      PROVE  Puts(job) = Shown(next, tags, job.doc)
  <2>1. next \subseteq Entry
    BY ManifestsAssumption DEF Manifest
  <2>2. e = [doc |-> e.doc, key |-> e.key, ver |-> e.ver]
    BY <2>1 DEF Entry
  <2>3. /\ job.op = "index" /\ job.doc = e.doc /\ job.key = e.key /\ job.ver = e.ver
        /\ job.tags = tags[e.doc]
    BY <1>2 DEF IndexJob, NewJob
  <2>4. LiveOf(next, job.doc) = {e}
    BY <1>1, <2>2, <2>3 DEF Says, EntryOf
  <2> QED BY <2>3, <2>4 DEF Puts, Shown, Project
<1>3. ASSUME NEW o \in live, job = DeleteJob(o)
      PROVE  Puts(job) = Shown(next, tags, job.doc)
  <2>1. job.op = "delete"
    BY <1>3 DEF DeleteJob, NewJob
  <2> QED BY <1>1, <2>1 DEF Says, Puts, Shown
<1> QED BY <1>2, <1>3, CutJobForms

LEMMA CutJobsDiffer ==
    ASSUME Parts, NEW next \in Manifests, NEW a \in CutJobs(next), NEW b \in CutJobs(next),
           a.doc = b.doc
    PROVE  a = b
<1>1. next \subseteq Entry /\ OnePerDoc(next)
  BY ManifestsAssumption DEF Manifest
<1>2. LiveOf(next, a.doc) = Says(a) /\ Says(a) = Says(b)
  BY CutJobSays
<1>3. ASSUME NEW job \in CutJobs(next)
      PROVE  \/ \E e \in next : job = IndexJob(e) /\ job.doc = e.doc /\ job.op = "index"
             \/ \E o \in live : job = DeleteJob(o) /\ job.doc = o.doc /\ job.op = "delete"
  BY CutJobForms DEF IndexJob, DeleteJob, NewJob
<1>4. CASE a.op = "index"
  <2>1. PICK e \in next : a = IndexJob(e) /\ a.doc = e.doc
    BY <1>3, <1>4
  <2>2. b.op = "index"
    BY <1>2, <1>4 DEF Says
  <2>3. PICK f \in next : b = IndexJob(f) /\ b.doc = f.doc
    BY <1>3, <2>2
  <2>4. e = f
    BY <1>1, <2>1, <2>3 DEF OnePerDoc
  <2> QED BY <2>1, <2>3, <2>4
<1>5. CASE a.op # "index"
  <2>1. PICK o \in live : a = DeleteJob(o) /\ a.doc = o.doc
    BY <1>3, <1>5
  <2>2. b.op # "index"
    BY <1>2, <1>5 DEF Says
  <2>3. PICK p \in live : b = DeleteJob(p) /\ b.doc = p.doc
    BY <1>3, <2>2
  <2> QED BY <2>1, <2>3 DEF DeleteJob
<1> QED BY <1>4, <1>5

LEMMA CutSpaced ==
    ASSUME Spaced, SInv, NEW next \in Manifests, Cut(next)
    PROVE  SInv'
<1>0. /\ Open(jobs) = {} /\ reindexer = NoReindex /\ \A t \in Taggers : tagger[t].doc = {}
      /\ \A d \in Docs : Indexed(index, d) = Shown(live, tags, d)
  BY ChangeBegins DEF Cut
<1>1. /\ live' = next
      /\ UNCHANGED <<tags, tagger, reindexer, index>>
  BY DEF Cut
<1>2. PICK s \in Orders(CutJobs(next)) : jobs' = jobs \o s
  BY DEF Cut
<1>3. /\ s \in Seq(OutboxJob)
      /\ \A i \in 1..Len(s) : s[i] \in CutJobs(next)
      /\ \A job \in CutJobs(next) : \E i \in 1..Len(s) : s[i] = job
      /\ \A i, j \in 1..Len(s) : s[i] = s[j] => i = j
  <2>1. CutJobs(next) \subseteq OutboxJob /\ IsFiniteSet(CutJobs(next))
    BY CutJobsTyped, CutJobsFinite DEF SInv
  <2>2. {s[i] : i \in DOMAIN s} = CutJobs(next)
    BY <1>2 DEF Orders
  <2>3. PICK n \in Nat : s \in [1..n -> CutJobs(next)] /\ \A i, j \in 1..n : s[i] = s[j] => i = j
    BY <1>2, <2>1, OrdersOnce
  <2> QED BY <2>1, <2>2, <2>3
<1> DEFINE js == jobs
           all == js \o s
<1>4. js \in Seq(OutboxJob)
  BY DEF SInv, Parts, JobsOK
<1>5. /\ Len(js) \in Nat /\ Len(s) \in Nat /\ Len(all) = Len(js) + Len(s)
      /\ \A j \in 1..Len(js) : all[j] = js[j]
      /\ \A i \in 1..Len(s) : all[Len(js) + i] = s[i]
      /\ \A j \in 1..Len(all) : j \notin 1..Len(js) => j - Len(js) \in 1..Len(s)
  BY <1>3, <1>4, MoreJobs
<1> HIDE DEF all, js
<1>6. ASSUME NEW j \in Open(all)
      PROVE  \E i \in 1..Len(s) : j = Len(js) + i /\ all[j] = s[i]
  <2>1. j \notin 1..Len(js)
    BY <1>0, <1>5, <1>6 DEF Open, js
  <2>2. j - Len(js) \in 1..Len(s) /\ j = Len(js) + (j - Len(js))
    BY <1>5, <1>6, <2>1 DEF Open
  <2> QED BY <1>5, <2>2
<1>7. ASSUME NEW i \in Open(all), NEW j \in Open(all), all[i].doc = all[j].doc
      PROVE  i = j
  <2>1. PICK a \in 1..Len(s) : i = Len(js) + a /\ all[i] = s[a]
    BY <1>6
  <2>2. PICK b \in 1..Len(s) : j = Len(js) + b /\ all[j] = s[b]
    BY <1>6
  <2>3. s[a] \in CutJobs(next) /\ s[b] \in CutJobs(next)
    BY <1>3
  <2>4. s[a] = s[b]
    BY <1>7, <2>1, <2>2, <2>3, CutJobsDiffer DEF SInv
  <2> QED BY <1>3, <2>1, <2>2, <2>4
<1>8. ASSUME NEW j \in Open(all)
      PROVE  Puts(all[j]) = Shown(next, tags, all[j].doc)
  <2>1. all[j] \in CutJobs(next)
    BY <1>3, <1>6
  <2> QED BY <2>1, CutJobPuts DEF SInv
<1>9. ASSUME NEW d \in Docs
      PROVE  \/ Indexed(index, d) = Shown(next, tags, d)
             \/ \E j \in Open(all) : all[j].doc = d /\ ~all[j].wrote
  <2>1. CASE \A job \in CutJobs(next) : job.doc # d
    <3>1. LiveOf(next, d) = LiveOf(live, d)
      BY <2>1, Untold DEF SInv
    <3> QED BY <1>0, <3>1 DEF Shown
  <2>2. CASE \E job \in CutJobs(next) : job.doc = d
    <3>1. PICK i \in 1..Len(s) : s[i].doc = d
      BY <1>3, <2>2
    <3>2. Len(js) + i \in 1..Len(all) /\ all[Len(js) + i] = s[i]
      BY <1>5
    <3>3. s[i].status = "pending" /\ ~s[i].wrote
      <4>1. s[i] \in CutJobs(next)
        BY <1>3
      <4> QED BY <4>1 DEF CutJobs, NewJob
    <3> QED BY <3>1, <3>2, <3>3 DEF Open
  <2> QED BY <2>1, <2>2
<1>10. OpenAreCurrent(jobs', live', tags')
  BY <1>1, <1>2, <1>7, <1>8 DEF OpenAreCurrent, all, js
<1>11. IndexAwaits(jobs', live', tags', index')
  BY <1>1, <1>2, <1>9 DEF IndexAwaits, all, js
<1>12. OneChange(jobs', tagger', reindexer') /\ TagReads(tagger', live')
       /\ ReindexReads(reindexer', live', tags')
  BY <1>0, <1>1 DEF OneChange, TagReads, ReindexReads, NoReindex
<1>13. Parts' /\ OnePerDoc(live')
  BY <1>1, CutStep, ManifestsAssumption DEF SInv, Manifest
<1> QED BY <1>10, <1>11, <1>12, <1>13 DEF SInv

-----------------------------------------------------------------------------
LEMMA TagBeginSpaced ==
    ASSUME Spaced, SInv, NEW t \in Taggers, NEW d \in Docs, TagBegin(t, d)
    PROVE  SInv'
<1>1. /\ Open(jobs) = {} /\ reindexer = NoReindex /\ \A u \in Taggers : tagger[u].doc = {}
  BY ChangeBegins DEF TagBegin
<1> DEFINE req == [doc |-> {d}, entry |-> {e \in live : e.doc = d}]
<1>2. /\ tagger' = [tagger EXCEPT ![t] = req]
      /\ UNCHANGED <<live, tags, jobs, reindexer, index>>
  BY DEF TagBegin
<1>3. tagger \in [Taggers -> Tagging]
  BY DEF SInv, Parts, TagsOK
<1>4. req.doc = {d} /\ req.entry = LiveOf(live, d)
  BY DEF LiveOf
<1> HIDE DEF req
<1>5. \A u \in Taggers : tagger'[u] = IF u = t THEN req ELSE tagger[u]
  BY <1>2, <1>3
<1>6. TagReads(tagger', live)
  BY <1>1, <1>4, <1>5 DEF TagReads
<1>7. OneChange(jobs, tagger', reindexer)
  BY <1>1, <1>4, <1>5 DEF OneChange
<1>8. Parts'
  BY TagBeginStep DEF SInv
<1> QED BY <1>2, <1>6, <1>7, <1>8 DEF SInv

LEMMA TagCommitSpaced ==
    ASSUME SInv, NEW t \in Taggers, NEW d \in Docs, TagCommit(t, d)
    PROVE  SInv'
<1> DEFINE ts == [tags EXCEPT ![d] = @ + 1]
           free == [doc |-> {}, entry |-> {}]
<1>1. /\ tags' = ts /\ tagger' = [tagger EXCEPT ![t] = free]
      /\ d \in tagger[t].doc
      /\ UNCHANGED <<live, index, reindexer>>
  BY DEF TagCommit
<1>2. /\ tags \in [Docs -> 0..MaxTags] /\ jobs \in Seq(OutboxJob) /\ Len(jobs) \in Nat
      /\ live \subseteq Entry
  BY DEF SInv, Parts, TagsOK, JobsOK, LiveOK
<1>2a. tagger \in [Taggers -> Tagging]
  BY DEF SInv, Parts, TagsOK
<1>3. /\ Open(jobs) = {} /\ reindexer = NoReindex /\ \A u \in Taggers : tagger[u].doc # {} => u = t
      /\ tagger[t].entry = LiveOf(live, d)
  BY <1>1 DEF SInv, OneChange, TagReads
<1>4. \A c \in Docs : Indexed(index, c) = Shown(live, tags, c)
  BY <1>3 DEF SInv, IndexAwaits
<1>5. ts[d] = tags[d] + 1 /\ \A c \in Docs : c # d => ts[c] = tags[c]
  BY <1>2, LimitsAssumption
<1>6. \A u \in Taggers : tagger'[u].doc = {}
  BY <1>1, <1>2a, <1>3
<1> HIDE DEF ts
<1>7. \A c \in Docs : c # d => Shown(live, ts, c) = Shown(live, tags, c)
  BY <1>5 DEF Shown, LiveOf
<1>8. OneChange(jobs', tagger', reindexer') /\ TagReads(tagger', live')
  BY <1>1, <1>3, <1>6 DEF OneChange, TagReads
<1>9. ReindexReads(reindexer', live', tags')
  BY <1>1, <1>3 DEF ReindexReads, NoReindex
<1>10. Parts'
  BY TagCommitStep DEF SInv
<1>11. CASE tagger[t].entry = {} /\ UNCHANGED jobs
  <2>1. Shown(live, ts, d) = {} /\ Shown(live, tags, d) = {}
    BY <1>3, <1>11 DEF Shown
  <2>2. IndexAwaits(jobs', live', tags', index')
    BY <1>1, <1>4, <1>7, <2>1 DEF IndexAwaits
  <2>3. OpenAreCurrent(jobs', live', tags')
    BY <1>3, <1>11 DEF OpenAreCurrent
  <2> QED BY <1>1, <1>8, <1>9, <1>10, <2>2, <2>3 DEF SInv
<1>12. ASSUME NEW e \in tagger[t].entry,
              jobs' = Append(jobs, NewJob([op |-> "index", doc |-> d, key |-> e.key, ver |-> e.ver],
                                          tags[d] + 1))
       PROVE  SInv'
  <2> DEFINE job == NewJob([op |-> "index", doc |-> d, key |-> e.key, ver |-> e.ver], tags[d] + 1)
             n == Len(jobs) + 1
  <2>1. /\ job.doc = d /\ job.status = "pending" /\ ~job.wrote /\ job.op = "index"
        /\ job.key = e.key /\ job.ver = e.ver /\ job.tags = tags[d] + 1
    BY DEF NewJob
  <2>2. jobs' = Append(jobs, job)
    BY <1>12
  <2> HIDE DEF job
  <2>3. /\ Len(jobs') = n /\ jobs'[n] = job
        /\ \A j \in 1..Len(jobs) : jobs'[j] = jobs[j]
    BY <1>2, <2>2
  <2>4. Open(jobs') = {n}
    <3>1. \A j \in 1..Len(jobs) : jobs[j].status = "done"
      BY <1>3 DEF Open
    <3>2. \A j \in 1..n : j = n \/ j \in 1..Len(jobs)
      BY <1>2
    <3>3. n \in 1..n
      BY <1>2
    <3> QED BY <2>1, <2>3, <3>1, <3>2, <3>3 DEF Open
  <2>5. e \in live /\ e.doc = d /\ LiveOf(live, d) = {e}
    <3>1. e \in live /\ e.doc = d
      BY <1>3 DEF LiveOf
    <3>2. OnePerDoc(live)
      BY DEF SInv
    <3> QED BY <3>1, <3>2 DEF LiveOf, OnePerDoc
  <2>6. Puts(job) = Shown(live, ts, d)
    BY <1>5, <2>1, <2>5 DEF Puts, Shown, Project
  <2>7. OpenAreCurrent(jobs', live', tags')
    BY <1>1, <2>1, <2>3, <2>4, <2>6 DEF OpenAreCurrent
  <2>8. IndexAwaits(jobs', live', tags', index')
    BY <1>1, <1>4, <1>7, <2>1, <2>3, <2>4 DEF IndexAwaits
  <2> QED BY <1>1, <1>8, <1>9, <1>10, <2>7, <2>8 DEF SInv
<1> QED BY <1>11, <1>12 DEF TagCommit

-----------------------------------------------------------------------------
\* A job that is not recorded done says what it said; one that is, is written.
LEMMA FewerOpen ==
    ASSUME NEW js, NEW new, Len(new) = Len(js),
           \A j \in 1..Len(js) : /\ new[j].doc = js[j].doc /\ Puts(new[j]) = Puts(js[j])
                                 /\ new[j].wrote => js[j].wrote,
           Open(new) \subseteq Open(js),
           \A j \in Open(js) : j \notin Open(new) => js[j].wrote
    PROVE  /\ \A es, ts : OpenAreCurrent(js, es, ts) => OpenAreCurrent(new, es, ts)
           /\ \A es, ts, ix : IndexAwaits(js, es, ts, ix) => IndexAwaits(new, es, ts, ix)
           /\ \A qs, q : OneChange(js, qs, q) => OneChange(new, qs, q)
<1>1. \A j \in Open(js) : j \in 1..Len(js)
  BY DEF Open
<1>2. \A es, ts : OpenAreCurrent(js, es, ts) => OpenAreCurrent(new, es, ts)
  BY <1>1 DEF OpenAreCurrent
<1>3. \A es, ts, ix : IndexAwaits(js, es, ts, ix) => IndexAwaits(new, es, ts, ix)
  <2> SUFFICES ASSUME NEW es, NEW ts, NEW ix, IndexAwaits(js, es, ts, ix)
               PROVE  IndexAwaits(new, es, ts, ix)
    OBVIOUS
  <2>1. ASSUME NEW d \in Docs, NEW j \in Open(js), js[j].doc = d, ~js[j].wrote
        PROVE  j \in Open(new) /\ new[j].doc = d /\ ~new[j].wrote
    BY <1>1, <2>1
  <2> QED BY <2>1 DEF IndexAwaits
<1>4. \A qs, q : OneChange(js, qs, q) => OneChange(new, qs, q)
  BY DEF OneChange
<1> QED BY <1>2, <1>3, <1>4

LEMMA StatusSpaced ==
    ASSUME SInv, NEW js, Parts', jobs' = js, Len(js) = Len(jobs),
           \A j \in 1..Len(jobs) : \E st \in Statuses :
               /\ js[j] = [jobs[j] EXCEPT !.status = st]
               /\ st = "done" => jobs[j].wrote
               /\ jobs[j].status = "done" => st = "done",
           UNCHANGED <<live, tags, tagger, reindexer, index>>
    PROVE  SInv'
<1>1. jobs \in Seq(OutboxJob) /\ \A j \in 1..Len(jobs) : jobs[j] \in OutboxJob
  BY DEF SInv, Parts, JobsOK
<1>2. ASSUME NEW j \in 1..Len(jobs)
      PROVE  /\ js[j].doc = jobs[j].doc /\ Puts(js[j]) = Puts(jobs[j])
             /\ js[j].wrote = jobs[j].wrote
             /\ js[j].status = "done" => jobs[j].wrote
             /\ jobs[j].status = "done" => js[j].status = "done"
  <2>1. PICK st \in Statuses : /\ js[j] = [jobs[j] EXCEPT !.status = st]
                               /\ st = "done" => jobs[j].wrote
                               /\ jobs[j].status = "done" => st = "done"
    OBVIOUS
  <2>2. jobs[j] \in OutboxJob
    BY <1>1
  <2>3. /\ js[j].op = jobs[j].op /\ js[j].doc = jobs[j].doc /\ js[j].key = jobs[j].key
        /\ js[j].ver = jobs[j].ver /\ js[j].tags = jobs[j].tags
        /\ js[j].wrote = jobs[j].wrote /\ js[j].status = st
    BY <2>1, <2>2 DEF OutboxJob
  <2>4. Puts(js[j]) = Puts(jobs[j])
    BY <2>3 DEF Puts
  <2>5. js[j].status = "done" => jobs[j].wrote
    BY <2>1, <2>3, Zenon
  <2> QED BY <2>1, <2>3, <2>4, <2>5, Zenon
<1>3. Open(js) \subseteq Open(jobs)
  BY <1>2 DEF Open
<1>4. \A j \in Open(jobs) : j \notin Open(js) => jobs[j].wrote
  BY <1>2, Zenon DEF Open
<1>5. /\ OpenAreCurrent(js, live, tags) /\ IndexAwaits(js, live, tags, index)
      /\ OneChange(js, tagger, reindexer)
  BY <1>2, <1>3, <1>4, FewerOpen DEF SInv
<1> QED BY <1>5 DEF SInv

\* A write brings its document up to date, and touches no other.
LEMMA LandSpaced ==
    ASSUME SInv, NEW j \in 1..Len(jobs), jobs[j].status # "done", Land(j), Parts',
           UNCHANGED <<live, tags, tagger, reindexer>>
    PROVE  SInv'
<1> DEFINE job == jobs[j]
           d == job.doc
           new == [job EXCEPT !.wrote = TRUE]
<1>1. /\ jobs' = [jobs EXCEPT ![j].wrote = TRUE] /\ index' = Effect(job)
  BY DEF Land
<1>2. /\ jobs \in Seq(OutboxJob) /\ Len(jobs) \in Nat /\ job \in OutboxJob
  BY DEF SInv, Parts, JobsOK
<1>3. /\ new.op = job.op /\ new.doc = d /\ new.key = job.key /\ new.ver = job.ver
      /\ new.tags = job.tags /\ new.status = job.status
  BY <1>2 DEF OutboxJob
<1>4. jobs' = [jobs EXCEPT ![j] = new]
  BY <1>1
<1>5. Puts(new) = Puts(job)
  BY <1>3 DEF Puts
<1> HIDE DEF new
<1>6. /\ Len(jobs') = Len(jobs) /\ jobs'[j] = new
      /\ \A i \in 1..Len(jobs) : i # j => jobs'[i] = jobs[i]
  BY <1>2, <1>4
<1>7. Open(jobs') = Open(jobs)
  BY <1>3, <1>6 DEF Open
<1>8. j \in Open(jobs)
  BY DEF Open
<1>9. \A i \in Open(jobs) : jobs'[i].doc = jobs[i].doc /\ Puts(jobs'[i]) = Puts(jobs[i])
  BY <1>3, <1>5, <1>6 DEF Open
<1>10. OpenAreCurrent(jobs', live, tags)
  BY <1>7, <1>9 DEF SInv, OpenAreCurrent
<1>11. Indexed(Effect(job), d) = Puts(job)
  <2>1. CASE job.op = "index"
    <3> DEFINE p == [doc |-> job.doc, key |-> job.key, ver |-> job.ver, tags |-> job.tags]
    <3>1. p.doc = d
      OBVIOUS
    <3>2. Effect(job) = {q \in index : q.doc # p.doc} \cup {p} /\ Puts(job) = {p}
      BY <2>1 DEF Effect, Upsert, Puts
    <3> HIDE DEF p
    <3> QED BY <3>1, <3>2 DEF Indexed
  <2>2. CASE job.op # "index"
    BY <2>2 DEF Effect, Indexed, Puts, Served
  <2> QED BY <2>1, <2>2
<1>12. \A c \in Docs : c # d => Indexed(Effect(job), c) = Indexed(index, c)
  <2> SUFFICES ASSUME NEW c \in Docs, c # d
               PROVE  Indexed(Effect(job), c) = Indexed(index, c)
    OBVIOUS
  <2>1. CASE job.op = "index"
    <3> DEFINE p == [doc |-> job.doc, key |-> job.key, ver |-> job.ver, tags |-> job.tags]
    <3>1. p.doc = d
      OBVIOUS
    <3>2. Effect(job) = {q \in index : q.doc # p.doc} \cup {p}
      BY <2>1 DEF Effect, Upsert
    <3> HIDE DEF p
    <3> QED BY <3>1, <3>2 DEF Indexed
  <2>2. CASE job.op # "index"
    BY <2>2 DEF Effect, Served, Indexed
  <2> QED BY <2>1, <2>2
<1>13. IndexAwaits(jobs', live, tags, Effect(job))
  <2> SUFFICES ASSUME NEW c \in Docs, Indexed(Effect(job), c) # Shown(live, tags, c)
               PROVE  \E i \in Open(jobs') : jobs'[i].doc = c /\ ~jobs'[i].wrote
    BY DEF IndexAwaits
  <2>1. c # d
    BY <1>8, <1>11 DEF SInv, OpenAreCurrent
  <2>2. PICK i \in Open(jobs) : jobs[i].doc = c /\ ~jobs[i].wrote
    BY <1>12, <2>1 DEF SInv, IndexAwaits
  <2>3. i # j /\ i \in 1..Len(jobs)
    BY <2>1, <2>2 DEF Open
  <2>4. jobs'[i] = jobs[i]
    BY <1>6, <2>3
  <2> QED BY <1>7, <2>2, <2>4
<1>14. OneChange(jobs', tagger, reindexer)
  BY <1>7 DEF SInv, OneChange
<1> QED BY <1>1, <1>10, <1>13, <1>14 DEF SInv

LEMMA DrainSpaced ==
    ASSUME SInv, NEW r \in Runners, Drain(r), Parts'
    PROVE  SInv'
<1>0. jobs \in Seq(OutboxJob) /\ Len(jobs) \in Nat /\ \A j \in 1..Len(jobs) : jobs[j] \in OutboxJob
  BY DEF SInv, Parts, JobsOK
<1>a. ASSUME NEW j \in 1..Len(jobs)
      PROVE  /\ jobs[j] = [jobs[j] EXCEPT !.status = jobs[j].status]
             /\ jobs[j].status \in Statuses
             /\ jobs[j].status = "done" => jobs[j].wrote
  <2>1. jobs[j] \in OutboxJob
    BY <1>0
  <2>2. jobs[j].status = "done" => jobs[j].wrote
    BY DEF SInv, Parts, JobsOK
  <2> QED BY <2>1, <2>2 DEF OutboxJob
<1>b. ASSUME NEW j \in ToWrite(r), runner[r].outcome = "none"
      PROVE  j \in 1..Len(jobs) /\ jobs[j].status # "done"
  BY <1>b, Writing DEF SInv, Parts, RunnersOK
<1>1. CASE Claim(r)
  <2> DEFINE js == [j \in 1..Len(jobs) |->
                      IF j \in Oldest(Pending) THEN [jobs[j] EXCEPT !.status = "processing"]
                      ELSE jobs[j]]
  <2>1. jobs' = js /\ UNCHANGED <<live, tags, tagger, reindexer, index>>
    BY <1>1 DEF Claim
  <2>2. Len(js) = Len(jobs)
    BY <1>0
  <2>3. \A j \in 1..Len(jobs) : \E st \in Statuses :
               /\ js[j] = [jobs[j] EXCEPT !.status = st]
               /\ st = "done" => jobs[j].wrote
               /\ jobs[j].status = "done" => st = "done"
    <3> TAKE j \in 1..Len(jobs)
    <3>1. CASE j \in Oldest(Pending)
      <4>1. js[j] = [jobs[j] EXCEPT !.status = "processing"]
        BY <3>1
      <4>2. jobs[j].status = "pending" /\ "processing" \in Statuses
        BY <3>1 DEF Oldest, Pending, Statuses
      <4> QED BY <4>1, <4>2
    <3>2. CASE j \notin Oldest(Pending)
      <4>1. js[j] = jobs[j]
        BY <3>2
      <4> HIDE DEF js
      <4>2. js[j] = [jobs[j] EXCEPT !.status = jobs[j].status]
        BY <1>a, <4>1
      <4>3. jobs[j].status \in Statuses /\ (jobs[j].status = "done" => jobs[j].wrote)
        BY <1>a
      <4> QED BY <4>2, <4>3, Zenon
    <3> QED BY <3>1, <3>2
  <2> HIDE DEF js
  <2> QED BY <2>1, <2>2, <2>3, StatusSpaced
<1>2. ASSUME NEW j \in ToWrite(r), Write(r, j)
      PROVE  SInv'
  BY <1>2, <1>b, LandSpaced DEF Write
<1>3. ASSUME NEW j \in ToWrite(r), WriteFails(r, j)
      PROVE  SInv'
  <2>1. CASE Land(j)
    BY <1>3, <1>b, <2>1, LandSpaced DEF WriteFails
  <2>2. CASE UNCHANGED <<index, jobs, lastWrite>>
    BY <1>3, <2>2 DEF WriteFails, SInv
  <2> QED BY <1>3, <2>1, <2>2 DEF WriteFails
<1>4. CASE Mark(r)
  <2> DEFINE k == runner[r].doing
             out == runner[r].outcome
             js == [jobs EXCEPT ![k].status = out]
  <2>1. jobs' = js /\ UNCHANGED <<live, tags, tagger, reindexer, index>>
    BY <1>4 DEF Mark
  <2>2. /\ k \in 1..Len(jobs) /\ out \in Statuses
        /\ out = "done" => jobs[k].wrote
        /\ jobs[k].status # "done"
    BY <1>4, MovingOn DEF SInv, Mark, Parts, RunnersOK
  <2> HIDE DEF k, out
  <2>3. Len(js) = Len(jobs)
    BY <1>0
  <2>4. \A j \in 1..Len(jobs) : \E st \in Statuses :
               /\ js[j] = [jobs[j] EXCEPT !.status = st]
               /\ st = "done" => jobs[j].wrote
               /\ jobs[j].status = "done" => st = "done"
    <3> TAKE j \in 1..Len(jobs)
    <3>1. js[j] = IF j = k THEN [jobs[j] EXCEPT !.status = out] ELSE jobs[j]
      BY <1>0
    <3> HIDE DEF js
    <3>2. CASE j = k
      BY <2>2, <3>1, <3>2
    <3>3. CASE j # k
      <4>1. js[j] = [jobs[j] EXCEPT !.status = jobs[j].status]
        BY <1>a, <3>1, <3>3
      <4>2. jobs[j].status \in Statuses /\ (jobs[j].status = "done" => jobs[j].wrote)
        BY <1>a
      <4> QED BY <4>1, <4>2, Zenon
    <3> QED BY <3>2, <3>3
  <2> HIDE DEF js
  <2> QED BY <2>1, <2>3, <2>4, StatusSpaced
<1>5. CASE MarkFails(r)
  BY <1>5 DEF MarkFails, SInv
<1> QED BY <1>1, <1>2, <1>3, <1>4, <1>5 DEF Drain

LEMMA ReindexSpaced ==
    ASSUME Spaced, SInv, Reindex, Parts'
    PROVE  SInv'
<1>0. reindexer \in Reindexing
  BY DEF SInv, Parts, ReindexOK
<1>1. ASSUME NEW p \in reindexer.loaded, ReindexWrite(p)
      PROVE  SInv'
  <2> DEFINE d == p.doc
  <2>1. /\ index' = Upsert(p) /\ reindexer' = [reindexer EXCEPT !.loaded = {}]
        /\ UNCHANGED <<live, tags, jobs, tagger>>
    BY <1>1 DEF ReindexWrite
  <2>2. PICK e \in live : p = Project(e, tags[e.doc])
    BY DEF SInv, ReindexReads
  <2>3. Open(jobs) = {}
    BY DEF SInv, OneChange, NoReindex
  <2>4. Shown(live, tags, d) = {p}
    <3>1. LiveOf(live, d) = {e}
      BY <2>2 DEF SInv, OnePerDoc, LiveOf, Project
    <3> QED BY <2>2, <3>1 DEF Shown
  <2>5. Indexed(Upsert(p), d) = {p} /\ \A c \in Docs : c # d => Indexed(Upsert(p), c) = Indexed(index, c)
    BY DEF Indexed, Upsert
  <2>6. IndexAwaits(jobs, live, tags, Upsert(p))
    BY <2>3, <2>4, <2>5 DEF SInv, IndexAwaits
  <2>7. reindexer'.todo = reindexer.todo /\ reindexer'.loaded = {}
    BY <1>0, <2>1 DEF Reindexing
  <2>8. ReindexReads(reindexer', live, tags)
    BY <2>7 DEF SInv, ReindexReads
  <2>9. OneChange(jobs, tagger, reindexer')
    <3>1. \A t \in Taggers : tagger[t].doc = {}
      BY DEF SInv, OneChange, NoReindex
    <3> QED BY <2>3, <3>1 DEF OneChange
  <2> QED BY <2>1, <2>6, <2>8, <2>9 DEF SInv
<1>2. CASE ReindexBegin
  <2>1. /\ Open(jobs) = {} /\ reindexer = NoReindex /\ \A t \in Taggers : tagger[t].doc = {}
    BY <1>2, ChangeBegins DEF ReindexBegin
  <2>2. /\ reindexer' = [reindexer EXCEPT !.todo = live]
        /\ UNCHANGED <<live, tags, jobs, tagger, index>>
    BY <1>2 DEF ReindexBegin
  <2>3. reindexer'.todo = live /\ reindexer'.loaded = {}
    BY <2>1, <2>2 DEF NoReindex
  <2>4. ReindexReads(reindexer', live, tags)
    BY <2>3 DEF ReindexReads
  <2>5. OneChange(jobs, tagger, reindexer')
    BY <2>1 DEF OneChange
  <2> QED BY <2>2, <2>4, <2>5 DEF SInv
<1>3. ASSUME NEW e \in reindexer.todo, ReindexLoad(e)
      PROVE  SInv'
  <2> DEFINE p == Project(e, tags[e.doc])
             q == [todo |-> reindexer.todo \ {e}, loaded |-> {p}]
  <2>1. reindexer' = q /\ UNCHANGED <<live, tags, jobs, tagger, index>>
    BY <1>3 DEF ReindexLoad
  <2>2. e \in live
    BY DEF SInv, ReindexReads
  <2>3. ReindexReads(q, live, tags)
    BY <2>2 DEF SInv, ReindexReads
  <2>4. Open(jobs) = {} /\ \A t \in Taggers : tagger[t].doc = {}
    BY DEF SInv, OneChange, NoReindex
  <2> HIDE DEF q
  <2>5. OneChange(jobs, tagger, q)
    BY <2>4 DEF OneChange
  <2> QED BY <2>1, <2>3, <2>5 DEF SInv
<1>4. CASE ReindexFails
  <2>1. reindexer' = NoReindex /\ UNCHANGED <<live, tags, jobs, tagger, index>>
    BY <1>4 DEF ReindexFails, NoReindex
  <2>2. ReindexReads(NoReindex, live, tags)
    BY DEF ReindexReads, NoReindex
  <2>3. OneChange(jobs, tagger, NoReindex)
    BY DEF SInv, OneChange
  <2> QED BY <2>1, <2>2, <2>3 DEF SInv
<1> QED BY <1>1, <1>2, <1>3, <1>4 DEF Reindex

-----------------------------------------------------------------------------
LEMMA InitSInv == Init => SInv
<1> SUFFICES ASSUME Init PROVE SInv
  OBVIOUS
<1>1. Parts
  BY InitParts
<1>2. Open(jobs) = {} /\ live = {} /\ index = {}
  BY DEF Init, Open
<1>3. reindexer = NoReindex /\ \A t \in Taggers : tagger[t].doc = {}
  BY DEF Init, NoReindex
<1>4. OnePerDoc(live) /\ OpenAreCurrent(jobs, live, tags)
  BY <1>2 DEF OnePerDoc, OpenAreCurrent
<1>5. IndexAwaits(jobs, live, tags, index)
  BY <1>2 DEF IndexAwaits, Indexed, Shown, LiveOf
<1>6. /\ OneChange(jobs, tagger, reindexer) /\ TagReads(tagger, live)
      /\ ReindexReads(reindexer, live, tags)
  BY <1>3 DEF OneChange, TagReads, ReindexReads, NoReindex
<1> QED BY <1>1, <1>4, <1>5, <1>6 DEF SInv

LEMMA NextSInv ==
    ASSUME Spaced
    PROVE  SInv /\ [Next]_vars => SInv'
<1> SUFFICES ASSUME SInv, [Next]_vars PROVE SInv'
  OBVIOUS
<1>0. Parts'
  BY NextParts DEF SInv
<1>1. ASSUME NEW next \in Manifests, Cut(next)
      PROVE  SInv'
  BY <1>1, CutSpaced
<1>2. ASSUME NEW t \in Taggers, Tag(t)
      PROVE  SInv'
  BY <1>2, TagBeginSpaced, TagCommitSpaced DEF Tag
<1>3. ASSUME NEW r \in Runners, Drain(r)
      PROVE  SInv'
  BY <1>0, <1>3, DrainSpaced
<1>4. ASSUME NEW r \in Runners, Stop(r)
      PROVE  SInv'
  BY <1>0, <1>4 DEF Stop, SInv
<1>5. CASE Reindex
  BY <1>0, <1>5, ReindexSpaced
<1>6. CASE UNCHANGED vars
  BY <1>0, <1>6 DEF vars, SInv
<1> QED BY <1>1, <1>2, <1>3, <1>4, <1>5, <1>6 DEF Next

LEMMA SInvSettles == SInv => SettledIsLive
<1> SUFFICES ASSUME SInv, Settled PROVE index = Expected
  BY DEF SettledIsLive
<1>1. Open(jobs) = {}
  BY DEF Settled, Drained, Open
<1>2. \A d \in Docs : Indexed(index, d) = Shown(live, tags, d)
  BY <1>1 DEF SInv, IndexAwaits
<1>3. index \subseteq Projection /\ live \subseteq Entry
  BY DEF SInv, Parts, IndexOK, LiveOK
<1>4. ASSUME NEW p \in index
      PROVE  p \in Expected
  <2>1. p.doc \in Docs /\ p \in Indexed(index, p.doc)
    BY <1>3 DEF Projection, Indexed
  <2>2. p \in Shown(live, tags, p.doc)
    BY <1>2, <2>1
  <2> QED BY <2>2 DEF Shown, LiveOf, Expected
<1>5. ASSUME NEW e \in live
      PROVE  Project(e, tags[e.doc]) \in index
  <2>1. e.doc \in Docs
    BY <1>3 DEF Entry
  <2>2. Project(e, tags[e.doc]) \in Shown(live, tags, e.doc)
    BY DEF Shown, LiveOf
  <2> QED BY <1>2, <2>1, <2>2 DEF Indexed
<1> QED BY <1>4, <1>5 DEF Expected

\* If clients wait for the outbox to drain between changes, the index of a settled
\* system is the current release under the current tags: in whatever order the jobs
\* of a cut are drained, by however many runners, though writes fail after reaching
\* the index, statuses go unrecorded and runners are killed (drain, Process, Reindex).
THEOREM SpacedIsSettled ==
    ASSUME Spaced
    PROVE  Spec => []SettledIsLive
<1>1. Init => SInv
  BY InitSInv
<1>2. SInv /\ [Next]_vars => SInv'
  BY NextSInv
<1>3. SInv => SettledIsLive
  BY SInvSettles
<1> QED BY <1>1, <1>2, <1>3, PTL DEF Spec

================================================================================
