------------------------------- MODULE Serving -------------------------------
(***************************************************************************)
(* From a release to what the site serves: the outbox table, the runners   *)
(* that drain it into OpenSearch, tag changes that reproject a live        *)
(* document, and the full reindex.                                         *)
(*   database/stores/jobs.go, internal/jobs/{runner,pipeline}.go           *)
(*   database/stores/{tagging,reindex,search}.go                           *)
(*                                                                         *)
(* A cut is one step here: Releases_proofs!Refinement shows that requests  *)
(* cutting concurrently are a line of whole cuts, each with the jobs of    *)
(* its difference to the release before.  The entry set of a cut is any of *)
(* Manifests: publishes, unpublishes, full cuts and rollbacks alike.       *)
(*                                                                         *)
(* Jobs are numbered in the order of their created_at, which is taken to   *)
(* be the order in which they commit.  The server's clock and a clock on   *)
(* another server may disagree; a run with more than one runner already    *)
(* applies jobs in any order.                                              *)
(***************************************************************************)
EXTENDS ReleaseDiff, Sequences, FiniteSets

CONSTANTS
    Manifests,     \* entry sets a cut may have
    Runners,       \* binaries with a jobs runner (boot.Init starts one in each)
    Taggers,       \* tag requests that may be in flight
    Batch,         \* jobs a claim takes at most
    MaxAttempts,   \* attempts of the backoff around one write
    Failures,      \* whether a write to OpenSearch or a status update may fail
    Spaced,        \* whether clients wait for the outbox to drain between changes
    MaxCuts,       \* bound: releases cut
    MaxTags,       \* bound: tag changes of a document
    MaxStops,      \* bound: runners stopped or killed
    MaxReindexes   \* bound: full reindexes started

ASSUME ManifestsAssumption == \A es \in Manifests : Manifest(es) /\ IsFiniteSet(es)
ASSUME LimitsAssumption ==
    /\ Batch \in Nat \ {0} /\ MaxAttempts \in Nat \ {0}
    /\ Failures \in BOOLEAN /\ Spaced \in BOOLEAN
    /\ MaxCuts \in Nat /\ MaxTags \in Nat /\ MaxStops \in Nat /\ MaxReindexes \in Nat

VARIABLES
    live,       \* entries of the app's current release
    tags,       \* documents.tags: the number of changes made to the tag set
    jobs,       \* the outbox table, in created_at order
    runner,     \* what each runner has claimed and how far it is
    tagger,     \* tag requests in flight; one past its read holds the document row
    reindexer,  \* the full reindex in flight
    index,      \* the OpenSearch documents index: one projection per document
    cuts, stops, reindexes,   \* counted for the bounds
    everLive,   \* history: every entry of every release cut
    lastWrite   \* history: the job whose write reached a document's entry last
                \* (0: none, or the reindex)

vars == <<live, tags, jobs, runner, tagger, reindexer, index, cuts, stops, reindexes,
          everLive, lastWrite>>

Statuses == {"pending", "processing", "done", "failed"}

Projection == [doc : Docs, key : Keys, ver : Vers, tags : 0..MaxTags]

OutboxJob == [op : {"index", "delete"}, doc : Docs, key : Keys \cup {NoKey}, ver : Nat,
              tags : 0..MaxTags, status : Statuses, wrote : BOOLEAN]

\* claimed: jobs of the batch not yet recorded; doing: the one being written (0:
\* none); tries: its failed attempts; outcome: what is to be recorded of it.
Draining == [claimed : SUBSET Nat, doing : Nat, tries : 0..MaxAttempts,
             outcome : {"none", "done", "failed"}]

AtRest == [claimed |-> {}, doing |-> 0, tries |-> 0, outcome |-> "none"]

Tagging == [doc : SUBSET Docs, entry : SUBSET Entry]

Reindexing == [todo : SUBSET Entry, loaded : SUBSET Projection]

TypeOK ==
    /\ live \in SUBSET Entry
    /\ tags \in [Docs -> 0..MaxTags]
    /\ jobs \in Seq(OutboxJob)
    /\ runner \in [Runners -> Draining]
    /\ \A r \in Runners : runner[r].claimed \cup {runner[r].doing} \subseteq 0..Len(jobs)
    /\ tagger \in [Taggers -> Tagging]
    /\ reindexer \in Reindexing
    /\ index \in SUBSET Projection
    /\ \A p, q \in index : p.doc = q.doc => p = q
    /\ everLive \in SUBSET Entry
    /\ lastWrite \in [Docs -> 0..Len(jobs)]

Init ==
    /\ live = {}
    /\ tags = [d \in Docs |-> 0]
    /\ jobs = <<>>
    /\ runner = [r \in Runners |-> AtRest]
    /\ tagger = [t \in Taggers |-> [doc |-> {}, entry |-> {}]]
    /\ reindexer = [todo |-> {}, loaded |-> {}]
    /\ index = {}
    /\ cuts = 0 /\ stops = 0 /\ reindexes = 0
    /\ everLive = {}
    /\ lastWrite = [d \in Docs |-> 0]

-----------------------------------------------------------------------------

Drained == \A j \in 1..Len(jobs) : jobs[j].status = "done"

Untouched == \A t \in Taggers : tagger[t].doc = {}

NotReindexing == reindexer = [todo |-> {}, loaded |-> {}]

\* The environment of a spaced run: the next change waits for the last to be served.
ClientsGo == Spaced => Drained /\ Untouched /\ NotReindexing

\* A document row is locked FOR UPDATE by a tag request that has read it.
RowFree(d) == \A t \in Taggers : d \notin tagger[t].doc

\* Faulty: a version newer than the released one is projected.
ProjectNewest(e, tagSet) == [doc |-> e.doc, key |-> e.key, ver |-> e.ver + 1, tags |-> tagSet]

\* transformers.Projection: the entry's key and version, the row's tags.
Project(e, tagSet) == [doc |-> e.doc, key |-> e.key, ver |-> e.ver, tags |-> tagSet]

EntryOf(p) == [doc |-> p.doc, key |-> p.key, ver |-> p.ver]

Served(d) == {p \in index : p.doc = d}

\* Faulty: an entry is indexed beside the one it should replace.
UpsertBeside(p) == index \cup {p}

\* Search.Index upserts, Search.Delete removes, by document id.
Upsert(p) == {q \in index : q.doc # p.doc} \cup {p}

Effect(job) ==
    IF job.op = "index"
    THEN Upsert([doc |-> job.doc, key |-> job.key, ver |-> job.ver, tags |-> job.tags])
    ELSE index \ Served(job.doc)

\* newJob: a pending row.
NewJob(job, tagSet) ==
    [op |-> job.op, doc |-> job.doc, key |-> job.key, ver |-> job.ver, tags |-> tagSet,
     status |-> "pending", wrote |-> FALSE]

-----------------------------------------------------------------------------
(* Releases.cut, enqueueProjection.                                        *)

\* The index job of an entry carries the tags of the document row.
CutJobs(next) ==
    {NewJob(job, IF job.op = "index" THEN tags[job.doc] ELSE 0) : job \in JobsOf(Diff(live, next))}

\* The jobs of a cut are of different documents: any order will do.
Orders(S) == {s \in [1..Cardinality(S) -> S] : {s[i] : i \in DOMAIN s} = S}

\* Inserting an entry takes a key-share lock on its document's row, so the cut
\* waits for tag changes of documents it carries, and for no others.
Cut(next) ==
    /\ cuts < MaxCuts
    /\ ClientsGo
    /\ \A e \in next : RowFree(e.doc)
    /\ \E s \in Orders(CutJobs(next)) : jobs' = jobs \o s
    /\ live' = next
    /\ everLive' = everLive \cup next
    /\ cuts' = cuts + 1
    /\ UNCHANGED <<tags, runner, tagger, reindexer, index, stops, reindexes, lastWrite>>

-----------------------------------------------------------------------------
(* changeTags: a transaction under the document row lock, which reads the   *)
(* document's entry in the current release through the pool.               *)

\* Faulty: the document row is read without FOR UPDATE.
TagBeginUnlocked(t, d) ==
    /\ tagger[t].doc = {}
    /\ tags[d] < MaxTags
    /\ ClientsGo
    /\ tagger' = [tagger EXCEPT ![t] = [doc |-> {d}, entry |-> {e \in live : e.doc = d}]]
    /\ UNCHANGED <<live, tags, jobs, runner, reindexer, index, cuts, stops, reindexes,
                   everLive, lastWrite>>

TagBegin(t, d) ==
    /\ tagger[t].doc = {}
    /\ tags[d] < MaxTags
    /\ ClientsGo
    /\ RowFree(d)
    /\ tagger' = [tagger EXCEPT ![t] = [doc |-> {d}, entry |-> {e \in live : e.doc = d}]]
    /\ UNCHANGED <<live, tags, jobs, runner, reindexer, index, cuts, stops, reindexes,
                   everLive, lastWrite>>

\* Faulty: the tags change and nothing is reprojected.
TagCommitSilently(t, d) ==
    /\ d \in tagger[t].doc
    /\ tags' = [tags EXCEPT ![d] = @ + 1]
    /\ tagger' = [tagger EXCEPT ![t] = [doc |-> {}, entry |-> {}]]
    /\ UNCHANGED <<live, jobs, runner, reindexer, index, cuts, stops, reindexes,
                   everLive, lastWrite>>

\* The tags and, if the document was live when looked up, its index job commit.
TagCommit(t, d) ==
    /\ d \in tagger[t].doc
    /\ tags' = [tags EXCEPT ![d] = @ + 1]
    /\ \/ /\ tagger[t].entry = {}
          /\ UNCHANGED jobs
       \/ \E e \in tagger[t].entry :
             jobs' = Append(jobs, NewJob([op |-> "index", doc |-> d, key |-> e.key, ver |-> e.ver],
                                         tags[d] + 1))
    /\ tagger' = [tagger EXCEPT ![t] = [doc |-> {}, entry |-> {}]]
    /\ UNCHANGED <<live, runner, reindexer, index, cuts, stops, reindexes, everLive, lastWrite>>

-----------------------------------------------------------------------------
(* The runners.                                                            *)

Pending == {j \in 1..Len(jobs) : jobs[j].status = "pending"}

\* ORDER BY created_at LIMIT batch.
Oldest(S) ==
    {j \in S : Cardinality({i \in S : i < j}) < Batch}

\* ClaimPending: one statement picks the oldest pending rows and marks them.  The
\* rows come back in no particular order (UPDATE ... RETURNING).
Claim(r) ==
    /\ runner[r] = AtRest
    /\ Pending # {}
    /\ runner' = [runner EXCEPT ![r].claimed = Oldest(Pending)]
    /\ jobs' = [j \in 1..Len(jobs) |->
                   IF j \in Oldest(Pending) THEN [jobs[j] EXCEPT !.status = "processing"]
                   ELSE jobs[j]]
    /\ UNCHANGED <<live, tags, tagger, reindexer, index, cuts, stops, reindexes,
                   everLive, lastWrite>>

\* The job a runner may write next: the one it retries, or any left of its batch.
ToWrite(r) ==
    IF runner[r].doing # 0 THEN {runner[r].doing} ELSE runner[r].claimed

Land(j) ==
    /\ index' = Effect(jobs[j])
    /\ jobs' = [jobs EXCEPT ![j].wrote = TRUE]
    /\ lastWrite' = [lastWrite EXCEPT ![jobs[j].doc] = j]

\* Pipeline.Process: a write succeeds.
Write(r, j) ==
    /\ runner[r].outcome = "none"
    /\ j \in ToWrite(r)
    /\ Land(j)
    /\ runner' = [runner EXCEPT ![r].doing = j, ![r].outcome = "done"]
    /\ UNCHANGED <<live, tags, tagger, reindexer, cuts, stops, reindexes, everLive>>

\* A write fails, perhaps after OpenSearch has applied it; the last attempt's
\* failure is the job's.
WriteFails(r, j) ==
    /\ Failures
    /\ runner[r].outcome = "none"
    /\ j \in ToWrite(r)
    /\ Land(j) \/ UNCHANGED <<index, jobs, lastWrite>>
    /\ runner' = [runner EXCEPT ![r].doing = j, ![r].tries = @ + 1,
                     ![r].outcome = IF runner[r].tries + 1 = MaxAttempts THEN "failed" ELSE "none"]
    /\ UNCHANGED <<live, tags, tagger, reindexer, cuts, stops, reindexes, everLive>>

\* drain moves on to the rest of its batch.
MovedOn(r) == [AtRest EXCEPT !.claimed = runner[r].claimed \ {runner[r].doing}]

\* MarkDone or MarkFailed.
Mark(r) ==
    /\ runner[r].outcome # "none"
    /\ jobs' = [jobs EXCEPT ![runner[r].doing].status = runner[r].outcome]
    /\ runner' = [runner EXCEPT ![r] = MovedOn(r)]
    /\ UNCHANGED <<live, tags, tagger, reindexer, index, cuts, stops, reindexes,
                   everLive, lastWrite>>

\* The update of the status fails, which is only logged.
MarkFails(r) ==
    /\ Failures
    /\ runner[r].outcome # "none"
    /\ runner' = [runner EXCEPT ![r] = MovedOn(r)]
    /\ UNCHANGED <<live, tags, jobs, tagger, reindexer, index, cuts, stops, reindexes,
                   everLive, lastWrite>>

\* The binary is killed, or shut down: the cancelled context fails what is left
\* of the batch and the updates that would record it.  Another one starts.
Stop(r) ==
    /\ stops < MaxStops
    /\ runner[r] # AtRest
    /\ stops' = stops + 1
    /\ runner' = [runner EXCEPT ![r] = AtRest]
    /\ UNCHANGED <<live, tags, jobs, tagger, reindexer, index, cuts, reindexes,
                   everLive, lastWrite>>

-----------------------------------------------------------------------------
(* Stores.Reindex, for one app.                                            *)

\* The pointer is read, and the entries of the release it names.
ReindexBegin ==
    /\ reindexes < MaxReindexes
    /\ NotReindexing
    /\ ClientsGo
    /\ live # {}
    /\ reindexes' = reindexes + 1
    /\ reindexer' = [reindexer EXCEPT !.todo = live]
    /\ UNCHANGED <<live, tags, jobs, runner, tagger, index, cuts, stops, everLive, lastWrite>>

\* An entry's document and version are loaded ...
ReindexLoad(e) ==
    /\ e \in reindexer.todo
    /\ reindexer.loaded = {}
    /\ reindexer' = [todo |-> reindexer.todo \ {e}, loaded |-> {Project(e, tags[e.doc])}]
    /\ UNCHANGED <<live, tags, jobs, runner, tagger, index, cuts, stops, reindexes,
                   everLive, lastWrite>>

\* ... and its projection written.
ReindexWrite(p) ==
    /\ p \in reindexer.loaded
    /\ index' = Upsert(p)
    /\ lastWrite' = [lastWrite EXCEPT ![p.doc] = 0]
    /\ reindexer' = [reindexer EXCEPT !.loaded = {}]
    /\ UNCHANGED <<live, tags, jobs, runner, tagger, cuts, stops, reindexes, everLive>>

\* A failed load or write ends it where it is.
ReindexFails ==
    /\ Failures
    /\ ~NotReindexing
    /\ reindexer' = [todo |-> {}, loaded |-> {}]
    /\ UNCHANGED <<live, tags, jobs, runner, tagger, index, cuts, stops, reindexes,
                   everLive, lastWrite>>

-----------------------------------------------------------------------------

Drain(r) ==
    \/ Claim(r)
    \/ \E j \in ToWrite(r) : Write(r, j) \/ WriteFails(r, j)
    \/ Mark(r)
    \/ MarkFails(r)

Tag(t) == \E d \in Docs : TagBegin(t, d) \/ TagCommit(t, d)

Reindex ==
    \/ ReindexBegin
    \/ \E e \in reindexer.todo : ReindexLoad(e)
    \/ \E p \in reindexer.loaded : ReindexWrite(p)
    \/ ReindexFails

Next ==
    \/ \E es \in Manifests : Cut(es)
    \/ \E t \in Taggers : Tag(t)
    \/ \E r \in Runners : Drain(r) \/ Stop(r)
    \/ Reindex

Spec == Init /\ [][Next]_vars

\* A runner polls forever and a batch is finite; a tag request and a reindex run
\* to their end.  Nothing makes clients cut, or a binary stop.
Fairness ==
    /\ \A r \in Runners : WF_vars(Drain(r))
    /\ \A t \in Taggers : WF_vars(\E d \in Docs : TagCommit(t, d))
    /\ WF_vars(\E e \in reindexer.todo : ReindexLoad(e))
    /\ WF_vars(\E p \in reindexer.loaded : ReindexWrite(p))

FairSpec == Spec /\ Fairness

-----------------------------------------------------------------------------
(* What holds however runners, cuts, tags, reindex and failures interleave. *)

\* A draft is never served: whatever is in the index was an entry of some release,
\* at the key that release gave it (Projection takes the entry's key and version).
ServedWasLive ==
    \A p \in index : EntryOf(p) \in everLive

\* Two runners never hold the same job, and a job that is held is marked so: no
\* write is made by two at a time (ClaimPending picks and flips in one statement).
ClaimsExclusive ==
    \A r \in Runners :
        /\ \A j \in runner[r].claimed : jobs[j].status = "processing"
        /\ \A s \in Runners \ {r} : runner[r].claimed \cap runner[s].claimed = {}

\* A job recorded done was applied, though its binary may have been stopped, the
\* write retried and the status update lost on the way (drain, Process).
DoneWasWritten ==
    \A j \in 1..Len(jobs) : jobs[j].status = "done" => jobs[j].wrote

\* The newest job of a document, if its write is the last to land, leaves exactly
\* what the current release serves of it: jobs carry whole projections, so losing,
\* repeating or failing the earlier ones does no harm, and a recut waits for a tag
\* change that looked up the entry before (FOR UPDATE against the key-share lock of
\* an entry).  Only order can do harm, and a tag change of a document taken down
\* meanwhile, for an unpublish does not wait.
LastWriteDecides ==
    \A d \in Docs :
        /\ tags[d] = 0 \/ \E e \in live : e.doc = d
        /\ \A j \in (lastWrite[d] + 1)..Len(jobs) : jobs[j].doc # d
        => {EntryOf(p) : p \in Served(d)}
           = {e \in live : e.doc = d}

Expected == {Project(e, tags[e.doc]) : e \in live}

Settled == Drained /\ Untouched /\ NotReindexing

\* With nothing left to do, the index is the current release, with current tags.
SettledIsLive == Settled => index = Expected

\* The index catches up with the last change.
IndexCatchesUp == <>[](index = Expected)

-----------------------------------------------------------------------------
(* The inductive invariant behind the first three properties.              *)

\* What a runner holds: jobs of the table, of which it writes one, and a write it
\* is about to record as done has landed.
Holding(run, js) ==
    /\ run.claimed \subseteq 1..Len(js)
    /\ run.doing = 0 \/ run.doing \in run.claimed
    /\ run.outcome = "none" => run.tries < MaxAttempts
    /\ run.outcome # "none" => run.doing # 0
    /\ run.outcome = "done" => js[run.doing].wrote

\* A tag request holds one document, whose tags may still change.
TagLock(req, tagSets, ever) ==
    /\ \A d, e \in req.doc : d = e
    /\ \A d \in req.doc : tagSets[d] < MaxTags
    /\ \A e \in req.entry : e \in ever /\ e.doc \in req.doc

\* Everything on its way to the index was released.
OnTheWayWasLive ==
    /\ live \subseteq everLive
    /\ \A j \in 1..Len(jobs) : jobs[j].op = "index" => EntryOf(jobs[j]) \in everLive
    /\ reindexer.todo \subseteq everLive
    /\ \A p \in reindexer.loaded : EntryOf(p) \in everLive

IInv ==
    /\ TypeOK
    /\ IsFiniteSet(live)
    /\ \A r \in Runners : Holding(runner[r], jobs)
    /\ \A t \in Taggers : TagLock(tagger[t], tags, everLive)
    /\ \A t, u \in Taggers : t # u => tagger[t].doc \cap tagger[u].doc = {}
    /\ OnTheWayWasLive
    /\ ServedWasLive
    /\ ClaimsExclusive
    /\ DoneWasWritten

=============================================================================
