------------------------------- MODULE Rebuild -------------------------------
(***************************************************************************)
(* The repair of the change rows of releases, beside the cuts of servers.  *)
(*   database/stores/release_rebuild.go   the walk and the replacement     *)
(*   database/stores/reindex.go           the same walk over the apps      *)
(*                                                                         *)
(* What a release changed is a projection of two adjacent manifests, which *)
(* never change.  A run of the rebuild walks the apps page by page in the  *)
(* order of their ids, and the releases of each, oldest first; it replaces *)
(* the rows of each release in a transaction of its own.  Runs may overlap *)
(* each other and whatever the servers do, and die at any point.           *)
(*                                                                         *)
(* The rows of a release are the pair of releases they compare, or stale.  *)
(***************************************************************************)
EXTENDS Naturals, Sequences, FiniteSets, FiniteSetsExt

CONSTANTS
    Apps,        \* the ids apps may have
    Batch,       \* reindexBatch: apps read at a time
    Runs,        \* runs of the command, each once
    Stale,       \* rows written by nobody who knew better
    MaxReleases  \* bound: releases of all apps

ASSUME AppsAssumption == Apps \subseteq Nat \ {0} /\ IsFiniteSet(Apps)
ASSUME BoundsAssumption == Batch \in Nat \ {0} /\ MaxReleases \in Nat
ASSUME StaleAssumption == Stale \notin Nat \X Nat

VARIABLES
    apps,   \* the apps that exist
    rows,   \* the change rows and counts of every release, and how often written
    run     \* the runs of the command

vars == <<apps, rows, run>>

Rows == {Stale} \cup (Nat \X Nat)

Run == [pc : {"idle", "page", "app", "release", "delete", "write", "done", "failed"},
        after : Nat, page : SUBSET Apps, short : BOOLEAN,
        app : Apps \cup {0}, listed : Nat,
        n : Nat, prev : Nat,     \* the release at hand, and the one before it
        seen : Nat,              \* its rows as the DELETE saw them
        owed : [Apps -> Nat]]    \* history: the releases there were at the start

Idle == [pc |-> "idle", after |-> 0, page |-> {}, short |-> FALSE, app |-> 0, listed |-> 0,
         n |-> 0, prev |-> 0, seen |-> 0, owed |-> [a \in Apps |-> 0]]

TypeOK ==
    /\ apps \subseteq Apps
    /\ rows \in [Apps -> Seq([pair : Rows, stamp : Nat])]
    /\ run \in [Runs -> Run]

Counted(f) == MapThenSumSet(LAMBDA a : Len(f[a]), Apps)

Init ==
    /\ apps \in SUBSET Apps
    /\ rows \in [Apps -> {<<>>, <<[pair |-> Stale, stamp |-> 0]>>,
                          <<[pair |-> <<0, 1>>, stamp |-> 0], [pair |-> Stale, stamp |-> 0]>>}]
    /\ \A a \in Apps \ apps : rows[a] = <<>>
    /\ Counted(rows) <= MaxReleases
    /\ run = [r \in Runs |-> Idle]

-----------------------------------------------------------------------------
(* What servers do meanwhile.                                              *)

\* A cut writes its own rows: those of its release and the one before it.
Cut(a) ==
    /\ a \in apps /\ Counted(rows) < MaxReleases
    /\ rows' = [rows EXCEPT ![a] = Append(@, [pair |-> <<Len(@), Len(@) + 1>>, stamp |-> 0])]
    /\ UNCHANGED <<apps, run>>

\* An app without releases is deleted.  (One that is created meanwhile is no
\* different, for a run, from one that was there without releases.)
DeleteApp(a) ==
    /\ a \in apps /\ rows[a] = <<>>
    /\ apps' = apps \ {a}
    /\ UNCHANGED <<rows, run>>

-----------------------------------------------------------------------------
Goes(r, q) == run' = [run EXCEPT ![r] = q] /\ UNCHANGED <<apps, rows>>

Start(r) ==
    /\ run[r] = Idle
    /\ Goes(r, [Idle EXCEPT !.pc = "page", !.owed = [a \in Apps |-> Len(rows[a])]])

Done(q) == [Idle EXCEPT !.pc = "done", !.owed = q.owed]

Failed == [Idle EXCEPT !.pc = "failed"]

\* A page of the apps in S, in the order of their ids.
Pages(S) ==
    {P \in SUBSET S :
        /\ Cardinality(P) = IF Cardinality(S) < Batch THEN Cardinality(S) ELSE Batch
        /\ \A a \in P : \A b \in S \ P : a < b}

\* A bug for TLC to find: the next page starts one too late.
FaultyReadPage(r) ==
    LET q == run[r] IN
    /\ q.pc = "page"
    /\ \E P \in Pages({a \in apps : a > q.after + (IF q.after = 0 THEN 0 ELSE 1)}) :
         \/ P = {} /\ Goes(r, Done(q))
         \/ \E last \in P :
              /\ \A a \in P : a <= last
              /\ Goes(r, [q EXCEPT !.pc = "app", !.page = P, !.after = last,
                                   !.short = Cardinality(P) < Batch])

\* The next apps after the last one of the page before.
ReadPage(r) ==
    LET q == run[r] IN
    /\ q.pc = "page"
    /\ \E P \in Pages({a \in apps : a > q.after}) :
         \/ P = {} /\ Goes(r, Done(q))
         \/ \E last \in P :
              /\ \A a \in P : a <= last
              /\ Goes(r, [q EXCEPT !.pc = "app", !.page = P, !.after = last,
                                   !.short = Cardinality(P) < Batch])

\* A bug for TLC to find: the first release of an app is compared with the last
\* one of the app before.
FaultyNextApp(r) ==
    LET q == run[r] IN
    /\ q.pc = "app"
    /\ \/ \E a \in q.page :
            /\ \A b \in q.page : a <= b
            /\ Goes(r, [q EXCEPT !.pc = "release", !.page = @ \ {a}, !.app = a,
                                 !.listed = Len(rows[a]), !.n = 0])
       \/ q.page = {} /\ Goes(r, IF q.short THEN Done(q) ELSE [q EXCEPT !.pc = "page"])

\* The next app of the page and its releases, as they are now; a short page is
\* the last one.
NextApp(r) ==
    LET q == run[r] IN
    /\ q.pc = "app"
    /\ \/ \E a \in q.page :
            /\ \A b \in q.page : a <= b
            /\ Goes(r, [q EXCEPT !.pc = "release", !.page = @ \ {a}, !.app = a,
                                 !.listed = Len(rows[a]), !.n = 0, !.prev = 0])
       \/ q.page = {} /\ Goes(r, IF q.short THEN Done(q) ELSE [q EXCEPT !.pc = "page"])

\* The entries of the next release are read, and the DELETE of its rows begins: it
\* sees the rows that are there now.
NextRelease(r) ==
    LET q == run[r] IN
    /\ q.pc = "release"
    /\ Goes(r, IF q.n < q.listed
               THEN [q EXCEPT !.pc = "delete", !.n = @ + 1, !.seen = rows[q.app][q.n + 1].stamp]
               ELSE [q EXCEPT !.pc = "app", !.app = 0, !.listed = 0, !.n = 0])

\* Another run has deleted the rows of this release and has yet to commit.
Blocked(r) == \E s \in Runs \ {r} :
    /\ run[s].pc = "write" /\ run[s].app = run[r].app /\ run[s].n = run[r].n
    /\ run[s].seen = rows[run[s].app][run[s].n].stamp

\* A bug for TLC to find: the rows are deleted outside the transaction.
FaultyDeleteRows(r) ==
    LET q == run[r] IN
    /\ q.pc = "delete"
    /\ ~Blocked(r)
    /\ rows' = [rows EXCEPT ![q.app][q.n].pair = Stale]
    /\ run' = [run EXCEPT ![r].pc = "write"]
    /\ UNCHANGED apps

\* A bug for TLC to find: two runs may hold the rows of one release.
SharedDeleteRows(r) ==
    LET q == run[r] IN
    /\ q.pc = "delete"
    /\ Goes(r, [q EXCEPT !.pc = "write"])

\* The DELETE ends once nobody else holds the rows.
DeleteRows(r) ==
    LET q == run[r] IN
    /\ q.pc = "delete"
    /\ ~Blocked(r)
    /\ Goes(r, [q EXCEPT !.pc = "write"])

\* The new rows and counts, and the commit.  Rows another run committed since the
\* DELETE began are not among those it deleted: they refuse the new ones, unless
\* there are none.
WriteRows(r) ==
    LET q == run[r] IN
    /\ q.pc = "write"
    /\ ~Blocked(r)
    /\ \/ /\ rows' = [rows EXCEPT ![q.app][q.n] = [pair |-> <<q.prev, q.n>>, stamp |-> @.stamp + 1]]
          /\ run' = [run EXCEPT ![r] = [q EXCEPT !.pc = "release", !.prev = q.n, !.seen = 0]]
       \/ /\ q.seen # rows[q.app][q.n].stamp
          /\ run' = [run EXCEPT ![r] = Failed]
          /\ UNCHANGED rows
    /\ UNCHANGED apps

\* Any error ends the run; its open transaction is rolled back.
Fail(r) ==
    /\ run[r].pc \notin {"idle", "done", "failed"}
    /\ Goes(r, Failed)

Step(r) ==
    \/ ReadPage(r) \/ NextApp(r) \/ NextRelease(r) \/ DeleteRows(r) \/ WriteRows(r)

Next ==
    \/ \E r \in Runs : Start(r) \/ Step(r) \/ Fail(r)
    \/ \E a \in Apps : Cut(a) \/ DeleteApp(a)

\* The command runs on, and Postgres grants a lock that was let go of.
Fairness == \A r \in Runs : WF_vars(Step(r))

Spec == Init /\ [][Next]_vars /\ Fairness

-----------------------------------------------------------------------------
True(table, a, n) == table[a][n].pair = <<n - 1, n>>

\* Rows never compare anything but a release and the one before it in the same
\* app, however runs overlap each other and the cuts (Releases.rebuildApp).
NeverWrong ==
    \A a \in Apps : \A n \in 1..Len(rows[a]) : rows[a][n].pair # Stale => True(rows, a, n)

\* A run that says it is done has gone over every release there was when it
\* started, whatever apps came and went and however full the last page was
\* (Stores.RebuildReleases).
DoneIsRepaired ==
    \A r \in Runs : run[r].pc = "done" =>
        \A a \in apps : \A n \in 1..run[r].owed[a] : True(rows, a, n)

\* Rows that are true stay true: a run that dies, or meets another, breaks none.
TrueStays ==
    [][\A a \in Apps : \A n \in 1..Len(rows[a]) : True(rows, a, n) => True(rows', a, n)]_vars

\* A run ends, done or failed, however many releases are cut before it.
RunsEnd == \A r \in Runs : run[r].pc = "page" ~> run[r].pc \in {"done", "failed"}

-----------------------------------------------------------------------------
(* The inductive invariant.                                                *)

Walking(q) == q.pc \in {"page", "app", "release", "delete", "write"}

AtRelease(q) == q.pc \in {"release", "delete", "write"}

\* Where a run is: within the releases it listed, the one before always at hand.
Placed(q, table) ==
    AtRelease(q) =>
        /\ q.app \in Apps
        /\ q.n <= q.listed /\ q.listed <= Len(table[q.app])
        /\ q.listed >= q.owed[q.app]
        /\ q.pc = "release" => q.prev = q.n
        /\ q.pc # "release" => q.n > 0 /\ q.prev = q.n - 1

\* How many releases of an app a run has repaired: all it owes, those before the one
\* at hand, or none yet.
Repaired(q, a) ==
    IF a > q.after \/ a \in q.page THEN 0
    ELSE IF AtRelease(q) /\ a = q.app THEN (IF q.pc = "release" THEN q.n ELSE q.n - 1)
    ELSE q.owed[a]

\* What a walk has behind it is true, and a short page leaves nothing after it.
Behind(q, table, there) ==
    Walking(q) =>
        /\ \A a \in there : \A n \in 1..q.owed[a] : n <= Repaired(q, a) => True(table, a, n)
        /\ q.pc # "page" /\ q.short => \A a \in there : a <= q.after
        /\ q.pc = "page" => q.page = {}
        /\ \A a \in q.page : a <= q.after

IInv ==
    /\ TypeOK
    /\ NeverWrong
    /\ DoneIsRepaired
    /\ \A r \in Runs : \A a \in Apps : run[r].owed[a] <= Len(rows[a])
    /\ \A r \in Runs : Placed(run[r], rows) /\ Behind(run[r], rows, apps)

=============================================================================
