# barbara, specified

TLA+ modules for barbara's stores: the release machinery and the pipeline that
carries a release to the served index, the history of a document and the editors
that write it, the tree of collections and documents, the assets of an app, the
repair of change rows, and the conversion of Markdown. TLC configurations check
them on small instances; TLAPS proofs carry the safety properties to every number
of requests, runners, documents, collections and paths.

Sources are named relative to the repository (`database/stores/releases.go`).

## 1. The system

Barbara stores documents in a tree, keeps every saved version, and serves what a
*release* says: an immutable manifest of (path, document, version). Postgres is
the system of record; OpenSearch holds one projection per live document and is
all the site reads; a bucket holds the assets. Several processes (`api`, `admin`,
one-shot commands) share all three, so every operation below may overlap every
other.

| component | state it keeps | operations | what makes it correct |
|---|---|---|---|
| Releases and publishing (`releases.go`, `publishing.go`) | `releases`, `release_entries`, `release_changes`, `apps.current_release_id` | full cut, publish, unpublish, document rollback, release rollback | one straight line of numbered manifests per app; change rows are the difference of adjacent manifests; the pointer, the rows and the jobs commit together; history survives deletion |
| Documents (`documents.go`) | `documents`: row, key, place, tombstone | create, move, delete, status | a live document is not deleted; what a release references is kept; one live document per key and per place |
| Versions (`versions.go`) | `versions`: append-only per document | save | numbers without gaps; of two saves from one base one wins; a conflict says that somebody else saved |
| Outbox and runner (`jobs.go`, `internal/jobs`) | `jobs`: pending, processing, done, failed | enqueue, claim, write with retries, record | a job has one holder; done means written; every job lands |
| Search index (`search.go`, `transformers/projection.go`) | OpenSearch, one document per document id | upsert, delete | only released content; the current release once the outbox is drained |
| Tagging (`tagging.go`) | `documents.tags` | add, remove | no lost update; a live document is reprojected, others are not |
| Reindex (`reindex.go`) | none | re-project every current release | converges to the current release |
| Collections (`collections.go`) | `collections`: the folder tree | create, rename, move, delete | keys are paths; no cycle; sibling names are unique across two tables; nothing lies in a folder that is gone |
| Assets (`assets.go`, `asset_bookkeeping.go`) | the bucket; rows by folder, kind and day | put, move, delete, folders, rebuild | bookkeeping agrees with the bucket; folders made on purpose stay |
| Release rebuild (`release_rebuild.go`) | rewrites `release_changes` | rebuild | every release that was there is repaired; right rows are never spoiled |
| Apps (`apps.go`) | `apps` | create, rename, delete | nothing is orphaned |
| Markdown (`internal/mdast`) | none | convert a page | nothing lost or doubled, a well-formed tree, references resolve, it ends |
| Runtime (`internal/boot`) | a runner per process | start, shut down | nothing claimed is lost |
| Studio (`web`) | client stores, the editor's buffer | edit, save, page through history | no edit lost, no stale page |
| Site reads, HTTP surfaces, seed, specs, events, telemetry | none | | see *Not modelled* |

They interact through rows and locks: a publish reads documents, versions and
the current release, then cuts; a cut locks the app row, writes the release and
its jobs; runners claim jobs and write the index; a tag change locks the
document row and enqueues a job of its own; a reindex writes the index directly;
a save locks the document row, a rename rewrites the keys of the documents below
it; an asset is written to the bucket first and to the rows afterwards.

The hard part is *what was read before which lock*. Transactions run at READ
COMMITTED, so a transaction is no snapshot: every statement sees what has
committed by then. `cut` locks the app row, but the entries it writes were
chosen before; a move locks the collection it moves, not the ancestors it has
looked at; a sibling check locks nothing it found absent. The full list of
hazards, each at its line and with the properties that watch it, is `hazards` in
`PROJECT.json`.

## 2. The modules

| module | models | what it is |
|---|---|---|
| `ReleaseDiff` | `diffEntries`, `enqueueProjection` | pure: manifests, their difference, the jobs of a difference, what jobs do to an index |
| `ReleaseLine` | the header comments of `releases.go` and migration 005 | abstract: a cut is one step that appends to a line |
| `Releases` | `releases.go`, `publishing.go`, `documents.go`, `Versions.Save` | detailed: requests in flight, statement by statement, the app-row lock, constraints that refuse |
| `Serving` | `jobs.go`, `internal/jobs`, `tagging.go`, `reindex.go`, `search.go`, `boot.Shutdown` | the outbox, runners, tag requests, reindex and index |
| `VersionLog` | the header comment of `versions.go` | abstract: a log of compare-and-append |
| `Versions` | `versions.go`, `Documents.Status`, the studio's `editor.vue` | detailed: saves statement by statement under the row lock, editors, status requests |
| `Tree` | `collections.go`, `documents.go`, `Apps.Delete` | the tree of one app, statement by statement, with row locks, unique indexes and foreign keys |
| `Assets` | `assets.go`, `asset_bookkeeping.go` | bucket and rows, the steps of a request apart |
| `Rebuild` | `release_rebuild.go` | the walk over the apps and the replacement of rows |
| `DecodeText` | `internal/mdast/decode.go` | what a text means, defined without cursors; and the decoder, byte by byte |
| `Markdown` | `internal/mdast` | the walk of goldmark's tree, which decodes its segments by `DecodeText` |
| `*_proofs` | | lemmas and theorems |
| `MC*` | | instances for TLC |

`Releases` implements `ReleaseLine` (`ImplementsLine`) and `Versions` implements
`VersionLog` (`ImplementsLog`); both are checked and proved. `Serving` takes a cut
as one step of that line, with the jobs of its difference. `Versions` takes a cut
as a change of the version served. `Tree`, `Assets` and `Rebuild` meet the other
components in the rows they share: that a release refers to a document, that an
app is deleted, that a cut adds a release.

An operator whose comment starts with *A bug for TLC to find* (in `Releases` and
`Serving`: *Faulty*) is a variant of the definition below it; it is used nowhere
in the specifications. A property of a passing run is shown to fail when the
variant takes its original's place (`mutants` in `PROJECT.json`).

### Releases

| variable | code |
|---|---|
| `docs[d]` | the documents row: `none`, `live`, `tombstone` (`deleted_at` set), `gone`; its materialized key |
| `heads[d]` | number of versions; version ids are their numbers (unique per document) |
| `releases` | release rows with their entries and change rows, in insertion order; `number` is the column the code computes as count + 1 |
| `current` | `apps.current_release_id` |
| `appLock` | holder of the app row's `FOR UPDATE` lock |
| `outbox` | the jobs each committed cut enqueued |
| `work[w]` | request `w`: where it is and what it has read |

A request goes through phases, and between two of them others commit:

| request | steps |
|---|---|
| full cut | `BeginCut` (list the live tree), `ReadHead` per document, `EndSnapshot`, `LockApp`, `CommitCut` or `RefuseCut` |
| publish, document rollback | `BeginPublish` (document and version), `Carry` (current entries), `LockApp`, ... |
| unpublish | `BeginUnpublish`, `Carry`, `LockApp`, ... |
| release rollback | `BeginRollback` (copy the old entries), `LockApp`, ... |
| delete | `BeginDelete` (check the current release), `RemoveDoc` (delete, or soft-delete when a foreign key refuses) |
| create, move, save | one step each: `CreateDoc`, `MoveDoc`, `SaveVersion` (in pieces in `Tree` and `Versions`) |
| any | `Abandon`: cancelled, or the process dies; the transaction rolls back |

Under the lock, counting the releases and reading the previous entries are one
step: nothing that writes them can run. The transaction's writes appear in its
last step. Collapsing reads that precede the lock is done only where nothing
between them matters (a version's id is known to the client before the request,
entries are immutable). Tenants and users are checked first and never change; one
tenant and one app are modelled.

### Serving

`live` is the manifest of the current release, `tags[d]` counts the changes to a
document's tag set, `jobs` is the table in `created_at` order, `runner[r]` what
a binary's runner has claimed and how far it is, `tagger[t]` a tag request
inside its transaction, `reindexer` the reindex, `index` OpenSearch. `everLive`
and `lastWrite` are history, read by no action.

| code | action |
|---|---|
| `enqueueProjection` at the end of a cut | `Cut`: waits for tag requests of documents it carries, because inserting an entry takes a key-share lock on the document row |
| `changeTags` | `TagBegin` (lock, look up the live entry), `TagCommit` |
| `ClaimPending` | `Claim`: oldest pending jobs flipped and returned in no order |
| `Process` with its backoff | `Write`, `WriteFails` (the write may have been applied) |
| `MarkDone`, `MarkFailed` | `Mark`, `MarkFails` (only logged) |
| process killed, or `Shutdown` | `Stop` |
| `Reindex` | `ReindexBegin`, `ReindexLoad`, `ReindexWrite`, `ReindexFails` |

OpenSearch applies a write at one instant. That a delete of an absent document
succeeds is an assumption about the external index; where it does not, the
delete is a `WriteFails`, which run `serving` also takes.

### Versions

`row[d]` is the documents row, `versions[d]` its rows in insertion order,
`rowLock[d]` the holder of the row's `FOR UPDATE` lock, `req[c]` the save a client
has in flight, `editor[e]` what a studio editor holds: the document, the base it
would name, and the version its text is an edit of. `live` is the version in the
current release. A status request keeps, as history, every status that was true
since its first read.

| code | action |
|---|---|
| `Versions.Save` | `LockDocument` or `NotFound`, `CountVersions`, `Conflict` or `InsertVersion`; `Fail` anywhere, after the commit too: then only the answer is lost |
| `Documents.Create`, `Delete` | `CreateDocument`, `DeleteDocument` (of a document no release carries; versions cascade) |
| a cut, as far as a document's version goes | `Publish`, `Unpublish` |
| `Documents.Status`, `Statuses` | `ReadEntry`, `ReadHead`, `Answered` |
| `documents.open` | `OpenDocument`, `ShowHead` |
| `save()`, its `refresh()`, its `catch` | `Save`, `Saved`, `Resync`, `ResyncFails`, `SaveRefused` |
| navigation, reload after a conflict | `Close` |

### Tree

`cols` and `docs` are the two tables (`none`, `there` or `live`, `tombstone`,
`gone`), `released` the documents some release refers to, `app` whether the app
exists. What a transaction has written stays in its request, `work[w]`, until it
commits: others do not see it but wait for it, where they need the row (`Locked`,
`Shared`, `Held`) or would collide in an index (`PlacePending`, `KeyPending`).
A name is a sequence of segments, because the code refuses only the empty name.

| code | steps |
|---|---|
| `Collections.Create` | `CheckSiblingDocument`, `InsertCollection` |
| `Rename` | `LockCollection`, `CheckSiblingDocument`, `PathOf`*, `WriteCollection`, `ScanKeys`, `RewriteKey`*, `CommitCollection` |
| `Move` | `LockCollection`, `CheckMoveTarget`*, `CheckSiblingDocument`, `PathOf`* of both places, then as a rename |
| `Documents.Create` | `PathOf`*, `CheckSiblingCollection`, `PlaceDocument` |
| `Documents.Move` | `LockDocument`, `PathOf`*, `CheckSiblingCollection`, `PlaceDocument` |
| `Delete` of a collection, a document, the app | one step each: they are one statement, or lock what they read |
| refusals | `Ends`, in the step that refuses |
| cancelled, or dead | `Fail` |
| Postgres' deadlock detector | `DeadlockVictim`, in the fair specification |

A starred step is taken once per ancestor or per key. `raced` is history: which
kinds of harm the requests that overlapped may have done.

### Assets

`bucket` holds the objects; `folders`, `kinds` and `days` are the three tables of
rows; `cut` is the first day the last rebuild kept. `drift` is history: why the
rows may differ from the bucket. A key or folder is the sequence of what lies between
its slashes. `Put` takes any key, so a segment may be empty; where a move goes and what
is made a folder is checked (`PlainPath`). A key with a leading slash has the path of
the root twice in the list of its folders: `AncestorPaths` and `ListedAgain` are the two
times it is counted.

| code | steps |
|---|---|
| `Put` | `Put` (look at what is replaced), `Store`, `Book` |
| `Move` | `Move`, `CheckTaken`, `ReadSource`, `Store`, `Remove`, `Book` (two changes) |
| `Delete` | `Delete`, `Remove`, `Book` |
| `Rebuild` | `Rebuild`, `List`, `Replace` |
| `CreateFolder` | `CreateFolder` |
| a failure or a crash, the deletion of the app, the clock | `Fail`, `DeleteApp`, `Midnight` |
| `ListFolder` | `ListFolder`, a function of the state: `Trim` the path asked for, `FoldLevel` by names (`Base`) |

`Book` and `Replace` are one step each because every such transaction updates the
row of the root folder first, so they run one after the other.

### Rebuild

`rows[a]` are the releases of an app: for each, which pair of releases its change
rows compare (or `Stale`), and how often they were written, which is how a
`DELETE` that began earlier is known to have missed them. `run[r]` is a run of the
command: `Start`, `ReadPage`, `NextApp`, `NextRelease`, `DeleteRows`, `WriteRows`,
`Fail`. Beside it servers `Cut` and `DeleteApp`.

### Markdown

goldmark's tree is the input, and outside the program: `InputsAssumption` says what
the code may expect of it. Both trees are sequences of their nodes in document order,
each with the place of its parent, and what lies below a node follows it. The
functions `blocks`, `inline`, `list`, `table` and `footnoteDefinition` call each other
down the page: `calls` is their stack, and an entry has the container a call converts,
the node it makes and, for `inline`, the text gathered in `buf`. `at` is the node of the
page that comes next. `Segment`, `Byte` and `Join` are the cases of text in `inline`,
`Skip` that of a checkbox, `Place` that of any other inline node, `PlaceBlock` a turn of
the loop of `blocks`, and `Return` the end of a call, which writes the text it still
has. Go builds a node after its children, as a literal around the call; here it is
placed before them, which is where it stands in the tree and what lets a property
speak of a conversion half done. What is not walked is converted at once: the text of
an image (`TextContent`), of a code span, of a block of code or of HTML (`HtmlValue`:
the lines without their last newline, the line that closes the block, and again without
a last newline).

`DecodeText` has the variables `frame` and `pc`, and is part of
the walk: `Segment` is its `Begin`, `Byte` one of `Escape`, `Refer` and `Pass`, and
`Join` its `End`, each with what becomes of the walk; every other step leaves
`frame` alone. So `DecodeSpec` is what the walk does to these two variables
(`MarkdownDecodes`). `frame` holds the locals of the Go function: `n` is where the
text not yet written begins, `i` the cursor, `escaped` whether the last byte was a
backslash. Decoded text is a sequence of pieces of source, so that a reference
taken twice or in half shows. The classes of characters, the entities and the
greatest numbers of digits are constants.

## 3. What the runs check

| run | instance | shows |
|---|---|---|
| `releases` | 2 requests, 2 documents, 2 paths, 2 versions, 3 releases | `IInv`, `ChangesMatchHistory`, `OutboxFollowsLine`, `EntriesResolve`, `ImplementsLine`: the line, its rows and its jobs stay right however requests overlap |
| `releases_single` | 1 request, 4 releases | `PublishTouchesOnlySubject`, `CutNeverRegresses`, `DeleteRefusesLive`: the comments hold when requests do not overlap |
| `releases_live` | 3 requests on one lock | `RequestsEnd` |
| `lost_publish` | as `releases` | `PublishTouchesOnlySubject` fails when two requests overlap |
| `serving` | 2 runners, 2 tag requests, a reindex, failures, a stop, 2 cuts | `IInv`, `ServedWasLive`, `LastWriteDecides`: only the order of writes, or a tag change overtaken by an unpublish, can do harm |
| `serving_spaced` | 2 documents, 3 cuts, changes spaced | `SettledIsLive`, `IndexCatchesUp` |
| `versions` | 2 editors, a status request, 1 document, 3 versions | `IInv`, `StatusWasTrue`, `HidesOnlyAfterOwnSave`, `ImplementsLog`, `SavesEnd` |
| `tree` | 2 requests of any kind, 2 collections, 2 documents, 2 names, from every consistent tree | `IInv`, `SiblingsDiffer`, `KeysArePaths`, `NamesDifferAcrossTables` |
| `tree_moves` | 3 requests over two branches of 3 collections with a document: a move, a move of a collection or of the document, a rename | `Acyclic`, `RequestsEnd` |
| `assets` | 3 requests, the keys `f/a` and `/f//a`, a folder, 2 contents, a midnight | `IInv`, `FoldersAreTrue`, `TotalsAreTrue`, `LevelsShowAll`, `ExplicitStays` |
| `rebuild` | 2 runs, 3 apps, pages of 2, 2 releases | `IInv`, `DoneIsRepaired`, `TrueStays`, `RunsEnd` |
| `markdown` | every segment of up to 5 of the 7 characters that matter, 1 to 3 inline nodes, items of 2 blocks, blocks of HTML closed and not, footnotes, a table | `WellFormed`, `DecodedSoFar`, `NothingLost`, `FootnotesResolve`, `ConversionEnds` |

`IInv` of a module is its inductive invariant: type correctness, the safety
properties that are its parts (`StraightLine`, `EntriesAreManifests`,
`ClaimsExclusive`, `DoneWasWritten`, `LinearHistory`, `ConflictMeansBehind`,
`ParentsExist`, `NeverWrong`, `ExplicitReachable`, `NoRowsWithoutApp`, ...) and
what requests in flight may rely on.

### What does not hold

A run that finds a comment of the code refuted is `lost_publish`:
`cutForDocument` reads the current entries before the app row is locked. Two
overlapping publishes of different documents: the second commits the entries it
read earlier and undoes the first.

The others are written into the properties as the exceptions they make, or show
when an instance is widened as said here:

* *A cut that waits behind a publish puts an older version back*, because
  `snapshotHeads` runs before the lock; and *a delete that races a cut* gets a
  foreign key violation, takes it for a reference from history and soft-deletes a
  live document. `CutNeverRegresses` and `DeleteRefusesLive` of
  `releases_single` fail with two `Workers`.
* *Two runners write two jobs of a document in the wrong order; a tag change
  looks up the live entry, an unpublish commits, and its job follows the delete;
  a stopped binary leaves its jobs in `processing`*, where no runner looks again
  (so does an exhausted job, in `failed`); *a reindex overlaps a cut.*
  `SettledIsLive` fails in `serving_spaced` with `Spaced = FALSE`.
  `LastWriteDecides` says what is left: where the newest job of a document is
  written last, what is served of it is right, unless it was tagged and is taken down.
* *An edit is lost after an own save.* After a save the editor refetches the
  document, takes over its head as the base, and keeps its buffer. If somebody
  else saved in between, the next save is accepted on top of a version its author
  has never seen. `HidesOnlyAfterOwnSave` is that this is the only way.
* *A status reports what never was* when the document is taken down between the
  two reads (`dropped` in `StatusWasTrue`).
* *Two moves, each below a child of the other collection, close a cycle*; after
  that the walks of `checkMoveTarget` and `pathOf` that come to it never end, in a
  transaction that stays open. `Acyclic` says that only moves that overlap do so, with
  `raced`; `RequestsEnd` excepts the requests that go round (`Circling`) and those that
  wait for rows while one does, and nothing else that moves and renames may do to each
  other.
* *A document placed while a collection above it is renamed keeps the old key*,
  and *a collection and a document may get one name*, when the two requests
  overlap (`KeysArePaths`, `NamesDifferAcrossTables`).
* *A name with a slash in it* is accepted, and two paths are then one:
  `KeysArePaths` fails with `Names = {<<"a">>, <<"a", "b">>}`, without any overlap.
* *The rows of assets drift* after a failure between bucket and rows, after two
  requests about one key at once, after a write that changes the kind of an object,
  and after a midnight between storing and booking. A rebuild that runs alone
  repairs all four; `FoldersAreTrue` and `TotalsAreTrue` say that nothing else
  makes them drift.
* *A key with a leading slash is counted twice in the root*: `ancestorPaths` begins with
  the root, and at the first slash adds the empty path, which is the root again
  (`asset_bookkeeping.go:100-108`). `applyFolders` and `foldAssets` both count by that
  list, so a rebuild does not repair it. `FoldersAreTrue` says that it is the root
  alone, and twice exactly.
* *A folder without a name cannot be gone into.* `a//b` is a key that `Put` takes, and
  its folder `a/` is listed below `a` by its `path.Base`, which is `a` again
  (`assets.go:321`); that name leads to `a/a`, and `a/` cannot be asked for, because the
  path asked for is trimmed (`assets.go:268`). `LevelsShowAll` says that walking by names
  meets an asset exactly if every folder in its key has a name.
* *A block of HTML with a line that closes it* (`<pre>`, `<script>`, `<style>`, a comment,
  more than one line of it) *loses the newline before that line*: `linesValue` has
  trimmed it when the closing line is added (`mdast.go:120-123`). A block without one
  loses a second newline at its end. `NothingLost` measures against the lines of the
  source less that one newline (`KeptLines`), and says that nothing else is lost.
* *Whether a list item is spread* is computed from the spans of its blocks, which are
  not always what the blocks cover. That of a fence leaves out its own lines, that of a
  setext heading its underline, so that a paragraph right before the one or right after
  the other counts as a blank line away; a rule, and a fence with nothing in it, have
  none; that of indented code, or of HTML without a closing line, ends behind its last
  newline, so that a blank line after it is missed; that of a table is the text in
  its cells. `ItemSpread` models the computation, and no property says anything about
  its outcome.
* *Code in the text of an image* is
  decoded like text, and *bare links, raw HTML and ends of lines in it* are left out;
  *two footnotes whose labels differ in case alone* become one.

### Bounds, and why they are enough

`MaxVer`, `MaxReleases`, `MaxCuts`, `MaxTags`, `MaxStops`, `MaxReindexes`
and `MaxDay` are guards of the actions that count up. Requests of
`Tree`, `Assets` and `Rebuild` come once each, so their number is the bound.

* *Releases.* Two requests suffice for one to be overtaken, three releases for it
  to be overtaken twice and for a rollback to name a release that is neither the
  first nor the last; two documents and two paths for a path to be freed and
  retaken and for a publish to collide with what it carries.
* *Serving.* Two cuts and a tag change give jobs of a document that are older,
  newer and between; two runners with batches of two give every order of writes.
* *Versions.* A save touches one document, so one suffices; two editors race for
  its head. The third version is needed for the save that hides another: an own save
  (version 1), one of the other editor (2) that the refetch takes over, and a save on
  top of that, from base 2.
* *Tree.* Any consistent tree of two collections and two documents is an initial
  state, tombstones included, so that depth two, a key below a key and a freed name
  are met at once and two requests have everything to race about; three
  collections are needed for a cycle closed below a child. `tree_moves` begins with two
  collections in the root, the third in the second of them, and the document in the
  third. Its three requests wait for each other's rows until Postgres picks a victim
  (`DeadlockVictim`), wait for one that goes round a cycle, and change the
  document's key from two sides. `MaxDepth` cuts the path that a walk gathers once it
  goes round a cycle (`Endless`); a walk that comes to the root is never cut.
* *Assets.* Three requests: two that race and a rebuild after or beside them. `f/a` is a
  plain key, `/f//a` has a leading slash and a folder without a name; they share the
  root, which one counts once and the other twice, and a name at the first level. A
  move goes to the plain one only, as the code checks. A folder is made next to
  the plain key. `Window = 0` makes the day before a rebuild fall out of the series.
* *Rebuild.* Three apps in pages of two: a full page and a short one; with an app
  deleted, one that is exactly full. Two releases, two runs to block each other.
* *Markdown.* A segment of five characters holds a reference of each form, and an
  escape before, in or after it; `MaxHex = MaxDec = 1` makes two digits too many.
  Three neighbours are what it takes for text, a break or nothing, and text again;
  lists in items, tables and footnotes with their backlinks give calls up to six deep.

`releases`, `releases_single`, `lost_publish`, `tree` and `assets` are checked up
to permutation of interchangeable documents and requests; the liveness runs use
no symmetry. `CHECK_DEADLOCK FALSE` everywhere: at their bounds clients stop, and
the system rests.

### Fairness

`Releases!Fairness`: a live server drives a request on (weak fairness of the
steps of each request), and Postgres queues the waiters of a row lock, so a
waiting request is granted it in turn (strong fairness of `LockApp`). Nothing
forces anyone to start a request, to abandon one or to edit.
`Serving!Fairness`: a runner polls on a ticker and a batch is finite; tag
requests and a reindex run to their end. Nobody has to cut, tag, fail or stop.
`Versions!Fairness`: as for releases, with the document row in place of the app
row. `Tree!Fairness`: a request runs on while it can, and Postgres ends one of
those that wait for each other; row locks need no more, as a request comes once.
`Rebuild!Fairness`: the command runs on. `Markdown` is one loop. No fairness is
asked of `Assets`, where nothing promises that bookkeeping ever follows.

## 4. What is proved

Everything here holds for any constants that meet the `ASSUME`s of the module.

| module | theorems | of |
|---|---|---|
| `ReleaseDiff_proofs` | `DiffReplays` | any two manifests |
| `Releases_proofs` | `Invariance`, `TypeCorrect`, `NumbersAreStraight`, `ChangesAreDifferences`, `ReleasesStayWhole`, `ReleasesAreManifests`, `OutboxReplaysLine`, `Refinement` | any requests, documents, paths |
| | `PublishIsLocal`, `CutsNeverRegress`, `DeletionRefusesLive` | one request at a time |
| `Serving_proofs` | `ServingInvariance`, `ServingTypeCorrect`, `OnlyReleasedIsServed`, `OneHolderPerJob`, `DoneMeansWritten`, `LastWriteInvariance` | any runners, tag requests, documents, finite manifests |
| | `SpacedIsSettled` | the same, changes spaced |
| `Versions_proofs` | `VersionsInvariance`, `HidingInvariance`, `StatusInvariance`, `LogRefinement` | any editors, readers, documents |
| `Tree_proofs` | `TreeInvariance`, `SiblingsInvariance`, `ParentsInvariance`, `NamesInvariance`, `AcyclicInvariance` | any finite set of collections, any documents, names, requests |
| | `KeysInvariance` | the same, names of one segment |
| `Rebuild_proofs` | `RebuildInvariance`, `DoneMeansRepaired`, `TrueRowsStay` | any finite set of apps, page size, runs |
| `Assets_proofs` | `AssetsInvariance`, `FoldersInvariance`, `TotalsInvariance`, `LevelsInvariance`, `FoldersHang`, `FoldersStay`, `NothingLeft` | any finite set of keys, any folders, contents, requests, days |
| `Markdown_proofs` | `DecodedInvariance`, `TextIsDecoded`, `CursorsInvariance` | any text, entities and limits |
| | `MarkdownDecodes`, `WellFormedInvariance`, `NothingLostInvariance`, `FootnotesInvariance`, `SegmentsInvariance`, `StepsGoForward` | the same, and any page: any tree of goldmark's, of any size and depth |

Three conditions are hypotheses of theorems, as they are of the runs that check the
same properties: that requests come one at a time (`OneAtATime`: `Workers` has at
most one member, as in `releases_single`), that a change begins only when the outbox is
drained (`Spaced`, as in `serving_spaced`), and that names are single segments (as in
`tree` and `tree_moves`). None is an assumption of a module: without them the
properties fail, as *What does not hold* tells, and every other theorem does
without. `KeysInvariance` thereby says that a slash in a name
(`collections.go:407`) is, beside overlaps, the only way to a wrong key.

`DiffReplays`: applying the jobs of the difference of two manifests to the first
gives the second. It is why an outbox of differences suffices.

**Releases.** `RequestOK` in `IInv` says what a request may rely on. A request in
its `write` phase holds the lock (and only it), therefore the number and the
previous entries it read under the lock are still right; the entries it carries
name a document at most once, which no index enforces; a snapshot still being
read has not met the documents it has yet to read. `StraightLine` and
`ChangesMatchHistory` then follow at `CommitCut`, though the entries themselves may
be out of date. `EntriesAreManifests` needs `RequestOK` for documents and the
unique index (`Insertable`) for paths; `EntriesResolve` the foreign keys at
`CommitCut` and `Referenced` at `RemoveDoc`. `OutboxFollowsLine` is
`OutboxIsChanges`, `ChangesMatchHistory` and `DiffReplays`. `StraightLine` alone is
not inductive: a request that has computed its number could commit it late.
`Refinement` maps every step to a `ReleaseLine` cut or a stutter.

The three properties about a single request need what `IInv` leaves out because
overlaps destroy it: what the request has read *before* the lock is still so
(`Undisturbed`): the entries it carries are the current ones, no version it lists is
older than the one released, a document it found unreleased still is. With one request
nobody can change that; `Orderly` is the invariant that has it, with the two
properties about the history.

**Serving.** `Holding` ties a runner to the table: it writes one job of its batch
at a time, and once it is about to record `done`, that job's write has landed;
`DoneWasWritten` follows at `Mark`, whatever was retried or lost before.
`ClaimsExclusive` says also that a held job is `processing`; `Claim` takes
`pending` ones, so a second claim cannot meet it. `OnTheWayWasLive` says that every
entry a job, a tag request or the reindex carries was released; `TagLock` keeps the
tag count under its bound by the row lock. The proof restates `IInv` as one
predicate per variable, so that the proof of a step names only what it changes.

`LastWriteDecides` needs more: that every document that is live or was taken down
has a job (`JobsCover`), that its newest one carries the live entry, or is the
delete, unless it was tagged and taken down (`NewestIsLive`), and that what is served of
a document is what its last write said (`ServedAsWritten`). The second is where
the order of a cut's jobs, the moves of a document and the lock of a tag request
meet: while a tag request holds the row of a live document, the entry it has looked up
stays the live one (`TaggersFollow`), because a cut that would change it waits.

`SettledIsLive` has an invariant of its own, `SInv`. Where changes are spaced, the
jobs that are open at any time are of one change (`OneChange`), of different
documents, and each says what is live of its document (`OpenAreCurrent`); a
document without an unwritten job is served as it is live (`IndexAwaits`). So the order
in which runners write the jobs, and how often, does not matter, and when none is
left nothing is out of date.

**Versions.** `CountIsFresh` under `LockIsSave` is why the number a save inserts is
free: nobody else can insert while it holds the row. `LinearHistory` follows, and
with it the refinement: an insert is a compare-and-append because the base it
checked is the length of the log. `ConflictMeansBehind` needs `BasesExist`: no
client ever names a version that does not exist yet. `HidesOnlyAfterOwnSave` is no part
of `IInv`: it is carried by an induction of its own (`InsertHides`) on top of
`EditsAreOwn`, which follows an editor's text and base through saves, conflicts,
lost answers and refetches. `StatusWasTrue` needs `ReadsAgree`: until the second
read, the answer a status request would give has been true.

**Tree.** `SiblingsDiffer` across transactions that have written and not committed
is `RequestsFit` (nobody committed has the place or the keys a request has
written) and `RequestsApart` (no two requests claim one place, key or row), the
two halves of what waiting in a unique index achieves. `ParentsExist` follows from
the key-share locks: a request that writes below a parent finds it, and a delete
waits for it.

`raced` is shown to mean what it says before anything is concluded from it: `Noted`
is that any two requests in flight have the harm they could do each other recorded.
Hence where nothing is recorded, no step of another request disturbs what a request
has found. `Named` then says that the name it has checked is still free in the
other table. For `Acyclic`, a cycle is a set of collections whose parents
lie in it (`EndlessIn`), which needs no recursion: `Cleared` says that from
the destination of a move one comes, without meeting the collection that moves, to
where its walk has got to, and in the end to the root, so that a cycle after the
move would have been one before. For `KeysArePaths`, `Path` is a recursive function that the absence
of a cycle makes total (`Forest`), and unique; `Pathed` is that the path
a request has gathered, and that of the place its walk has still to climb, are
together the path of where it began, and that what it has scanned and rewritten are
the keys below. A rename rewrites by prefix; that it moves the
documents of the collection, all of them and no others, needs that paths of different
places differ, which is where names of one segment come in.

**Rebuild.** `Placed` keeps the release before at hand, also across pages and
apps; `Behind` says what a walk has passed is right, and that a short page leaves
nothing after it, whatever apps were deleted since. Rows are never wrong but
stale, and the stamps of `Blocked` keep two runs from writing one release at once.

**Assets.** `ExplicitReachable` is inductive with the shape of the tables: a prefix
of a prefix is a prefix, `Prune` and `Replace` spare explicit rows.

The rows of folders, kinds and days are sums over the bucket. The proofs develop what is
needed of sums: that a finite sum exists and does not depend on the order, and what
adding, changing or removing an object does to it. `Undrifted` is what a request may
rely on of the bucket while no two overlapped on a key: the object it read is there,
or the one it has stored is. `BookedOf` is the bucket as the rows know it: the real
one, except at keys whose requests have stored and not booked. The invariant
`AInv` is that the rows are the sums over that (`Shown`), each table until something
is noted in `drift` that it cannot survive; storing leaves `BookedOf` alone, booking
moves it and the rows by the same difference, and a rebuild sets both. The row of the
root is the sum of two tallies, that of all keys and that of those with a leading
slash, and the sums over each are followed apart. `LevelsShowAll` is a statement about
names: `Trim` leaves a path alone that begins and ends in one, `Base` of a folder is its
last segment if that is a name, and a prefix of a key whose folders have names is such a
folder. No level shows a folder without a name, so there the walk and the key part. The counts come from the rows, where
a folder without a row has nothing in it.

**The decoder.** The meaning of a text is a recursive function from the place in it:
an escape, a reference or a plain character, and what follows. The decoder has no
such view: it looks ahead for the end of a reference (`Ends`), sets its cursor
behind it, and copies late, what lies between two events at once. The proof has
three parts: the meaning unfolds from any place, because each piece takes at least a
character; the look-ahead accepts exactly the references, of which at most one
begins at a place; and `DInv`, that what has been written, what lies between `n` and
the cursor taken plainly, and the meaning of what is left are together the meaning
of the segment (`Saying`), where an unfinished escape counts as not yet read.

**Markdown.** `MInv` describes a conversion half done. `Hangs` has the tree in order:
every node is after its parent, may be held by it, and hangs on what its source hangs
on, the list of footnotes left out. `Standing` is the stack of calls: each converts a
container, for a node that is already there, and was made by the one before it at
the node where that one waits; and where a call goes on, the next node of the page is
its child. This is where the shape of goldmark's tree (`IsTree`) is used: after a node,
or after what was jumped over below it, comes its sibling or the end of its parent.
`Covered` adds that nothing was jumped over but what is converted at once.

Text does not follow text (`Apart`) for a reason that spans calls. What the last call
makes hangs on its own node and so differs in parent from all below; but when a call
returns, the one before it goes on with an empty buffer behind a node of its own. That
the node before is then no text of the same parent is `Low` (the last node made is that
of a call, or below it) with `Shut` (after text a call has no more to make: it is at
its end, or at a backlink, which makes nothing). `Shut` holds because text is written
only when something that is not text follows, and everything that follows makes a
node, save for backlinks, which `IsPage` has come last.

`Said` is that the words of the tree, and then the text the last call has gathered,
are those of the page up to `at`. That only the *last* call has text at hand is the
flush before each descent; that the jump over an image or a code span loses nothing is
that its words, one node after the other, are what `TextContent` and `CodeSpanValue`
gather, and `DInv` gives the words of a segment when `Join` takes them. The proof
computes with words through a concatenation whose definition stays closed (`Then`), of
which it needs no more than that it is associative; `FlattenSeq` of the community
modules, which is a fold, is first shown to be what its name says. That the value of a
block of HTML is its lines less one newline is `HtmlIs`, from what trimming does to a
concatenation. `Sourced` and `Noted`
carry what each node was made of, and that a footnote passed has one definition;
`FootnotesResolve` follows when nothing is left to pass.

`StepsGoForward` is the half of `ConversionEnds` that can be proved: every step moves
`at`, or ends a call, or begins a segment, or moves the cursor in it, each with those
before it unchanged, and none beyond its end. The other half, that some step can always
be taken, speaks of `ENABLED`.

**Induction over data.** The library's induction theorems cannot be instantiated
here. Where a proof needs induction over numbers, finite sets or paths, it takes a
smallest counterexample: `SmallestIn` and `LeastOf` give one, from the
well-foundedness of strict subsets.

### Only model-checked

Liveness, which is out of the proof system's reach: `RequestsEnd` of both modules,
`IndexCatchesUp`, `SavesEnd`, `RunsEnd` and `ConversionEnds`. Every other property of a
passing run is a theorem.

## 5. Not modelled

* Reads that change nothing: listings, search queries, paged timelines, the site.
* HTTP handlers, wire conversions, authentication: they decode, call one store
  operation and map the error. Events and telemetry, which nothing reads back. The
  declarations of `specs`.
* The seed command: a script one developer runs through the public API.
* The studio beyond the editor: it displays what it fetches. The paged timeline
  reads immutable rows.
* goldmark; titles, URLs and table alignment, which are copied or decoded like
  text; the encoding of the tree to JSON, which is generated.
* Contents are abstracted: a projection to (key, version, number of tag changes),
  an asset to its kind and size, a version to its author and what it was edited from.
* The connection pool is unbounded, as configured. Clocks of different servers,
  which set `created_at`, are taken to agree; a run with two runners already
  applies jobs in any order.
* `Apps.Create` and `Rename`: one statement each behind a unique index.

## 6. Plan

1. *(done)* `ReleaseDiff`, `ReleaseLine`, `Releases`, `Serving` and their proofs.
2. *(done)* `Versions` and `VersionLog`: saves, editors, status in two statements.
3. *(done)* `Tree`: collections and documents, statement by statement.
4. *(done)* `Assets`: bucket and bookkeeping, crashes between them, rebuild.
5. *(done)* `Rebuild`: the walk and the replaced rows.
6. *(done)* `LastWriteDecides` as a theorem.
7. *(done)* `Markdown`: the walk and the decoder.
8. *(done)* `NamesDifferAcrossTables`, `Acyclic` and `KeysArePaths`; the sums of
   `Assets`; the properties of a single request and of spaced changes; the decoder.
9. *(done)* The trees of `Markdown` as sequences of nodes and its calls as a stack, and
   `WellFormed`, `NothingLost` and `FootnotesResolve` as theorems.
10. `Tree` with two apps, for the requests that look up an app by a slug that is
    renamed under them.
11. The hazards that no property watches. Three the code does not prevent, which the
    properties except (a cycle, `collections.go:355`; one name for a collection and a
    document, `documents.go:380`; footnotes that differ in case, `mdast.go:527`), and
    three that need a property of their own: a publish at the path its document had
    when it was read (`publishing.go:96`), the slash in a name (`collections.go:407`),
    and spread items (`mdast.go:174`).
