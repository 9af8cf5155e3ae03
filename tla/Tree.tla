--------------------------------- MODULE Tree ---------------------------------
(***************************************************************************)
(* The tree of one app: collections (folders) and the documents in them,   *)
(* over Postgres at READ COMMITTED.                                        *)
(*   database/stores/collections.go   create, rename, move, delete         *)
(*   database/stores/documents.go     create, move, delete                 *)
(*   database/stores/apps.go          delete                               *)
(*                                                                         *)
(* A document's key is its path, stored.  It is written where the document *)
(* is placed, and rewritten where a collection above it is renamed or      *)
(* moved.  A request is made once; an action is a statement of it          *)
(* (or several between which nothing can matter), and sees what has been   *)
(* committed by then.  What a transaction wrote is kept in its request     *)
(* until it commits; others do not see it, but wait for it where they need *)
(* the row or would collide with it in a unique index.                     *)
(*                                                                         *)
(* A name is a sequence of segments, because only the empty name is        *)
(* refused: one with a slash in it has two.  A path is a sequence too.     *)
(***************************************************************************)
EXTENDS Naturals, Sequences, FiniteSets

CONSTANTS
    Cols, Docs,
    Names,         \* names a request may give
    Root,          \* the app root: a nil parent
    Requests,      \* requests that may come, each once
    Ops,           \* the operations each request may ask for
    MaxDepth       \* bound: the longest path kept of an endless walk

ASSUME ColsAssumption == IsFiniteSet(Cols)
ASSUME RootAssumption == Root \notin Cols
ASSUME NamesAssumption == \A n \in Names : n \in Seq(STRING) /\ n # <<>>
ASSUME DepthAssumption == MaxDepth \in Nat

VARIABLES
    app,       \* whether the app still exists
    released,  \* the documents some release refers to
    cols,      \* the collections table
    docs,      \* the documents table
    work,      \* the requests in flight
    raced      \* history: the harm that overlapping requests may have done

vars == <<app, released, cols, docs, work, raced>>

Places == Cols \cup {Root}

Collection == [row : {"none", "there", "gone"}, parent : Places, name : Names \cup {<<>>}]

Document == [row : {"none", "live", "tombstone", "gone"}, parent : Places,
             name : Names \cup {<<>>}, key : Seq(STRING)]

Harms == {"keys", "names", "cycle"}

Request == [pc : {"new", "over", "lock", "cycle", "check", "oldpath", "newpath", "write",
                  "scan", "rewrite"},
            op : {"", "createCol", "renameCol", "moveCol", "createDoc", "moveDoc"},
            row : Cols \cup Docs \cup {Root},      \* the row it is about
            parent : Places, name : Names \cup {<<>>},
            at : Places,                           \* where its walk to the root is
            old : Seq(STRING), new : Seq(STRING),
            todo : SUBSET (Docs \X Seq(STRING)),   \* keys to write
            done : SUBSET (Docs \X Seq(STRING))]   \* keys written, not committed

New == [pc |-> "new", op |-> "", row |-> Root, parent |-> Root, name |-> <<>>,
         at |-> Root, old |-> <<>>, new |-> <<>>, todo |-> {}, done |-> {}]

Over == [New EXCEPT !.pc = "over"]

TypeOK ==
    /\ app \in BOOLEAN
    /\ released \subseteq Docs
    /\ cols \in [Cols -> Collection]
    /\ docs \in [Docs -> Document]
    /\ work \in [Requests -> Request]
    /\ raced \subseteq Harms

-----------------------------------------------------------------------------
(* What a statement sees.                                                  *)

There(p) == IF p = Root THEN app ELSE cols[p].row = "there"

HasRow(d) == docs[d].row \in {"live", "tombstone"}

CollectionAt(p, n) ==
    \E c \in Cols : cols[c].row = "there" /\ cols[c].parent = p /\ cols[c].name = n

DocumentAt(p, n) ==
    \E d \in Docs : docs[d].row = "live" /\ docs[d].parent = p /\ docs[d].name = n

\* key LIKE path/%
Under(path, key) == Len(path) < Len(key) /\ SubSeq(key, 1, Len(path)) = path

\* A request that has written the row of its collection and has yet to commit.
Writing(r) == r.pc \in {"scan", "rewrite"}

-----------------------------------------------------------------------------
(* Row locks, held to the end of the transaction.                          *)

Others(w) == Requests \ {w}

\* FOR UPDATE of a collection row.
Locked(c, others) == \E v \in others :
    work[v].op \in {"renameCol", "moveCol"} /\ work[v].pc # "lock" /\ work[v].row = c

\* FOR KEY SHARE of the parent a moved collection refers to.
Shared(c, others) == \E v \in others :
    work[v].op = "moveCol" /\ Writing(work[v]) /\ work[v].parent = c

\* A document row locked by its move, or updated by a rewrite.
Held(d, others) == \E v \in others :
    \/ work[v].op = "moveDoc" /\ work[v].pc # "lock" /\ work[v].row = d
    \/ d \in {e[1] : e \in work[v].done}

\* A place or a key that an uncommitted write takes or gives up: an insert into
\* the unique index waits for the writer.
PlacePending(p, n, others) == \E v \in others :
    /\ Writing(work[v])
    /\ \/ <<p, n>> = <<cols[work[v].row].parent, cols[work[v].row].name>>
       \/ <<p, n>> = <<work[v].parent, work[v].name>>

KeyPending(k, others) == \E v \in others : \E e \in work[v].done :
    docs[e[1]].row = "live" /\ k \in {e[2], docs[e[1]].key}

\* Another live document has key k, as the transaction of request r sees it.
KeyTaken(k, r, d) == \E x \in Docs \ {d} :
    /\ docs[x].row = "live"
    /\ IF x \in {e[1] : e \in r.done} THEN <<x, k>> \in r.done ELSE docs[x].key = k

\* Another live document is where request r is to place its own.
NameTaken(r) == \E x \in Docs \ {r.row} :
    docs[x].row = "live" /\ docs[x].parent = r.parent /\ docs[x].name = r.name

-----------------------------------------------------------------------------
(* What is promised of the tree.                                           *)

\* Nothing hangs in the air: every collection and document, deleted documents
\* that a release still needs included, lies in a collection that exists, and in
\* an app that does.  What the foreign keys make of creations and moves that
\* looked their parent up before a deletion of it, and of an app that is deleted
\* under them.
ParentsExist ==
    /\ \A c \in Cols : cols[c].row = "there" => There(cols[c].parent)
    /\ \A d \in Docs : HasRow(d) => There(docs[d].parent)

\* Sibling collections differ in name, and live documents in key and in place, also
\* where two requests claim a name or a key at once, or a rewrite brings keys to where a
\* document was just placed.
SiblingsDiffer ==
    /\ \A c, x \in Cols : c # x /\ cols[c].row = "there" /\ cols[x].row = "there" =>
           cols[c].parent # cols[x].parent \/ cols[c].name # cols[x].name
    /\ \A d, x \in Docs : d # x /\ docs[d].row = "live" /\ docs[x].row = "live" =>
           /\ docs[d].key # docs[x].key
           /\ docs[d].parent # docs[x].parent \/ docs[d].name # docs[x].name

\* A walk from p up the parents would have no end: it stays within some collections.
Endless(p) == \E S \in SUBSET Cols : p \in S /\ \A c \in S : cols[c].parent \in S

\* The names on the way from the root to a place.
Path[p \in Places] ==
    IF p = Root \/ Endless(p) THEN <<>> ELSE Path[cols[p].parent] \o cols[p].name

\* Every collection is below the root: a move never puts one below itself, unless
\* two moves overlapped.  Two that did can each pass their check and close a cycle
\* together: they lock the rows they move, not the ancestors they looked at.
Acyclic ==
    "cycle" \notin raced =>
        \A c \in Cols : cols[c].row = "there" => ~Endless(c)

\* The stored key of a document is its path, once no rename, move or placement
\* overlapped a rename or a move: a document placed with a path read earlier, or
\* after the keys to rewrite were listed, keeps the old one.
KeysArePaths ==
    raced \cap {"keys", "cycle"} = {} =>
        \A d \in Docs : HasRow(d) => docs[d].key = Path[docs[d].parent] \o docs[d].name

\* A collection and a document never have the same name in the same place, unless
\* their requests overlapped: no index spans the two tables, and neither check
\* locks what it found absent.
NamesDifferAcrossTables ==
    "names" \notin raced =>
        \A c \in Cols : cols[c].row = "there" => ~DocumentAt(cols[c].parent, cols[c].name)

\* Tables as requests made one after the other can have left them behind.
AnyTree ==
    /\ cols \in [Cols -> {[row |-> "none", parent |-> Root, name |-> <<>>]} \cup
                         [row : {"there"}, parent : Places, name : Names]]
    /\ \A c \in Cols : There(cols[c].parent) /\ ~Endless(c)
    /\ docs \in [Docs -> {[row |-> "none", parent |-> Root, name |-> <<>>, key |-> <<>>]} \cup
                         {[row |-> x, parent |-> p, name |-> n, key |-> Path[p] \o n] :
                              x \in {"live", "tombstone"}, p \in Places, n \in Names}]

Init ==
    /\ app = TRUE
    /\ AnyTree
    /\ released \in SUBSET {d \in Docs : HasRow(d)}
    /\ {d \in Docs : docs[d].row = "tombstone"} \subseteq released
    /\ work = [w \in Requests |-> New]
    /\ raced = {}
    /\ TypeOK /\ ParentsExist /\ SiblingsDiffer /\ NamesDifferAcrossTables

-----------------------------------------------------------------------------
(* A request comes in, and ends.                                           *)

\* The harm two requests can do to each other by overlapping.
Harm(o1, o2) ==
    {h \in Harms :
        \/ h = "keys" /\ o1 \in {"renameCol", "moveCol"}
                      /\ o2 \in {"renameCol", "moveCol", "createDoc", "moveDoc"}
        \/ h = "names" /\ o1 \in {"createCol", "renameCol", "moveCol"}
                       /\ o2 \in {"createDoc", "moveDoc"}
        \/ h = "cycle" /\ o1 = "moveCol" /\ o2 = "moveCol"}

Begin(w, op, row, p, n, pc) ==
    /\ work[w] = New
    /\ op \in Ops[w]
    /\ work' = [work EXCEPT ![w] = [New EXCEPT !.op = op, !.row = row, !.parent = p,
                                                !.name = n, !.at = p, !.pc = pc]]
    /\ raced' = raced \cup UNION {Harm(op, work[v].op) \cup Harm(work[v].op, op) :
                                      v \in Others(w)}
    /\ UNCHANGED <<app, released, cols, docs>>

\* A row takes the next id of its kind: a fresh one.
CreateCollection(w, c, p, n) ==
    /\ cols[c].row = "none" /\ There(p)
    /\ \A v \in Requests : work[v].row # c
    /\ Begin(w, "createCol", c, p, n, "check")

RenameCollection(w, c, n) == Begin(w, "renameCol", c, Root, n, "lock")

MoveCollection(w, c, p) == Begin(w, "moveCol", c, p, <<>>, "lock")

CreateDocument(w, d, p, n) ==
    /\ docs[d].row = "none" /\ There(p)
    /\ \A v \in Requests : work[v].row # d
    /\ Begin(w, "createDoc", d, p, n, IF p = Root THEN "check" ELSE "newpath")

MoveDocument(w, d, p, n) == There(p) /\ Begin(w, "moveDoc", d, p, n, "lock")

\* Refused, with NotFound, NameTaken, Cycle or NotEmpty; or rolled back after a
\* failure, a client that hung up, or as the victim of a deadlock.
Ends(w) ==
    /\ work' = [work EXCEPT ![w] = Over]
    /\ UNCHANGED <<app, released, cols, docs, raced>>

Fail(w) == work[w].op # "" /\ Ends(w)

Goes(w, r) ==
    /\ work' = [work EXCEPT ![w] = r]
    /\ UNCHANGED <<app, released, cols, docs, raced>>

-----------------------------------------------------------------------------
(* The reads of a transaction.                                             *)

\* SELECT ... FOR UPDATE of the collection: the row as it is once it is free.
LockCollection(w) ==
    LET r == work[w]
        c == cols[r.row] IN
    /\ r.pc = "lock" /\ r.op \in {"renameCol", "moveCol"}
    /\ ~Locked(r.row, Others(w)) /\ ~Shared(r.row, Others(w))
    /\ IF \/ c.row # "there"
          \/ r.op = "renameCol" /\ c.name = r.name
          \/ r.op = "moveCol" /\ r.parent \in {c.parent, r.row}
       THEN Ends(w)
       ELSE Goes(w, IF r.op = "renameCol"
                    THEN [r EXCEPT !.pc = "check", !.parent = c.parent]
                    ELSE [r EXCEPT !.pc = IF r.parent = Root THEN "check" ELSE "cycle",
                                   !.name = c.name])

LockDocument(w) ==
    LET r == work[w] IN
    /\ r.pc = "lock" /\ r.op = "moveDoc"
    /\ ~Held(r.row, Others(w))
    /\ IF HasRow(r.row)
       THEN Goes(w, [r EXCEPT !.pc = IF r.parent = Root THEN "check" ELSE "newpath"])
       ELSE Ends(w)

\* A bug for TLC to find: only the destination itself is looked at.
FaultyCheckMoveTarget(w) ==
    LET r == work[w] IN
    /\ r.pc = "cycle"
    /\ IF ~There(r.at) \/ r.at = r.row THEN Ends(w) ELSE Goes(w, [r EXCEPT !.pc = "check"])

\* checkMoveTarget, a SELECT of one ancestor of the destination at a time.
CheckMoveTarget(w) ==
    LET r == work[w] IN
    /\ r.pc = "cycle"
    /\ IF ~There(r.at) \/ r.at = r.row THEN Ends(w)
       ELSE LET up == cols[r.at].parent IN
            Goes(w, [r EXCEPT !.at = up, !.pc = IF up = Root THEN "check" ELSE "cycle"])

\* Where the request goes once a path is known, or needs none.
NextPath(r) ==
    CASE r.op \in {"createDoc", "moveDoc"} -> [r EXCEPT !.pc = "check", !.at = Root]
      [] r.op = "renameCol" -> [r EXCEPT !.pc = "write", !.at = Root, !.new = r.old]
      [] OTHER -> IF r.pc = "oldpath" /\ r.parent # Root
                  THEN [r EXCEPT !.pc = "newpath", !.at = r.parent]
                  ELSE [r EXCEPT !.pc = "write", !.at = Root]

\* A bug for TLC to find: the walk does not move on.
FaultyPathOf(w) ==
    LET r == work[w] IN
    /\ r.pc \in {"oldpath", "newpath"}
    /\ IF ~There(r.at) THEN Ends(w)
       ELSE Goes(w, IF cols[r.at].parent = Root THEN NextPath(r) ELSE r)

\* pathOf, a SELECT of one ancestor at a time.
PathOf(w) ==
    LET r == work[w]
        c == cols[r.at]
        \* In a cycle the walk goes on for ever, and what is kept of the path is cut.
        grown == IF r.pc = "oldpath" THEN [r EXCEPT !.old = c.name \o r.old, !.at = c.parent]
                                     ELSE [r EXCEPT !.new = c.name \o r.new, !.at = c.parent] IN
    /\ r.pc \in {"oldpath", "newpath"}
    /\ IF ~There(r.at) THEN Ends(w)
       ELSE Goes(w, IF c.parent = Root THEN NextPath(grown)
                    ELSE IF Endless(r.at) /\ Len(grown.old) + Len(grown.new) > MaxDepth
                    THEN [r EXCEPT !.at = c.parent]
                    ELSE grown)

\* siblingDocumentExists of a collection's place; then the path it has now.
CheckSiblingDocument(w) ==
    LET r == work[w]
        from == IF r.op = "createCol" THEN Root ELSE cols[r.row].parent IN
    /\ r.pc = "check" /\ r.op \in {"createCol", "renameCol", "moveCol"}
    /\ IF DocumentAt(r.parent, r.name) THEN Ends(w)
       ELSE Goes(w, IF r.op = "createCol" THEN [r EXCEPT !.pc = "write", !.at = Root]
                    ELSE IF from = Root THEN NextPath([r EXCEPT !.pc = "oldpath"])
                    ELSE [r EXCEPT !.pc = "oldpath", !.at = from])

\* A bug for TLC to find: the check looks where the document comes from.
FaultyCheckSiblingCollection(w) ==
    LET r == work[w] IN
    /\ r.pc = "check" /\ r.op \in {"createDoc", "moveDoc"}
    /\ IF CollectionAt(docs[r.row].parent, r.name) THEN Ends(w)
       ELSE Goes(w, [r EXCEPT !.pc = "write"])

\* siblingCollectionExists of a document's place.
CheckSiblingCollection(w) ==
    LET r == work[w] IN
    /\ r.pc = "check" /\ r.op \in {"createDoc", "moveDoc"}
    /\ IF CollectionAt(r.parent, r.name) THEN Ends(w) ELSE Goes(w, [r EXCEPT !.pc = "write"])

-----------------------------------------------------------------------------
(* The writes.  A write under a parent takes the parent's row in key share *)
(* (foreign key), so it waits for a lock on it and is refused if it went.  *)

\* An update that leaves the parent as it is does not look at its row.
Refers(r) ==
    \/ r.op \in {"createCol", "moveCol", "createDoc"}
    \/ r.op = "moveDoc" /\ r.parent # docs[r.row].parent

Unblocked(r, w) == Refers(r) => ~Locked(r.parent, Others(w))

Allowed(r) == Refers(r) => There(r.parent)

\* A bug for TLC to find: no index behind the check of the documents.
FaultyInsertCollection(w) ==
    LET r == work[w] IN
    /\ r.pc = "write" /\ r.op = "createCol" /\ Unblocked(r, w)
    /\ IF app /\ Allowed(r)
       THEN /\ cols' = [cols EXCEPT ![r.row] =
                            [row |-> "there", parent |-> r.parent, name |-> r.name]]
            /\ work' = [work EXCEPT ![w] = Over]
            /\ UNCHANGED <<app, released, docs, raced>>
       ELSE Ends(w)

InsertCollection(w) ==
    LET r == work[w] IN
    /\ r.pc = "write" /\ r.op = "createCol"
    /\ Unblocked(r, w) /\ ~PlacePending(r.parent, r.name, Others(w))
    /\ IF app /\ Allowed(r) /\ ~CollectionAt(r.parent, r.name)
       THEN /\ cols' = [cols EXCEPT ![r.row] =
                            [row |-> "there", parent |-> r.parent, name |-> r.name]]
            /\ work' = [work EXCEPT ![w] = Over]
            /\ UNCHANGED <<app, released, docs, raced>>
       ELSE Ends(w)

\* The UPDATE of a collection's row, kept in its request until the commit.
WriteCollection(w) ==
    LET r == work[w] IN
    /\ r.pc = "write" /\ r.op \in {"renameCol", "moveCol"}
    /\ Unblocked(r, w) /\ ~PlacePending(r.parent, r.name, Others(w))
    /\ IF Allowed(r) /\ ~CollectionAt(r.parent, r.name)
       THEN Goes(w, [r EXCEPT !.pc = "scan", !.old = r.old \o cols[r.row].name,
                              !.new = r.new \o r.name])
       ELSE Ends(w)

\* A bug for TLC to find: only the documents directly in the collection.
FaultyScanKeys(w) ==
    LET r == work[w]
        below == {d \in Docs : HasRow(d) /\ docs[d].parent = r.row}
        moved(d) == r.new \o SubSeq(docs[d].key, Len(r.old) + 1, Len(docs[d].key)) IN
    /\ r.pc = "scan"
    /\ Goes(w, [r EXCEPT !.pc = "rewrite", !.todo = {<<d, moved(d)>> : d \in below}])

\* rewriteDescendantKeys: the keys under the old path, read once.
ScanKeys(w) ==
    LET r == work[w]
        below == {d \in Docs : HasRow(d) /\ Under(r.old, docs[d].key)}
        moved(d) == r.new \o SubSeq(docs[d].key, Len(r.old) + 1, Len(docs[d].key)) IN
    /\ r.pc = "scan"
    /\ Goes(w, [r EXCEPT !.pc = "rewrite",
                         !.todo = IF r.old = r.new THEN {} ELSE {<<d, moved(d)>> : d \in below}])

\* One UPDATE of a key; it waits for the row and for a rival key.
RewriteKey(w) ==
    LET r == work[w] IN
    /\ r.pc = "rewrite"
    /\ \E e \in r.todo :
         LET d == e[1]
             k == e[2] IN
         /\ ~Held(d, Others(w))
         /\ docs[d].row = "live" => ~KeyPending(k, Others(w))
         /\ IF HasRow(d) /\ (docs[d].row = "live" => ~KeyTaken(k, r, d))
            THEN Goes(w, [r EXCEPT !.todo = @ \ {e}, !.done = @ \cup {e}])
            ELSE Ends(w)

CommitCollection(w) ==
    LET r == work[w]
        rewritten == {e[1] : e \in r.done} IN
    /\ r.pc = "rewrite" /\ r.todo = {}
    /\ cols' = [cols EXCEPT ![r.row].parent = r.parent, ![r.row].name = r.name]
    /\ docs' = [d \in Docs |-> IF d \in rewritten
                               THEN [docs[d] EXCEPT !.key = (CHOOSE e \in r.done : e[1] = d)[2]]
                               ELSE docs[d]]
    /\ work' = [work EXCEPT ![w] = Over]
    /\ UNCHANGED <<app, released, raced>>

\* The INSERT of a document or the UPDATE that moves it, and the commit.
PlaceDocument(w) ==
    LET r == work[w]
        k == r.new \o r.name
        row == IF r.op = "createDoc" THEN "live" ELSE docs[r.row].row IN
    /\ r.pc = "write" /\ r.op \in {"createDoc", "moveDoc"}
    /\ Unblocked(r, w)
    /\ row = "live" => ~KeyPending(k, Others(w))
    /\ IF app /\ Allowed(r) /\ (row = "live" => ~KeyTaken(k, r, r.row) /\ ~NameTaken(r))
       THEN /\ docs' = [docs EXCEPT ![r.row] =
                            [row |-> row, parent |-> r.parent, name |-> r.name, key |-> k]]
            /\ work' = [work EXCEPT ![w] = Over]
            /\ UNCHANGED <<app, released, cols, raced>>
       ELSE Ends(w)

-----------------------------------------------------------------------------
(* Requests that are one statement, or that lock what they read.           *)

\* Neither a collection nor a document that is not deleted lies in it.
IsEmpty(c) ==
    /\ ~\E x \in Cols : cols[x].row = "there" /\ cols[x].parent = c
    /\ ~\E d \in Docs : docs[d].row = "live" /\ docs[d].parent = c

\* A bug for TLC to find: the emptiness check alone.
FaultyDeleteCollection(c) ==
    /\ cols[c].row = "there"
    /\ ~(Locked(c, Requests) \/ Shared(c, Requests))
    /\ IsEmpty(c)
    /\ cols' = [cols EXCEPT ![c].row = "gone"]
    /\ UNCHANGED <<app, released, docs, work, raced>>

\* The emptiness check overlooks tombstones; the foreign key does not.
DeleteCollection(c) ==
    /\ cols[c].row = "there"
    /\ ~(Locked(c, Requests) \/ Shared(c, Requests))
    /\ IsEmpty(c)
    /\ ~\E d \in Docs : docs[d].row = "tombstone" /\ docs[d].parent = c
    /\ cols' = [cols EXCEPT ![c].row = "gone"]
    /\ UNCHANGED <<app, released, docs, work, raced>>

\* Some release takes the document up; a later one may drop it.
Release(d) ==
    /\ docs[d].row = "live" /\ d \notin released
    /\ released' = released \cup {d}
    /\ UNCHANGED <<app, cols, docs, work, raced>>

\* A document a release refers to keeps its row, without its claim to key and name.
\* (One that the current release carries is refused: see Releases.)
DeleteDocument(d) ==
    /\ HasRow(d)
    /\ ~Held(d, Requests)
    /\ docs' = [docs EXCEPT ![d].row = IF d \in released THEN "tombstone" ELSE "gone"]
    /\ UNCHANGED <<app, released, cols, work, raced>>

\* Cascades to every row of the app; a release anywhere refuses it.
DeleteApp ==
    /\ app /\ released = {}
    /\ ~\E c \in Cols : Locked(c, Requests) \/ Shared(c, Requests)
    /\ ~\E d \in Docs : Held(d, Requests)
    /\ app' = FALSE
    /\ cols' = [c \in Cols |-> IF There(c) THEN [cols[c] EXCEPT !.row = "gone"] ELSE cols[c]]
    /\ docs' = [d \in Docs |-> IF HasRow(d) THEN [docs[d] EXCEPT !.row = "gone"] ELSE docs[d]]
    /\ UNCHANGED <<released, work, raced>>

-----------------------------------------------------------------------------
(* What the requests in flight may rely on.                                *)

\* A request knows rows of its kind; one that has its row locked still finds it, and
\* finds its new parent from the write on; the place it moves its collection to is
\* free, and so are the keys it has written.
RequestsFit == \A w \in Requests :
    LET r == work[w] IN
    /\ r.op \in {"createCol", "renameCol", "moveCol"} => r.row \in Cols
    /\ r.op \in {"createDoc", "moveDoc"} => r.row \in Docs
    /\ r.pc \in {"cycle", "oldpath", "newpath"} => r.at \in Cols
    /\ r.pc = "lock" => r.at = r.parent
    /\ Writing(r) => r.op \in {"renameCol", "moveCol"}
    /\ r.todo # {} \/ r.done # {} => r.pc = "rewrite"
    /\ r.op = "createCol" => cols[r.row].row = "none"
    /\ r.op = "createDoc" => docs[r.row].row = "none"
    /\ r.op \in {"renameCol", "moveCol"} /\ r.pc # "lock" => cols[r.row].row = "there"
    /\ r.op = "renameCol" /\ r.pc # "lock" => r.parent = cols[r.row].parent
    /\ r.op = "moveDoc" /\ r.pc # "lock" => HasRow(r.row)
    /\ r.op = "moveCol" /\ Writing(r) => There(r.parent)
    /\ Writing(r) => \A x \in Cols \ {r.row} :
           ~(cols[x].row = "there" /\ cols[x].parent = r.parent /\ cols[x].name = r.name)
    /\ \A e \in r.done :
           HasRow(e[1]) /\ (docs[e[1]].row = "live" => ~KeyTaken(e[2], r, e[1]))
    /\ \A e, f \in r.todo \cup r.done : e[1] = f[1] => e = f
    /\ r.todo \cap r.done = {}

\* Two requests do not create, lock or rewrite the same row, nor claim the same place
\* or key.
RequestsApart == \A v, w \in Requests :
    LET q == work[v]
        r == work[w] IN
    v # w =>
        /\ q.op \in {"createCol", "createDoc"} /\ q.op = r.op => q.row # r.row
        /\ /\ q.op \in {"renameCol", "moveCol"} /\ q.pc # "lock"
           /\ r.op \in {"renameCol", "moveCol"} /\ r.pc # "lock"
           => q.row # r.row
        /\ Writing(q) /\ Writing(r) => q.parent # r.parent \/ q.name # r.name
        /\ r.op = "moveDoc" /\ r.pc # "lock" => \A e \in q.done : e[1] # r.row
        /\ \A e \in q.done, f \in r.done :
               /\ e[1] # f[1]
               /\ docs[e[1]].row = "live" /\ docs[f[1]].row = "live" => e[2] # f[2]

IInv == TypeOK /\ ParentsExist /\ SiblingsDiffer /\ RequestsFit /\ RequestsApart

-----------------------------------------------------------------------------
Step(w) ==
    \/ LockCollection(w) \/ LockDocument(w)
    \/ CheckMoveTarget(w) \/ PathOf(w)
    \/ CheckSiblingDocument(w) \/ CheckSiblingCollection(w)
    \/ InsertCollection(w) \/ WriteCollection(w)
    \/ ScanKeys(w) \/ RewriteKey(w) \/ CommitCollection(w)
    \/ PlaceDocument(w)

Arrives(w) ==
    \/ \E c \in Cols, p \in Places, n \in Names : CreateCollection(w, c, p, n)
    \/ \E c \in Cols, n \in Names : RenameCollection(w, c, n)
    \/ \E c \in Cols, p \in Places : MoveCollection(w, c, p)
    \/ \E d \in Docs, p \in Places, n \in Names : CreateDocument(w, d, p, n)
    \/ \E d \in Docs, p \in Places, n \in Names : MoveDocument(w, d, p, n)

Next ==
    \/ \E w \in Requests : Arrives(w) \/ Step(w) \/ Fail(w)
    \/ \E c \in Cols : DeleteCollection(c)
    \/ \E d \in Docs : Release(d) \/ DeleteDocument(d)
    \/ DeleteApp

Spec == Init /\ [][Next]_vars

\* A request in flight that can only wait.
Stuck(w) == work[w].op # "" /\ ~ENABLED Step(w)

\* Postgres picks a victim where every request in flight waits for another.
DeadlockVictim(w) ==
    /\ Stuck(w) /\ \A v \in Requests : work[v].op # "" => Stuck(v)
    /\ Ends(w)

\* A request keeps running, whoever waits for its answer.
Fairness == \A w \in Requests : WF_vars(Step(w)) /\ WF_vars(DeadlockVictim(w))

FairSpec == Spec /\ Fairness

\* A request whose walk to the root has come to a cycle of collections.
Circling(w) ==
    work[w].pc \in {"cycle", "oldpath", "newpath"} /\ work[w].at \in Cols /\ Endless(work[w].at)

\* Every request ends, though requests wait for each other's rows, unless it has come
\* into a cycle of collections, where the walks of checkMoveTarget and pathOf go round
\* for ever in an open transaction, or waits for one that has.
RequestsEnd == \A w \in Requests :
    (work[w].op # "") ~>
        \/ work[w].op = ""
        \/ Circling(w)
        \/ Stuck(w) /\ \E v \in Requests : Circling(v)

=============================================================================
