-------------------------------- MODULE Assets --------------------------------
(***************************************************************************)
(* The assets of one app: objects in a bucket, and bookkeeping rows about  *)
(* them in Postgres.                                                       *)
(*   database/stores/assets.go               put, move, delete, folders    *)
(*   database/stores/asset_bookkeeping.go    the rows                      *)
(*                                                                         *)
(* The bucket is the truth and has no transactions: a request reads it,    *)
(* writes it, and then adjusts the rows by the difference, in one          *)
(* transaction.  Every transaction that adjusts rows updates the row of    *)
(* the root folder first, so they run one after the other: each is a step. *)
(* A request can end between any two steps, by a failure or a crash.       *)
(*                                                                         *)
(* A key or folder is the sequence of its segments, what lies between its  *)
(* slashes.  A put takes any key, so a segment may be empty: /a is         *)
(* <<"", "a">>.  A content type is the kind it is counted as; an object's  *)
(* content is its size.                                                    *)
(***************************************************************************)
EXTENDS Integers, Sequences, FiniteSets, Functions

CONSTANTS
    Keys,      \* keys an asset may have
    NewFolders, \* folders that may be created without an object
    Kinds, All,\* media families, and the row for all of them
    Contents,  \* what may be stored: pairs of a kind and a size
    None,      \* no object
    Requests,  \* requests that may come, each once
    MaxDay,    \* bound: the last day
    Window     \* days the daily series keeps at a rebuild

\* What may be moved to or made as a folder: every segment is a plain name.
PlainPath(path) == \A i \in DOMAIN path : path[i] \notin {"", ".", ".."}

\* Object stores bound the length of a name, so there are finitely many keys.
ASSUME KeysAssumption ==
    /\ IsFiniteSet(Keys) /\ Keys # {}
    /\ \A k \in Keys \cup NewFolders : k \in Seq(STRING) /\ k # <<>>
    /\ \A f \in NewFolders : PlainPath(f)
ASSUME KindsAssumption == All \notin Kinds /\ Contents \subseteq Kinds \X Nat
ASSUME DaysAssumption == MaxDay \in Nat /\ Window \in Nat

VARIABLES
    app,      \* whether the app still exists
    bucket,   \* its objects
    folders,  \* asset_folders: the rollup of every folder
    kinds,    \* asset_stats: the totals by kind
    days,     \* asset_stats_daily: writes by kind and day
    cut,      \* the first day that the last rebuild kept
    today,
    work,     \* the requests in flight
    drift     \* history: why the rows may not match the bucket

vars == <<app, bucket, folders, kinds, days, cut, today, work, drift>>

-----------------------------------------------------------------------------
Days == 0..MaxDay

Object == [kind : Kinds, size : Nat, day : Days]

ASSUME NoneAssumption == None \notin Object

\* The folders a key is in, the root <<>> first.  The path up to a leading slash is
\* the empty string, and that is the root,
AncestorPaths(key) == {SubSeq(key, 1, i) : i \in 0..(Len(key) - 1)} \ {<<"">>}

\* which is then listed, and counted, again.
ListedAgain(key) == IF Len(key) > 1 /\ key[1] = "" THEN {<<>>} ELSE {}

\* A folder with its ancestors, the root aside.
MadeWith(folder) == {SubSeq(folder, 1, i) : i \in 1..Len(folder)} \ {<<"">>}

Paths == {<<>>} \cup UNION ({AncestorPaths(k) : k \in Keys} \cup {MadeWith(f) : f \in NewFolders})

KindRows == Kinds \cup {All}

DayRows == KindRows \X Days

Row == [there : BOOLEAN, explicit : BOOLEAN, count : Int, bytes : Int]

NoRow == [there |-> FALSE, explicit |-> FALSE, count |-> 0, bytes |-> 0]

Request == [pc : {"new", "over", "taken", "copy", "store", "remove", "book", "list", "replace"},
            op : {"", "put", "move", "delete", "rebuild"},
            key : Keys, to : Keys,
            prev : Object \cup {None},    \* what was at the key
            obj : Object \cup {None},     \* what is to be stored, or was
            seen : [Keys -> Object \cup {None}]]

AnyKey == CHOOSE k \in Keys : TRUE

New == [pc |-> "new", op |-> "", key |-> AnyKey, to |-> AnyKey, prev |-> None, obj |-> None,
        seen |-> [k \in Keys |-> None]]

Over == [New EXCEPT !.pc = "over"]

Drifts == {"raced", "lost", "kind", "midnight"}

TypeOK ==
    /\ app \in BOOLEAN
    /\ bucket \in [Keys -> Object \cup {None}]
    /\ folders \in [Paths -> Row] /\ kinds \in [KindRows -> Row] /\ days \in [DayRows -> Row]
    /\ cut \in Int /\ today \in Days
    /\ work \in [Requests -> Request]
    /\ drift \subseteq Drifts

-----------------------------------------------------------------------------
(* A listing folded into rows: what the tables should hold.                *)

Bytes(b, ks) == SumFunctionOnSet([k \in ks |-> b[k].size], ks)

Tally(b, ks) == [there |-> ks # {}, explicit |-> FALSE, count |-> Cardinality(ks),
                 bytes |-> Bytes(b, ks)]

Stored(b) == {k \in Keys : b[k] # None}

OfKind(b, kind) == {k \in Stored(b) : kind \in {b[k].kind, All}}

FoldFolders(b) ==
    LET Once(p) == {k \in Stored(b) : p \in AncestorPaths(k)}
        Again(p) == {k \in Stored(b) : p \in ListedAgain(k)} IN
    [p \in Paths |-> [Tally(b, Once(p)) EXCEPT !.there = @ \/ p = <<>>,
                                               !.count = @ + Cardinality(Again(p)),
                                               !.bytes = @ + Bytes(b, Again(p))]]

FoldKinds(b) == [x \in KindRows |-> [Tally(b, OfKind(b, x)) EXCEPT !.there = @ \/ x = All]]

FoldDays(b, from) ==
    [x \in DayRows |-> IF x[2] < from THEN NoRow
                       ELSE Tally(b, {k \in OfKind(b, x[1]) : b[k].day = x[2]})]

-----------------------------------------------------------------------------
(* The changes a write or a delete makes to the rows.                      *)

WriteChange(key, obj, prev) ==
    [key |-> key, kind |-> obj.kind, written |-> TRUE, size |-> obj.size, prev |-> prev,
     count |-> IF prev = None THEN 1 ELSE 0,
     bytes |-> IF prev = None THEN obj.size ELSE obj.size - prev.size]

DeleteChange(key, kind, prev) ==
    [key |-> key, kind |-> kind, written |-> FALSE, size |-> 0, prev |-> prev,
     count |-> -1, bytes |-> -prev.size]

\* Rows are made where there are none, and incremented.
Adjust(table, rows, count, bytes) ==
    [x \in DOMAIN table |->
        IF x \in rows THEN [table[x] EXCEPT !.there = TRUE, !.count = @ + count, !.bytes = @ + bytes]
        ELSE table[x]]

Prune(table) ==
    [x \in DOMAIN table |-> IF table[x].count <= 0 /\ ~table[x].explicit THEN NoRow ELSE table[x]]

\* A bug for TLC to find: what emptied is never dropped.
FaultyApplyFolders(table, c) ==
    Adjust(Adjust(table, AncestorPaths(c.key), c.count, c.bytes), ListedAgain(c.key), c.count, c.bytes)

ApplyFolders(table, c) ==
    LET once == Adjust(table, AncestorPaths(c.key), c.count, c.bytes)
        adjusted == Adjust(once, ListedAgain(c.key), c.count, c.bytes) IN
    IF c.count < 0 THEN Prune(adjusted) ELSE adjusted

\* A bug for TLC to find: every write counts as another object.
FaultyApplyKinds(table, c) ==
    Adjust(table, {c.kind, All}, IF c.written THEN 1 ELSE -1, c.bytes)

\* The object a write replaces is taken off the row of the new kind.
ApplyKinds(table, c) == Adjust(table, {c.kind, All}, c.count, c.bytes)

\* A write lands in the day it is booked; what it replaces, or a delete takes
\* away, leaves the day it was stored.
ApplyDays(table, c, now) ==
    LET written == IF c.written THEN Adjust(table, {c.kind, All} \X {now}, 1, c.size) ELSE table
    IN  IF c.prev = None THEN written
        ELSE Prune(Adjust(written, {c.kind, All} \X {c.prev.day}, -1, -c.prev.size))

-----------------------------------------------------------------------------
\* Rows true to a bucket written today, and perhaps a folder on its own.
Init ==
    /\ app = TRUE /\ today = 0 /\ cut = 0
    /\ bucket \in [Keys -> {None} \cup {[kind |-> x[1], size |-> x[2], day |-> 0] : x \in Contents}]
    /\ folders = FoldFolders(bucket) /\ kinds = FoldKinds(bucket) /\ days = FoldDays(bucket, 0)
    /\ work = [w \in Requests |-> New]
    /\ drift = {}

Touched(r) ==
    CASE r.op = "move" -> {r.key, r.to}
      [] r.op \in {"put", "delete"} -> {r.key}
      [] r.op = "rebuild" -> Keys
      [] OTHER -> {}

\* Two requests about the same key, or a rebuild and a write, at the same time.
Arrive(w, r) ==
    /\ work[w] = New
    /\ work' = [work EXCEPT ![w] = r]
    /\ drift' = IF \E v \in Requests \ {w} : Touched(work[v]) \cap Touched(r) # {}
                THEN drift \cup {"raced"} ELSE drift
    /\ UNCHANGED <<app, bucket, folders, kinds, days, cut, today>>

Goes(w, r) ==
    /\ work' = [work EXCEPT ![w] = r]
    /\ UNCHANGED <<app, bucket, folders, kinds, days, cut, today, drift>>

\* The app is there, and the object about to be replaced is looked at.
Put(w, key, content) ==
    /\ app
    /\ Arrive(w, [New EXCEPT !.op = "put", !.pc = "store", !.key = key, !.to = key,
                             !.prev = bucket[key],
                             !.obj = [kind |-> content[1], size |-> content[2], day |-> today]])

Delete(w, key) ==
    /\ bucket[key] # None
    /\ Arrive(w, [New EXCEPT !.op = "delete", !.pc = "remove", !.key = key, !.prev = bucket[key]])

Move(w, key, to) ==
    /\ PlainPath(to) /\ key # to /\ bucket[key] # None
    /\ Arrive(w, [New EXCEPT !.op = "move", !.pc = "taken", !.key = key, !.to = to,
                             !.prev = bucket[key]])

Rebuild(w) == Arrive(w, [New EXCEPT !.op = "rebuild", !.pc = "list"])

\* A move never overwrites: the destination was free when it looked.
CheckTaken(w) ==
    LET r == work[w] IN
    /\ r.pc = "taken"
    /\ Goes(w, IF bucket[r.to] # None THEN Over ELSE [r EXCEPT !.pc = "copy"])

ReadSource(w) ==
    LET r == work[w] IN
    /\ r.pc = "copy"
    /\ Goes(w, IF bucket[r.key] = None THEN Over
               ELSE [r EXCEPT !.obj = bucket[r.key], !.pc = "store"])

Store(w) ==
    LET r == work[w]
        obj == [r.obj EXCEPT !.day = today] IN
    /\ r.pc = "store"
    /\ bucket' = [bucket EXCEPT ![r.to] = obj]
    /\ work' = [work EXCEPT ![w] = [r EXCEPT !.obj = obj,
                                             !.pc = IF r.op = "move" THEN "remove" ELSE "book"]]
    /\ UNCHANGED <<app, folders, kinds, days, cut, today, drift>>

\* A delete that finds the object gone may say so and stop.
Remove(w) ==
    LET r == work[w] IN
    /\ r.pc = "remove"
    /\ bucket' = [bucket EXCEPT ![r.key] = None]
    /\ \/ work' = [work EXCEPT ![w].pc = "book"]
       \/ r.op = "delete" /\ bucket[r.key] = None /\ work' = [work EXCEPT ![w] = Over]
    /\ UNCHANGED <<app, folders, kinds, days, cut, today, drift>>

Changes(r) ==
    CASE r.op = "put" -> <<WriteChange(r.key, r.obj, r.prev)>>
      [] r.op = "delete" -> <<DeleteChange(r.key, r.prev.kind, r.prev)>>
      [] OTHER -> <<DeleteChange(r.key, r.obj.kind, r.prev),
                    WriteChange(r.to, [r.obj EXCEPT !.size = r.prev.size], None)>>

\* The rows follow, in one transaction.  Without the app its foreign key refuses
\* them: that is reported, and the request is answered as a success.
Book(w) ==
    LET r == work[w]
        c == Changes(r)
        Then(Apply(_, _), table) ==
            IF Len(c) = 1 THEN Apply(table, c[1]) ELSE Apply(Apply(table, c[1]), c[2])
        ByDay(table, change) == ApplyDays(table, change, today) IN
    /\ r.pc = "book" /\ app
    /\ folders' = Then(ApplyFolders, folders)
    /\ kinds' = Then(ApplyKinds, kinds)
    /\ days' = Then(ByDay, days)
    /\ work' = [work EXCEPT ![w] = Over]
    /\ drift' = drift \cup (IF r.op = "put" /\ r.prev # None /\ r.prev.kind # r.obj.kind
                            THEN {"kind"} ELSE {})
                      \cup (IF r.op # "delete" /\ r.obj.day # today THEN {"midnight"} ELSE {})
    /\ UNCHANGED <<app, bucket, cut, today>>

List(w) ==
    /\ work[w].pc = "list"
    /\ Goes(w, [work[w] EXCEPT !.seen = bucket, !.pc = "replace"])

\* A bug for TLC to find: the rows of folders are dropped, explicit or not.
FaultyReplaceFolders(fold) == fold

\* Derived rows are dropped, explicit ones zeroed, and the fold written over them.
ReplaceFolders(fold) ==
    [p \in Paths |-> [fold[p] EXCEPT !.explicit = folders[p].explicit,
                                     !.there = @ \/ folders[p].explicit]]

\* Only a rebuild that nothing overlapped makes the rows true again.
Replace(w) ==
    LET r == work[w]
        from == today - Window IN
    /\ r.pc = "replace" /\ app
    /\ folders' = ReplaceFolders(FoldFolders(r.seen))
    /\ kinds' = FoldKinds(r.seen)
    /\ days' = FoldDays(r.seen, from)
    /\ cut' = from
    /\ work' = [work EXCEPT ![w] = Over]
    /\ drift' = IF r.seen = bucket /\ \A v \in Requests \ {w} : Touched(work[v]) = {}
                THEN {} ELSE drift \cup {"raced"}
    /\ UNCHANGED <<app, bucket, today>>

\* A bug for TLC to find: the folders above it are left as they are.
FaultyCreateFolder(f) ==
    /\ app
    /\ folders' = [folders EXCEPT ![f].there = TRUE, ![f].explicit = TRUE]
    /\ UNCHANGED <<app, bucket, kinds, days, cut, today, work, drift>>

\* mkdir -p: rows that are there keep their numbers.
CreateFolder(f) ==
    /\ app
    /\ folders' = [p \in Paths |-> IF p \in MadeWith(f)
                                   THEN [folders[p] EXCEPT !.there = TRUE, !.explicit = TRUE]
                                   ELSE folders[p]]
    /\ UNCHANGED <<app, bucket, kinds, days, cut, today, work, drift>>

\* What a request has done to the bucket and not yet to the rows.
Unbooked(r) == r.pc = "book" \/ (r.op = "move" /\ r.pc = "remove")

\* A request is given up: an error of the bucket or of Postgres, a client that
\* hung up, or a crash.
Fail(w) ==
    /\ work[w].op # ""
    /\ work' = [work EXCEPT ![w] = Over]
    /\ drift' = IF Unbooked(work[w]) THEN drift \cup {"lost"} ELSE drift
    /\ UNCHANGED <<app, bucket, folders, kinds, days, cut, today>>

\* The rows go with the app, the objects stay.
DeleteApp ==
    /\ app
    /\ app' = FALSE
    /\ folders' = [p \in Paths |-> NoRow]
    /\ kinds' = [x \in KindRows |-> NoRow]
    /\ days' = [x \in DayRows |-> NoRow]
    /\ UNCHANGED <<bucket, cut, today, work, drift>>

Midnight ==
    /\ today < MaxDay
    /\ today' = today + 1
    /\ UNCHANGED <<app, bucket, folders, kinds, days, cut, work, drift>>

Next ==
    \/ \E w \in Requests :
         \/ \E k \in Keys, x \in Contents : Put(w, k, x)
         \/ \E k \in Keys : Delete(w, k)
         \/ \E k, to \in Keys : Move(w, k, to)
         \/ Rebuild(w)
         \/ CheckTaken(w) \/ ReadSource(w) \/ Store(w) \/ Remove(w) \/ Book(w)
         \/ List(w) \/ Replace(w) \/ Fail(w)
    \/ \E f \in NewFolders : CreateFolder(f)
    \/ DeleteApp \/ Midnight

Spec == Init /\ [][Next]_vars

-----------------------------------------------------------------------------
(* One level of the tree: the objects and common prefixes of a delimiter   *)
(* listing, and the rows directly beneath.                                 *)

Beneath(k, folder) == Len(k) > Len(folder) /\ SubSeq(k, 1, Len(folder)) = folder

\* A row of an empty segment is not taken for a child.
Children(folder) ==
    {p \in Paths : folders[p].there /\ Beneath(p, folder) /\ Len(p) = Len(folder) + 1 /\ p[Len(p)] # ""}

Prefixes(folder) ==
    {SubSeq(k, 1, Len(folder) + 1) :
        k \in {k \in Stored(bucket) : Beneath(k, folder) /\ Len(k) > Len(folder) + 1}}

Objects(folder) == {k \in Stored(bucket) : Beneath(k, folder) /\ Len(k) = Len(folder) + 1}

\* The segments that are left when the slashes at an end do not count.
Named(path) == {i \in DOMAIN path : path[i] # ""}

First(I) == CHOOSE i \in I : \A j \in I : i <= j
Last(I) == CHOOSE i \in I : \A j \in I : j <= i

Trim(path) ==
    IF Named(path) = {} THEN <<>> ELSE SubSeq(path, First(Named(path)), Last(Named(path)))

\* path.Base: of f/ it is f, and of nothing a dot.
Base(path) == IF Named(path) = {} THEN "." ELSE path[Last(Named(path))]

\* A bug for TLC to find: the rows decide which folders there are.
FaultyFoldLevel(folder) ==
    [assets |-> Objects(folder),
     folders |-> [n \in {Base(p) : p \in Children(folder)} |-> folders[Append(folder, n)].count]]

\* Folders go by name.  One without a row shows with nothing in it.
FoldLevel(folder) ==
    LET rows == Children(folder) IN
    [assets |-> Objects(folder),
     folders |-> [n \in {Base(p) : p \in Prefixes(folder) \cup rows} |->
                     IF Append(folder, n) \in rows THEN folders[Append(folder, n)].count ELSE 0]]

ListFolder(path) == FoldLevel(Trim(path))

-----------------------------------------------------------------------------
(* What the rows should show: the bucket as it was before the requests in  *)
(* flight that have yet to book what they did to it.                       *)

Before(r, k) == IF r.op = "move" /\ k = r.to THEN None ELSE r.prev

Booked ==
    [k \in Keys |->
        IF \E w \in Requests : Unbooked(work[w]) /\ k \in Touched(work[w])
        THEN Before(work[CHOOSE w \in Requests : Unbooked(work[w]) /\ k \in Touched(work[w])], k)
        ELSE bucket[k]]

Agree(table, fold) ==
    \A x \in DOMAIN fold : table[x].count = fold[x].count /\ table[x].bytes = fold[x].bytes

Undisturbed(causes) == app /\ drift \cap ({"raced", "lost"} \cup causes) = {}

Under(b, folder) == {k \in Stored(b) : Beneath(k, folder)}

LeadingSlash(k) == Len(k) > 1 /\ k[1] = ""

\* The rollup of every folder is exact, and only folders that hold something or
\* were made on purpose have a row, whatever runs at once for different keys,
\* unless a request was cut short after it had changed the bucket or two overlapped
\* on a key; and a rebuild that runs alone repairs what those left.  The root, and
\* the root alone, counts a key with a leading slash twice.
FoldersAreTrue ==
    Undisturbed({}) =>
        LET all == Stored(Booked)
            slashed == {k \in all : LeadingSlash(k)} IN
        /\ \A p \in Paths \ {<<>>} :
               /\ folders[p].count = Cardinality(Under(Booked, p))
               /\ folders[p].bytes = Bytes(Booked, Under(Booked, p))
               /\ folders[p].there <=> folders[p].explicit \/ Under(Booked, p) # {}
        /\ folders[<<>>].count = Cardinality(all) + Cardinality(slashed)
        /\ folders[<<>>].bytes = Bytes(Booked, all) + Bytes(Booked, slashed)

\* So are the totals by kind, unless a write also changed the kind of an object, when
\* the row of the old kind keeps it; and the daily series since the day the last rebuild
\* cut it at, unless midnight came between the storing and the booking.
TotalsAreTrue ==
    /\ Undisturbed({"kind"}) => Agree(kinds, FoldKinds(Booked))
    /\ Undisturbed({"kind", "midnight"}) => Agree(days, FoldDays(Booked, cut))

\* A folder made on purpose hangs on folders made on purpose, up to the root.
ExplicitReachable ==
    \A p \in Paths : folders[p].explicit => folders[p].there /\
        \A q \in MadeWith(p) : folders[q].explicit

\* Neither the pruning after a delete nor a rebuild takes such a folder away: it
\* goes with the app.
ExplicitStays == [][\A p \in Paths : folders[p].explicit /\ app' => folders'[p].explicit]_vars

\* A deleted app has no rows, also when one of its requests was under way.
NoRowsWithoutApp ==
    ~app => /\ \A p \in Paths : ~folders[p].there
            /\ \A x \in KindRows : ~kinds[x].there
            /\ \A x \in DayRows : ~days[x].there

IInv == TypeOK /\ ExplicitReachable /\ NoRowsWithoutApp

\* Walking down from the root by the names each level shows meets an asset, rows or
\* no rows, as the bucket decides what exists: unless a folder in its key has no name,
\* for then the names lead elsewhere.  And while the rows are true the number shown
\* with a name is the number of assets stored under the path the name leads to.
LevelsShowAll ==
    /\ \A k \in Stored(bucket) :
           LET n == Len(k) - 1
               met == /\ \A i \in 1..n : k[i] \in DOMAIN ListFolder(SubSeq(k, 1, i - 1)).folders
                      /\ k \in ListFolder(SubSeq(k, 1, n)).assets
           IN  met <=> \A i \in 1..n : k[i] # ""
    /\ Undisturbed({}) /\ Booked = bucket =>
           \A p \in Paths : \A n \in DOMAIN ListFolder(p).folders :
               ListFolder(p).folders[n] = Cardinality(Under(bucket, Append(Trim(p), n)))

=============================================================================
