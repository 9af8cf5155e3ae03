------------------------------ MODULE Tree_proofs ------------------------------
(***************************************************************************)
(* Proofs about Tree: nothing hangs in the air and siblings differ,        *)
(* however requests overlap; and as long as the requests that could harm   *)
(* it did not overlap, collections stay a tree, names differ across the    *)
(* two tables, and the stored key of a document is its path.               *)
(***************************************************************************)
EXTENDS Tree, FiniteSetTheorems, WellFoundedInduction, SequenceTheorems, TLAPS

\* The parts of IInv, with the tables and the requests they are about as arguments,
\* so that they can be read before and after a step.
ThereIn(p, ap, cs) == IF p = Root THEN ap ELSE cs[p].row = "there"

HasRowIn(d, ds) == ds[d].row \in {"live", "tombstone"}

Rewritten(done) == {e[1] : e \in done}

KeyTakenIn(k, done, d, ds) == \E x \in Docs \ {d} :
    /\ ds[x].row = "live"
    /\ IF x \in Rewritten(done) THEN <<x, k>> \in done ELSE ds[x].key = k

FreePlace(p, n, c, cs) == \A x \in Cols \ {c} :
    ~(cs[x].row = "there" /\ cs[x].parent = p /\ cs[x].name = n)

\* Moves or renames a collection whose row it has locked; moves a locked document.
HoldsCol(r) == r.op \in {"renameCol", "moveCol"} /\ r.pc # "lock"

HoldsDoc(r) == r.op = "moveDoc" /\ r.pc # "lock"

FitsCols(r, ap, cs) ==
    /\ r.op \in {"createCol", "renameCol", "moveCol"} => r.row \in Cols
    /\ r.pc \in {"cycle", "oldpath", "newpath"} => r.at \in Cols
    /\ r.pc = "lock" => r.at = r.parent
    /\ Writing(r) => r.op \in {"renameCol", "moveCol"}
    /\ r.todo # {} \/ r.done # {} => r.pc = "rewrite"
    /\ r.op = "createCol" => cs[r.row].row = "none"
    /\ HoldsCol(r) => cs[r.row].row = "there"
    /\ r.op = "renameCol" /\ r.pc # "lock" => r.parent = cs[r.row].parent
    /\ r.op = "moveCol" /\ Writing(r) => ThereIn(r.parent, ap, cs)
    /\ Writing(r) => FreePlace(r.parent, r.name, r.row, cs)

FitsDocs(r, ds) ==
    /\ r.op \in {"createDoc", "moveDoc"} => r.row \in Docs
    /\ r.op = "createDoc" => ds[r.row].row = "none"
    /\ HoldsDoc(r) => HasRowIn(r.row, ds)
    /\ \A e \in r.done :
           HasRowIn(e[1], ds) /\ (ds[e[1]].row = "live" => ~KeyTakenIn(e[2], r.done, e[1], ds))
    /\ \A e, f \in r.todo \cup r.done : e[1] = f[1] => e = f
    /\ r.todo \cap r.done = {}

Apart(q, r, ds) ==
    /\ q.op \in {"createCol", "createDoc"} /\ q.op = r.op => q.row # r.row
    /\ HoldsCol(q) /\ HoldsCol(r) => q.row # r.row
    /\ Writing(q) /\ Writing(r) => q.parent # r.parent \/ q.name # r.name
    /\ HoldsDoc(r) => \A e \in q.done : e[1] # r.row
    /\ \A e \in q.done, f \in r.done :
           /\ e[1] # f[1]
           /\ ds[e[1]].row = "live" /\ ds[f[1]].row = "live" => e[2] # f[2]

Inv(ap, cs, ds, wk) ==
    /\ \A w \in Requests : FitsCols(wk[w], ap, cs) /\ FitsDocs(wk[w], ds)
    /\ \A v, w \in Requests : v # w => Apart(wk[v], wk[w], ds)

Parents(ap, cs, ds) ==
    /\ \A c \in Cols : cs[c].row = "there" => ThereIn(cs[c].parent, ap, cs)
    /\ \A d \in Docs : HasRowIn(d, ds) => ThereIn(ds[d].parent, ap, cs)

LEMMA Split ==
    IInv <=> TypeOK /\ Parents(app, cols, docs) /\ SiblingsDiffer /\ Inv(app, cols, docs, work)
<1>1. ParentsExist <=> Parents(app, cols, docs)
  BY DEF ParentsExist, Parents, There, ThereIn, HasRow, HasRowIn
<1>2. RequestsFit <=> \A w \in Requests : FitsCols(work[w], app, cols) /\ FitsDocs(work[w], docs)
  <2>1. \A k, r, d : KeyTaken(k, r, d) <=> KeyTakenIn(k, r.done, d, docs)
    BY DEF KeyTaken, KeyTakenIn, Rewritten
  <2>2. \A p : There(p) <=> ThereIn(p, app, cols)
    BY DEF There, ThereIn
  <2>3. \A d : HasRow(d) <=> HasRowIn(d, docs)
    BY DEF HasRow, HasRowIn
  <2> QED BY <2>1, <2>2, <2>3, Zenon DEF RequestsFit, FitsCols, FitsDocs, FreePlace, HoldsCol, HoldsDoc
<1>3. RequestsApart <=> \A v, w \in Requests : v # w => Apart(work[v], work[w], docs)
  BY Zenon DEF RequestsApart, Apart, HoldsCol, HoldsDoc
<1> QED BY <1>1, <1>2, <1>3 DEF IInv, Inv

LEMMA SplitNext ==
    IInv' <=> TypeOK' /\ Parents(app', cols', docs') /\ SiblingsDiffer' /\ Inv(app', cols', docs', work')
<1>1. ParentsExist' <=> Parents(app', cols', docs')
  BY DEF ParentsExist, Parents, There, ThereIn, HasRow, HasRowIn
<1>2. RequestsFit' <=> \A w \in Requests : FitsCols(work'[w], app', cols') /\ FitsDocs(work'[w], docs')
  BY Zenon DEF RequestsFit, FitsCols, FitsDocs, FreePlace, HoldsCol, HoldsDoc,
     KeyTaken, KeyTakenIn, Rewritten, There, ThereIn, HasRow, HasRowIn
<1>3. RequestsApart' <=> \A v, w \in Requests : v # w => Apart(work'[v], work'[w], docs')
  BY Zenon DEF RequestsApart, Apart, HoldsCol, HoldsDoc
<1> QED BY <1>1, <1>2, <1>3 DEF IInv, Inv

-----------------------------------------------------------------------------
(* One request moves and the tables stay.                                  *)

LEMMA OneRequest ==
    ASSUME IInv, NEW w \in Requests
    PROVE  work[w] \in Request /\ FitsCols(work[w], app, cols) /\ FitsDocs(work[w], docs)
BY Split DEF Inv, IInv, TypeOK

LEMMA RequestMoves ==
    ASSUME IInv, NEW w \in Requests, NEW r \in Request,
           work' = [work EXCEPT ![w] = r], raced' \subseteq Harms,
           UNCHANGED <<app, released, cols, docs>>,
           FitsCols(r, app, cols), FitsDocs(r, docs),
           \A v \in Others(w) : Apart(work[v], r, docs) /\ Apart(r, work[v], docs)
    PROVE  IInv'
<1>1. Inv(app, cols, docs, work) /\ TypeOK /\ Parents(app, cols, docs) /\ SiblingsDiffer
  BY Split
<1>2. work' \in [Requests -> Request]
      /\ \A v \in Requests : work'[v] = IF v = w THEN r ELSE work[v]
  BY <1>1 DEF TypeOK
<1>3. TypeOK' /\ Parents(app', cols', docs') /\ SiblingsDiffer'
  BY <1>1, <1>2 DEF TypeOK, SiblingsDiffer
<1>4. \A v \in Requests : FitsCols(work'[v], app, cols) /\ FitsDocs(work'[v], docs)
  BY <1>1, <1>2 DEF Inv
<1>5. \A v, x \in Requests : v # x => Apart(work'[v], work'[x], docs)
  BY <1>1, <1>2 DEF Inv, Others
<1>6. Inv(app', cols', docs', work')
  BY <1>4, <1>5 DEF Inv
<1> QED BY <1>3, <1>6, SplitNext

\* A request that has no row yet, or none any more, is in nobody's way.
LEMMA Idle ==
    ASSUME NEW r, r.op = "", r.pc \in {"new", "over"}, r.todo = {}, r.done = {}
    PROVE  FitsCols(r, app, cols) /\ FitsDocs(r, docs)
           /\ \A q : Apart(q, r, docs) /\ Apart(r, q, docs)
<1>1. ~Writing(r) /\ ~HoldsCol(r) /\ ~HoldsDoc(r)
  BY DEF Writing, HoldsCol, HoldsDoc
<1> QED BY <1>1 DEF FitsCols, FitsDocs, Apart

LEMMA OverIsIdle ==
    /\ New \in Request /\ New.op = "" /\ New.pc = "new" /\ New.todo = {} /\ New.done = {}
    /\ Over \in Request /\ Over.op = "" /\ Over.pc = "over" /\ Over.todo = {} /\ Over.done = {}
<1>1. <<>> \in Seq(STRING) /\ {} \in SUBSET (Docs \X Seq(STRING))
  OBVIOUS
<1>2. New \in Request
  BY <1>1 DEF New, Request, Places
<1>3. Over \in Request
  <2>1. Over = [New EXCEPT !.pc = "over"]
    BY DEF Over
  <2> HIDE DEF New
  <2> QED BY <1>2, <2>1 DEF Request
<1> QED BY <1>2, <1>3 DEF New, Over

LEMMA EndStep ==
    ASSUME IInv, NEW w \in Requests, Ends(w) PROVE IInv'
<1>1. raced \subseteq Harms
  BY DEF IInv, TypeOK
<1> QED BY <1>1, OverIsIdle, Idle, RequestMoves DEF Ends

\* A request moves on between its lock and its first write.
LEMMA QuietStep ==
    ASSUME IInv, NEW w \in Requests, NEW r \in Request, Goes(w, r),
           LET q == work[w] IN
           /\ r.op = q.op /\ r.row = q.row /\ r.parent = q.parent
           /\ r.todo = q.todo /\ r.done = q.done
           /\ q.pc # "lock" /\ r.pc # "lock" /\ ~Writing(q) /\ ~Writing(r),
           r.pc \in {"cycle", "oldpath", "newpath"} => r.at \in Cols
    PROVE  IInv'
<1> DEFINE q == work[w]
<1>1. FitsCols(q, app, cols) /\ FitsDocs(q, docs) /\ q.pc # "rewrite" /\ r.pc # "rewrite"
  BY OneRequest DEF Writing
<1>2. q.todo = {} /\ q.done = {}
  BY <1>1 DEF FitsCols
<1>3. (HoldsCol(r) <=> HoldsCol(q)) /\ (HoldsDoc(r) <=> HoldsDoc(q))
  BY DEF HoldsCol, HoldsDoc
<1>4. FitsCols(r, app, cols)
  BY <1>1, <1>2, <1>3 DEF FitsCols
<1>5. FitsDocs(r, docs)
  BY <1>1, <1>2, <1>3 DEF FitsDocs
<1>6. ASSUME NEW v \in Others(w) PROVE Apart(work[v], r, docs) /\ Apart(r, work[v], docs)
  <2>1. Apart(work[v], q, docs) /\ Apart(q, work[v], docs)
    BY Split DEF Inv, Others
  <2> QED BY <1>2, <1>3, <2>1 DEF Apart
<1> QED BY <1>4, <1>5, <1>6, RequestMoves DEF Goes, IInv, TypeOK

\* A new request asks for a row that no other one is creating.
LEMMA BeginKeeps ==
    ASSUME IInv, NEW w \in Requests, NEW op, NEW row, NEW p \in Places, NEW n \in Names \cup {<<>>},
           NEW pc \in {"check", "lock", "newpath"},
           Begin(w, op, row, p, n, pc),
           op \in {"createCol", "renameCol", "moveCol", "createDoc", "moveDoc"},
           op \in {"createCol", "renameCol", "moveCol"} => row \in Cols,
           op \in {"createDoc", "moveDoc"} => row \in Docs,
           op \in {"renameCol", "moveCol", "moveDoc"} => pc = "lock",
           op = "createCol" => cols[row].row = "none",
           op = "createDoc" => docs[row].row = "none",
           op \in {"createCol", "createDoc"} => \A v \in Requests : work[v].row # row,
           pc = "newpath" => p \in Cols
    PROVE  IInv'
<1> DEFINE r == [New EXCEPT !.op = op, !.row = row, !.parent = p, !.name = n, !.at = p, !.pc = pc]
<1>1. r \in Request
  <2>1. row \in Cols \cup Docs \cup {Root}
    OBVIOUS
  <2> QED BY <2>1, OverIsIdle, Zenon DEF Request
<1>2. /\ r.op = op /\ r.row = row /\ r.parent = p /\ r.name = n /\ r.at = p /\ r.pc = pc
      /\ r.todo = {} /\ r.done = {}
  BY DEF New
<1>3. work' = [work EXCEPT ![w] = r] /\ UNCHANGED <<app, released, cols, docs>>
  BY DEF Begin
<1>4. raced' \subseteq Harms
  <2>1. raced \subseteq Harms
    BY DEF IInv, TypeOK
  <2>2. \A o1, o2 : Harm(o1, o2) \subseteq Harms
    BY DEF Harm
  <2> QED BY <2>1, <2>2 DEF Begin
<1> HIDE DEF r
<1>5. ~Writing(r) /\ ~HoldsCol(r) /\ ~HoldsDoc(r)
  BY <1>2 DEF Writing, HoldsCol, HoldsDoc
<1>6. FitsCols(r, app, cols) /\ FitsDocs(r, docs)
  BY <1>2, <1>5 DEF FitsCols, FitsDocs
<1>7. \A v \in Others(w) : Apart(work[v], r, docs) /\ Apart(r, work[v], docs)
  BY <1>2, <1>5 DEF Apart, Others
<1> QED BY <1>1, <1>3, <1>4, <1>6, <1>7, RequestMoves

LEMMA BeginStep ==
    ASSUME IInv, NEW w \in Requests, Arrives(w) PROVE IInv'
<1>1. Root \in Places /\ Cols \subseteq Places /\ \A p \in Places : p # Root => p \in Cols
  BY DEF Places
<1>2. ASSUME NEW c \in Cols, NEW p \in Places, NEW n \in Names, CreateCollection(w, c, p, n)
      PROVE  IInv'
  BY <1>2, BeginKeeps DEF CreateCollection
<1>3. ASSUME NEW c \in Cols, NEW n \in Names, RenameCollection(w, c, n) PROVE IInv'
  BY <1>1, <1>3, BeginKeeps DEF RenameCollection
<1>4. ASSUME NEW c \in Cols, NEW p \in Places, MoveCollection(w, c, p) PROVE IInv'
  BY <1>4, BeginKeeps DEF MoveCollection
<1>5. ASSUME NEW d \in Docs, NEW p \in Places, NEW n \in Names, CreateDocument(w, d, p, n)
      PROVE  IInv'
  BY <1>1, <1>5, BeginKeeps DEF CreateDocument
<1>6. ASSUME NEW d \in Docs, NEW p \in Places, NEW n \in Names, MoveDocument(w, d, p, n)
      PROVE  IInv'
  BY <1>6, BeginKeeps DEF MoveDocument
<1> QED BY <1>2, <1>3, <1>4, <1>5, <1>6 DEF Arrives

-----------------------------------------------------------------------------
(* The reads of a transaction.                                             *)

Reading == {"cycle", "check", "oldpath", "newpath", "write"}

\* The request is about the same row, parent and name, and has written nothing more.
SameJob(q, r) ==
    /\ r.op = q.op /\ r.row = q.row /\ r.parent = q.parent /\ r.name = q.name
    /\ r.todo = q.todo /\ r.done = q.done

LEMMA ReadStep ==
    ASSUME IInv, NEW w \in Requests, NEW r \in Request, Goes(w, r),
           SameJob(work[w], r), work[w].pc \in Reading, r.pc \in Reading,
           r.pc \in {"cycle", "oldpath", "newpath"} => r.at \in Cols
    PROVE  IInv'
BY QuietStep DEF SameJob, Reading, Writing

LEMMA ParentIsPlace ==
    ASSUME IInv, NEW c \in Cols
    PROVE  cols[c].parent \in Places /\ (cols[c].parent # Root => cols[c].parent \in Cols)
           /\ cols[c].name \in Seq(STRING)
<1>1. cols[c] \in Collection
  BY DEF IInv, TypeOK
<1>2. <<>> \in Seq(STRING)
  OBVIOUS
<1> QED BY <1>1, <1>2, NamesAssumption DEF Collection, Places

\* What the request does once it knows a path.
LEMMA NextPathIsRead ==
    ASSUME NEW q \in Request
    PROVE  /\ NextPath(q) \in Request /\ SameJob(q, NextPath(q)) /\ NextPath(q).pc \in Reading
           /\ NextPath(q).pc \in {"cycle", "oldpath", "newpath"} => NextPath(q).at \in Cols
<1>1. Root \in Places /\ q.parent \in Places /\ (q.parent # Root => q.parent \in Cols)
  BY DEF Places, Request
<1>2. CASE q.op \in {"createDoc", "moveDoc"}
  <2> DEFINE r == [q EXCEPT !.pc = "check", !.at = Root]
  <2>1. NextPath(q) = r
    BY <1>2 DEF NextPath
  <2>2. r \in Request
    BY <1>1, Zenon DEF Request
  <2>3. SameJob(q, r) /\ r.pc = "check" /\ r.at = Root
    BY DEF Request, SameJob
  <2> HIDE DEF r
  <2> QED BY <1>1, <1>2, <2>1, <2>2, <2>3 DEF Reading
<1>3. CASE q.op = "renameCol"
  <2> DEFINE r == [q EXCEPT !.pc = "write", !.at = Root, !.new = q.old]
  <2>1. NextPath(q) = r
    BY <1>3 DEF NextPath
  <2>2. r \in Request
    <3>1. q.old \in Seq(STRING)
      BY DEF Request
    <3> QED BY <1>1, <3>1, Zenon DEF Request
  <2>3. SameJob(q, r) /\ r.pc = "write"
    BY DEF Request, SameJob
  <2> HIDE DEF r
  <2> QED BY <2>1, <2>2, <2>3 DEF Reading
<1>4. CASE q.op \notin {"createDoc", "moveDoc", "renameCol"} /\ q.pc = "oldpath" /\ q.parent # Root
  <2> DEFINE r == [q EXCEPT !.pc = "newpath", !.at = q.parent]
  <2>1. NextPath(q) = r
    BY <1>4 DEF NextPath
  <2>2. r \in Request
    BY <1>1, Zenon DEF Request
  <2>3. SameJob(q, r) /\ r.pc = "newpath" /\ r.at = q.parent
    BY DEF Request, SameJob
  <2> HIDE DEF r
  <2> QED BY <1>1, <1>4, <2>1, <2>2, <2>3 DEF Reading
<1>5. CASE q.op \notin {"createDoc", "moveDoc", "renameCol"} /\ ~(q.pc = "oldpath" /\ q.parent # Root)
  <2> DEFINE r == [q EXCEPT !.pc = "write", !.at = Root]
  <2>1. NextPath(q) = r
    BY <1>5 DEF NextPath
  <2>2. r \in Request
    BY <1>1, Zenon DEF Request
  <2>3. SameJob(q, r) /\ r.pc = "write" /\ r.at = Root
    BY DEF Request, SameJob
  <2> HIDE DEF r
  <2> QED BY <1>1, <1>5, <2>1, <2>2, <2>3 DEF Reading
<1> QED BY <1>2, <1>3, <1>4, <1>5

LEMMA CheckMoveTargetStep ==
    ASSUME IInv, NEW w \in Requests, CheckMoveTarget(w) PROVE IInv'
<1> DEFINE q == work[w]
           up == cols[q.at].parent
           pc == IF up = Root THEN "check" ELSE "cycle"
<1>1. q \in Request /\ q.pc = "cycle" /\ q.at \in Cols
  BY OneRequest DEF CheckMoveTarget, FitsCols
<1>2. CASE Ends(w)
  BY <1>2, EndStep
<1>3. CASE Goes(w, [q EXCEPT !.at = up, !.pc = pc])
  <2>1. up \in Places /\ (up # Root => up \in Cols) /\ pc \in Reading /\ q.pc \in Reading
    BY <1>1, ParentIsPlace DEF Reading
  <2> DEFINE r == [q EXCEPT !.at = up, !.pc = pc]
  <2>2. r \in Request /\ SameJob(q, r) /\ r.pc = pc /\ r.at = up
    <3>1. pc \in {"cycle", "check"}
      OBVIOUS
    <3> HIDE DEF up, pc
    <3>2. r \in Request
      BY <1>1, <2>1, <3>1, Zenon DEF Request
    <3>3. SameJob(q, r) /\ r.pc = pc /\ r.at = up
      BY <1>1 DEF Request, SameJob
    <3> QED BY <3>2, <3>3
  <2>3. Goes(w, r)
    BY <1>3
  <2> HIDE DEF r
  <2> QED BY <1>1, <2>1, <2>2, <2>3, ReadStep DEF pc, q
<1> QED BY <1>2, <1>3 DEF CheckMoveTarget

LEMMA PathOfStep ==
    ASSUME IInv, NEW w \in Requests, PathOf(w) PROVE IInv'
<1> DEFINE q == work[w]
           c == cols[q.at]
           grown == IF q.pc = "oldpath" THEN [q EXCEPT !.old = c.name \o q.old, !.at = c.parent]
                                        ELSE [q EXCEPT !.new = c.name \o q.new, !.at = c.parent]
<1>1. q \in Request /\ q.pc \in {"oldpath", "newpath"} /\ q.at \in Cols /\ q.pc \in Reading
  BY OneRequest DEF PathOf, FitsCols, Reading
<1>2. c.parent \in Places /\ (c.parent # Root => c.parent \in Cols) /\ c.name \in Seq(STRING)
  BY <1>1, ParentIsPlace
<1>3. grown \in Request /\ SameJob(q, grown) /\ grown.pc = q.pc /\ grown.at = c.parent
  <2>1. CASE q.pc = "oldpath"
    <3> DEFINE o == c.name \o q.old
               r == [q EXCEPT !.old = o, !.at = c.parent]
    <3>1. o \in Seq(STRING)
      <4>1. q.old \in Seq(STRING)
        BY <1>1 DEF Request
      <4> HIDE DEF q, c, grown
      <4> QED BY <1>2, <4>1
    <3>2. grown = r
      BY <2>1
    <3> HIDE DEF o
    <3>3. r \in Request
      BY <1>1, <1>2, <3>1, Zenon DEF Request
    <3>4. SameJob(q, r) /\ r.pc = q.pc /\ r.at = c.parent
      BY <1>1 DEF Request, SameJob
    <3> HIDE DEF r, grown
    <3> QED BY <3>2, <3>3, <3>4
  <2>2. CASE q.pc = "newpath"
    <3> DEFINE o == c.name \o q.new
               r == [q EXCEPT !.new = o, !.at = c.parent]
    <3>1. o \in Seq(STRING)
      <4>1. q.new \in Seq(STRING)
        BY <1>1 DEF Request
      <4> HIDE DEF q, c, grown
      <4> QED BY <1>2, <4>1
    <3>2. grown = r
      BY <2>2
    <3> HIDE DEF o
    <3>3. r \in Request
      BY <1>1, <1>2, <3>1, Zenon DEF Request
    <3>4. SameJob(q, r) /\ r.pc = q.pc /\ r.at = c.parent
      BY <1>1 DEF Request, SameJob
    <3> HIDE DEF r, grown
    <3> QED BY <3>2, <3>3, <3>4
  <2> QED BY <1>1, <2>1, <2>2
<1>4. \/ Ends(w)
      \/ Goes(w, NextPath(grown))
      \/ c.parent # Root /\ Goes(w, grown)
      \/ c.parent # Root /\ Goes(w, [q EXCEPT !.at = c.parent])
  BY DEF PathOf
<1> HIDE DEF grown
<1>5. CASE Goes(w, NextPath(grown))
  <2>1. SameJob(q, NextPath(grown))
    BY <1>3, NextPathIsRead DEF SameJob
  <2> QED BY <1>1, <1>3, <1>5, <2>1, NextPathIsRead, ReadStep
<1>6. CASE c.parent # Root /\ Goes(w, grown)
  BY <1>1, <1>2, <1>3, <1>6, ReadStep
<1>7. CASE c.parent # Root /\ Goes(w, [q EXCEPT !.at = c.parent])
  <2> DEFINE r == [q EXCEPT !.at = c.parent]
  <2>1. r \in Request /\ SameJob(q, r) /\ r.pc = q.pc /\ r.at = c.parent
    BY <1>1, <1>2 DEF Request, SameJob
  <2> HIDE DEF r
  <2>2. Goes(w, r)
    BY <1>7 DEF r
  <2> QED BY <1>1, <1>2, <1>7, <2>1, <2>2, ReadStep
<1> QED BY <1>4, <1>5, <1>6, <1>7, EndStep

LEMMA CheckSiblingStep ==
    ASSUME IInv, NEW w \in Requests, CheckSiblingDocument(w) \/ CheckSiblingCollection(w)
    PROVE  IInv'
<1> DEFINE q == work[w]
<1>1. q \in Request /\ q.pc = "check" /\ q.pc \in Reading /\ FitsCols(q, app, cols)
  BY OneRequest DEF CheckSiblingDocument, CheckSiblingCollection, Reading
<1>2. Root \in Places /\ Cols \subseteq Places
  BY DEF Places
<1>3. CASE CheckSiblingCollection(w)
  <2> DEFINE r == [q EXCEPT !.pc = "write"]
  <2>1. Ends(w) \/ Goes(w, r)
    BY <1>3 DEF CheckSiblingCollection
  <2>2. r \in Request /\ SameJob(q, r) /\ r.pc = "write"
    BY <1>1 DEF Request, SameJob
  <2> HIDE DEF r
  <2>3. CASE Goes(w, r)
    BY <1>1, <2>2, <2>3, ReadStep DEF Reading
  <2> QED BY <2>1, <2>3, EndStep
<1>4. CASE CheckSiblingDocument(w)
  <2> DEFINE from == IF q.op = "createCol" THEN Root ELSE cols[q.row].parent
             r1 == [q EXCEPT !.pc = "write", !.at = Root]
             r2 == [q EXCEPT !.pc = "oldpath"]
             r3 == [q EXCEPT !.pc = "oldpath", !.at = from]
  <2>1. \/ Ends(w) \/ Goes(w, r1) \/ Goes(w, NextPath(r2))
        \/ q.op # "createCol" /\ from # Root /\ Goes(w, r3)
    BY <1>4 DEF CheckSiblingDocument
  <2>2. q.op # "createCol" /\ from # Root => from \in Cols
    BY <1>1, <1>4, ParentIsPlace DEF CheckSiblingDocument, FitsCols
  <2>3. CASE Goes(w, r1)
    <3>1. r1 \in Request
      BY <1>1, <1>2, Zenon DEF Request
    <3>2. SameJob(q, r1) /\ r1.pc = "write"
      BY <1>1 DEF Request, SameJob
    <3> HIDE DEF r1
    <3> QED BY <1>1, <2>3, <3>1, <3>2, ReadStep DEF Reading
  <2>4. CASE Goes(w, NextPath(r2))
    <3>1. r2 \in Request /\ SameJob(q, r2)
      BY <1>1 DEF Request, SameJob
    <3> HIDE DEF r2
    <3>2. SameJob(q, NextPath(r2))
      BY <3>1, NextPathIsRead DEF SameJob
    <3> QED BY <1>1, <2>4, <3>1, <3>2, NextPathIsRead, ReadStep
  <2>5. CASE q.op # "createCol" /\ from # Root /\ Goes(w, r3)
    <3> HIDE DEF from
    <3>1. r3 \in Request
      BY <1>1, <1>2, <2>2, <2>5, Zenon DEF Request
    <3>2. SameJob(q, r3) /\ r3.pc = "oldpath" /\ r3.at = from
      BY <1>1 DEF Request, SameJob
    <3> HIDE DEF r3
    <3> QED BY <1>1, <2>2, <2>5, <3>1, <3>2, ReadStep DEF Reading
  <2> QED BY <2>1, <2>3, <2>4, <2>5, EndStep
<1> QED BY <1>3, <1>4

-----------------------------------------------------------------------------
(* Locks.                                                                  *)

\* The row of a collection is taken by one request at a time.
LEMMA LockKeeps ==
    ASSUME IInv, NEW w \in Requests, NEW r \in Request, Goes(w, r),
           LET q == work[w] IN
           /\ q.pc = "lock" /\ r.pc \in {"check", "cycle"} /\ q.op \in {"renameCol", "moveCol"}
           /\ r.op = q.op /\ r.row = q.row /\ r.todo = q.todo /\ r.done = q.done
           /\ cols[q.row].row = "there"
           /\ ~Locked(q.row, Others(w)),
           r.op = "renameCol" => r.parent = cols[r.row].parent,
           r.pc = "cycle" => r.at \in Cols
    PROVE  IInv'
<1> DEFINE q == work[w]
<1>1. FitsCols(q, app, cols) /\ FitsDocs(q, docs) /\ q.todo = {} /\ q.done = {}
  BY OneRequest DEF FitsCols
<1>2. ~Writing(r) /\ ~HoldsDoc(r) /\ ~Writing(q)
  BY DEF Writing, HoldsDoc
<1>3. FitsCols(r, app, cols) /\ FitsDocs(r, docs)
  BY <1>1, <1>2 DEF FitsCols, FitsDocs, HoldsCol
<1>4. \A v \in Others(w) : Apart(work[v], r, docs) /\ Apart(r, work[v], docs)
  BY <1>1, <1>2 DEF Apart, Locked, HoldsCol
<1> QED BY <1>3, <1>4, RequestMoves DEF Goes, IInv, TypeOK

LEMMA LockCollectionStep ==
    ASSUME IInv, NEW w \in Requests, LockCollection(w) PROVE IInv'
<1> DEFINE q == work[w]
           c == cols[q.row]
           r1 == [q EXCEPT !.pc = "check", !.parent = c.parent]
           pc == IF q.parent = Root THEN "check" ELSE "cycle"
           r2 == [q EXCEPT !.pc = pc, !.name = c.name]
<1>1. /\ q \in Request /\ q.pc = "lock" /\ q.op \in {"renameCol", "moveCol"}
      /\ ~Locked(q.row, Others(w)) /\ q.row \in Cols /\ FitsCols(q, app, cols)
  BY OneRequest DEF LockCollection, FitsCols
<1>2. c \in Collection
  BY <1>1 DEF IInv, TypeOK
<1>3. \/ Ends(w)
      \/ c.row = "there" /\ q.op = "renameCol" /\ Goes(w, r1)
      \/ c.row = "there" /\ q.op = "moveCol" /\ Goes(w, r2)
  <2>1. CASE c.row # "there"
    BY <2>1, Zenon DEF LockCollection
  <2>2. CASE c.row = "there" /\ q.op = "renameCol"
    BY <2>2, Zenon DEF LockCollection
  <2>3. CASE c.row = "there" /\ q.op # "renameCol"
    BY <1>1, <2>3, Zenon DEF LockCollection
  <2> QED BY <2>1, <2>2, <2>3
<1>4. CASE c.row = "there" /\ q.op = "renameCol" /\ Goes(w, r1)
  <2>1. r1 \in Request
    <3>1. c.parent \in Places
      BY <1>2 DEF Collection
    <3> QED BY <1>1, <3>1, Zenon DEF Request
  <2>2. /\ r1.pc = "check" /\ r1.op = q.op /\ r1.row = q.row /\ r1.todo = q.todo
        /\ r1.done = q.done /\ r1.parent = c.parent
    BY <1>1 DEF Request
  <2> HIDE DEF r1
  <2> QED BY <1>1, <1>4, <2>1, <2>2, LockKeeps
<1>5. CASE c.row = "there" /\ q.op = "moveCol" /\ Goes(w, r2)
  <2>1. r2 \in Request
    <3>1. c.name \in Names \cup {<<>>}
      BY <1>2 DEF Collection
    <3>2. pc \in {"check", "cycle"}
      OBVIOUS
    <3> HIDE DEF pc
    <3> QED BY <1>1, <3>1, <3>2, Zenon DEF Request
  <2>2. /\ r2.pc \in {"check", "cycle"} /\ r2.op = q.op /\ r2.row = q.row /\ r2.todo = q.todo
        /\ r2.done = q.done /\ r2.at = q.at
    BY <1>1 DEF Request
  <2>3. r2.pc = "cycle" => r2.at \in Cols
    <3>1. q.parent # Root => q.parent \in Cols
      BY <1>1 DEF Request, Places
    <3>2. r2.pc = pc
      BY <1>1 DEF Request
    <3> QED BY <1>1, <2>2, <3>1, <3>2 DEF FitsCols
  <2> HIDE DEF r2
  <2> QED BY <1>1, <1>5, <2>1, <2>2, <2>3, LockKeeps
<1> QED BY <1>3, <1>4, <1>5, EndStep

\* The row of a document is taken while no rewrite holds it.
LEMMA LockDocumentStep ==
    ASSUME IInv, NEW w \in Requests, LockDocument(w) PROVE IInv'
<1> DEFINE q == work[w]
           pc == IF q.parent = Root THEN "check" ELSE "newpath"
           r == [q EXCEPT !.pc = pc]
<1>1. /\ q \in Request /\ q.pc = "lock" /\ q.op = "moveDoc" /\ ~Held(q.row, Others(w))
      /\ FitsCols(q, app, cols) /\ FitsDocs(q, docs) /\ q.todo = {} /\ q.done = {}
  BY OneRequest DEF LockDocument, FitsCols
<1>2. Ends(w) \/ (HasRowIn(q.row, docs) /\ Goes(w, r))
  BY DEF LockDocument, HasRow, HasRowIn
<1>3. CASE HasRowIn(q.row, docs) /\ Goes(w, r)
  <2>1. pc \in {"check", "newpath"} /\ (pc = "newpath" => q.at \in Cols)
    <3>1. q.parent # Root => q.parent \in Cols
      BY <1>1 DEF Request, Places
    <3> QED BY <1>1, <3>1 DEF FitsCols
  <2> HIDE DEF pc
  <2>2. /\ r \in Request /\ r.pc = pc /\ r.at = q.at /\ r.op = q.op /\ r.row = q.row
        /\ r.todo = {} /\ r.done = {}
    BY <1>1, <2>1 DEF Request
  <2> HIDE DEF r
  <2>3. ~Writing(r) /\ ~HoldsCol(r) /\ HoldsDoc(r)
    BY <1>1, <2>1, <2>2 DEF Writing, HoldsCol, HoldsDoc
  <2>4. FitsCols(r, app, cols) /\ FitsDocs(r, docs)
    BY <1>1, <1>3, <2>1, <2>2, <2>3 DEF FitsCols, FitsDocs
  <2>5. \A v \in Others(w) : \A e \in work[v].done : e[1] # r.row
    BY <1>1, <2>2 DEF Held
  <2>6. \A v \in Others(w) : Apart(work[v], r, docs) /\ Apart(r, work[v], docs)
    BY <1>1, <2>2, <2>3, <2>5 DEF Apart
  <2> QED BY <1>3, <2>2, <2>4, <2>6, RequestMoves DEF Goes, IInv, TypeOK
<1> QED BY <1>2, <1>3, EndStep

-----------------------------------------------------------------------------
(* The writes that a transaction keeps to itself.                          *)

LEMMA WriteCollectionStep ==
    ASSUME IInv, NEW w \in Requests, WriteCollection(w) PROVE IInv'
<1> DEFINE q == work[w]
           old == q.old \o cols[q.row].name
           new == q.new \o q.name
           r == [q EXCEPT !.pc = "scan", !.old = old, !.new = new]
<1>1. /\ q \in Request /\ q.pc = "write" /\ q.op \in {"renameCol", "moveCol"} /\ q.row \in Cols
      /\ ~PlacePending(q.parent, q.name, Others(w))
      /\ FitsCols(q, app, cols) /\ FitsDocs(q, docs) /\ q.todo = {} /\ q.done = {}
  BY OneRequest DEF WriteCollection, FitsCols
<1>2. Ends(w) \/ (Allowed(q) /\ ~CollectionAt(q.parent, q.name) /\ Goes(w, r))
  BY DEF WriteCollection
<1>3. CASE Allowed(q) /\ ~CollectionAt(q.parent, q.name) /\ Goes(w, r)
  <2>1. old \in Seq(STRING) /\ new \in Seq(STRING)
    <3>1. cols[q.row].name \in Seq(STRING)
      BY <1>1, ParentIsPlace
    <3>2. q.old \in Seq(STRING) /\ q.new \in Seq(STRING) /\ q.name \in Names \cup {<<>>}
      BY <1>1 DEF Request
    <3>3. <<>> \in Seq(STRING)
      OBVIOUS
    <3>4. q.name \in Seq(STRING)
      BY <3>2, <3>3, NamesAssumption
    <3> HIDE DEF q
    <3> QED BY <3>1, <3>2, <3>4
  <2> HIDE DEF old, new
  <2>2. r \in Request
    BY <1>1, <2>1, Zenon DEF Request
  <2>3. /\ r.pc = "scan" /\ r.op = q.op /\ r.row = q.row /\ r.parent = q.parent /\ r.name = q.name
        /\ r.todo = {} /\ r.done = {}
    BY <1>1 DEF Request
  <2> HIDE DEF r
  <2>4. Writing(r) /\ ~Writing(q) /\ HoldsCol(r) /\ HoldsCol(q) /\ ~HoldsDoc(r)
    BY <1>1, <2>3 DEF Writing, HoldsCol, HoldsDoc
  <2>5. FreePlace(r.parent, r.name, r.row, cols)
    BY <1>3, <2>3 DEF CollectionAt, FreePlace
  <2>6. r.op = "moveCol" => ThereIn(r.parent, app, cols)
    BY <1>3, <2>3 DEF Allowed, Refers, There, ThereIn
  <2>7. FitsCols(r, app, cols) /\ FitsDocs(r, docs)
    BY <1>1, <2>3, <2>4, <2>5, <2>6 DEF FitsCols, FitsDocs
  <2>8. ASSUME NEW v \in Others(w) PROVE Apart(work[v], r, docs) /\ Apart(r, work[v], docs)
    <3>1. Apart(work[v], q, docs) /\ Apart(q, work[v], docs)
      BY Split DEF Inv, Others
    <3>2. Writing(work[v]) => work[v].parent # r.parent \/ work[v].name # r.name
      BY <1>1, <2>3 DEF PlacePending
    <3> QED BY <1>1, <2>3, <2>4, <3>1, <3>2 DEF Apart
  <2> QED BY <1>3, <2>2, <2>7, <2>8, RequestMoves DEF Goes, IInv, TypeOK
<1> QED BY <1>2, <1>3, EndStep

LEMMA ScanKeysStep ==
    ASSUME IInv, NEW w \in Requests, ScanKeys(w) PROVE IInv'
<1> DEFINE q == work[w]
           below == {d \in Docs : HasRow(d) /\ Under(q.old, docs[d].key)}
           moved(d) == q.new \o SubSeq(docs[d].key, Len(q.old) + 1, Len(docs[d].key))
           todo == IF q.old = q.new THEN {} ELSE {<<d, moved(d)>> : d \in below}
           r == [q EXCEPT !.pc = "rewrite", !.todo = todo]
<1>1. /\ q \in Request /\ q.pc = "scan" /\ Goes(w, r)
      /\ FitsCols(q, app, cols) /\ FitsDocs(q, docs) /\ q.todo = {} /\ q.done = {}
  BY OneRequest DEF ScanKeys, FitsCols
<1>2. todo \in SUBSET (Docs \X Seq(STRING)) /\ \A e, f \in todo : e[1] = f[1] => e = f
  <2>1. ASSUME NEW d \in below PROVE moved(d) \in Seq(STRING)
    <3>1. docs[d].key \in Seq(STRING) /\ q.old \in Seq(STRING) /\ q.new \in Seq(STRING)
      BY <1>1 DEF IInv, TypeOK, Document, Request
    <3>2. Len(q.old) \in Nat /\ Len(docs[d].key) \in Nat /\ Len(q.old) + 1 \in 1..Len(docs[d].key)
      BY <2>1, <3>1 DEF Under
    <3> DEFINE key == docs[d].key
               a == Len(q.old) + 1
    <3>3. key \in Seq(STRING) /\ a \in 1..Len(key)
      BY <3>1, <3>2
    <3>4. SubSeq(key, a, Len(key)) \in Seq(STRING)
      <4> HIDE DEF key, a
      <4> QED BY <3>3
    <3> DEFINE t == SubSeq(key, a, Len(key))
               p == q.new
    <3>5. t \in Seq(STRING) /\ p \in Seq(STRING)
      BY <3>1, <3>4
    <3>6. p \o t \in Seq(STRING)
      <4> HIDE DEF t, p
      <4> QED BY <3>5
    <3> QED BY <3>6
  <2> HIDE DEF moved
  <2>2. below \subseteq Docs
    OBVIOUS
  <2> HIDE DEF below
  <2> QED BY <2>1, <2>2
<1> HIDE DEF todo
<1>3. r \in Request
  BY <1>1, <1>2, Zenon DEF Request
<1>4. /\ r.pc = "rewrite" /\ r.op = q.op /\ r.row = q.row /\ r.parent = q.parent /\ r.name = q.name
      /\ r.todo = todo /\ r.done = {}
  BY <1>1 DEF Request
<1> HIDE DEF r
<1>5. Writing(r) /\ Writing(q) /\ (HoldsCol(r) <=> HoldsCol(q)) /\ ~HoldsDoc(r) /\ HoldsCol(q)
  BY <1>1, <1>4 DEF Writing, HoldsCol, HoldsDoc, FitsCols
<1>6. FitsCols(r, app, cols)
  BY <1>1, <1>4, <1>5 DEF FitsCols
<1>7. FitsDocs(r, docs)
  BY <1>1, <1>2, <1>4, <1>5 DEF FitsDocs
<1>8. ASSUME NEW v \in Others(w) PROVE Apart(work[v], r, docs) /\ Apart(r, work[v], docs)
  <2>1. Apart(work[v], q, docs) /\ Apart(q, work[v], docs)
    BY Split DEF Inv, Others
  <2> QED BY <1>1, <1>4, <1>5, <2>1 DEF Apart
<1> QED BY <1>1, <1>3, <1>6, <1>7, <1>8, RequestMoves DEF Goes, IInv, TypeOK

\* A key that is rewritten is free, as the transaction sees it and as the others do.
LEMMA RewriteKeyStep ==
    ASSUME IInv, NEW w \in Requests, RewriteKey(w) PROVE IInv'
<1> DEFINE q == work[w]
<1>1. /\ q \in Request /\ q.pc = "rewrite" /\ FitsCols(q, app, cols) /\ FitsDocs(q, docs)
  BY OneRequest DEF RewriteKey
<1>2. PICK e \in q.todo :
        /\ ~Held(e[1], Others(w))
        /\ docs[e[1]].row = "live" => ~KeyPending(e[2], Others(w))
        /\ \/ Ends(w)
           \/ /\ HasRowIn(e[1], docs)
              /\ docs[e[1]].row = "live" => ~KeyTakenIn(e[2], q.done, e[1], docs)
              /\ Goes(w, [q EXCEPT !.todo = q.todo \ {e}, !.done = q.done \cup {e}])
  BY DEF RewriteKey, HasRow, HasRowIn, KeyTaken, KeyTakenIn, Rewritten
<1> DEFINE todo == q.todo \ {e}
           done == q.done \cup {e}
           r == [q EXCEPT !.todo = todo, !.done = done]
<1>3. CASE /\ HasRowIn(e[1], docs)
           /\ docs[e[1]].row = "live" => ~KeyTakenIn(e[2], q.done, e[1], docs)
           /\ Goes(w, r)
  <2>1. /\ todo \in SUBSET (Docs \X Seq(STRING)) /\ done \in SUBSET (Docs \X Seq(STRING))
        /\ todo \cup done = q.todo \cup q.done /\ todo \cap done = {}
        /\ e \in Docs \X Seq(STRING) /\ \A f \in q.done : f[1] # e[1]
    <3>1. /\ q.todo \in SUBSET (Docs \X Seq(STRING)) /\ q.done \in SUBSET (Docs \X Seq(STRING))
          /\ q.todo \cap q.done = {}
          /\ \A f, g \in q.todo \cup q.done : f[1] = g[1] => f = g
      BY <1>1 DEF Request, FitsDocs
    <3> HIDE DEF q
    <3> QED BY <1>2, <3>1
  <2> HIDE DEF todo, done
  <2>2. r \in Request
    BY <1>1, <2>1, Zenon DEF Request
  <2>3. /\ r.pc = "rewrite" /\ r.op = q.op /\ r.row = q.row /\ r.parent = q.parent /\ r.name = q.name
        /\ r.todo = todo /\ r.done = done
    BY <1>1 DEF Request
  <2> HIDE DEF r
  <2>4. Writing(r) /\ Writing(q) /\ (HoldsCol(r) <=> HoldsCol(q)) /\ ~HoldsDoc(r) /\ HoldsCol(q)
    BY <1>1, <2>3 DEF Writing, HoldsCol, HoldsDoc, FitsCols
  <2>5. FitsCols(r, app, cols)
    BY <1>1, <2>3, <2>4 DEF FitsCols
  <2>6. done = q.done \cup {e}
    BY DEF done
  <2>7. ASSUME NEW f \in done
        PROVE  HasRowIn(f[1], docs) /\ (docs[f[1]].row = "live" => ~KeyTakenIn(f[2], done, f[1], docs))
    <3>1. HasRowIn(f[1], docs)
      BY <1>1, <1>3, <2>6 DEF FitsDocs
    <3>2. ASSUME NEW x \in Docs \ {f[1]}, docs[f[1]].row = "live", docs[x].row = "live",
                 IF x \in Rewritten(done) THEN <<x, f[2]>> \in done ELSE docs[x].key = f[2]
          PROVE  FALSE
      <4>1. f[1] \in Docs /\ f = <<f[1], f[2]>>
        BY <2>1, <2>6
      <4>2. CASE f = e
        <5>1. x \in Rewritten(done) <=> x \in Rewritten(q.done)
          BY <2>6, <3>2, <4>2 DEF Rewritten
        <5>2. <<x, e[2]>> \in done => <<x, e[2]>> \in q.done
          BY <2>6, <3>2, <4>2
        <5> QED BY <1>3, <3>2, <4>2, <5>1, <5>2 DEF KeyTakenIn
      <4>3. CASE f \in q.done /\ x = e[1]
        <5>1. x \in Rewritten(done) /\ <<x, f[2]>> \in done
          BY <2>6, <3>2, <4>3 DEF Rewritten
        <5>2. <<x, f[2]>> \notin q.done
          BY <2>1, <4>3
        <5>3. f[2] = e[2]
          BY <2>6, <5>1, <5>2
        <5>4. f[1] \in Docs \ {e[1]} /\ f[1] \in Rewritten(q.done) /\ <<f[1], e[2]>> \in q.done
          BY <2>1, <4>1, <4>3, <5>3 DEF Rewritten
        <5> QED BY <1>3, <3>2, <4>3, <5>4 DEF KeyTakenIn
      <4>4. CASE f \in q.done /\ x # e[1]
        <5>1. x \in Rewritten(done) <=> x \in Rewritten(q.done)
          BY <2>6, <4>4 DEF Rewritten
        <5>2. <<x, f[2]>> \in done => <<x, f[2]>> \in q.done
          BY <2>6, <4>4
        <5>3. ~KeyTakenIn(f[2], q.done, f[1], docs)
          BY <1>1, <3>2, <4>4 DEF FitsDocs
        <5> QED BY <3>2, <5>1, <5>2, <5>3 DEF KeyTakenIn
      <4> QED BY <2>6, <4>2, <4>3, <4>4
    <3> QED BY <3>1, <3>2 DEF KeyTakenIn
  <2>8. FitsDocs(r, docs)
    <3>1. \A f, g \in todo \cup done : f[1] = g[1] => f = g
      BY <1>1, <2>1 DEF FitsDocs
    <3> QED BY <1>1, <2>1, <2>3, <2>4, <2>7, <3>1 DEF FitsDocs
  <2>9. ASSUME NEW v \in Others(w) PROVE Apart(work[v], r, docs) /\ Apart(r, work[v], docs)
    <3> DEFINE y == work[v]
    <3>1. Apart(y, q, docs) /\ Apart(q, y, docs)
      BY Split DEF Inv, Others
    <3>2. HoldsDoc(y) => e[1] # y.row
      BY <1>2 DEF Held, HoldsDoc
    <3>3. \A f \in y.done : e[1] # f[1]
      BY <1>2 DEF Held
    <3>4. \A f \in y.done : docs[e[1]].row = "live" /\ docs[f[1]].row = "live" => e[2] # f[2]
      BY <1>2 DEF KeyPending
    <3> HIDE DEF y
    <3>5. Apart(y, r, docs)
      BY <2>3, <2>4, <2>6, <3>1, <3>2, <3>3, <3>4 DEF Apart
    <3>6. Apart(r, y, docs)
      BY <2>3, <2>4, <2>6, <3>1, <3>2, <3>3, <3>4 DEF Apart
    <3> QED BY <3>5, <3>6 DEF y
  <2> QED BY <1>3, <2>2, <2>5, <2>8, <2>9, RequestMoves DEF Goes, IInv, TypeOK
<1> QED BY <1>2, <1>3, EndStep

-----------------------------------------------------------------------------
(* The tables change.                                                      *)

\* Request w ends with its write; the others find what they rely on.
LEMMA CommitKeeps ==
    ASSUME IInv, NEW w \in Requests, work' = [work EXCEPT ![w] = Over],
           TypeOK', Parents(app', cols', docs'), SiblingsDiffer',
           \A v \in Others(w) : FitsCols(work[v], app', cols') /\ FitsDocs(work[v], docs'),
           \A v \in Others(w) : \A e \in work[v].done : docs'[e[1]].row = docs[e[1]].row
    PROVE  IInv'
<1>1. work'[w] = Over /\ \A v \in Others(w) : work'[v] = work[v]
  BY DEF IInv, TypeOK, Others
<1>2. ~Writing(Over) /\ ~HoldsCol(Over) /\ ~HoldsDoc(Over)
  BY OverIsIdle DEF Writing, HoldsCol, HoldsDoc
<1>3. FitsCols(Over, app', cols') /\ FitsDocs(Over, docs')
  BY <1>2, OverIsIdle DEF FitsCols, FitsDocs
<1>4. \A q : Apart(q, Over, docs') /\ Apart(Over, q, docs')
  BY <1>2, OverIsIdle DEF Apart
<1>5. ASSUME NEW v \in Others(w), NEW x \in Others(w), v # x
      PROVE  Apart(work[v], work[x], docs')
  <2>1. Apart(work[v], work[x], docs)
    BY <1>5, Split DEF Inv, Others
  <2> QED BY <2>1 DEF Apart
<1>6. \A v \in Requests : FitsCols(work'[v], app', cols') /\ FitsDocs(work'[v], docs')
  BY <1>1, <1>3 DEF Others
<1>7. \A v, x \in Requests : v # x => Apart(work'[v], work'[x], docs')
  BY <1>1, <1>4, <1>5 DEF Others
<1> QED BY <1>6, <1>7, SplitNext DEF Inv

\* A statement of no request.
LEMMA TableKeeps ==
    ASSUME IInv, work' = work,
           TypeOK', Parents(app', cols', docs'), SiblingsDiffer',
           \A v \in Requests : FitsCols(work[v], app', cols') /\ FitsDocs(work[v], docs'),
           \A v \in Requests : \A e \in work[v].done : docs'[e[1]].row = docs[e[1]].row
    PROVE  IInv'
<1>1. ASSUME NEW v \in Requests, NEW x \in Requests, v # x
      PROVE  Apart(work[v], work[x], docs')
  <2>1. Apart(work[v], work[x], docs)
    BY <1>1, Split DEF Inv
  <2> QED BY <2>1 DEF Apart
<1> QED BY <1>1, SplitNext DEF Inv

\* What the requests other than w rely on.
LEMMA OthersFit ==
    ASSUME IInv, NEW w \in Requests, NEW v \in Others(w)
    PROVE  /\ v \in Requests /\ work[v] \in Request
           /\ FitsCols(work[v], app, cols) /\ FitsDocs(work[v], docs)
           /\ Apart(work[v], work[w], docs) /\ Apart(work[w], work[v], docs)
<1>1. v \in Requests /\ v # w
  BY DEF Others
<1> QED BY <1>1, OneRequest, Split DEF Inv

LEMMA InsertCollectionStep ==
    ASSUME IInv, NEW w \in Requests, InsertCollection(w) PROVE IInv'
<1> DEFINE q == work[w]
           c == q.row
           new == [row |-> "there", parent |-> q.parent, name |-> q.name]
<1>1. /\ q \in Request /\ q.pc = "write" /\ q.op = "createCol" /\ c \in Cols
      /\ cols[c].row = "none" /\ ~PlacePending(q.parent, q.name, Others(w))
  BY OneRequest DEF InsertCollection, FitsCols
<1>2. CASE Ends(w)
  BY <1>2, EndStep
<1>3. CASE /\ Allowed(q) /\ ~CollectionAt(q.parent, q.name)
           /\ cols' = [cols EXCEPT ![c] = new]
           /\ work' = [work EXCEPT ![w] = Over]
           /\ UNCHANGED <<app, released, docs, raced>>
  <2>1. new \in Collection
    BY <1>1 DEF Request, Collection
  <2>2. cols' \in [Cols -> Collection] /\ \A x \in Cols : cols'[x] = IF x = c THEN new ELSE cols[x]
    BY <1>1, <1>3, <2>1 DEF IInv, TypeOK
  <2>3. TypeOK'
    <3>1. work' \in [Requests -> Request]
      BY <1>3, OverIsIdle DEF IInv, TypeOK
    <3> QED BY <1>3, <2>2, <3>1 DEF IInv, TypeOK
  <2>4. \A p \in Places : ThereIn(p, app, cols) => ThereIn(p, app', cols')
    BY <1>3, <2>2, RootAssumption DEF ThereIn, Places
  <2>5. Parents(app', cols', docs')
    <3>1. Parents(app, cols, docs)
      BY Split
    <3>2. ThereIn(q.parent, app, cols) /\ q.parent \in Places
      BY <1>1, <1>3 DEF Allowed, Refers, There, ThereIn, Request
    <3>3. /\ \A x \in Cols : cols[x].parent \in Places
          /\ \A d \in Docs : docs[d].parent \in Places
      BY DEF IInv, TypeOK, Collection, Document
    <3> QED BY <1>3, <2>2, <2>4, <3>1, <3>2, <3>3 DEF Parents
  <2>6. SiblingsDiffer'
    BY <1>3, <2>2 DEF IInv, SiblingsDiffer, CollectionAt
  <2>7. ASSUME NEW v \in Others(w) PROVE FitsCols(work[v], app', cols') /\ FitsDocs(work[v], docs')
    <3> DEFINE y == work[v]
    <3>1. y \in Request /\ FitsCols(y, app, cols) /\ FitsDocs(y, docs) /\ Apart(y, q, docs)
      BY OthersFit
    <3>2. y.op = "createCol" \/ HoldsCol(y) => y.row \in Cols /\ cols'[y.row] = cols[y.row]
      BY <1>1, <2>2, <3>1 DEF FitsCols, Apart, HoldsCol
    <3>3. Writing(y) => FreePlace(y.parent, y.name, y.row, cols')
      <4>1. Writing(y) => y.parent # q.parent \/ y.name # q.name
        BY <1>1 DEF PlacePending
      <4> QED BY <2>2, <3>1, <4>1 DEF FitsCols, FreePlace
    <3>4. y.parent \in Places
      BY <3>1 DEF Request
    <3>5. y.op = "renameCol" /\ y.pc # "lock" => HoldsCol(y)
      BY DEF HoldsCol
    <3> HIDE DEF y
    <3>6. FitsCols(y, app', cols')
      BY <1>3, <2>4, <3>1, <3>2, <3>3, <3>4, <3>5 DEF FitsCols
    <3> QED BY <1>3, <3>1, <3>6 DEF y
  <2> QED BY <1>3, <2>3, <2>5, <2>6, <2>7, CommitKeeps
<1> QED BY <1>2, <1>3 DEF InsertCollection

\* A rewritten document has the key its request wrote; everything else of it stays.
LEMMA CommitWrites ==
    ASSUME IInv, NEW w \in Requests, CommitCollection(w)
    PROVE  LET q == work[w] IN
           /\ cols' \in [Cols -> Collection] /\ docs' \in [Docs -> Document]
           /\ \A x \in Cols : cols'[x].row = cols[x].row
           /\ \A x \in Cols \ {q.row} : cols'[x] = cols[x]
           /\ q.row \in Cols => cols'[q.row].parent = q.parent /\ cols'[q.row].name = q.name
           /\ \A d \in Docs : /\ docs'[d].row = docs[d].row /\ docs'[d].parent = docs[d].parent
                             /\ docs'[d].name = docs[d].name
                             /\ IF d \in Rewritten(q.done) THEN <<d, docs'[d].key>> \in q.done
                                ELSE docs'[d] = docs[d]
<1> DEFINE q == work[w]
           p == q.parent
           n == q.name
<1>1. q \in Request /\ TypeOK /\ p \in Places /\ n \in Names \cup {<<>>} /\ FitsCols(q, app, cols)
      /\ q.pc = "rewrite" /\ q.row \in Cols
  BY OneRequest DEF IInv, Request, CommitCollection, FitsCols, Writing
<1>2. /\ cols' \in [Cols -> Collection] /\ \A x \in Cols : cols'[x].row = cols[x].row
      /\ \A x \in Cols \ {q.row} : cols'[x] = cols[x]
      /\ cols'[q.row].parent = p /\ cols'[q.row].name = n
  <2> DEFINE c == q.row
             new == [cols[c] EXCEPT !.parent = p, !.name = n]
  <2>1. cols' = [cols EXCEPT ![c] = new]
    BY <1>1 DEF CommitCollection, TypeOK
  <2>2. new \in Collection
    <3>1. cols[c] \in Collection
      BY <1>1 DEF TypeOK
    <3> HIDE DEF p, n, c
    <3> QED BY <1>1, <3>1, Zenon DEF Collection
  <2>3. new.row = cols[c].row /\ new.parent = p /\ new.name = n
    <3>1. cols[c] \in Collection
      BY <1>1 DEF TypeOK
    <3> HIDE DEF p, n, c
    <3> QED BY <3>1 DEF Collection
  <2> HIDE DEF new, p, n
  <2> QED BY <1>1, <2>1, <2>2, <2>3 DEF TypeOK
<1>3. ASSUME NEW d \in Docs
      PROVE  /\ docs'[d] \in Document
             /\ docs'[d].row = docs[d].row /\ docs'[d].parent = docs[d].parent
             /\ docs'[d].name = docs[d].name
             /\ IF d \in Rewritten(q.done) THEN <<d, docs'[d].key>> \in q.done
                ELSE docs'[d] = docs[d]
  <2> DEFINE k == (CHOOSE e \in q.done : e[1] = d)[2]
  <2>1. docs'[d] = IF d \in Rewritten(q.done) THEN [docs[d] EXCEPT !.key = k] ELSE docs[d]
    BY DEF CommitCollection, Rewritten
  <2>2. docs[d] \in Document
    BY <1>1 DEF TypeOK
  <2>3. CASE d \in Rewritten(q.done)
    <3>1. PICK e \in q.done : e[1] = d
      BY <2>3 DEF Rewritten
    <3>2. (CHOOSE f \in q.done : f[1] = d) \in q.done /\ (CHOOSE f \in q.done : f[1] = d)[1] = d
      BY <3>1
    <3>3. q.done \subseteq Docs \X Seq(STRING)
      BY <1>1 DEF Request
    <3>4. k \in Seq(STRING) /\ <<d, k>> \in q.done
      <4> DEFINE f == CHOOSE g \in q.done : g[1] = d
      <4>1. f \in q.done /\ f[1] = d /\ f \in Docs \X Seq(STRING)
        BY <3>2, <3>3
      <4> HIDE DEF f
      <4>2. f[2] \in Seq(STRING) /\ <<d, f[2]>> \in q.done
        BY <4>1
      <4> QED BY <4>2 DEF f
    <3> HIDE DEF k
    <3>5. docs'[d] = [docs[d] EXCEPT !.key = k]
      BY <2>1, <2>3
    <3> QED BY <2>2, <2>3, <3>4, <3>5 DEF Document
  <2> QED BY <2>1, <2>2, <2>3
<1>4. docs' \in [Docs -> Document]
  BY <1>3 DEF CommitCollection
<1> QED BY <1>1, <1>2, <1>3, <1>4

LEMMA CommitCollectionStep ==
    ASSUME IInv, NEW w \in Requests, CommitCollection(w) PROVE IInv'
<1> DEFINE q == work[w]
           c == q.row
<1>1. /\ q \in Request /\ q.pc = "rewrite" /\ FitsCols(q, app, cols) /\ FitsDocs(q, docs)
      /\ Writing(q) /\ HoldsCol(q) /\ c \in Cols /\ cols[c].row = "there"
  BY OneRequest DEF CommitCollection, FitsCols, Writing, HoldsCol
<1>2. /\ cols' \in [Cols -> Collection] /\ docs' \in [Docs -> Document]
      /\ \A x \in Cols : cols'[x].row = cols[x].row
      /\ \A x \in Cols \ {c} : cols'[x] = cols[x]
      /\ cols'[c].parent = q.parent /\ cols'[c].name = q.name
  BY <1>1, CommitWrites
<1>3. \A d \in Docs : /\ docs'[d].row = docs[d].row /\ docs'[d].parent = docs[d].parent
                     /\ docs'[d].name = docs[d].name
                     /\ IF d \in Rewritten(q.done) THEN <<d, docs'[d].key>> \in q.done
                        ELSE docs'[d] = docs[d]
  BY CommitWrites
<1>4. work' = [work EXCEPT ![w] = Over] /\ UNCHANGED <<app, released, raced>>
  BY DEF CommitCollection
<1> HIDE DEF q, c
<1>5. TypeOK'
  <2>1. work' \in [Requests -> Request]
    BY <1>4, OverIsIdle DEF IInv, TypeOK
  <2> QED BY <1>2, <1>4, <2>1 DEF IInv, TypeOK
<1>6. \A p \in Places : ThereIn(p, app, cols) <=> ThereIn(p, app', cols')
  BY <1>2, <1>4 DEF ThereIn, Places
<1>7. Parents(app', cols', docs')
  <2>1. Parents(app, cols, docs)
    BY Split
  <2>2. ThereIn(q.parent, app, cols) /\ q.parent \in Places
    <3>1. q.op \in {"renameCol", "moveCol"} /\ q.pc # "lock" /\ q.parent \in Places
      BY <1>1 DEF HoldsCol, Request
    <3> QED BY <1>1, <2>1, <3>1 DEF FitsCols, Parents, c
  <2>3. /\ \A x \in Cols : cols[x].parent \in Places
        /\ \A d \in Docs : docs[d].parent \in Places
    BY DEF IInv, TypeOK, Collection, Document
  <2>4. \A x \in Cols : cols'[x].row = "there" => ThereIn(cols'[x].parent, app', cols')
    BY <1>2, <1>6, <2>1, <2>2, <2>3 DEF Parents
  <2>5. \A d \in Docs : HasRowIn(d, docs') => ThereIn(docs'[d].parent, app', cols')
    BY <1>3, <1>6, <2>1, <2>3 DEF Parents, HasRowIn
  <2> QED BY <2>4, <2>5 DEF Parents
<1>8. ASSUME NEW d \in Docs, NEW x \in Docs, d # x, docs[d].row = "live", docs[x].row = "live"
      PROVE  docs'[d].key # docs'[x].key
  <2>1. docs[d].key # docs[x].key
    BY <1>8 DEF IInv, SiblingsDiffer
  <2>2. ASSUME NEW a \in Docs, NEW b \in Docs, a # b, docs[a].row = "live", docs[b].row = "live",
               a \in Rewritten(q.done)
        PROVE  docs'[a].key # docs'[b].key
    <3> DEFINE k == docs'[a].key
    <3>1. <<a, k>> \in q.done
      BY <1>3, <2>2
    <3>2. <<a, k>>[1] = a /\ <<a, k>>[2] = k
      OBVIOUS
    <3>3. ~KeyTakenIn(k, q.done, a, docs)
      BY <1>1, <2>2, <3>1, <3>2 DEF FitsDocs
    <3>4. b \in Docs \ {a}
      BY <2>2
    <3> QED BY <1>3, <2>2, <3>3, <3>4 DEF KeyTakenIn
  <2>3. CASE d \in Rewritten(q.done)
    BY <1>8, <2>2, <2>3
  <2>4. CASE x \in Rewritten(q.done)
    BY <1>8, <2>2, <2>4
  <2>5. CASE d \notin Rewritten(q.done) /\ x \notin Rewritten(q.done)
    BY <1>3, <2>1, <2>5
  <2> QED BY <2>3, <2>4, <2>5
<1>9. SiblingsDiffer'
  <2>1. ASSUME NEW x \in Cols, NEW y \in Cols, x # y, cols'[x].row = "there", cols'[y].row = "there"
        PROVE  cols'[x].parent # cols'[y].parent \/ cols'[x].name # cols'[y].name
    <3>1. FreePlace(q.parent, q.name, c, cols)
      BY <1>1 DEF FitsCols, c
    <3>2. cols[x].parent # cols[y].parent \/ cols[x].name # cols[y].name
      BY <1>2, <2>1 DEF IInv, SiblingsDiffer
    <3> QED BY <1>2, <2>1, <3>1, <3>2 DEF FreePlace
  <2>2. ASSUME NEW d \in Docs, NEW x \in Docs, d # x, docs'[d].row = "live", docs'[x].row = "live"
        PROVE  /\ docs'[d].key # docs'[x].key
               /\ docs'[d].parent # docs'[x].parent \/ docs'[d].name # docs'[x].name
    <3>1. /\ docs'[d].row = docs[d].row /\ docs'[x].row = docs[x].row
          /\ docs'[d].parent = docs[d].parent /\ docs'[x].parent = docs[x].parent
          /\ docs'[d].name = docs[d].name /\ docs'[x].name = docs[x].name
      BY <1>3
    <3>2. docs[d].parent # docs[x].parent \/ docs[d].name # docs[x].name
      BY <2>2, <3>1 DEF IInv, SiblingsDiffer
    <3>3. docs'[d].key # docs'[x].key
      BY <1>8, <2>2, <3>1
    <3> QED BY <3>1, <3>2, <3>3
  <2> QED BY <2>1, <2>2 DEF SiblingsDiffer
<1>10. ASSUME NEW v \in Others(w) PROVE FitsCols(work[v], app', cols') /\ FitsDocs(work[v], docs')
  <2> DEFINE y == work[v]
  <2>1. y \in Request /\ FitsCols(y, app, cols) /\ FitsDocs(y, docs)
        /\ Apart(y, q, docs) /\ Apart(q, y, docs)
    BY OthersFit DEF q
  <2> HIDE DEF y
  <2>2. y.op \in {"createCol", "renameCol", "moveCol"} => y.row \in Cols /\ cols'[y.row].row = cols[y.row].row
    BY <1>2, <2>1 DEF FitsCols
  <2>3. HoldsCol(y) => y.row \in Cols /\ cols'[y.row] = cols[y.row]
    BY <1>1, <1>2, <2>1 DEF FitsCols, Apart, HoldsCol, c
  <2>4. Writing(y) => FreePlace(y.parent, y.name, y.row, cols')
    <3>1. Writing(y) => y.parent # q.parent \/ y.name # q.name
      BY <1>1, <2>1 DEF Apart
    <3> QED BY <1>2, <2>1, <3>1 DEF FitsCols, FreePlace
  <2>5. y.parent \in Places
    BY <2>1 DEF Request
  <2>6. y.op = "renameCol" /\ y.pc # "lock" => HoldsCol(y)
    BY DEF HoldsCol
  <2>7. FitsCols(y, app', cols')
    BY <1>6, <2>1, <2>2, <2>3, <2>4, <2>5, <2>6 DEF FitsCols, HoldsCol
  <2>8. ASSUME NEW e \in y.done
        PROVE  HasRowIn(e[1], docs') /\ (docs'[e[1]].row = "live" => ~KeyTakenIn(e[2], y.done, e[1], docs'))
    <3>1. e[1] \in Docs /\ HasRowIn(e[1], docs) /\ docs'[e[1]].row = docs[e[1]].row
      BY <1>3, <2>1 DEF Request, FitsDocs
    <3>2. ASSUME NEW x \in Docs \ {e[1]}, docs[e[1]].row = "live", docs[x].row = "live",
                 IF x \in Rewritten(y.done) THEN <<x, e[2]>> \in y.done ELSE docs'[x].key = e[2]
          PROVE  FALSE
      <4>1. ~KeyTakenIn(e[2], y.done, e[1], docs)
        BY <2>1, <3>2 DEF FitsDocs
      <4>2. x \notin Rewritten(y.done) /\ docs'[x].key = e[2] /\ docs[x].key # e[2]
        BY <3>2, <4>1 DEF KeyTakenIn
      <4>3. x \in Rewritten(q.done)
        BY <1>3, <4>2
      <4>4. <<x, e[2]>> \in q.done /\ <<x, e[2]>>[1] = x /\ <<x, e[2]>>[2] = e[2]
        BY <1>3, <4>2, <4>3
      <4> QED BY <2>1, <3>2, <4>4 DEF Apart
    <3> QED BY <1>3, <3>1, <3>2 DEF HasRowIn, KeyTakenIn
  <2>9. FitsDocs(y, docs')
    <3>1. y.op \in {"createDoc", "moveDoc"} => y.row \in Docs /\ docs'[y.row].row = docs[y.row].row
      BY <1>3, <2>1 DEF FitsDocs
    <3>2. HoldsDoc(y) => y.op = "moveDoc"
      BY DEF HoldsDoc
    <3> QED BY <2>1, <2>8, <3>1, <3>2 DEF FitsDocs, HasRowIn
  <2> QED BY <2>7, <2>9 DEF y
<1>11. ASSUME NEW v \in Others(w), NEW e \in work[v].done
       PROVE  docs'[e[1]].row = docs[e[1]].row
  <2> DEFINE y == work[v]
  <2>1. y \in Request /\ e \in y.done
    BY OthersFit
  <2> HIDE DEF y
  <2>2. e[1] \in Docs
    BY <2>1 DEF Request
  <2> QED BY <1>3, <2>2
<1> QED BY <1>4, <1>5, <1>7, <1>9, <1>10, <1>11, CommitKeeps

LEMMA PlaceDocumentStep ==
    ASSUME IInv, NEW w \in Requests, PlaceDocument(w) PROVE IInv'
<1> DEFINE q == work[w]
           d == q.row
           k == q.new \o q.name
           row == IF q.op = "createDoc" THEN "live" ELSE docs[d].row
           new == [row |-> row, parent |-> q.parent, name |-> q.name, key |-> k]
<1>1. /\ q \in Request /\ q.pc = "write" /\ q.op \in {"createDoc", "moveDoc"} /\ d \in Docs
      /\ FitsCols(q, app, cols) /\ FitsDocs(q, docs) /\ q.todo = {} /\ q.done = {}
      /\ row = "live" => ~KeyPending(k, Others(w))
  BY OneRequest DEF PlaceDocument, FitsCols, FitsDocs
<1>2. CASE Ends(w)
  BY <1>2, EndStep
<1>3. CASE /\ Allowed(q) /\ (row = "live" => ~KeyTaken(k, q, d) /\ ~NameTaken(q))
           /\ docs' = [docs EXCEPT ![d] = new]
           /\ work' = [work EXCEPT ![w] = Over]
           /\ UNCHANGED <<app, released, cols, raced>>
  <2>1. k \in Seq(STRING)
    <3>1. q.new \in Seq(STRING) /\ q.name \in Names \cup {<<>>}
      BY <1>1 DEF Request
    <3>2. <<>> \in Seq(STRING)
      OBVIOUS
    <3>3. q.name \in Seq(STRING)
      BY <3>1, <3>2, NamesAssumption
    <3> HIDE DEF q
    <3> QED BY <3>1, <3>3
  <2> HIDE DEF k
  <2>2. row \in {"live", "tombstone"}
    BY <1>1 DEF FitsDocs, HoldsDoc, HasRowIn
  <2>3. q.op = "moveDoc" => row = docs[d].row /\ HasRowIn(d, docs) /\ HoldsDoc(q)
    BY <1>1 DEF FitsDocs, HoldsDoc
  <2>4. q.op = "createDoc" => docs[d].row = "none"
    BY <1>1 DEF FitsDocs
  <2> HIDE DEF row
  <2>5. q.parent \in Places /\ q.name \in Names \cup {<<>>}
    BY <1>1 DEF Request
  <2>6. new \in Document
    BY <2>1, <2>2, <2>5 DEF Document
  <2>7. /\ docs' \in [Docs -> Document]
        /\ \A x \in Docs : docs'[x] = IF x = d THEN new ELSE docs[x]
        /\ new.row = row /\ new.parent = q.parent /\ new.name = q.name /\ new.key = k
    BY <1>1, <1>3, <2>6 DEF IInv, TypeOK
  <2>8. TypeOK'
    <3>1. work' \in [Requests -> Request]
      BY <1>3, OverIsIdle DEF IInv, TypeOK
    <3> QED BY <1>3, <2>7, <3>1 DEF IInv, TypeOK
  <2> HIDE DEF new
  <2>9. Parents(app', cols', docs')
    <3>1. Parents(app, cols, docs)
      BY Split
    <3>2. ThereIn(q.parent, app, cols)
      <4>1. CASE Refers(q)
        BY <1>3, <4>1 DEF Allowed, There, ThereIn
      <4>2. CASE ~Refers(q)
        BY <1>1, <2>3, <3>1, <4>2 DEF Refers, Parents
      <4> QED BY <4>1, <4>2
    <3> QED BY <1>3, <2>7, <3>1, <3>2 DEF Parents, HasRowIn
  <2>10. ASSUME row = "live", NEW x \in Docs, x # d, docs[x].row = "live"
         PROVE  docs[x].key # k /\ (docs[x].parent # q.parent \/ docs[x].name # q.name)
    <3>1. docs[x].key # k
      BY <1>1, <1>3, <2>10 DEF KeyTaken
    <3>2. docs[x].parent # q.parent \/ docs[x].name # q.name
      BY <1>3, <2>10 DEF NameTaken
    <3> QED BY <3>1, <3>2
  <2>11. SiblingsDiffer'
    BY <1>3, <2>7, <2>10 DEF IInv, SiblingsDiffer
  <2>12. ASSUME NEW v \in Others(w)
         PROVE  /\ FitsCols(work[v], app', cols') /\ FitsDocs(work[v], docs')
                /\ \A e \in work[v].done : docs'[e[1]].row = docs[e[1]].row
    <3> DEFINE y == work[v]
    <3>1. y \in Request /\ FitsCols(y, app, cols) /\ FitsDocs(y, docs)
          /\ Apart(y, q, docs) /\ Apart(q, y, docs)
      BY OthersFit
    <3>2. row = "live" => \A e \in y.done : docs[e[1]].row = "live" => e[2] # k
      BY <1>1 DEF KeyPending
    <3> HIDE DEF y, q, d
    <3>3. ASSUME NEW e \in y.done
          PROVE  e[1] \in Docs /\ e[1] # d /\ HasRowIn(e[1], docs) /\ docs'[e[1]] = docs[e[1]]
      <4>1. e[1] \in Docs /\ HasRowIn(e[1], docs)
        BY <3>1 DEF Request, FitsDocs
      <4>2. e[1] # d
        BY <1>1, <2>3, <2>4, <3>1, <4>1 DEF Apart, HasRowIn, d
      <4> QED BY <2>7, <4>1, <4>2
    <3>4. ASSUME NEW e \in y.done
          PROVE  docs'[e[1]].row = "live" => ~KeyTakenIn(e[2], y.done, e[1], docs')
      <4>1. ASSUME NEW x \in Docs \ {e[1]}, docs[e[1]].row = "live", docs'[x].row = "live",
                   IF x \in Rewritten(y.done) THEN <<x, e[2]>> \in y.done ELSE docs'[x].key = e[2]
            PROVE  FALSE
        <5>1. ~KeyTakenIn(e[2], y.done, e[1], docs)
          BY <3>1, <4>1 DEF FitsDocs
        <5>2. CASE x = d
          <6>1. x \notin Rewritten(y.done)
            BY <3>3, <5>2 DEF Rewritten
          <6> QED BY <2>7, <3>2, <4>1, <5>2, <6>1
        <5>3. CASE x # d
          BY <2>7, <4>1, <5>1, <5>3 DEF KeyTakenIn
        <5> QED BY <5>2, <5>3
      <4> QED BY <3>3, <4>1 DEF KeyTakenIn
    <3>5. y.op = "createDoc" => docs'[y.row].row = "none"
      <4>1. y.op = "createDoc" => y.row \in Docs /\ docs[y.row].row = "none" /\ y.row # d
        BY <1>1, <2>3, <3>1 DEF FitsDocs, Apart, HasRowIn, d
      <4> QED BY <2>7, <4>1
    <3>6. HoldsDoc(y) => HasRowIn(y.row, docs')
      BY <2>2, <2>7, <3>1 DEF FitsDocs, HoldsDoc, HasRowIn
    <3>7. FitsDocs(y, docs')
      <4>1. \A e \in y.done : HasRowIn(e[1], docs')
        BY <3>3 DEF HasRowIn
      <4> QED BY <3>1, <3>4, <3>5, <3>6, <4>1 DEF FitsDocs
    <3>8. \A e \in y.done : docs'[e[1]].row = docs[e[1]].row
      BY <3>3
    <3>9. FitsCols(y, app', cols')
      BY <1>3, <3>1
    <3> QED BY <3>7, <3>8, <3>9 DEF y
  <2> QED BY <1>3, <2>8, <2>9, <2>11, <2>12, CommitKeeps
<1> QED BY <1>2, <1>3 DEF PlaceDocument

\* Nobody relies on a collection that may be deleted.
LEMMA DeleteCollectionStep ==
    ASSUME IInv, NEW c \in Cols, DeleteCollection(c) PROVE IInv'
<1>1. /\ cols[c].row = "there" /\ ~Locked(c, Requests) /\ ~Shared(c, Requests) /\ IsEmpty(c)
      /\ ~\E d \in Docs : docs[d].row = "tombstone" /\ docs[d].parent = c
      /\ UNCHANGED <<app, released, docs, work, raced>>
  BY DEF DeleteCollection
<1> DEFINE new == [cols[c] EXCEPT !.row = "gone"]
<1>2. new \in Collection /\ new.row = "gone"
  BY DEF IInv, TypeOK, Collection
<1>3. /\ cols' \in [Cols -> Collection]
      /\ \A x \in Cols : cols'[x] = IF x = c THEN new ELSE cols[x]
  BY <1>2 DEF DeleteCollection, IInv, TypeOK
<1> HIDE DEF new
<1>4. TypeOK'
  BY <1>1, <1>3 DEF IInv, TypeOK
<1>5. \A p \in Places : p # c /\ ThereIn(p, app, cols) => ThereIn(p, app', cols')
  BY <1>1, <1>3 DEF ThereIn, Places
<1>6. Parents(app', cols', docs')
  <2>1. Parents(app, cols, docs)
    BY Split
  <2>2. /\ \A x \in Cols : cols[x].parent \in Places
        /\ \A d \in Docs : docs[d].parent \in Places
    BY DEF IInv, TypeOK, Collection, Document
  <2>3. \A x \in Cols : cols'[x].row = "there" => ThereIn(cols'[x].parent, app', cols')
    BY <1>1, <1>2, <1>3, <1>5, <2>1, <2>2 DEF Parents, IsEmpty
  <2>4. \A d \in Docs : HasRowIn(d, docs') => ThereIn(docs'[d].parent, app', cols')
    BY <1>1, <1>5, <2>1, <2>2 DEF Parents, IsEmpty, HasRowIn
  <2> QED BY <2>3, <2>4 DEF Parents
<1>7. SiblingsDiffer'
  BY <1>1, <1>2, <1>3 DEF IInv, SiblingsDiffer
<1>8. ASSUME NEW v \in Requests PROVE FitsCols(work[v], app', cols') /\ FitsDocs(work[v], docs')
  <2> DEFINE y == work[v]
  <2>1. y \in Request /\ FitsCols(y, app, cols) /\ FitsDocs(y, docs)
    BY OneRequest
  <2>2. HoldsCol(y) => y.row # c
    BY <1>1 DEF Locked, HoldsCol
  <2>3. y.op = "moveCol" /\ Writing(y) => y.parent # c
    BY <1>1 DEF Shared
  <2> HIDE DEF y
  <2>4. y.parent \in Places
    BY <2>1 DEF Request
  <2>5. HoldsCol(y) => y.row \in Cols /\ cols'[y.row] = cols[y.row]
    BY <1>3, <2>1, <2>2 DEF HoldsCol, FitsCols
  <2>6. y.op = "createCol" => cols'[y.row].row = "none"
    BY <1>1, <1>3, <2>1 DEF FitsCols
  <2>7. y.op = "renameCol" /\ y.pc # "lock" => HoldsCol(y)
    BY DEF HoldsCol
  <2>8. Writing(y) => FreePlace(y.parent, y.name, y.row, cols')
    BY <1>2, <1>3, <2>1 DEF FitsCols, FreePlace
  <2>9. FitsCols(y, app', cols')
    BY <1>5, <2>1, <2>3, <2>4, <2>5, <2>6, <2>7, <2>8 DEF FitsCols
  <2> QED BY <1>1, <2>1, <2>9 DEF y
<1> QED BY <1>1, <1>4, <1>6, <1>7, <1>8, TableKeeps

\* Nor on a document that may be.
LEMMA DeleteDocumentStep ==
    ASSUME IInv, NEW d \in Docs, DeleteDocument(d) PROVE IInv'
<1> DEFINE row == IF d \in released THEN "tombstone" ELSE "gone"
           new == [docs[d] EXCEPT !.row = row]
<1>1. HasRowIn(d, docs) /\ ~Held(d, Requests) /\ UNCHANGED <<app, released, cols, work, raced>>
  BY DEF DeleteDocument, HasRow, HasRowIn
<1>2. new \in Document /\ new.row \in {"tombstone", "gone"} /\ new.parent = docs[d].parent
  BY DEF IInv, TypeOK, Document
<1>3. /\ docs' \in [Docs -> Document]
      /\ \A x \in Docs : docs'[x] = IF x = d THEN new ELSE docs[x]
  BY <1>2 DEF DeleteDocument, IInv, TypeOK
<1> HIDE DEF new, row
<1>4. TypeOK'
  BY <1>1, <1>3 DEF IInv, TypeOK
<1>5. Parents(app', cols', docs')
  <2>1. Parents(app, cols, docs)
    BY Split
  <2> QED BY <1>1, <1>2, <1>3, <2>1 DEF Parents, HasRowIn
<1>6. SiblingsDiffer'
  BY <1>1, <1>2, <1>3 DEF IInv, SiblingsDiffer
<1>7. ASSUME NEW v \in Requests
      PROVE  /\ FitsCols(work[v], app', cols') /\ FitsDocs(work[v], docs')
             /\ \A e \in work[v].done : docs'[e[1]].row = docs[e[1]].row
  <2> DEFINE y == work[v]
  <2>1. y \in Request /\ FitsCols(y, app, cols) /\ FitsDocs(y, docs)
    BY OneRequest
  <2>2. HoldsDoc(y) => y.row # d
    BY <1>1 DEF Held, HoldsDoc
  <2>3. \A e \in y.done : e[1] # d
    BY <1>1 DEF Held
  <2> HIDE DEF y
  <2>4. \A e \in y.done : e[1] \in Docs /\ docs'[e[1]] = docs[e[1]]
    BY <1>3, <2>1, <2>3 DEF Request
  <2>5. y.op = "createDoc" => docs'[y.row].row = "none"
    BY <1>1, <1>3, <2>1 DEF FitsDocs, HasRowIn
  <2>6. HoldsDoc(y) => HasRowIn(y.row, docs')
    BY <1>3, <2>1, <2>2 DEF FitsDocs, HoldsDoc, HasRowIn
  <2>7. ASSUME NEW e \in y.done
        PROVE  /\ HasRowIn(e[1], docs')
               /\ docs'[e[1]].row = "live" => ~KeyTakenIn(e[2], y.done, e[1], docs')
    <3>1. HasRowIn(e[1], docs) /\ (docs[e[1]].row = "live" => ~KeyTakenIn(e[2], y.done, e[1], docs))
      BY <2>1 DEF FitsDocs
    <3>2. \A x \in Docs : docs'[x].row = "live" => docs'[x] = docs[x]
      BY <1>2, <1>3
    <3> QED BY <2>4, <3>1, <3>2 DEF KeyTakenIn, HasRowIn
  <2>8. FitsDocs(y, docs')
    BY <2>1, <2>5, <2>6, <2>7 DEF FitsDocs
  <2> QED BY <1>1, <2>1, <2>4, <2>8 DEF y
<1> QED BY <1>1, <1>4, <1>5, <1>6, <1>7, TableKeeps

LEMMA ReleaseStep ==
    ASSUME IInv, NEW d \in Docs, Release(d) PROVE IInv'
<1>1. TypeOK' /\ Parents(app', cols', docs') /\ SiblingsDiffer' /\ Inv(app', cols', docs', work')
  BY Split DEF Release, TypeOK, SiblingsDiffer
<1> QED BY <1>1, SplitNext

\* With the app go all rows: no request may be holding one.
LEMMA DeleteAppStep ==
    ASSUME IInv, DeleteApp PROVE IInv'
<1>1. /\ \A c \in Cols : ~Locked(c, Requests)
      /\ \A d \in Docs : ~Held(d, Requests)
      /\ app' = FALSE /\ UNCHANGED <<released, work, raced>>
  BY DEF DeleteApp
<1>2. ASSUME NEW c \in Cols
      PROVE  /\ cols'[c] \in Collection /\ cols'[c].row # "there"
             /\ cols[c].row = "none" => cols'[c] = cols[c]
  <2>1. cols[c] \in Collection /\ c # Root
    BY RootAssumption DEF IInv, TypeOK
  <2>2. cols'[c] = IF cols[c].row = "there" THEN [cols[c] EXCEPT !.row = "gone"] ELSE cols[c]
    BY <2>1 DEF DeleteApp, There
  <2> QED BY <2>1, <2>2 DEF Collection
<1>3. ASSUME NEW d \in Docs
      PROVE  /\ docs'[d] \in Document /\ ~HasRowIn(d, docs') /\ docs'[d].row # "live"
             /\ docs[d].row = "none" => docs'[d] = docs[d]
  <2>1. docs[d] \in Document
    BY DEF IInv, TypeOK
  <2>2. docs'[d] = IF HasRowIn(d, docs) THEN [docs[d] EXCEPT !.row = "gone"] ELSE docs[d]
    BY DEF DeleteApp, HasRow, HasRowIn
  <2> QED BY <2>1, <2>2 DEF Document, HasRowIn
<1>4. cols' \in [Cols -> Collection] /\ docs' \in [Docs -> Document]
  BY <1>2, <1>3 DEF DeleteApp
<1>5. TypeOK'
  BY <1>1, <1>4 DEF IInv, TypeOK
<1>6. Parents(app', cols', docs') /\ SiblingsDiffer'
  BY <1>2, <1>3 DEF Parents, SiblingsDiffer
<1>7. ASSUME NEW v \in Requests
      PROVE  /\ FitsCols(work[v], app', cols') /\ FitsDocs(work[v], docs')
             /\ \A e \in work[v].done : docs'[e[1]].row = docs[e[1]].row
  <2> DEFINE y == work[v]
  <2>1. y \in Request /\ FitsCols(y, app, cols) /\ FitsDocs(y, docs)
    BY OneRequest
  <2>2. ~HoldsCol(y)
    BY <1>1, <2>1 DEF Locked, HoldsCol, FitsCols
  <2>3. ~HoldsDoc(y)
    BY <1>1, <2>1 DEF Held, HoldsDoc, FitsDocs
  <2>4. y.done = {}
    <3>1. \A e \in y.done : e[1] \in Docs /\ Held(e[1], Requests)
      BY <2>1 DEF Held, Request
    <3> QED BY <1>1, <3>1
  <2> HIDE DEF y
  <2>5. ~Writing(y)
    BY <2>1, <2>2 DEF Writing, FitsCols, HoldsCol
  <2>6. y.op = "createCol" => cols'[y.row].row = "none"
    BY <1>2, <2>1 DEF FitsCols
  <2>7. y.op = "createDoc" => docs'[y.row].row = "none"
    BY <1>3, <2>1 DEF FitsDocs
  <2>8. y.op = "renameCol" /\ y.pc # "lock" => HoldsCol(y)
    BY DEF HoldsCol
  <2>9. FitsCols(y, app', cols')
    BY <2>1, <2>2, <2>5, <2>6, <2>8 DEF FitsCols
  <2>10. FitsDocs(y, docs')
    BY <2>1, <2>3, <2>4, <2>7 DEF FitsDocs
  <2> QED BY <2>4, <2>9, <2>10 DEF y
<1> QED BY <1>1, <1>5, <1>6, <1>7, TableKeeps

-----------------------------------------------------------------------------
LEMMA InitInv == Init => IInv
<1> SUFFICES ASSUME Init PROVE IInv
  OBVIOUS
<1>1. TypeOK /\ ParentsExist /\ SiblingsDiffer /\ \A w \in Requests : work[w] = New
  BY DEF Init
<1>2. FitsCols(New, app, cols) /\ FitsDocs(New, docs) /\ Apart(New, New, docs)
  BY Idle, OverIsIdle
<1>3. Inv(app, cols, docs, work)
  BY <1>1, <1>2 DEF Inv
<1>4. Parents(app, cols, docs)
  BY <1>1 DEF ParentsExist, Parents, There, ThereIn, HasRow, HasRowIn
<1> QED BY <1>1, <1>3, <1>4, Split

LEMMA NextKeepsInv == IInv /\ [Next]_vars => IInv'
<1> SUFFICES ASSUME IInv, [Next]_vars PROVE IInv'
  OBVIOUS
<1>1. CASE UNCHANGED vars
  <2>1. TypeOK' /\ Parents(app', cols', docs') /\ SiblingsDiffer' /\ Inv(app', cols', docs', work')
    BY <1>1, Split DEF vars, TypeOK, SiblingsDiffer
  <2> QED BY <2>1, SplitNext
<1>2. ASSUME NEW w \in Requests, Step(w) PROVE IInv'
  BY <1>2, LockCollectionStep, LockDocumentStep, CheckMoveTargetStep, PathOfStep, CheckSiblingStep,
     InsertCollectionStep, WriteCollectionStep, ScanKeysStep, RewriteKeyStep, CommitCollectionStep,
     PlaceDocumentStep DEF Step
<1>3. ASSUME NEW w \in Requests, Fail(w) PROVE IInv'
  BY <1>3, EndStep DEF Fail
<1>4. ASSUME NEW d \in Docs, Release(d) \/ DeleteDocument(d) PROVE IInv'
  BY <1>4, ReleaseStep, DeleteDocumentStep
<1> QED BY <1>1, <1>2, <1>3, <1>4, BeginStep, DeleteCollectionStep, DeleteAppStep DEF Next

\* However requests overlap, the requests in flight find the rows they locked and the
\* parents they write under, and no two of them claim the same row, place or key.
THEOREM TreeInvariance == Spec => []IInv
<1> QED BY InitInv, NextKeepsInv, PTL DEF Spec

\* Sibling collections differ in name, and live documents in key and in place, whatever
\* the number of collections, documents and overlapping requests.
THEOREM SiblingsInvariance == Spec => []SiblingsDiffer
<1>1. IInv => SiblingsDiffer
  BY DEF IInv
<1> QED BY <1>1, TreeInvariance, PTL

\* A collection or a document never lies in one that was deleted, nor in a deleted app.
THEOREM ParentsInvariance == Spec => []ParentsExist
<1>1. IInv => ParentsExist
  BY DEF IInv
<1> QED BY <1>1, TreeInvariance, PTL

-----------------------------------------------------------------------------
(* What holds as long as the requests that could harm it did not overlap:  *)
(* collections stay a tree, names differ across the two tables, and the    *)
(* stored key of a document is its path.                                   *)

ColOps == {"createCol", "renameCol", "moveCol"}
DocOps == {"createDoc", "moveDoc"}
Reshapes == {"renameCol", "moveCol"}

-----------------------------------------------------------------------------
(* What the reads do to the request, field by field.                       *)

SameRow(q, r) == r.op = q.op /\ r.row = q.row

Locks(q, r, cs) ==
    /\ q.pc = "lock" /\ SameRow(q, r)
    /\ r.old = q.old /\ r.new = q.new /\ r.at = q.at
    /\ \/ /\ q.op = "renameCol" /\ r.pc = "check"
          /\ r.parent = cs[q.row].parent /\ r.name = q.name
       \/ /\ q.op = "moveCol" /\ r.pc = (IF q.parent = Root THEN "check" ELSE "cycle")
          /\ r.parent = q.parent /\ r.name = cs[q.row].name /\ q.parent # q.row
       \/ /\ q.op = "moveDoc" /\ r.pc = (IF q.parent = Root THEN "check" ELSE "newpath")
          /\ r.parent = q.parent /\ r.name = q.name

Climbs(q, r, ap, cs) ==
    /\ q.pc = "cycle" /\ SameJob(q, r) /\ r.old = q.old /\ r.new = q.new
    /\ q.at \in Cols /\ ThereIn(q.at, ap, cs) /\ q.at # q.row
    /\ r.at = cs[q.at].parent /\ r.pc = (IF r.at = Root THEN "check" ELSE "cycle")

\* A request that knows the path it was after, or needs none.
Knows(q, r) ==
    /\ SameJob(q, r) /\ r.old = q.old
    /\ \/ q.op \in DocOps /\ r.pc = "check" /\ r.new = q.new
       \/ q.op = "renameCol" /\ r.pc = "write" /\ r.new = q.old
       \/ /\ q.op \notin DocOps \cup {"renameCol"} /\ q.pc = "oldpath" /\ q.parent # Root
          /\ r.pc = "newpath" /\ r.at = q.parent /\ r.new = q.new
       \/ /\ q.op \notin DocOps \cup {"renameCol"} /\ ~(q.pc = "oldpath" /\ q.parent # Root)
          /\ r.pc = "write" /\ r.new = q.new

\* One ancestor's name is put before the path.
Grows(q, g, cs) ==
    /\ SameJob(q, g) /\ g.pc = q.pc /\ g.at = cs[q.at].parent
    /\ q.pc = "oldpath" => g.old = cs[q.at].name \o q.old /\ g.new = q.new
    /\ q.pc = "newpath" => g.new = cs[q.at].name \o q.new /\ g.old = q.old

LEMMA LockDoes ==
    ASSUME IInv, NEW w \in Requests, LockCollection(w) \/ LockDocument(w)
    PROVE  Ends(w) \/ \E r \in Request : Goes(w, r) /\ Locks(work[w], r, cols)
<1> DEFINE q == work[w]
           c == cols[q.row]
<1>1. q \in Request /\ q.pc = "lock"
  BY OneRequest DEF LockCollection, LockDocument
<1>2. CASE LockCollection(w)
  <2> DEFINE r1 == [q EXCEPT !.pc = "check", !.parent = c.parent]
             pc == IF q.parent = Root THEN "check" ELSE "cycle"
             r2 == [q EXCEPT !.pc = pc, !.name = c.name]
  <2>1. c \in Collection
    BY <1>2, OneRequest DEF LockCollection, FitsCols, IInv, TypeOK
  <2>2. \/ Ends(w)
        \/ q.op = "renameCol" /\ Goes(w, r1)
        \/ q.op = "moveCol" /\ q.parent # q.row /\ Goes(w, r2)
    BY <1>2 DEF LockCollection
  <2>3. r1 \in Request
    BY <1>1, <2>1, Zenon DEF Request, Collection
  <2>4. r2 \in Request
    <3>1. pc \in {"check", "cycle"}
      OBVIOUS
    <3> HIDE DEF pc
    <3> QED BY <1>1, <2>1, <3>1, Zenon DEF Request, Collection
  <2>5. SameRow(q, r1) /\ r1.old = q.old /\ r1.new = q.new /\ r1.at = q.at /\ r1.pc = "check"
        /\ r1.parent = c.parent /\ r1.name = q.name
    BY <1>1 DEF Request, SameRow
  <2>6. SameRow(q, r2) /\ r2.old = q.old /\ r2.new = q.new /\ r2.at = q.at /\ r2.pc = pc
        /\ r2.parent = q.parent /\ r2.name = c.name
    BY <1>1 DEF Request, SameRow
  <2>7. q.op = "renameCol" => Locks(q, r1, cols)
    <3> HIDE DEF r1
    <3> QED BY <1>1, <2>5 DEF Locks
  <2>8. q.op = "moveCol" /\ q.parent # q.row => Locks(q, r2, cols)
    <3> HIDE DEF r2
    <3> QED BY <1>1, <2>6 DEF Locks
  <2> HIDE DEF r1, r2
  <2> QED BY <2>2, <2>3, <2>4, <2>7, <2>8
<1>3. CASE LockDocument(w)
  <2> DEFINE pc == IF q.parent = Root THEN "check" ELSE "newpath"
             r == [q EXCEPT !.pc = pc]
  <2>1. Ends(w) \/ Goes(w, r)
    BY <1>3 DEF LockDocument
  <2>2. q.op = "moveDoc"
    BY <1>3 DEF LockDocument
  <2>3. r \in Request
    <3>1. pc \in {"check", "newpath"}
      OBVIOUS
    <3> HIDE DEF pc
    <3> QED BY <1>1, <3>1, Zenon DEF Request
  <2>4. SameRow(q, r) /\ r.old = q.old /\ r.new = q.new /\ r.at = q.at /\ r.pc = pc
        /\ r.parent = q.parent /\ r.name = q.name
    BY <1>1 DEF Request, SameRow
  <2> HIDE DEF r
  <2>5. Locks(q, r, cols)
    BY <1>1, <2>2, <2>4 DEF Locks
  <2> QED BY <2>1, <2>3, <2>5
<1> QED BY <1>2, <1>3

LEMMA ClimbDoes ==
    ASSUME IInv, NEW w \in Requests, CheckMoveTarget(w)
    PROVE  Ends(w) \/ \E r \in Request : Goes(w, r) /\ Climbs(work[w], r, app, cols)
<1> DEFINE q == work[w]
           up == cols[q.at].parent
           pc == IF up = Root THEN "check" ELSE "cycle"
           r == [q EXCEPT !.at = up, !.pc = pc]
<1>1. q \in Request /\ q.pc = "cycle" /\ q.at \in Cols
  BY OneRequest DEF CheckMoveTarget, FitsCols
<1>2. Ends(w) \/ (ThereIn(q.at, app, cols) /\ q.at # q.row /\ Goes(w, r))
  BY DEF CheckMoveTarget, There, ThereIn
<1>3. up \in Places
  BY <1>1, ParentIsPlace
<1>4. r \in Request
  <2>1. pc \in {"check", "cycle"}
    OBVIOUS
  <2> HIDE DEF pc, up
  <2> QED BY <1>1, <1>3, <2>1, Zenon DEF Request
<1>5. SameJob(q, r) /\ r.old = q.old /\ r.new = q.new /\ r.at = up /\ r.pc = pc
  BY <1>1 DEF Request, SameJob
<1> HIDE DEF r
<1>6. ThereIn(q.at, app, cols) /\ q.at # q.row => Climbs(q, r, app, cols)
  BY <1>1, <1>5 DEF Climbs
<1> QED BY <1>2, <1>4, <1>6

LEMMA NextPathKnows ==
    ASSUME NEW q \in Request
    PROVE  NextPath(q) \in Request /\ Knows(q, NextPath(q))
<1>1. NextPath(q) \in Request /\ SameJob(q, NextPath(q))
  BY NextPathIsRead
<1>2. CASE q.op \in DocOps
  <2>1. NextPath(q) = [q EXCEPT !.pc = "check", !.at = Root]
    BY <1>2 DEF NextPath, DocOps
  <2>2. NextPath(q).pc = "check" /\ NextPath(q).old = q.old /\ NextPath(q).new = q.new
    BY <2>1 DEF Request
  <2> QED BY <1>1, <1>2, <2>2 DEF Knows
<1>3. CASE q.op = "renameCol"
  <2>1. NextPath(q) = [q EXCEPT !.pc = "write", !.at = Root, !.new = q.old]
    BY <1>3 DEF NextPath
  <2>2. NextPath(q).pc = "write" /\ NextPath(q).old = q.old /\ NextPath(q).new = q.old
    BY <2>1 DEF Request
  <2> QED BY <1>1, <1>3, <2>2 DEF Knows
<1>4. CASE q.op \notin DocOps \cup {"renameCol"} /\ q.pc = "oldpath" /\ q.parent # Root
  <2>1. NextPath(q) = [q EXCEPT !.pc = "newpath", !.at = q.parent]
    BY <1>4 DEF NextPath, DocOps
  <2>2. NextPath(q).pc = "newpath" /\ NextPath(q).old = q.old /\ NextPath(q).new = q.new
        /\ NextPath(q).at = q.parent
    BY <2>1 DEF Request
  <2> QED BY <1>1, <1>4, <2>2 DEF Knows
<1>5. CASE q.op \notin DocOps \cup {"renameCol"} /\ ~(q.pc = "oldpath" /\ q.parent # Root)
  <2>1. NextPath(q) = [q EXCEPT !.pc = "write", !.at = Root]
    BY <1>5 DEF NextPath, DocOps
  <2>2. NextPath(q).pc = "write" /\ NextPath(q).old = q.old /\ NextPath(q).new = q.new
    BY <2>1 DEF Request
  <2> QED BY <1>1, <1>5, <2>2 DEF Knows
<1> QED BY <1>2, <1>3, <1>4, <1>5

\* The walk of a path takes one name, and with the last one the path is known; only a
\* walk that is in a cycle drops names.
Follows(q, r, ap, cs) ==
    /\ q.pc \in {"oldpath", "newpath"} /\ q.at \in Cols /\ ThereIn(q.at, ap, cs)
    /\ \/ cs[q.at].parent = Root /\ \E g \in Request : Grows(q, g, cs) /\ Knows(g, r)
       \/ cs[q.at].parent # Root /\ Grows(q, r, cs)
       \/ /\ \E S \in SUBSET Cols : q.at \in S /\ \A c \in S : cs[c].parent \in S
          /\ SameJob(q, r) /\ r.pc = q.pc /\ r.at = cs[q.at].parent

LEMMA FollowDoes ==
    ASSUME IInv, NEW w \in Requests, PathOf(w)
    PROVE  Ends(w) \/ \E r \in Request : Goes(w, r) /\ Follows(work[w], r, app, cols)
<1> DEFINE q == work[w]
           c == cols[q.at]
           grown == IF q.pc = "oldpath" THEN [q EXCEPT !.old = c.name \o q.old, !.at = c.parent]
                                        ELSE [q EXCEPT !.new = c.name \o q.new, !.at = c.parent]
           cut == [q EXCEPT !.at = c.parent]
<1>1. q \in Request /\ q.pc \in {"oldpath", "newpath"} /\ q.at \in Cols
  BY OneRequest DEF PathOf, FitsCols
<1>2. c.parent \in Places /\ c.name \in Seq(STRING)
  BY <1>1, ParentIsPlace
<1>3. grown \in Request /\ Grows(q, grown, cols)
  <2>1. CASE q.pc = "oldpath"
    <3> DEFINE o == c.name \o q.old
               r == [q EXCEPT !.old = o, !.at = c.parent]
    <3>1. o \in Seq(STRING)
      <4>1. q.old \in Seq(STRING)
        BY <1>1 DEF Request
      <4> HIDE DEF q, c, grown
      <4> QED BY <1>2, <4>1
    <3>2. grown = r
      BY <2>1
    <3>3. r.old = o /\ r.new = q.new /\ SameJob(q, r) /\ r.pc = q.pc /\ r.at = c.parent
      BY <1>1 DEF Request, SameJob
    <3>4. r \in Request
      <4> HIDE DEF o
      <4> QED BY <1>1, <1>2, <3>1, Zenon DEF Request
    <3> HIDE DEF r, grown
    <3> QED BY <2>1, <3>2, <3>3, <3>4 DEF Grows
  <2>2. CASE q.pc = "newpath"
    <3> DEFINE o == c.name \o q.new
               r == [q EXCEPT !.new = o, !.at = c.parent]
    <3>1. o \in Seq(STRING)
      <4>1. q.new \in Seq(STRING)
        BY <1>1 DEF Request
      <4> HIDE DEF q, c, grown
      <4> QED BY <1>2, <4>1
    <3>2. grown = r
      BY <2>2
    <3>3. r.new = o /\ r.old = q.old /\ SameJob(q, r) /\ r.pc = q.pc /\ r.at = c.parent
      BY <1>1 DEF Request, SameJob
    <3>4. r \in Request
      <4> HIDE DEF o
      <4> QED BY <1>1, <1>2, <3>1, Zenon DEF Request
    <3> HIDE DEF r, grown
    <3> QED BY <2>2, <3>2, <3>3, <3>4 DEF Grows
  <2> QED BY <1>1, <2>1, <2>2
<1>4. /\ cut \in Request
      /\ SameJob(q, cut) /\ cut.pc = q.pc /\ cut.at = c.parent
  <2>1. cut \in Request
    BY <1>1, <1>2, Zenon DEF Request
  <2>2. SameJob(q, cut) /\ cut.pc = q.pc /\ cut.at = c.parent
    BY <1>1 DEF Request, SameJob
  <2> QED BY <2>1, <2>2
<1>5. \/ Ends(w)
      \/ ThereIn(q.at, app, cols) /\ c.parent = Root /\ Goes(w, NextPath(grown))
      \/ ThereIn(q.at, app, cols) /\ c.parent # Root /\ Goes(w, grown)
      \/ ThereIn(q.at, app, cols) /\ Endless(q.at) /\ Goes(w, cut)
  BY DEF PathOf, There, ThereIn
<1> HIDE DEF grown, cut
<1>6. CASE ThereIn(q.at, app, cols) /\ c.parent = Root /\ Goes(w, NextPath(grown))
  <2>1. NextPath(grown) \in Request /\ Knows(grown, NextPath(grown))
    BY <1>3, NextPathKnows
  <2>2. Follows(q, NextPath(grown), app, cols)
    BY <1>1, <1>3, <1>6, <2>1 DEF Follows
  <2> QED BY <1>6, <2>1, <2>2
<1>7. CASE ThereIn(q.at, app, cols) /\ c.parent # Root /\ Goes(w, grown)
  <2>1. Follows(q, grown, app, cols)
    BY <1>1, <1>3, <1>7 DEF Follows
  <2> QED BY <1>3, <1>7, <2>1
<1>8. CASE ThereIn(q.at, app, cols) /\ Endless(q.at) /\ Goes(w, cut)
  <2>1. Follows(q, cut, app, cols)
    BY <1>1, <1>4, <1>8 DEF Follows, Endless
  <2> QED BY <1>4, <1>8, <2>1
<1> QED BY <1>5, <1>6, <1>7, <1>8

\* The name is free in the other table; the path of the collection is next, if any.
Checks(q, r, cs, ds) ==
    /\ q.pc = "check"
    /\ q.op \in ColOps =>
          ~\E d \in Docs : ds[d].row = "live" /\ ds[d].parent = q.parent /\ ds[d].name = q.name
    /\ q.op \in DocOps =>
          ~\E c \in Cols : cs[c].row = "there" /\ cs[c].parent = q.parent /\ cs[c].name = q.name
    /\ \/ /\ q.op \in DocOps \cup {"createCol"} /\ SameJob(q, r) /\ r.pc = "write"
          /\ r.old = q.old /\ r.new = q.new
       \/ /\ q.op \in Reshapes /\ cs[q.row].parent = Root
          /\ \E g \in Request : /\ SameJob(q, g) /\ g.pc = "oldpath" /\ g.old = q.old
                                /\ g.new = q.new /\ Knows(g, r)
       \/ /\ q.op \in Reshapes /\ cs[q.row].parent # Root
          /\ SameJob(q, r) /\ r.pc = "oldpath" /\ r.at = cs[q.row].parent
          /\ r.old = q.old /\ r.new = q.new

LEMMA CheckDoes ==
    ASSUME IInv, NEW w \in Requests, CheckSiblingDocument(w) \/ CheckSiblingCollection(w)
    PROVE  Ends(w) \/ \E r \in Request : Goes(w, r) /\ Checks(work[w], r, cols, docs)
<1> DEFINE q == work[w]
<1>1. q \in Request /\ q.pc = "check" /\ FitsCols(q, app, cols)
  BY OneRequest DEF CheckSiblingDocument, CheckSiblingCollection
<1>2. CASE CheckSiblingCollection(w)
  <2> DEFINE r == [q EXCEPT !.pc = "write"]
  <2>1. q.op \in DocOps /\ (Ends(w) \/ (~CollectionAt(q.parent, q.name) /\ Goes(w, r)))
    BY <1>2 DEF CheckSiblingCollection, DocOps
  <2>2. r \in Request /\ SameJob(q, r) /\ r.pc = "write" /\ r.old = q.old /\ r.new = q.new
    BY <1>1 DEF Request, SameJob
  <2> HIDE DEF r
  <2>3. ~CollectionAt(q.parent, q.name) => Checks(q, r, cols, docs)
    BY <1>1, <2>1, <2>2 DEF Checks, DocOps, ColOps, CollectionAt
  <2> QED BY <2>1, <2>2, <2>3
<1>3. CASE CheckSiblingDocument(w)
  <2> DEFINE from == cols[q.row].parent
             r1 == [q EXCEPT !.pc = "write", !.at = Root]
             r2 == [q EXCEPT !.pc = "oldpath"]
             r3 == [q EXCEPT !.pc = "oldpath", !.at = from]
  <2>1. q.op \in ColOps
    BY <1>3 DEF CheckSiblingDocument, ColOps
  <2>2. \/ Ends(w)
        \/ /\ ~DocumentAt(q.parent, q.name)
           /\ \/ q.op = "createCol" /\ Goes(w, r1)
              \/ q.op # "createCol" /\ from = Root /\ Goes(w, NextPath(r2))
              \/ q.op # "createCol" /\ from # Root /\ Goes(w, r3)
    BY <1>3 DEF CheckSiblingDocument
  <2>3. Root \in Places /\ from \in Places
    BY <1>1, <2>1, ParentIsPlace DEF FitsCols, ColOps, Places
  <2>4. r1 \in Request
    BY <1>1, <2>3, Zenon DEF Request
  <2>5. r2 \in Request
    BY <1>1, <2>3, Zenon DEF Request
  <2>6. r3 \in Request
    BY <1>1, <2>3, Zenon DEF Request
  <2>7. SameJob(q, r1) /\ r1.pc = "write" /\ r1.old = q.old /\ r1.new = q.new
    BY <1>1 DEF Request, SameJob
  <2>8. SameJob(q, r2) /\ r2.pc = "oldpath" /\ r2.old = q.old /\ r2.new = q.new
    BY <1>1 DEF Request, SameJob
  <2>9. SameJob(q, r3) /\ r3.pc = "oldpath" /\ r3.at = from /\ r3.old = q.old /\ r3.new = q.new
    BY <1>1 DEF Request, SameJob
  <2>10. NextPath(r2) \in Request /\ Knows(r2, NextPath(r2))
    BY <2>5, NextPathKnows
  <2> HIDE DEF r1, r2, r3
  <2>11. CASE ~DocumentAt(q.parent, q.name) /\ q.op = "createCol" /\ Goes(w, r1)
    <3>1. Checks(q, r1, cols, docs)
      BY <1>1, <2>7, <2>11 DEF Checks, DocOps, ColOps, DocumentAt
    <3> QED BY <2>4, <2>11, <3>1
  <2>12. CASE ~DocumentAt(q.parent, q.name) /\ q.op # "createCol" /\ from = Root
              /\ Goes(w, NextPath(r2))
    <3>0. SameJob(q, NextPath(r2))
      BY <2>8, <2>10 DEF Knows, SameJob
    <3>1. q.op \in Reshapes /\ q.op \notin DocOps
      BY <2>1, <2>12 DEF ColOps, Reshapes, DocOps
    <3>2. \E g \in Request : /\ SameJob(q, g) /\ g.pc = "oldpath" /\ g.old = q.old
                             /\ g.new = q.new /\ Knows(g, NextPath(r2))
      BY <2>5, <2>8, <2>10
    <3>3. Checks(q, NextPath(r2), cols, docs)
      BY <1>1, <2>12, <3>1, <3>2 DEF Checks, DocumentAt
    <3> QED BY <2>10, <2>12, <3>3
  <2>13. CASE ~DocumentAt(q.parent, q.name) /\ q.op # "createCol" /\ from # Root /\ Goes(w, r3)
    <3>1. q.op \in Reshapes /\ q.op \notin DocOps
      BY <2>1, <2>13 DEF ColOps, Reshapes, DocOps
    <3>2. Checks(q, r3, cols, docs)
      BY <1>1, <2>9, <2>13, <3>1 DEF Checks, DocumentAt
    <3> QED BY <2>6, <2>13, <3>2
  <2> QED BY <2>2, <2>11, <2>12, <2>13
<1> QED BY <1>2, <1>3

-----------------------------------------------------------------------------
(* The writes of a rename or a move.                                       *)

Writes(q, r, cs) ==
    /\ q.pc = "write" /\ q.op \in Reshapes /\ SameJob(q, r) /\ r.pc = "scan"
    /\ r.old = q.old \o cs[q.row].name /\ r.new = q.new \o q.name

\* The key of document d when the path old of a collection above it becomes new.
Rekeyed(d, old, new, ds) == new \o SubSeq(ds[d].key, Len(old) + 1, Len(ds[d].key))

Scans(q, r, ds) ==
    /\ q.pc = "scan" /\ SameRow(q, r) /\ r.parent = q.parent /\ r.name = q.name
    /\ r.pc = "rewrite" /\ r.old = q.old /\ r.new = q.new /\ r.done = {}
    /\ q.old = q.new => r.todo = {}
    /\ q.old # q.new =>
          r.todo = {<<d, Rekeyed(d, q.old, q.new, ds)>> :
                      d \in {x \in Docs : HasRowIn(x, ds) /\ Under(q.old, ds[x].key)}}

Rewrites(q, r) ==
    /\ q.pc = "rewrite" /\ SameRow(q, r) /\ r.parent = q.parent /\ r.name = q.name
    /\ r.pc = "rewrite" /\ r.old = q.old /\ r.new = q.new
    /\ r.todo \cup r.done = q.todo \cup q.done

LEMMA WriteDoes ==
    ASSUME IInv, NEW w \in Requests, WriteCollection(w) \/ ScanKeys(w) \/ RewriteKey(w)
    PROVE  Ends(w) \/ \E r \in Request : Goes(w, r) /\ (\/ Writes(work[w], r, cols)
                                                        \/ Scans(work[w], r, docs)
                                                        \/ Rewrites(work[w], r))
<1> DEFINE q == work[w]
<1>1. q \in Request /\ FitsCols(q, app, cols) /\ FitsDocs(q, docs)
  BY OneRequest
<1>2. work' \in [Requests -> Request]
  BY WriteCollectionStep, ScanKeysStep, RewriteKeyStep DEF IInv, TypeOK
<1>3. ASSUME NEW r, Goes(w, r) PROVE r \in Request
  <2>1. work'[w] = r
    BY <1>3 DEF Goes, IInv, TypeOK
  <2> QED BY <1>2, <2>1
<1>4. CASE WriteCollection(w)
  <2> DEFINE o == q.old \o cols[q.row].name
             n == q.new \o q.name
             r == [q EXCEPT !.pc = "scan", !.old = o, !.new = n]
  <2>1. q.pc = "write" /\ q.op \in Reshapes /\ (Ends(w) \/ Goes(w, r))
    BY <1>4 DEF WriteCollection, Reshapes
  <2>2. SameJob(q, r) /\ r.pc = "scan" /\ r.old = o /\ r.new = n
    <3> HIDE DEF o, n
    <3> QED BY <1>1 DEF Request, SameJob
  <2> HIDE DEF r
  <2>3. Writes(q, r, cols)
    BY <2>1, <2>2 DEF Writes
  <2> QED BY <1>3, <2>1, <2>3
<1>5. CASE ScanKeys(w)
  <2> DEFINE below == {d \in Docs : HasRow(d) /\ Under(q.old, docs[d].key)}
             moved(d) == q.new \o SubSeq(docs[d].key, Len(q.old) + 1, Len(docs[d].key))
             todo == IF q.old = q.new THEN {} ELSE {<<d, moved(d)>> : d \in below}
             r == [q EXCEPT !.pc = "rewrite", !.todo = todo]
  <2>1. q.pc = "scan" /\ Goes(w, r) /\ q.done = {}
    BY <1>1, <1>5 DEF ScanKeys, FitsCols
  <2>2. /\ SameRow(q, r) /\ r.parent = q.parent /\ r.name = q.name
        /\ r.pc = "rewrite" /\ r.old = q.old /\ r.new = q.new /\ r.done = q.done
        /\ r.todo = todo
    <3> HIDE DEF todo
    <3> QED BY <1>1 DEF Request, SameRow
  <2> HIDE DEF r
  <2>3. q.old # q.new =>
          r.todo = {<<d, Rekeyed(d, q.old, q.new, docs)>> :
                      d \in {x \in Docs : HasRowIn(x, docs) /\ Under(q.old, docs[x].key)}}
    BY <2>2, Zenon DEF Rekeyed, HasRow, HasRowIn
  <2>4. Scans(q, r, docs)
    BY <2>1, <2>2, <2>3 DEF Scans
  <2> QED BY <1>3, <2>1, <2>4
<1>6. CASE RewriteKey(w)
  <2>1. q.pc = "rewrite"
    BY <1>6 DEF RewriteKey
  <2>2. PICK e \in q.todo :
          Ends(w) \/ Goes(w, [q EXCEPT !.todo = @ \ {e}, !.done = @ \cup {e}])
    BY <1>6 DEF RewriteKey
  <2> DEFINE r == [q EXCEPT !.todo = @ \ {e}, !.done = @ \cup {e}]
  <2>3. /\ SameRow(q, r) /\ r.parent = q.parent /\ r.name = q.name
        /\ r.pc = "rewrite" /\ r.old = q.old /\ r.new = q.new
        /\ r.todo = q.todo \ {e} /\ r.done = q.done \cup {e}
    BY <1>1, <2>1 DEF Request, SameRow
  <2>4. Ends(w) \/ Goes(w, r)
    BY <2>2
  <2> HIDE DEF r
  <2>5. Rewrites(q, r)
    BY <2>1, <2>3 DEF Rewrites
  <2> QED BY <1>3, <2>4, <2>5
<1> QED BY <1>4, <1>5, <1>6

-----------------------------------------------------------------------------
(* The steps of the system: a request comes, or reads and writes on its    *)
(* own, or a table changes.                                                *)

Advances(q, r, ap, cs, ds) ==
    \/ r = Over
    \/ Locks(q, r, cs) \/ Climbs(q, r, ap, cs) \/ Follows(q, r, ap, cs) \/ Checks(q, r, cs, ds)
    \/ Writes(q, r, cs) \/ Scans(q, r, ds) \/ Rewrites(q, r)

Commits(w) == InsertCollection(w) \/ CommitCollection(w) \/ PlaceDocument(w)

LEMMA StepAdvances ==
    ASSUME IInv, NEW w \in Requests, Step(w) \/ Fail(w)
    PROVE  \/ \E r \in Request : Goes(w, r) /\ Advances(work[w], r, app, cols, docs)
           \/ Commits(w) /\ ~Ends(w)
<1>1. Over \in Request /\ Advances(work[w], Over, app, cols, docs)
  BY OverIsIdle DEF Advances
<1>2. Ends(w) => Goes(w, Over)
  BY DEF Ends, Goes
<1>3. CASE LockCollection(w) \/ LockDocument(w)
  BY <1>1, <1>2, <1>3, LockDoes DEF Advances
<1>4. CASE CheckMoveTarget(w)
  BY <1>1, <1>2, <1>4, ClimbDoes DEF Advances
<1>5. CASE PathOf(w)
  BY <1>1, <1>2, <1>5, FollowDoes DEF Advances
<1>6. CASE CheckSiblingDocument(w) \/ CheckSiblingCollection(w)
  BY <1>1, <1>2, <1>6, CheckDoes DEF Advances
<1>7. CASE WriteCollection(w) \/ ScanKeys(w) \/ RewriteKey(w)
  BY <1>1, <1>2, <1>7, WriteDoes DEF Advances
<1> QED BY <1>1, <1>2, <1>3, <1>4, <1>5, <1>6, <1>7 DEF Step, Fail, Commits

\* The requests that come keep to what they were asked, and tables stay.
Begins(w, r) ==
    /\ work[w] = New /\ work' = [work EXCEPT ![w] = r]
    /\ r.op \in ColOps \cup DocOps /\ r.old = <<>> /\ r.new = <<>> /\ r.at = r.parent
    /\ r.todo = {} /\ r.done = {}
    /\ \A v \in Others(w) : Harm(r.op, work[v].op) \cup Harm(work[v].op, r.op) \subseteq raced'
    /\ raced \subseteq raced' /\ UNCHANGED <<app, released, cols, docs>>

LEMMA BeginDoes ==
    ASSUME IInv, NEW w \in Requests, NEW op \in ColOps \cup DocOps, NEW row, NEW p, NEW n, NEW pc,
           Begin(w, op, row, p, n, pc)
    PROVE  \E r : /\ Begins(w, r)
                  /\ r.op = op /\ r.row = row /\ r.parent = p /\ r.name = n /\ r.pc = pc
<1> DEFINE r == [New EXCEPT !.op = op, !.row = row, !.parent = p, !.name = n, !.at = p, !.pc = pc]
<1>1. /\ r.op = op /\ r.row = row /\ r.parent = p /\ r.name = n /\ r.at = p /\ r.pc = pc
      /\ r.old = <<>> /\ r.new = <<>> /\ r.todo = {} /\ r.done = {}
  BY DEF New
<1>2. work[w] = New /\ work' = [work EXCEPT ![w] = r] /\ UNCHANGED <<app, released, cols, docs>>
  BY DEF Begin
<1>3. raced' = raced \cup UNION {Harm(op, work[v].op) \cup Harm(work[v].op, op) : v \in Others(w)}
  BY DEF Begin
<1> HIDE DEF r
<1>4. \A v \in Others(w) : Harm(r.op, work[v].op) \cup Harm(work[v].op, r.op) \subseteq raced'
  <2> SUFFICES ASSUME NEW v \in Others(w)
               PROVE  Harm(op, work[v].op) \cup Harm(work[v].op, op) \subseteq raced'
    BY <1>1
  <2>1. Harm(op, work[v].op) \cup Harm(work[v].op, op) \in
          {Harm(op, work[x].op) \cup Harm(work[x].op, op) : x \in Others(w)}
    OBVIOUS
  <2> QED BY <1>3, <2>1
<1>5. raced \subseteq raced'
  BY <1>3
<1>6. Begins(w, r)
  BY <1>1, <1>2, <1>4, <1>5 DEF Begins
<1> QED BY <1>1, <1>6

LEMMA ArrivesBegins ==
    ASSUME IInv, NEW w \in Requests, Arrives(w)
    PROVE  \E r \in Request : Begins(w, r) /\
             \/ r.op = "createCol" /\ r.pc = "check" /\ r.name \in Names
             \/ r.op = "renameCol" /\ r.pc = "lock" /\ r.name \in Names
             \/ r.op = "moveCol" /\ r.pc = "lock"
             \/ r.op = "createDoc" /\ There(r.parent) /\ r.name \in Names
                /\ r.pc = (IF r.parent = Root THEN "check" ELSE "newpath")
             \/ r.op = "moveDoc" /\ There(r.parent) /\ r.name \in Names /\ r.pc = "lock"
<1>1. ASSUME NEW r, Begins(w, r) PROVE r \in Request
  <2>1. IInv'
    BY BeginStep
  <2>2. work'[w] = r
    BY <1>1 DEF Begins, IInv, TypeOK
  <2> QED BY <2>1, <2>2 DEF IInv, TypeOK
<1>2. ASSUME NEW c \in Cols, NEW p \in Places, NEW n \in Names, CreateCollection(w, c, p, n)
      PROVE  \E r : Begins(w, r) /\ r.op = "createCol" /\ r.pc = "check" /\ r.name \in Names
  BY <1>2, BeginDoes DEF CreateCollection, ColOps
<1>3. ASSUME NEW c \in Cols, NEW n \in Names, RenameCollection(w, c, n)
      PROVE  \E r : Begins(w, r) /\ r.op = "renameCol" /\ r.pc = "lock" /\ r.name \in Names
  BY <1>3, BeginDoes DEF RenameCollection, ColOps
<1>4. ASSUME NEW c \in Cols, NEW p \in Places, MoveCollection(w, c, p)
      PROVE  \E r : Begins(w, r) /\ r.op = "moveCol" /\ r.pc = "lock"
  BY <1>4, BeginDoes DEF MoveCollection, ColOps
<1>5. ASSUME NEW d \in Docs, NEW p \in Places, NEW n \in Names, CreateDocument(w, d, p, n)
      PROVE  \E r : Begins(w, r) /\ r.op = "createDoc" /\ There(r.parent) /\ r.name \in Names
                    /\ r.pc = (IF r.parent = Root THEN "check" ELSE "newpath")
  BY <1>5, BeginDoes DEF CreateDocument, DocOps
<1>6. ASSUME NEW d \in Docs, NEW p \in Places, NEW n \in Names, MoveDocument(w, d, p, n)
      PROVE  \E r : Begins(w, r) /\ r.op = "moveDoc" /\ There(r.parent) /\ r.name \in Names
                    /\ r.pc = "lock"
  BY <1>6, BeginDoes DEF MoveDocument, DocOps
<1>7. CASE \E c \in Cols, p \in Places, n \in Names : CreateCollection(w, c, p, n)
  BY <1>1, <1>2, <1>7
<1>8. CASE \E c \in Cols, n \in Names : RenameCollection(w, c, n)
  BY <1>1, <1>3, <1>8
<1>9. CASE \E c \in Cols, p \in Places : MoveCollection(w, c, p)
  BY <1>1, <1>4, <1>9
<1>10. CASE \E d \in Docs, p \in Places, n \in Names : CreateDocument(w, d, p, n)
  BY <1>1, <1>5, <1>10
<1>11. CASE \E d \in Docs, p \in Places, n \in Names : MoveDocument(w, d, p, n)
  BY <1>1, <1>6, <1>11
<1> QED BY <1>7, <1>8, <1>9, <1>10, <1>11 DEF Arrives

-----------------------------------------------------------------------------
(* The harm that requests in flight can do to each other has been noted.   *)

Noted(wk, rc) == \A v, w \in Requests : v # w => Harm(wk[v].op, wk[w].op) \subseteq rc

LEMMA NoHarm == \A o : Harm("", o) = {} /\ Harm(o, "") = {}
BY DEF Harm

LEMMA HarmOf ==
    /\ Harm("moveCol", "moveCol") = {"keys", "cycle"}
    /\ \A o \in {"createDoc", "moveDoc", "renameCol", "moveCol"} :
          "keys" \in Harm("renameCol", o) /\ "keys" \in Harm("moveCol", o)
    /\ \A o \in ColOps, p \in DocOps : "names" \in Harm(o, p)
BY DEF Harm, Harms, ColOps, DocOps

LEMMA InitNoted == Init => Noted(work, raced)
BY OverIsIdle, NoHarm DEF Init, Noted

\* A step that only ends requests adds no harm.
LEMMA QuietNoted ==
    ASSUME Noted(work, raced), raced \subseteq raced',
           \A v \in Requests : work'[v].op \in {work[v].op, ""}
    PROVE  Noted(work', raced')
BY NoHarm DEF Noted

LEMMA CommitEnds ==
    ASSUME IInv, NEW w \in Requests, Commits(w)
    PROVE  work' = [work EXCEPT ![w] = Over] /\ UNCHANGED <<app, released, raced>>
BY DEF Commits, InsertCollection, CommitCollection, PlaceDocument, Ends

LEMMA NextNoted ==
    ASSUME IInv, Noted(work, raced), [Next]_vars PROVE Noted(work', raced')
<1>1. CASE UNCHANGED vars
  BY <1>1 DEF vars, Noted
<1>2. ASSUME NEW w \in Requests, Arrives(w) PROVE Noted(work', raced')
  <2>1. PICK r \in Request : Begins(w, r)
    BY <1>2, ArrivesBegins
  <2>2. \A v \in Requests : work'[v] = IF v = w THEN r ELSE work[v]
    BY <2>1 DEF Begins, IInv, TypeOK
  <2> QED BY <2>1, <2>2 DEF Begins, Noted, Others
<1>3. ASSUME NEW w \in Requests, NEW r \in Request, Goes(w, r),
             Advances(work[w], r, app, cols, docs)
      PROVE  Noted(work', raced')
  <2>1. r.op \in {work[w].op, ""}
    BY <1>3, OverIsIdle DEF Advances, Locks, Climbs, Follows, Checks, Writes, Scans, Rewrites,
       SameRow, SameJob, Knows, Grows
  <2>2. \A v \in Requests : work'[v] = IF v = w THEN r ELSE work[v]
    BY <1>3 DEF Goes, IInv, TypeOK
  <2>3. raced' = raced
    BY <1>3 DEF Goes
  <2> QED BY <2>1, <2>2, <2>3, QuietNoted
<1>4. ASSUME NEW w \in Requests, Commits(w) PROVE Noted(work', raced')
  <2>1. \A v \in Requests : work'[v] = IF v = w THEN Over ELSE work[v]
    BY <1>4, CommitEnds DEF IInv, TypeOK
  <2> QED BY <1>4, <2>1, CommitEnds, OverIsIdle, QuietNoted
<1>5. CASE (\E c \in Cols : DeleteCollection(c)) \/ (\E d \in Docs : Release(d) \/ DeleteDocument(d))
           \/ DeleteApp
  <2>1. work' = work /\ raced' = raced
    BY <1>5 DEF DeleteCollection, Release, DeleteDocument, DeleteApp
  <2> QED BY <2>1 DEF Noted
<1> QED BY <1>1, <1>2, <1>3, <1>4, <1>5, StepAdvances DEF Next

-----------------------------------------------------------------------------
(* What the statements that change a table leave behind.                   *)

LEMMA InsertWrites ==
    ASSUME IInv, NEW w \in Requests, InsertCollection(w), ~Ends(w)
    PROVE  LET q == work[w] IN
           /\ q.op = "createCol" /\ q.pc = "write" /\ q.row \in Cols /\ cols[q.row].row = "none"
           /\ q.parent \in Places /\ ThereIn(q.parent, app, cols) /\ q.name \in Names \cup {<<>>}
           /\ cols' \in [Cols -> Collection]
           /\ \A x \in Cols \ {q.row} : cols'[x] = cols[x]
           /\ cols'[q.row].row = "there"
           /\ cols'[q.row].parent = q.parent /\ cols'[q.row].name = q.name
           /\ docs' = docs
<1> DEFINE q == work[w]
           new == [row |-> "there", parent |-> q.parent, name |-> q.name]
<1>1. q \in Request /\ q.pc = "write" /\ q.op = "createCol" /\ q.row \in Cols
      /\ cols[q.row].row = "none"
  BY OneRequest DEF InsertCollection, FitsCols
<1>2. Allowed(q) /\ cols' = [cols EXCEPT ![q.row] = new] /\ docs' = docs
  BY DEF InsertCollection
<1>3. q.parent \in Places /\ q.name \in Names \cup {<<>>} /\ ThereIn(q.parent, app, cols)
  BY <1>1, <1>2 DEF Request, Allowed, Refers, There, ThereIn
<1>4. new \in Collection
  BY <1>3 DEF Collection
<1> QED BY <1>1, <1>2, <1>3, <1>4 DEF IInv, TypeOK

LEMMA PlaceWrites ==
    ASSUME IInv, NEW w \in Requests, PlaceDocument(w), ~Ends(w)
    PROVE  LET q == work[w] IN
           /\ q.op \in DocOps /\ q.pc = "write" /\ q.row \in Docs
           /\ q.parent \in Places /\ q.name \in Names \cup {<<>>}
           /\ \A x \in Docs \ {q.row} : docs'[x] = docs[x]
           /\ docs'[q.row].parent = q.parent /\ docs'[q.row].name = q.name
           /\ docs'[q.row].key = q.new \o q.name
           /\ cols' = cols
<1> DEFINE q == work[w]
           row == IF q.op = "createDoc" THEN "live" ELSE docs[q.row].row
           k == q.new \o q.name
           new == [row |-> row, parent |-> q.parent, name |-> q.name, key |-> k]
<1>1. q \in Request /\ q.pc = "write" /\ q.op \in DocOps /\ q.row \in Docs
  BY OneRequest DEF PlaceDocument, FitsDocs, DocOps
<1>2. docs' = [docs EXCEPT ![q.row] = new] /\ cols' = cols
  BY DEF PlaceDocument
<1>3. docs'[q.row] = new /\ \A x \in Docs \ {q.row} : docs'[x] = docs[x]
  BY <1>1, <1>2 DEF IInv, TypeOK
<1>4. q.parent \in Places /\ q.name \in Names \cup {<<>>}
  BY <1>1 DEF Request
<1>5. new.parent = q.parent /\ new.name = q.name /\ new.key = k
  <2> HIDE DEF k
  <2> QED OBVIOUS
<1> HIDE DEF new
<1> QED BY <1>1, <1>2, <1>3, <1>4, <1>5

\* Deletions and releases take rows away, and change nothing else of a row.
Deletes == \/ \E c \in Cols : DeleteCollection(c)
           \/ \E d \in Docs : Release(d) \/ DeleteDocument(d)
           \/ DeleteApp

LEMMA DeleteWrites ==
    ASSUME IInv, Deletes
    PROVE  /\ work' = work /\ raced' = raced
           /\ \A c \in Cols : /\ cols'[c].parent = cols[c].parent /\ cols'[c].name = cols[c].name
                              /\ cols'[c].row = "there" => cols[c].row = "there"
                              /\ cols[c].row # "none" => cols'[c].row # "none"
           /\ \A d \in Docs : /\ docs'[d].parent = docs[d].parent /\ docs'[d].name = docs[d].name
                              /\ docs'[d].key = docs[d].key
                              /\ HasRowIn(d, docs') => HasRowIn(d, docs)
                              /\ docs'[d].row = "live" => docs[d].row = "live"
<1>1. TypeOK
  BY DEF IInv
<1>2. ASSUME NEW c \in Cols, DeleteCollection(c)
      PROVE  /\ docs' = docs /\ work' = work /\ raced' = raced
             /\ \A x \in Cols : /\ cols'[x].parent = cols[x].parent /\ cols'[x].name = cols[x].name
                                /\ cols'[x].row = "there" => cols[x].row = "there"
                                /\ cols[x].row # "none" => cols'[x].row # "none"
  BY <1>1, <1>2 DEF DeleteCollection, TypeOK, Collection
<1>3. ASSUME NEW d \in Docs, Release(d) \/ DeleteDocument(d)
      PROVE  /\ cols' = cols /\ work' = work /\ raced' = raced
             /\ \A x \in Docs : /\ docs'[x].parent = docs[x].parent /\ docs'[x].name = docs[x].name
                                /\ docs'[x].key = docs[x].key
                                /\ HasRowIn(x, docs') => HasRowIn(x, docs)
                                /\ docs'[x].row = "live" => docs[x].row = "live"
  BY <1>1, <1>3 DEF Release, DeleteDocument, TypeOK, Document, HasRow, HasRowIn
<1>4. CASE DeleteApp
  <2>1. \A x \in Cols : /\ cols'[x].parent = cols[x].parent /\ cols'[x].name = cols[x].name
                        /\ cols'[x].row = "there" => cols[x].row = "there"
                        /\ cols[x].row # "none" => cols'[x].row # "none"
    BY <1>1, <1>4 DEF DeleteApp, TypeOK, Collection
  <2>2. \A x \in Docs : /\ docs'[x].parent = docs[x].parent /\ docs'[x].name = docs[x].name
                        /\ docs'[x].key = docs[x].key
                        /\ HasRowIn(x, docs') => HasRowIn(x, docs)
                        /\ docs'[x].row = "live" => docs[x].row = "live"
    BY <1>1, <1>4 DEF DeleteApp, TypeOK, Document, HasRow, HasRowIn
  <2> QED BY <1>4, <2>1, <2>2 DEF DeleteApp
<1> QED BY <1>2, <1>3, <1>4 DEF Deletes

-----------------------------------------------------------------------------
(* Names differ across the tables.                                         *)

NamesApart(cs, ds) ==
    \A c \in Cols, d \in Docs :
        cs[c].row = "there" /\ ds[d].row = "live" /\ cs[c].parent = ds[d].parent =>
            cs[c].name # ds[d].name

\* The name a request checked is still free in the other table.
Named(r, cs, ds) ==
    /\ r.op \in ColOps /\ r.pc \in {"oldpath", "newpath", "write", "scan", "rewrite"} =>
          \A d \in Docs : ~(ds[d].row = "live" /\ ds[d].parent = r.parent /\ ds[d].name = r.name)
    /\ r.op \in DocOps /\ r.pc = "write" =>
          \A c \in Cols : ~(cs[c].row = "there" /\ cs[c].parent = r.parent /\ cs[c].name = r.name)

NamesPart(cs, ds, wk, rc) ==
    "names" \notin rc => NamesApart(cs, ds) /\ \A w \in Requests : Named(wk[w], cs, ds)

LEMMA AdvanceNamed ==
    ASSUME NEW q, NEW r, NEW ap, NEW cs, NEW ds, Named(q, cs, ds), Advances(q, r, ap, cs, ds)
    PROVE  Named(r, cs, ds)
<1> USE DEF ColOps, DocOps, Reshapes
<1>1. CASE r = Over
  BY <1>1, OverIsIdle DEF Named
<1>2. CASE Locks(q, r, cs) \/ Climbs(q, r, ap, cs)
  BY <1>2 DEF Locks, Climbs, SameRow, SameJob, Named
<1>3. CASE Follows(q, r, ap, cs)
  BY <1>3 DEF Follows, Knows, Grows, SameJob, Named
<1>4. CASE Checks(q, r, cs, ds)
  BY <1>4 DEF Checks, Knows, SameJob, Named
<1>5. CASE Writes(q, r, cs) \/ Scans(q, r, ds) \/ Rewrites(q, r)
  BY <1>5 DEF Writes, Scans, Rewrites, SameJob, SameRow, Named
<1> QED BY <1>1, <1>2, <1>3, <1>4, <1>5 DEF Advances

LEMMA NextNames ==
    ASSUME IInv, Noted(work, raced), NamesPart(cols, docs, work, raced), [Next]_vars
    PROVE  NamesPart(cols', docs', work', raced')
<1> SUFFICES ASSUME "names" \notin raced'
             PROVE  NamesApart(cols', docs') /\ \A v \in Requests : Named(work'[v], cols', docs')
  BY DEF NamesPart
<1>1. CASE UNCHANGED vars
  BY <1>1 DEF vars, NamesPart
<1>2. ASSUME NEW w \in Requests, Arrives(w)
      PROVE  NamesApart(cols', docs') /\ \A v \in Requests : Named(work'[v], cols', docs')
  <2>1. \E r \in Request : Begins(w, r) /\ (r.pc \in {"check", "lock"}
                                           \/ (r.op = "createDoc" /\ r.pc \in {"check", "newpath"}))
    BY <1>2, ArrivesBegins, Zenon
  <2>2. PICK r \in Request : Begins(w, r) /\ r.pc # "write" /\ (r.op \in ColOps => r.pc \in {"check", "lock"})
    BY <2>1 DEF ColOps
  <2>3. \A v \in Requests : work'[v] = IF v = w THEN r ELSE work[v]
    BY <2>2 DEF Begins, IInv, TypeOK
  <2>4. NamesApart(cols, docs) /\ \A v \in Requests : Named(work[v], cols, docs)
    BY <2>2 DEF Begins, NamesPart
  <2>5. Named(r, cols, docs)
    BY <2>2 DEF Named, ColOps
  <2> QED BY <2>2, <2>3, <2>4, <2>5 DEF Begins
<1>3. ASSUME NEW w \in Requests, NEW r \in Request, Goes(w, r),
             Advances(work[w], r, app, cols, docs)
      PROVE  NamesApart(cols', docs') /\ \A v \in Requests : Named(work'[v], cols', docs')
  <2>1. \A v \in Requests : work'[v] = IF v = w THEN r ELSE work[v]
    BY <1>3 DEF Goes, IInv, TypeOK
  <2>2. NamesApart(cols, docs) /\ \A v \in Requests : Named(work[v], cols, docs)
    BY <1>3 DEF Goes, NamesPart
  <2>3. Named(r, cols, docs)
    BY <1>3, <2>2, AdvanceNamed
  <2> QED BY <1>3, <2>1, <2>2, <2>3 DEF Goes
<1>4. ASSUME NEW w \in Requests, Commits(w), ~Ends(w)
      PROVE  NamesApart(cols', docs') /\ \A v \in Requests : Named(work'[v], cols', docs')
  <2> DEFINE q == work[w]
  <2>1. \A v \in Requests : work'[v] = IF v = w THEN Over ELSE work[v]
    BY <1>4, CommitEnds DEF IInv, TypeOK
  <2>2. NamesApart(cols, docs) /\ \A v \in Requests : Named(work[v], cols, docs)
    BY <1>4, CommitEnds DEF NamesPart
  <2>3. Named(Over, cols', docs')
    BY OverIsIdle DEF Named, ColOps, DocOps
  <2>4. ASSUME NEW v \in Requests, v # w
        PROVE  ~(q.op \in ColOps /\ work[v].op \in DocOps) /\ ~(q.op \in DocOps /\ work[v].op \in ColOps)
    BY <1>4, <2>4, CommitEnds, HarmOf DEF Noted
  <2>5. CASE InsertCollection(w)
    <3>1. q.op \in ColOps /\ q.pc = "write"
      BY <1>4, <2>5, InsertWrites DEF ColOps
    <3>2. NamesApart(cols', docs')
      BY <1>4, <2>2, <2>5, <3>1, InsertWrites DEF NamesApart, Named
    <3>3. ASSUME NEW v \in Requests, v # w PROVE Named(work[v], cols', docs')
      BY <1>4, <2>2, <2>4, <2>5, <3>1, <3>3, InsertWrites DEF Named
    <3> QED BY <2>1, <2>3, <3>2, <3>3
  <2>6. CASE CommitCollection(w)
    <3>1. q.op \in ColOps /\ q.pc = "rewrite" /\ q.row \in Cols
      BY <2>6, OneRequest DEF CommitCollection, FitsCols, Writing, ColOps
    <3>2. /\ \A x \in Cols : cols'[x].row = cols[x].row
          /\ \A x \in Cols \ {q.row} : cols'[x] = cols[x]
          /\ cols'[q.row].parent = q.parent /\ cols'[q.row].name = q.name
      BY <2>6, <3>1, CommitWrites
    <3>3. \A d \in Docs : /\ docs'[d].row = docs[d].row /\ docs'[d].parent = docs[d].parent
                         /\ docs'[d].name = docs[d].name
      BY <2>6, CommitWrites
    <3>4. \A d \in Docs : ~(docs[d].row = "live" /\ docs[d].parent = q.parent /\ docs[d].name = q.name)
      BY <2>2, <3>1 DEF Named
    <3> HIDE DEF q
    <3>5. NamesApart(cols', docs')
      BY <2>2, <3>1, <3>2, <3>3, <3>4 DEF NamesApart
    <3>6. ASSUME NEW v \in Requests, v # w PROVE Named(work[v], cols', docs')
      BY <2>2, <2>4, <3>1, <3>3, <3>6 DEF Named
    <3> QED BY <2>1, <2>3, <3>5, <3>6
  <2>7. CASE PlaceDocument(w)
    <3>1. /\ q.op \in DocOps /\ q.pc = "write" /\ q.row \in Docs /\ cols' = cols
          /\ \A x \in Docs \ {q.row} : docs'[x] = docs[x]
          /\ docs'[q.row].parent = q.parent /\ docs'[q.row].name = q.name
      BY <1>4, <2>7, PlaceWrites
    <3>2. \A c \in Cols : ~(cols[c].row = "there" /\ cols[c].parent = q.parent /\ cols[c].name = q.name)
      BY <2>2, <3>1 DEF Named
    <3> HIDE DEF q
    <3>3. NamesApart(cols', docs')
      BY <2>2, <3>1, <3>2 DEF NamesApart
    <3>4. ASSUME NEW v \in Requests, v # w PROVE Named(work[v], cols', docs')
      BY <2>2, <2>4, <3>1, <3>4 DEF Named
    <3> QED BY <2>1, <2>3, <3>3, <3>4
  <2> QED BY <1>4, <2>5, <2>6, <2>7 DEF Commits
<1>5. CASE Deletes
  <2>1. NamesApart(cols, docs) /\ \A v \in Requests : Named(work[v], cols, docs)
    BY <1>5, DeleteWrites DEF NamesPart
  <2> QED BY <1>5, <2>1, DeleteWrites DEF NamesApart, Named
<1> QED BY <1>1, <1>2, <1>3, <1>4, <1>5, StepAdvances DEF Next, Deletes

LEMMA InitNames == Init => NamesPart(cols, docs, work, raced)
<1> SUFFICES ASSUME Init PROVE NamesPart(cols, docs, work, raced)
  OBVIOUS
<1>1. NamesDifferAcrossTables /\ raced = {} /\ \A w \in Requests : work[w] = New
  BY DEF Init
<1>2. NamesApart(cols, docs)
  BY <1>1 DEF NamesDifferAcrossTables, NamesApart, DocumentAt
<1>3. Named(New, cols, docs)
  BY OverIsIdle DEF Named, ColOps, DocOps
<1> QED BY <1>1, <1>2, <1>3 DEF NamesPart

\* A collection and a document never share a name and a place unless a request that
\* names the one overlapped a request that names the other.
THEOREM NamesInvariance == Spec => []NamesDifferAcrossTables
<1> DEFINE J == IInv /\ Noted(work, raced) /\ NamesPart(cols, docs, work, raced)
<1>1. Init => J
  BY InitInv, InitNoted, InitNames
<1>2. J /\ [Next]_vars => J'
  BY NextKeepsInv, NextNoted, NextNames
<1>3. J => NamesDifferAcrossTables
  BY DEF NamesPart, NamesApart, NamesDifferAcrossTables, DocumentAt
<1> QED BY <1>1, <1>2, <1>3, PTL DEF Spec

-----------------------------------------------------------------------------
(* Collections stay a tree.                                                *)

\* A walk from p up the parents never ends.
EndlessIn(p, cs) == \E S \in SUBSET Cols : p \in S /\ \A c \in S : cs[c].parent \in S

NoCycle(cs) == \A c \in Cols : ~EndlessIn(c, cs)

Exists(p, cs) == p = Root \/ cs[p].row # "none"

\* What refers to a collection refers to one that was made.
Grown(cs, wk) ==
    /\ \A c \in Cols : Exists(cs[c].parent, cs)
    /\ \A w \in Requests : wk[w].op \in DocOps => Exists(wk[w].parent, cs)

\* Places that a walk up leads through, from the destination of request r to the root,
\* or to where the walk has come: the collection to be moved is not among them.
Above(S, end, r, cs) ==
    /\ r.row \notin S /\ r.parent \in S \cup end
    /\ \A x \in S \ {Root} : cs[x].row # "none" /\ cs[x].parent \in S \cup end

Cleared(r, cs) ==
    r.op = "moveCol" /\ r.pc # "lock" =>
        \E S \in SUBSET Places : Above(S, IF r.pc = "cycle" THEN {r.at} ELSE {}, r, cs)

TreePart(cs, wk, rc) ==
    /\ Grown(cs, wk)
    /\ "cycle" \notin rc => NoCycle(cs) /\ \A w \in Requests : Cleared(wk[w], cs)

LEMMA AdvanceCleared ==
    ASSUME IInv, NEW w \in Requests, NEW r, Cleared(work[w], cols),
           Advances(work[w], r, app, cols, docs)
    PROVE  Cleared(r, cols)
<1> DEFINE q == work[w]
<1> SUFFICES ASSUME r.op = "moveCol", r.pc # "lock"
             PROVE  \E S \in SUBSET Places : Above(S, IF r.pc = "cycle" THEN {r.at} ELSE {}, r, cols)
  BY DEF Cleared
<1>0. r # Over
  BY OverIsIdle
<1>1. q \in Request /\ FitsCols(q, app, cols) /\ Root \in Places
  BY OneRequest DEF Places
<1>2. CASE Locks(q, r, cols)
  <2>1. /\ q.op = "moveCol" /\ q.row \in Cols /\ q.at = q.parent /\ q.parent # q.row
        /\ r.row = q.row /\ r.parent = q.parent /\ r.at = q.at
        /\ r.pc = (IF q.parent = Root THEN "check" ELSE "cycle")
    BY <1>1, <1>2 DEF Locks, SameRow, FitsCols
  <2>2. CASE q.parent = Root
    <3>1. Above({Root}, {}, r, cols)
      BY <2>1, <2>2, RootAssumption DEF Above
    <3> QED BY <1>1, <2>1, <2>2, <3>1
  <2>3. CASE q.parent # Root
    <3>1. Above({}, {r.at}, r, cols)
      BY <2>1 DEF Above
    <3> QED BY <2>1, <2>3, <3>1
  <2> QED BY <2>2, <2>3
<1>3. CASE Climbs(q, r, app, cols)
  <2>1. /\ q.op = "moveCol" /\ q.pc = "cycle" /\ r.row = q.row /\ r.parent = q.parent
        /\ q.at \in Cols /\ q.at # Root /\ cols[q.at].row = "there" /\ q.at # q.row /\ q.row \in Cols
        /\ r.at = cols[q.at].parent /\ r.pc = (IF r.at = Root THEN "check" ELSE "cycle")
    BY <1>1, <1>3, RootAssumption DEF Climbs, SameJob, FitsCols, ThereIn
  <2>2. PICK S \in SUBSET Places : Above(S, {q.at}, q, cols)
    BY <2>1 DEF Cleared
  <2>3. q.at \in Places /\ r.at \in Places
    BY <2>1, ParentIsPlace DEF Places
  <2>4. CASE r.at = Root
    <3> DEFINE T == S \cup {q.at, Root}
    <3>1. T \in SUBSET Places
      BY <1>1, <2>3
    <3>2. Above(T, {}, r, cols)
      BY <2>1, <2>2, <2>4, RootAssumption DEF Above
    <3> QED BY <2>1, <2>4, <3>1, <3>2
  <2>5. CASE r.at # Root
    <3> DEFINE T == S \cup {q.at}
    <3>1. T \in SUBSET Places
      BY <2>3
    <3>2. Above(T, {r.at}, r, cols)
      BY <2>1, <2>2 DEF Above
    <3> QED BY <2>1, <2>5, <3>1, <3>2
  <2> QED BY <2>4, <2>5
<1>4. CASE Follows(q, r, app, cols) \/ Checks(q, r, cols, docs) \/ Writes(q, r, cols)
           \/ Scans(q, r, docs) \/ Rewrites(q, r)
  <2>1. r.row = q.row /\ r.parent = q.parent /\ q.op = "moveCol"
    BY <1>4 DEF Follows, Knows, Grows, Checks, Writes, Scans, Rewrites, SameJob, SameRow
  <2>2. q.pc \notin {"lock", "cycle"} /\ r.pc # "cycle"
    BY <1>4 DEF Follows, Knows, Grows, Checks, Writes, Scans, Rewrites, SameJob, SameRow
  <2>3. PICK S \in SUBSET Places : Above(S, {}, q, cols)
    BY <2>1, <2>2 DEF Cleared
  <2>4. Above(S, {}, r, cols)
    BY <2>1, <2>3 DEF Above
  <2> QED BY <2>2, <2>4
<1> QED BY <1>0, <1>2, <1>3, <1>4 DEF Advances

\* Rows come and go; where no parent changes, walks stay what they are.
LEMMA SameParents ==
    ASSUME NEW cs, NEW new,
           \A x \in Cols : /\ new[x].parent = cs[x].parent
                           /\ cs[x].row # "none" => new[x].row # "none"
    PROVE  /\ NoCycle(cs) => NoCycle(new)
           /\ \A p \in Places : Exists(p, cs) => Exists(p, new)
           /\ \A r : Cleared(r, cs) => Cleared(r, new)
<1>1. NoCycle(cs) => NoCycle(new)
  BY DEF NoCycle, EndlessIn
<1>2. \A p \in Places : Exists(p, cs) => Exists(p, new)
  BY DEF Exists, Places
<1>3. ASSUME NEW r, NEW S \in SUBSET Places, NEW end, Above(S, end, r, cs)
      PROVE  Above(S, end, r, new)
  BY <1>3 DEF Above, Places
<1>4. \A r : Cleared(r, cs) => Cleared(r, new)
  BY <1>3 DEF Cleared
<1> QED BY <1>1, <1>2, <1>4

\* A collection goes below another one: above that one it is not met.
LEMMA MoveNoCycle ==
    ASSUME NEW cs, NEW new, NEW c \in Cols, NEW p \in Places, NoCycle(cs),
           \A x \in Cols \ {c} : new[x].parent = cs[x].parent, new[c].parent = p,
           NEW S \in SUBSET Places, c \notin S, p \in S,
           \A x \in S \ {Root} : cs[x].parent \in S
    PROVE  NoCycle(new)
<1> SUFFICES ASSUME NEW b \in Cols, NEW T \in SUBSET Cols, b \in T,
                    \A x \in T : new[x].parent \in T
             PROVE  FALSE
  BY DEF NoCycle, EndlessIn
<1>1. CASE c \notin T
  <2>1. \A x \in T : cs[x].parent \in T
    BY <1>1
  <2> QED BY <2>1 DEF NoCycle, EndlessIn
<1>2. CASE c \in T
  <2> DEFINE U == T \cap S
  <2>1. p \in U
    BY <1>2
  <2>2. ASSUME NEW x \in U PROVE cs[x].parent \in U
    <3>1. x \in Cols /\ x # c /\ x # Root
      BY RootAssumption
    <3> QED BY <3>1
  <2>3. U \in SUBSET Cols
    OBVIOUS
  <2> QED BY <2>1, <2>2, <2>3 DEF NoCycle, EndlessIn
<1> QED BY <1>1, <1>2

\* A collection that nothing lies in is placed.
LEMMA AddNoCycle ==
    ASSUME NEW cs, NEW new, NEW c \in Cols, NEW p \in Places, p # c, NoCycle(cs),
           \A x \in Cols \ {c} : new[x].parent = cs[x].parent /\ cs[x].parent # c,
           new[c].parent = p
    PROVE  NoCycle(new)
<1> SUFFICES ASSUME NEW b \in Cols, NEW T \in SUBSET Cols, b \in T,
                    \A x \in T : new[x].parent \in T
             PROVE  FALSE
  BY DEF NoCycle, EndlessIn
<1> DEFINE U == T \ {c}
<1>1. \A x \in U : cs[x].parent \in U
  OBVIOUS
<1>2. U # {}
  OBVIOUS
<1> QED BY <1>1, <1>2 DEF NoCycle, EndlessIn

LEMMA NextTree ==
    ASSUME IInv, Noted(work, raced), TreePart(cols, work, raced), [Next]_vars
    PROVE  TreePart(cols', work', raced')
<1>0. /\ Grown(cols, work)
      /\ "cycle" \notin raced => NoCycle(cols) /\ \A v \in Requests : Cleared(work[v], cols)
  BY DEF TreePart
<1>1. CASE UNCHANGED vars
  BY <1>1 DEF vars, TreePart
<1>2. ASSUME NEW w \in Requests, Arrives(w) PROVE TreePart(cols', work', raced')
  <2>1. \E r \in Request : Begins(w, r) /\ (r.op \in DocOps => There(r.parent))
                           /\ (r.op = "moveCol" => r.pc = "lock")
    BY <1>2, ArrivesBegins, Zenon DEF DocOps
  <2>2. PICK r \in Request : Begins(w, r) /\ (r.op \in DocOps => There(r.parent))
                             /\ (r.op = "moveCol" => r.pc = "lock")
    BY <2>1
  <2>3. /\ \A v \in Requests : work'[v] = IF v = w THEN r ELSE work[v]
        /\ cols' = cols /\ raced \subseteq raced'
    BY <2>2 DEF Begins, IInv, TypeOK
  <2>4. Grown(cols', work')
    BY <1>0, <2>2, <2>3 DEF Grown, Exists, There
  <2>5. Cleared(r, cols)
    BY <2>2 DEF Cleared
  <2> QED BY <1>0, <2>3, <2>4, <2>5 DEF TreePart
<1>3. ASSUME NEW w \in Requests, NEW r \in Request, Goes(w, r),
             Advances(work[w], r, app, cols, docs)
      PROVE  TreePart(cols', work', raced')
  <2>1. /\ \A v \in Requests : work'[v] = IF v = w THEN r ELSE work[v]
        /\ cols' = cols /\ raced' = raced
    BY <1>3 DEF Goes, IInv, TypeOK
  <2>2. r.op \in DocOps => r.op = work[w].op /\ r.parent = work[w].parent
    BY <1>3, OverIsIdle DEF Advances, Locks, Climbs, Follows, Knows, Grows, Checks, Writes,
       Scans, Rewrites, SameJob, SameRow, DocOps
  <2>3. Grown(cols', work')
    BY <1>0, <2>1, <2>2 DEF Grown
  <2>4. "cycle" \notin raced => Cleared(r, cols)
    BY <1>0, <1>3, AdvanceCleared
  <2> QED BY <1>0, <2>1, <2>3, <2>4 DEF TreePart
<1>4. ASSUME NEW w \in Requests, Commits(w), ~Ends(w) PROVE TreePart(cols', work', raced')
  <2> DEFINE q == work[w]
  <2>1. /\ \A v \in Requests : work'[v] = IF v = w THEN Over ELSE work[v]
        /\ app' = app /\ raced' = raced
    BY <1>4, CommitEnds DEF IInv, TypeOK
  <2>2. \A c \in Cols : cols[c].parent \in Places
    BY ParentIsPlace
  <2>3. \A v \in Requests : work[v].parent \in Places
    BY OneRequest DEF Request
  <2>4. Over.op \notin DocOps /\ \A cs : Cleared(Over, cs)
    BY OverIsIdle DEF Cleared, DocOps
  <2>5. CASE InsertCollection(w)
    <3>1. /\ q.row \in Cols /\ cols[q.row].row = "none"
          /\ q.parent \in Places /\ ThereIn(q.parent, app, cols)
          /\ \A x \in Cols \ {q.row} : cols'[x] = cols[x]
          /\ cols'[q.row].row = "there" /\ cols'[q.row].parent = q.parent
      BY <1>4, <2>5, InsertWrites
    <3> HIDE DEF q
    <3>2. \A p \in Places : Exists(p, cols) => p # q.row /\ Exists(p, cols')
      BY <3>1, RootAssumption DEF Exists, Places
    <3>3. Exists(q.parent, cols)
      BY <3>1 DEF Exists, ThereIn
    <3>4. Grown(cols', work')
      BY <1>0, <2>1, <2>2, <2>3, <2>4, <3>1, <3>2, <3>3 DEF Grown
    <3>5. ASSUME "cycle" \notin raced PROVE NoCycle(cols')
      <4>1. \A x \in Cols \ {q.row} : cols'[x].parent = cols[x].parent /\ cols[x].parent # q.row
        BY <1>0, <2>2, <3>1, <3>2 DEF Grown
      <4>2. q.parent # q.row
        BY <3>1, <3>2, <3>3
      <4> QED BY <1>0, <3>1, <3>5, <4>1, <4>2, AddNoCycle
    <3>6. ASSUME NEW v \in Requests, Cleared(work[v], cols) PROVE Cleared(work[v], cols')
      <4>1. ASSUME NEW r, NEW S \in SUBSET Places, NEW end, Above(S, end, r, cols)
            PROVE  Above(S, end, r, cols')
        <5>1. \A x \in S \ {Root} : x \in Cols \ {q.row}
          BY <3>1, <4>1 DEF Above, Places
        <5> QED BY <3>1, <4>1, <5>1 DEF Above
      <4> QED BY <3>6, <4>1 DEF Cleared
    <3> QED BY <1>0, <2>1, <2>4, <3>4, <3>5, <3>6 DEF TreePart
  <2>6. CASE CommitCollection(w)
    <3>1. /\ q.op \in Reshapes /\ q.pc = "rewrite" /\ q.row \in Cols /\ q.parent \in Places
          /\ q.op = "moveCol" => ThereIn(q.parent, app, cols)
          /\ q.op = "renameCol" => q.parent = cols[q.row].parent
      BY <2>6, OneRequest DEF CommitCollection, FitsCols, Writing, Reshapes, Request
    <3>2. /\ \A x \in Cols : cols'[x].row = cols[x].row
          /\ \A x \in Cols \ {q.row} : cols'[x] = cols[x]
          /\ cols'[q.row].parent = q.parent
      BY <2>6, <3>1, CommitWrites
    <3>3. \A p : Exists(p, cols) /\ p \in Places => Exists(p, cols')
      BY <3>2 DEF Exists, Places
    <3>4. Exists(q.parent, cols)
      BY <1>0, <3>1 DEF Exists, ThereIn, Grown, Reshapes
    <3>5. Grown(cols', work')
      BY <1>0, <2>1, <2>2, <2>3, <2>4, <3>1, <3>2, <3>3, <3>4 DEF Grown
    <3>6. CASE q.op = "renameCol"
      <4>1. \A x \in Cols : cols'[x].parent = cols[x].parent
                            /\ (cols[x].row # "none" => cols'[x].row # "none")
        BY <3>1, <3>2, <3>6
      <4>2. /\ NoCycle(cols) => NoCycle(cols')
            /\ \A v \in Requests : Cleared(work[v], cols) => Cleared(work[v], cols')
        BY <4>1, SameParents
      <4> QED BY <1>0, <2>1, <2>4, <3>5, <4>2 DEF TreePart
    <3>7. CASE q.op = "moveCol"
      <4> SUFFICES ASSUME "cycle" \notin raced
                   PROVE  NoCycle(cols') /\ \A v \in Requests : Cleared(work'[v], cols')
        BY <2>1, <3>5 DEF TreePart
      <4>1. PICK S \in SUBSET Places : Above(S, {}, q, cols)
        BY <1>0, <3>1, <3>7 DEF Cleared
      <4>2. q.row \notin S /\ q.parent \in S /\ \A x \in S \ {Root} : cols[x].parent \in S
        BY <4>1 DEF Above
      <4>3. \A x \in Cols \ {q.row} : cols'[x].parent = cols[x].parent
        BY <3>2
      <4>4. NoCycle(cols')
        <5> HIDE DEF q
        <5> QED BY <1>0, <3>1, <3>2, <4>2, <4>3, MoveNoCycle
      <4>5. ASSUME NEW v \in Requests, v # w PROVE Cleared(work[v], cols')
        <5>1. work[v].op # "moveCol"
          BY <3>7, <4>5, HarmOf DEF Noted
        <5> QED BY <5>1 DEF Cleared
      <4> QED BY <2>1, <2>4, <4>4, <4>5
    <3> QED BY <3>1, <3>6, <3>7 DEF Reshapes
  <2>7. CASE PlaceDocument(w)
    <3>1. cols' = cols
      BY <1>4, <2>7, PlaceWrites
    <3> QED BY <1>0, <2>1, <2>4, <3>1 DEF TreePart, Grown
  <2> QED BY <1>4, <2>5, <2>6, <2>7 DEF Commits
<1>5. CASE Deletes
  <2>1. /\ work' = work /\ raced' = raced
        /\ \A x \in Cols : /\ cols'[x].parent = cols[x].parent
                           /\ cols[x].row # "none" => cols'[x].row # "none"
    BY <1>5, DeleteWrites
  <2>2. /\ NoCycle(cols) => NoCycle(cols')
        /\ \A p \in Places : Exists(p, cols) => Exists(p, cols')
        /\ \A r : Cleared(r, cols) => Cleared(r, cols')
    BY <2>1, SameParents
  <2>3. /\ \A c \in Cols : cols[c].parent \in Places
        /\ \A v \in Requests : work[v].parent \in Places
    BY ParentIsPlace, OneRequest DEF Request
  <2>4. Grown(cols', work')
    BY <1>0, <2>1, <2>2, <2>3 DEF Grown
  <2> QED BY <1>0, <2>1, <2>2, <2>4 DEF TreePart
<1> QED BY <1>1, <1>2, <1>3, <1>4, <1>5, StepAdvances DEF Next, Deletes

LEMMA InitTree == Init => TreePart(cols, work, raced)
<1> SUFFICES ASSUME Init PROVE TreePart(cols, work, raced)
  OBVIOUS
<1>1. /\ \A c \in Cols : There(cols[c].parent) /\ ~Endless(c)
      /\ \A w \in Requests : work[w] = New
  BY DEF Init, AnyTree
<1>2. Grown(cols, work)
  BY <1>1, OverIsIdle DEF Grown, Exists, There, DocOps
<1>3. NoCycle(cols)
  BY <1>1 DEF NoCycle, EndlessIn, Endless
<1>4. \A w \in Requests : Cleared(work[w], cols)
  BY <1>1, OverIsIdle DEF Cleared
<1> QED BY <1>2, <1>3, <1>4 DEF TreePart

\* No move puts a collection below itself, whatever else is renamed, moved, created or
\* deleted meanwhile, unless another move overlapped it.
THEOREM AcyclicInvariance == Spec => []Acyclic
<1> DEFINE J == IInv /\ Noted(work, raced) /\ TreePart(cols, work, raced)
<1>1. Init => J
  BY InitInv, InitNoted, InitTree
<1>2. J /\ [Next]_vars => J'
  BY NextKeepsInv, NextNoted, NextTree
<1>3. J => Acyclic
  BY DEF TreePart, NoCycle, EndlessIn, Acyclic, Endless
<1> QED BY <1>1, <1>2, <1>3, PTL DEF Spec

-----------------------------------------------------------------------------
(* Paths.                                                                  *)

IsPaths(f, cs) ==
    /\ f \in [Places -> Seq(STRING)] /\ f[Root] = <<>>
    /\ \A c \in Cols : f[c] = f[cs[c].parent] \o cs[c].name

PathsOf(cs) == CHOOSE f : f = [p \in Places |->
    IF p = Root \/ EndlessIn(p, cs) THEN <<>> ELSE f[cs[p].parent] \o cs[p].name]

LEMMA SmallestSet ==
    ASSUME NEW D, D \subseteq SUBSET Cols, D # {}
    PROVE  \E B \in D : \A C \in D : ~(C \subseteq B /\ C # B)
<1>1. FiniteSubsetsOf(Cols) = SUBSET Cols
  BY ColsAssumption, FS_FiniteSubsetsOfFinite
<1>2. IsWellFoundedOn(StrictSubsetOrdering(Cols), SUBSET Cols)
  BY <1>1, ColsAssumption, FS_StrictSubsetOrderingWellFounded
<1>3. PICK B \in D : \A C \in D : ~(<<C, B>> \in StrictSubsetOrdering(Cols))
  BY <1>2, WFMin
<1>4. ASSUME NEW C \in D, C \subseteq B, C # B PROVE FALSE
  <2>1. <<C, B>> \in StrictSubsetOrdering(Cols)
    BY <1>4 DEF StrictSubsetOrdering
  <2> QED BY <1>3, <2>1
<1> QED BY <1>4

\* In a tree, paths are given by the names on the way: they are built from the root
\* down, one collection at a time.
LEMMA PathsExist ==
    ASSUME NEW cs, NoCycle(cs),
           \A c \in Cols : cs[c].parent \in Places /\ cs[c].name \in Seq(STRING)
    PROVE  \E f : IsPaths(f, cs)
<1> DEFINE Built(f, B) == /\ f \in [Places -> Seq(STRING)] /\ f[Root] = <<>>
                          /\ \A c \in Cols \ B : /\ cs[c].parent \notin B
                                                 /\ f[c] = f[cs[c].parent] \o cs[c].name
           D == {B \in SUBSET Cols : \E f : Built(f, B)}
<1>1. Cols \in D
  <2> DEFINE f == [p \in Places |-> <<>>]
  <2>1. f \in [Places -> Seq(STRING)] /\ f[Root] = <<>>
    <3>1. <<>> \in Seq(STRING) /\ Root \in Places
      BY DEF Places
    <3> QED BY <3>1
  <2> HIDE DEF f
  <2>2. Built(f, Cols)
    BY <2>1
  <2> QED BY <2>2
<1>2. PICK B \in D : \A C \in D : ~(C \subseteq B /\ C # B)
  <2>1. D \subseteq SUBSET Cols /\ D # {}
    BY <1>1
  <2> HIDE DEF D
  <2> QED BY <2>1, SmallestSet
<1>3. PICK f : Built(f, B)
  OBVIOUS
<1>4. ASSUME B # {} PROVE FALSE
  <2>1. PICK b \in B : cs[b].parent \notin B
    BY <1>4 DEF NoCycle, EndlessIn
  <2> DEFINE k == f[cs[b].parent] \o cs[b].name
             g == [f EXCEPT ![b] = k]
             C == B \ {b}
  <2>2. b \in Cols /\ b \in Places /\ b # Root
    BY RootAssumption DEF Places
  <2>3. k \in Seq(STRING)
    <3>1. f[cs[b].parent] \in Seq(STRING) /\ cs[b].name \in Seq(STRING)
      BY <1>3, <2>2
    <3> DEFINE s == f[cs[b].parent]
               t == cs[b].name
    <3>2. s \in Seq(STRING) /\ t \in Seq(STRING)
      BY <3>1
    <3>3. s \o t \in Seq(STRING)
      <4> HIDE DEF s, t
      <4> QED BY <3>2
    <3> QED BY <3>3
  <2> HIDE DEF k
  <2>4. /\ g \in [Places -> Seq(STRING)] /\ g[b] = k
        /\ \A p \in Places : p # b => g[p] = f[p]
    BY <1>3, <2>2, <2>3
  <2> HIDE DEF g
  <2>5. g[Root] = <<>>
    BY <1>3, <2>2, <2>4 DEF Places
  <2>6. ASSUME NEW c \in Cols \ C
        PROVE  cs[c].parent \notin C /\ g[c] = g[cs[c].parent] \o cs[c].name
    <3>1. CASE c = b
      <4>1. cs[b].parent # b /\ cs[b].parent \in Places
        BY <2>1, <2>2
      <4>2. g[cs[b].parent] = f[cs[b].parent]
        BY <2>4, <4>1
      <4> QED BY <2>1, <2>4, <3>1, <4>2 DEF k
    <3>2. CASE c # b
      <4>1. c \in Cols \ B /\ c \in Places /\ cs[c].parent \in Places
        BY <3>2 DEF Places
      <4>2. cs[c].parent \notin B /\ f[c] = f[cs[c].parent] \o cs[c].name
        BY <1>3, <4>1
      <4>3. g[c] = f[c] /\ g[cs[c].parent] = f[cs[c].parent]
        BY <2>4, <3>2, <4>1, <4>2
      <4> QED BY <4>2, <4>3
    <3> QED BY <3>1, <3>2
  <2>7. Built(g, C)
    BY <2>4, <2>5, <2>6
  <2>8. C \in D
    BY <2>7
  <2> QED BY <1>2, <2>8
<1>5. IsPaths(f, cs)
  BY <1>3, <1>4 DEF IsPaths
<1> QED BY <1>5

LEMMA PathsArePaths ==
    ASSUME NEW cs, NoCycle(cs),
           \A c \in Cols : cs[c].parent \in Places /\ cs[c].name \in Seq(STRING)
    PROVE  IsPaths(PathsOf(cs), cs)
<1> DEFINE Eq(f) == f = [p \in Places |-> IF p = Root \/ EndlessIn(p, cs) THEN <<>>
                                          ELSE f[cs[p].parent] \o cs[p].name]
           g == PathsOf(cs)
<1>1. PICK f : IsPaths(f, cs)
  BY PathsExist
<1>2. Eq(f)
  BY <1>1, RootAssumption DEF IsPaths, NoCycle, Places
<1>3. Eq(g)
  BY <1>2 DEF PathsOf
<1> HIDE DEF g
<1>4. g[Root] = <<>> /\ \A c \in Cols : g[c] = g[cs[c].parent] \o cs[c].name
  BY <1>3, RootAssumption DEF NoCycle, Places
<1> DEFINE D == {c \in Cols : g[c] # f[c]}
<1>5. ASSUME NEW c \in D PROVE cs[c].parent \in D
  <2>1. g[cs[c].parent] # f[cs[c].parent]
    BY <1>1, <1>4 DEF IsPaths
  <2>2. cs[c].parent # Root
    BY <1>1, <1>4, <2>1 DEF IsPaths
  <2> QED BY <2>1, <2>2 DEF Places
<1>6. D = {}
  BY <1>5 DEF NoCycle, EndlessIn
<1>7. g = f
  <2>1. \A p \in Places : g[p] = f[p]
    BY <1>1, <1>4, <1>6 DEF IsPaths, Places
  <2>2. DOMAIN g = Places /\ g = [p \in DOMAIN g |-> g[p]]
    BY <1>3, Zenon
  <2>3. DOMAIN f = Places /\ f = [p \in DOMAIN f |-> f[p]]
    BY <1>1 DEF IsPaths
  <2> HIDE DEF Eq
  <2> QED BY <2>1, <2>2, <2>3
<1> QED BY <1>1, <1>7 DEF g

LEMMA PathIs == Path = PathsOf(cols)
BY DEF Path, PathsOf, Endless, EndlessIn

LEMMA PathIsNext == Path' = PathsOf(cols')
BY DEF Path, PathsOf, Endless, EndlessIn

-----------------------------------------------------------------------------
(* Sequences: a key below a path goes on after it.                         *)

LEMMA ConcatIsSeq ==
    \A s, t \in Seq(STRING) : s \o t \in Seq(STRING)
BY ConcatProperties

LEMMA ConcatRegroups ==
    \A s, t, u \in Seq(STRING) : (s \o t) \o u = s \o (t \o u)
BY ConcatAssociative

LEMMA CutAfter ==
    ASSUME NEW a \in Seq(STRING), NEW t \in Seq(STRING)
    PROVE  /\ a \o t \in Seq(STRING) /\ SubSeq(a \o t, Len(a) + 1, Len(a \o t)) = t
           /\ Under(a, a \o t) <=> t # <<>>
<1> DEFINE k == a \o t
           m == Len(a) + 1
           n == Len(k)
<1>1. k \in Seq(STRING) /\ n = Len(a) + Len(t) /\ Len(a) \in Nat /\ Len(t) \in Nat
      /\ \A i \in 1 .. Len(a) + Len(t) : k[i] = IF i <= Len(a) THEN a[i] ELSE t[i - Len(a)]
  BY ConcatProperties, LenProperties
<1>2. \A i \in 1 .. Len(a) : a[i] \in STRING
  BY ElementOfSeq
<1>3. \A i \in 1 .. n : k[i] \in STRING
  BY <1>1, ElementOfSeq
<1> HIDE DEF k, n, m
<1>4. SubSeq(k, m, n) = t
  <2>1. m \in Int /\ n \in Int /\ \A i \in m .. n : k[i] \in STRING
    BY <1>1, <1>3 DEF m
  <2>2. /\ SubSeq(k, m, n) \in Seq(STRING)
        /\ Len(SubSeq(k, m, n)) = IF m <= n THEN n - m + 1 ELSE 0
        /\ \A i \in 1 .. n - m + 1 : SubSeq(k, m, n)[i] = k[m + i - 1]
    BY <2>1, SubSeqProperties
  <2> DEFINE s == SubSeq(k, m, n)
  <2>3. Len(s) = Len(t)
    BY <1>1, <2>2 DEF m
  <2>4. \A i \in 1 .. Len(s) : s[i] = t[i]
    <3> SUFFICES ASSUME NEW i \in 1 .. Len(t) PROVE s[i] = t[i]
      BY <2>3
    <3> DEFINE j == m + i - 1
    <3>1. s[i] = k[j]
      BY <1>1, <2>2 DEF m
    <3>2. j \in 1 .. Len(a) + Len(t) /\ ~(j <= Len(a)) /\ j - Len(a) = i
      BY <1>1 DEF m
    <3> HIDE DEF j, s
    <3>3. k[j] = t[j - Len(a)]
      BY <1>1, <3>2
    <3> QED BY <3>1, <3>2, <3>3
  <2> HIDE DEF s
  <2>5. s \in Seq(STRING)
    BY <2>2 DEF s
  <2>6. s = t
    BY <2>3, <2>4, <2>5, SeqEqual
  <2> QED BY <2>6 DEF s
<1>5. SubSeq(k, 1, Len(a)) = a
  <2>1. Len(a) \in Int /\ 1 \in Int /\ \A i \in 1 .. Len(a) : k[i] \in STRING
    BY <1>1, <1>3
  <2>2. /\ SubSeq(k, 1, Len(a)) \in Seq(STRING)
        /\ Len(SubSeq(k, 1, Len(a))) = IF 1 <= Len(a) THEN Len(a) - 1 + 1 ELSE 0
        /\ \A i \in 1 .. Len(a) - 1 + 1 : SubSeq(k, 1, Len(a))[i] = k[1 + i - 1]
    BY <2>1, SubSeqProperties
  <2> DEFINE s == SubSeq(k, 1, Len(a))
  <2>3. Len(s) = Len(a)
    BY <1>1, <2>2
  <2>4. \A i \in 1 .. Len(s) : s[i] = a[i]
    <3> SUFFICES ASSUME NEW i \in 1 .. Len(a) PROVE s[i] = a[i]
      BY <2>3
    <3>1. s[i] = k[1 + i - 1] /\ 1 + i - 1 = i
      BY <1>1, <2>2
    <3>2. k[i] = a[i]
      BY <1>1
    <3> QED BY <3>1, <3>2
  <2> HIDE DEF s
  <2>5. s \in Seq(STRING)
    BY <2>2 DEF s
  <2>6. s = a
    BY <2>3, <2>4, <2>5, SeqEqual
  <2> QED BY <2>6 DEF s
<1>6. t # <<>> <=> Len(t) > 0
  BY <1>1, EmptySeq
<1>7. Under(a, k) <=> t # <<>>
  <2>1. Under(a, k) <=> Len(a) < n
    BY <1>5 DEF Under, n
  <2> QED BY <1>1, <1>6, <2>1
<1> QED BY <1>1, <1>4, <1>7 DEF k, m, n

LEMMA UnderIsCut ==
    ASSUME NEW a \in Seq(STRING), NEW k \in Seq(STRING), Under(a, k)
    PROVE  \E t \in Seq(STRING) : k = a \o t
<1> DEFINE t == SubSeq(k, Len(a) + 1, Len(k))
<1>1. Len(a) \in Nat /\ Len(k) \in Nat /\ Len(a) < Len(k) /\ SubSeq(k, 1, Len(a)) = a
  BY LenProperties DEF Under
<1>2. 1 \in 1 .. Len(k) + 1 /\ Len(a) \in 1 - 1 .. Len(k) /\ Len(k) \in Len(a) .. Len(k)
  BY <1>1
<1>3. SubSeq(k, 1, Len(a)) \o t = SubSeq(k, 1, Len(k))
  BY <1>2, ConcatAdjacentSubSeq
<1>4. SubSeq(k, 1, Len(k)) = k
  BY SubSeqFull
<1>5. t \in Seq(STRING)
  <2>1. Len(a) + 1 \in Int /\ Len(k) \in Int /\ \A i \in Len(a) + 1 .. Len(k) : k[i] \in STRING
    BY <1>1, ElementOfSeq
  <2> QED BY <2>1, SubSeqProperties
<1> QED BY <1>1, <1>3, <1>4, <1>5

\* Paths that end in names of one segment are equal segment by segment from the end.
LEMMA LastName ==
    \A p, q, n, m \in Seq(STRING) :
        Len(n) = 1 /\ Len(m) = 1 /\ p \o n = q \o m => p = q /\ n = m
<1> SUFFICES ASSUME NEW p \in Seq(STRING), NEW q \in Seq(STRING), NEW n \in Seq(STRING),
                    NEW m \in Seq(STRING), Len(n) = 1, Len(m) = 1, p \o n = q \o m
             PROVE  p = q /\ n = m
  OBVIOUS
<1>1. /\ Len(p \o n) = Len(p) + 1 /\ Len(q \o m) = Len(q) + 1
      /\ \A i \in 1 .. Len(p) + 1 : (p \o n)[i] = IF i <= Len(p) THEN p[i] ELSE n[i - Len(p)]
      /\ \A i \in 1 .. Len(q) + 1 : (q \o m)[i] = IF i <= Len(q) THEN q[i] ELSE m[i - Len(q)]
      /\ Len(p) \in Nat /\ Len(q) \in Nat
  <2>1. /\ Len(p \o n) = Len(p) + Len(n)
        /\ \A i \in 1 .. Len(p) + Len(n) : (p \o n)[i] = IF i <= Len(p) THEN p[i] ELSE n[i - Len(p)]
    BY ConcatProperties
  <2>2. /\ Len(q \o m) = Len(q) + Len(m)
        /\ \A i \in 1 .. Len(q) + Len(m) : (q \o m)[i] = IF i <= Len(q) THEN q[i] ELSE m[i - Len(q)]
    BY ConcatProperties
  <2>3. Len(p) \in Nat /\ Len(q) \in Nat
    BY LenProperties
  <2> QED BY <2>1, <2>2, <2>3
<1>2. Len(p) = Len(q)
  BY <1>1
<1>3. \A i \in 1 .. Len(p) : p[i] = q[i]
  <2> SUFFICES ASSUME NEW i \in 1 .. Len(p) PROVE p[i] = q[i]
    OBVIOUS
  <2>1. i \in 1 .. Len(p) + 1 /\ i <= Len(p)
    BY <1>1
  <2>2. (p \o n)[i] = p[i] /\ (q \o m)[i] = q[i]
    BY <1>1, <1>2, <2>1
  <2> QED BY <2>2
<1>4. p = q
  BY <1>2, <1>3, SeqEqual
<1> QED BY <1>4, ConcatSimplifications

\* Path p, and what is below a in the path with one name more, both go on after a.
BothGoOn(p, n, a, t) == \E u \in Seq(STRING) : p = a \o u /\ t = u \o n

\* Where a path with one more name goes on after a, it is a itself, or the path did
\* already.
LEMMA OneMore ==
    \A p, n, a, t \in Seq(STRING) :
        Len(n) = 1 /\ p \o n = a \o t /\ t # <<>> => BothGoOn(p, n, a, t)
<1> SUFFICES ASSUME NEW p \in Seq(STRING), NEW n \in Seq(STRING), NEW a \in Seq(STRING),
                    NEW t \in Seq(STRING), Len(n) = 1, p \o n = a \o t, t # <<>>
             PROVE  BothGoOn(p, n, a, t)
  OBVIOUS
<1> DEFINE l == Len(t)
           u == SubSeq(t, 1, l - 1)
           m == SubSeq(t, l, l)
<1>1. l \in Nat \ {0} /\ \A i \in 1 .. l : t[i] \in STRING
  BY EmptySeq, ElementOfSeq
<1>2. u \in Seq(STRING)
  <2>1. 1 \in Int /\ l - 1 \in Int /\ \A i \in 1 .. l - 1 : t[i] \in STRING
    BY <1>1
  <2> HIDE DEF l
  <2> QED BY <2>1, SubSeqProperties
<1>3. m \in Seq(STRING) /\ Len(m) = 1
  <2>1. l \in Int /\ \A i \in l .. l : t[i] \in STRING
    BY <1>1
  <2>2. Len(SubSeq(t, l, l)) = IF l <= l THEN l - l + 1 ELSE 0
    BY <2>1, SubSeqProperties
  <2>3. SubSeq(t, l, l) \in Seq(STRING)
    BY <2>1, SubSeqProperties
  <2> HIDE DEF l
  <2> QED BY <2>1, <2>2, <2>3
<1>4. u \o m = t
  <2>1. 1 \in 1 .. l + 1 /\ l - 1 \in 1 - 1 .. l /\ l \in l - 1 .. l /\ l - 1 + 1 = l
    BY <1>1
  <2>2. SubSeq(t, 1, l - 1) \o SubSeq(t, l - 1 + 1, l) = SubSeq(t, 1, l)
    BY <2>1, ConcatAdjacentSubSeq
  <2>3. SubSeq(t, 1, l) = t
    BY SubSeqFull
  <2> QED BY <2>1, <2>2, <2>3
<1> HIDE DEF u, m, l
<1>5. a \o u \in Seq(STRING) /\ (a \o u) \o m = a \o (u \o m)
  <2>1. a \o u \in Seq(STRING)
    BY <1>2, ConcatIsSeq
  <2>2. (a \o u) \o m = a \o (u \o m)
    BY <1>2, <1>3, ConcatRegroups, Zenon
  <2> QED BY <2>1, <2>2
<1>6. p \o n = (a \o u) \o m
  BY <1>4, <1>5
<1>7. p = a \o u /\ n = m
  <2> DEFINE s == a \o u
  <2>1. s \in Seq(STRING) /\ p \o n = s \o m
    BY <1>5, <1>6
  <2> HIDE DEF s
  <2>2. p = s /\ n = m
    BY <1>3, <2>1, LastName, Zenon
  <2> QED BY <2>2 DEF s
<1> QED BY <1>2, <1>4, <1>7 DEF BothGoOn

-----------------------------------------------------------------------------
(* Rows and requests have names, and a request starts without a path.      *)

Plain(cs, ds, wk) ==
    /\ \A c \in Cols : cs[c].row # "none" => cs[c].name \in Names
    /\ \A d \in Docs : HasRowIn(d, ds) => ds[d].name \in Names
    /\ \A w \in Requests :
          /\ wk[w].op # "" /\ ~(wk[w].op = "moveCol" /\ wk[w].pc = "lock") => wk[w].name \in Names
          /\ wk[w].pc = "lock" => wk[w].old = <<>> /\ wk[w].new = <<>>

LEMMA NextPlain ==
    ASSUME IInv, Plain(cols, docs, work), [Next]_vars PROVE Plain(cols', docs', work')
<1>0. IInv'
  BY NextKeepsInv
<1>1. CASE UNCHANGED vars
  BY <1>1 DEF vars, Plain
<1>2. ASSUME NEW w \in Requests, Arrives(w) PROVE Plain(cols', docs', work')
  <2>1. \E r \in Request : Begins(w, r) /\ (r.op # "moveCol" => r.name \in Names)
                           /\ (r.op = "moveCol" => r.pc = "lock")
    BY <1>2, ArrivesBegins, Zenon
  <2>2. PICK r \in Request : Begins(w, r) /\ (r.op # "moveCol" => r.name \in Names)
                             /\ (r.op = "moveCol" => r.pc = "lock")
    BY <2>1
  <2>3. \A v \in Requests : work'[v] = IF v = w THEN r ELSE work[v]
    BY <2>2 DEF Begins, IInv, TypeOK
  <2>4. r.old = <<>> /\ r.new = <<>> /\ cols' = cols /\ docs' = docs
    BY <2>2 DEF Begins
  <2> QED BY <2>2, <2>3, <2>4 DEF Plain
<1>3. ASSUME NEW w \in Requests, NEW r \in Request, Goes(w, r),
             Advances(work[w], r, app, cols, docs)
      PROVE  Plain(cols', docs', work')
  <2> DEFINE q == work[w]
  <2>1. /\ \A v \in Requests : work'[v] = IF v = w THEN r ELSE work[v]
        /\ cols' = cols /\ docs' = docs
    BY <1>3 DEF Goes, IInv, TypeOK
  <2>2. r.pc # "lock"
    <3>1. /\ ~Locks(q, r, cols) \/ r.pc # "lock"
          /\ ~Climbs(q, r, app, cols) \/ r.pc # "lock"
      BY DEF Locks, Climbs
    <3>2. ~Follows(q, r, app, cols) \/ r.pc # "lock"
      BY DEF Follows, Knows, Grows
    <3>3. ~Checks(q, r, cols, docs) \/ r.pc # "lock"
      BY DEF Checks, Knows
    <3> QED BY <1>3, <3>1, <3>2, <3>3, OverIsIdle DEF Advances, Writes, Scans, Rewrites
  <2>3. CASE Locks(q, r, cols)
    <3>1. r.op = "moveCol" => r.row \in Cols /\ cols[r.row].row = "there"
      <4>1. FitsCols(work'[w], app', cols')
        BY <1>0, SplitNext DEF Inv
      <4>2. r.op = "moveCol" /\ r.pc # "lock" => HoldsCol(r)
        BY DEF HoldsCol
      <4> QED BY <2>1, <2>2, <4>1, <4>2 DEF FitsCols
    <3>2. r.op # "" => r.name \in Names
      BY <2>3, <3>1 DEF Locks, SameRow, Plain
    <3> QED BY <2>1, <2>2, <3>2 DEF Plain
  <2>4. CASE ~Locks(q, r, cols)
    <3>1. r = Over \/ (r.op = q.op /\ r.name = q.name /\ q.pc # "lock")
      BY <1>3, <2>4 DEF Advances, Climbs, Follows, Knows, Grows, Checks, Writes, Scans, Rewrites,
         SameJob, SameRow
    <3>2. r.op # "" => r.name \in Names
      BY <3>1, OverIsIdle DEF Plain
    <3> QED BY <2>1, <2>2, <3>2 DEF Plain
  <2> QED BY <2>3, <2>4
<1>4. ASSUME NEW w \in Requests, Commits(w), ~Ends(w) PROVE Plain(cols', docs', work')
  <2> DEFINE q == work[w]
  <2>1. \A v \in Requests : work'[v] = IF v = w THEN Over ELSE work[v]
    BY <1>4, CommitEnds DEF IInv, TypeOK
  <2>2. \A v \in Requests :
          /\ work'[v].op # "" /\ ~(work'[v].op = "moveCol" /\ work'[v].pc = "lock")
               => work'[v].name \in Names
          /\ work'[v].pc = "lock" => work'[v].old = <<>> /\ work'[v].new = <<>>
    BY <2>1, OverIsIdle DEF Plain
  <2>3. CASE InsertCollection(w)
    <3>1. /\ q.op = "createCol" /\ q.row \in Cols /\ docs' = docs
          /\ \A x \in Cols \ {q.row} : cols'[x] = cols[x]
          /\ cols'[q.row].name = q.name
      BY <1>4, <2>3, InsertWrites
    <3>2. q.name \in Names
      BY <3>1 DEF Plain
    <3> HIDE DEF q
    <3> QED BY <2>2, <3>1, <3>2 DEF Plain
  <2>4. CASE CommitCollection(w)
    <3>1. q.op \in Reshapes /\ q.pc = "rewrite" /\ q.row \in Cols
      BY <2>4, OneRequest DEF CommitCollection, FitsCols, Writing, Reshapes
    <3>2. /\ \A x \in Cols : cols'[x].row = cols[x].row
          /\ \A x \in Cols \ {q.row} : cols'[x] = cols[x]
          /\ cols'[q.row].name = q.name
      BY <2>4, <3>1, CommitWrites
    <3>3. \A d \in Docs : docs'[d].row = docs[d].row /\ docs'[d].name = docs[d].name
      BY <2>4, CommitWrites
    <3>4. q.name \in Names
      BY <3>1 DEF Plain, Reshapes
    <3> HIDE DEF q
    <3> QED BY <2>2, <3>1, <3>2, <3>3, <3>4 DEF Plain, HasRowIn
  <2>5. CASE PlaceDocument(w)
    <3>1. /\ q.op \in DocOps /\ q.row \in Docs /\ cols' = cols
          /\ \A x \in Docs \ {q.row} : docs'[x] = docs[x]
          /\ docs'[q.row].name = q.name
      BY <1>4, <2>5, PlaceWrites
    <3>2. q.name \in Names
      BY <3>1 DEF Plain, DocOps
    <3> HIDE DEF q
    <3> QED BY <2>2, <3>1, <3>2 DEF Plain, HasRowIn
  <2> QED BY <1>4, <2>3, <2>4, <2>5 DEF Commits
<1>5. CASE Deletes
  <2>1. /\ work' = work
        /\ \A c \in Cols : cols'[c].name = cols[c].name
        /\ \A d \in Docs : docs'[d].name = docs[d].name /\ (HasRowIn(d, docs') => HasRowIn(d, docs))
    BY <1>5, DeleteWrites
  <2>2. \A c \in Cols : cols'[c].row # "none" => cols[c].row # "none"
    <3>1. ASSUME NEW c \in Cols, DeleteCollection(c)
          PROVE  \A x \in Cols : cols'[x].row # "none" => cols[x].row # "none"
      BY <3>1 DEF DeleteCollection, IInv, TypeOK
    <3>2. DeleteApp => \A x \in Cols : cols'[x].row # "none" => cols[x].row # "none"
      BY RootAssumption DEF DeleteApp, IInv, TypeOK, There
    <3>3. (\E d \in Docs : Release(d) \/ DeleteDocument(d)) => cols' = cols
      BY DEF Release, DeleteDocument
    <3> QED BY <1>5, <3>1, <3>2, <3>3 DEF Deletes
  <2> QED BY <2>1, <2>2 DEF Plain
<1> QED BY <1>1, <1>2, <1>3, <1>4, <1>5, StepAdvances DEF Next, Deletes

-----------------------------------------------------------------------------
(* Keys are paths.                                                         *)

KeysOK(f, ds) ==
    \A d \in Docs : HasRowIn(d, ds) => ds[d].key = f[ds[d].parent] \o ds[d].name

\* What a request has read of a path so far, and what it has made of it.
Pathed(r, f, cs, ds) ==
    /\ r.op \in DocOps \cup Reshapes /\ r.pc \in {"oldpath", "newpath"} => Exists(r.at, cs)
    /\ r.op \in DocOps => /\ r.pc \notin {"cycle", "oldpath"}
                          /\ r.pc = "newpath" => f[r.at] \o r.new = f[r.parent]
                          /\ r.pc \in {"check", "write"} => r.new = f[r.parent]
    /\ r.op \in Reshapes =>
          /\ r.pc \in {"cycle", "check"} => r.old = <<>> /\ r.new = <<>>
          /\ r.pc = "oldpath" => f[r.at] \o r.old = f[cs[r.row].parent] /\ r.new = <<>>
          /\ r.pc \in {"newpath", "write"} => r.old = f[cs[r.row].parent]
          /\ r.pc = "newpath" => f[r.at] \o r.new = f[r.parent]
          /\ r.pc = "write" => r.new = f[r.parent]
          /\ Writing(r) => r.old = f[r.row] /\ r.new = f[r.parent] \o r.name
          /\ r.pc = "rewrite" =>
                /\ \A e \in r.todo \cup r.done :
                      Under(r.old, ds[e[1]].key) /\ e[2] = Rekeyed(e[1], r.old, r.new, ds)
                /\ r.old # r.new => \A d \in Docs : HasRowIn(d, ds) /\ Under(r.old, ds[d].key) =>
                                        \E e \in r.todo \cup r.done : e[1] = d

KeysPart(f, cs, ds, wk, rc) ==
    "keys" \notin rc /\ "cycle" \notin rc =>
        KeysOK(f, ds) /\ \A w \in Requests : Pathed(wk[w], f, cs, ds)

\* The request knows the path it was after.
Arrived(g, f, cs) ==
    /\ g.op \in DocOps => g.new = f[g.parent]
    /\ g.op \in Reshapes => /\ g.pc \in {"oldpath", "newpath"} /\ g.old = f[cs[g.row].parent]
                            /\ g.pc = "oldpath" => g.new = <<>>
                            /\ g.pc = "newpath" => g.new = f[g.parent]

LEMMA KnowsPathed ==
    ASSUME NEW f, NEW cs, NEW ds, IsPaths(f, cs), NEW g \in Request, NEW r, Knows(g, r),
           Arrived(g, f, cs), g.op \in DocOps \cup Reshapes,
           g.op = "renameCol" => g.parent = cs[g.row].parent,
           g.op = "moveCol" => Exists(g.parent, cs)
    PROVE  Pathed(r, f, cs, ds)
<1>1. r.op = g.op /\ r.row = g.row /\ r.parent = g.parent /\ r.name = g.name /\ r.old = g.old
  BY DEF Knows, SameJob
<1>2. CASE g.op \in DocOps
  <2>1. r.pc = "check" /\ r.new = g.new
    BY <1>2 DEF Knows, DocOps
  <2> QED BY <1>1, <1>2, <2>1 DEF Pathed, Arrived, DocOps, Reshapes
<1>3. CASE g.op = "renameCol"
  <2>1. r.pc = "write" /\ r.new = g.old
    BY <1>3 DEF Knows, DocOps
  <2> QED BY <1>1, <1>3, <2>1 DEF Pathed, Arrived, DocOps, Reshapes, Writing
<1>4. CASE g.op = "moveCol" /\ g.pc = "oldpath" /\ g.parent # Root
  <2>1. r.pc = "newpath" /\ r.new = g.new /\ r.at = g.parent
    BY <1>4 DEF Knows, DocOps
  <2>2. g.parent \in Places /\ f[g.parent] \in Seq(STRING) /\ g.new = <<>>
    BY <1>4 DEF IsPaths, Request, Arrived, Reshapes
  <2>3. f[g.parent] \o g.new = f[g.parent]
    BY <2>2, ConcatEmptySeq
  <2> QED BY <1>1, <1>4, <2>1, <2>3 DEF Pathed, Arrived, DocOps, Reshapes, Writing
<1>5. CASE g.op = "moveCol" /\ ~(g.pc = "oldpath" /\ g.parent # Root)
  <2>1. r.pc = "write" /\ r.new = g.new
    BY <1>5 DEF Knows, DocOps
  <2>2. g.new = f[g.parent]
    BY <1>5 DEF Arrived, Reshapes, IsPaths
  <2> QED BY <1>1, <1>5, <2>1, <2>2 DEF Pathed, Arrived, DocOps, Reshapes, Writing
<1> QED BY <1>2, <1>3, <1>4, <1>5 DEF Reshapes

LEMMA FollowPathed ==
    ASSUME IInv, NEW f, IsPaths(f, cols), NoCycle(cols), Grown(cols, work), NEW w \in Requests,
           Pathed(work[w], f, cols, docs), NEW r \in Request,
           Follows(work[w], r, app, cols), work[w].op \in DocOps \cup Reshapes,
           work[w].op = "moveCol" => Exists(work[w].parent, cols)
    PROVE  Pathed(r, f, cols, docs)
<1> DEFINE q == work[w]
           up == cols[q.at].parent
<1>1. /\ q \in Request /\ q.pc \in {"oldpath", "newpath"} /\ q.at \in Cols /\ q.pc # "lock"
      /\ q.op = "renameCol" => q.parent = cols[q.row].parent
  BY OneRequest DEF Follows, FitsCols
<1>2. /\ up \in Places /\ cols[q.at].name \in Seq(STRING)
      /\ q.old \in Seq(STRING) /\ q.new \in Seq(STRING) /\ Exists(up, cols)
  BY <1>1, ParentIsPlace DEF Request, Grown
<1>7. ASSUME NEW a \in Cols, NEW s \in Seq(STRING)
      PROVE  f[cols[a].parent] \o (cols[a].name \o s) = f[a] \o s
  <2> DEFINE p == f[cols[a].parent]
             n == cols[a].name
  <2>1. cols[a].parent \in Places /\ n \in Seq(STRING)
    BY ParentIsPlace
  <2>2. p \in Seq(STRING) /\ f[a] = p \o n
    BY <2>1 DEF IsPaths
  <2>3. (p \o n) \o s = p \o (n \o s)
    <3> HIDE DEF p, n
    <3> QED BY <2>1, <2>2, ConcatRegroups, Zenon
  <2> QED BY <2>2, <2>3
<1>3. ASSUME NEW g \in Request, Grows(q, g, cols)
      PROVE  /\ g.op = q.op /\ g.row = q.row /\ g.parent = q.parent /\ g.pc = q.pc /\ g.at = up
             /\ q.op \in DocOps => q.pc = "newpath" /\ f[up] \o g.new = f[q.parent]
             /\ q.op \in Reshapes /\ q.pc = "oldpath" =>
                   f[up] \o g.old = f[cols[q.row].parent] /\ g.new = <<>>
             /\ q.op \in Reshapes /\ q.pc = "newpath" =>
                   f[up] \o g.new = f[q.parent] /\ g.old = f[cols[q.row].parent]
             /\ g.old \in Seq(STRING) /\ g.new \in Seq(STRING)
  <2>1. g.op = q.op /\ g.row = q.row /\ g.parent = q.parent /\ g.pc = q.pc /\ g.at = up
        /\ g.old \in Seq(STRING) /\ g.new \in Seq(STRING)
    BY <1>3 DEF Grows, SameJob, Request
  <2>2. CASE q.pc = "oldpath"
    <3>1. g.old = cols[q.at].name \o q.old /\ g.new = q.new
      BY <1>3, <2>2 DEF Grows
    <3>2. f[up] \o g.old = f[q.at] \o q.old
      BY <1>1, <1>2, <1>7, <3>1
    <3> QED BY <2>1, <2>2, <3>1, <3>2 DEF Pathed
  <2>3. CASE q.pc = "newpath"
    <3>1. g.new = cols[q.at].name \o q.new /\ g.old = q.old
      BY <1>3, <2>3 DEF Grows
    <3>2. f[up] \o g.new = f[q.at] \o q.new
      BY <1>1, <1>2, <1>7, <3>1
    <3> QED BY <2>1, <2>3, <3>1, <3>2 DEF Pathed
  <2> QED BY <1>1, <2>2, <2>3
<1>4. CASE up = Root /\ \E g \in Request : Grows(q, g, cols) /\ Knows(g, r)
  <2>1. PICK g \in Request : Grows(q, g, cols) /\ Knows(g, r)
    BY <1>4
  <2>2. f[up] = <<>>
    BY <1>4 DEF IsPaths
  <2>3. f[up] \o g.new = g.new /\ f[up] \o g.old = g.old
    BY <1>3, <2>1, <2>2, ConcatEmptySeq
  <2>4. Arrived(g, f, cols)
    BY <1>1, <1>3, <2>1, <2>3 DEF Arrived
  <2>5. g.op \in DocOps \cup Reshapes
    BY <1>3, <2>1
  <2> QED BY <1>1, <1>3, <2>1, <2>4, <2>5, KnowsPathed
<1>5. CASE up # Root /\ Grows(q, r, cols)
  BY <1>1, <1>2, <1>3, <1>5 DEF Pathed, Writing, DocOps, Reshapes
<1>6. ~\E S \in SUBSET Cols : q.at \in S /\ \A c \in S : cols[c].parent \in S
  BY <1>1 DEF NoCycle, EndlessIn
<1> QED BY <1>4, <1>5, <1>6 DEF Follows

LEMMA CheckPathed ==
    ASSUME IInv, NEW f, IsPaths(f, cols), Grown(cols, work), NEW w \in Requests,
           Pathed(work[w], f, cols, docs), NEW r \in Request,
           Checks(work[w], r, cols, docs), work[w].op \in DocOps \cup Reshapes,
           work[w].op = "moveCol" => Exists(work[w].parent, cols)
    PROVE  Pathed(r, f, cols, docs)
<1> DEFINE q == work[w]
           from == cols[q.row].parent
<1>1. /\ q \in Request /\ q.pc = "check"
      /\ q.op = "renameCol" => q.parent = from
  BY OneRequest DEF Checks, FitsCols
<1>2. CASE q.op \in DocOps
  <2>1. r.op = q.op /\ r.parent = q.parent /\ r.pc = "write" /\ r.new = q.new
    BY <1>2 DEF Checks, SameJob, DocOps, Reshapes
  <2> QED BY <1>1, <1>2, <2>1 DEF Pathed, DocOps, Reshapes
<1>3. CASE q.op \in Reshapes
  <2>1. q.row \in Cols /\ q.old = <<>> /\ q.new = <<>>
    BY <1>1, <1>3, OneRequest DEF FitsCols, Reshapes, Pathed
  <2>2. from \in Places /\ Exists(from, cols)
    BY <2>1, ParentIsPlace DEF Grown
  <2>3. CASE from = Root
    <3>1. PICK g \in Request : /\ SameJob(q, g) /\ g.pc = "oldpath" /\ g.old = q.old
                               /\ g.new = q.new /\ Knows(g, r)
      BY <1>3, <2>3 DEF Checks, DocOps, Reshapes
    <3>2. g.op = q.op /\ g.row = q.row /\ g.parent = q.parent
      BY <3>1 DEF SameJob
    <3>3. Arrived(g, f, cols)
      BY <1>3, <2>1, <2>3, <3>1, <3>2 DEF Arrived, DocOps, Reshapes, IsPaths
    <3> QED BY <1>1, <3>1, <3>2, <3>3, KnowsPathed
  <2>4. CASE from # Root
    <3>1. /\ r.op = q.op /\ r.row = q.row /\ r.parent = q.parent
          /\ r.pc = "oldpath" /\ r.at = from /\ r.old = <<>> /\ r.new = <<>>
      BY <1>3, <2>1, <2>4 DEF Checks, SameJob, DocOps, Reshapes
    <3>2. f[from] \in Seq(STRING)
      BY <2>2 DEF IsPaths
    <3>3. f[from] \o <<>> = f[from]
      BY <3>2, ConcatEmptySeq
    <3> QED BY <1>3, <2>2, <3>1, <3>3 DEF Pathed, DocOps, Reshapes, Writing
  <2> QED BY <2>3, <2>4
<1> QED BY <1>2, <1>3

LEMMA WritePathed ==
    ASSUME IInv, NEW f, IsPaths(f, cols), NEW w \in Requests,
           Pathed(work[w], f, cols, docs), NEW r \in Request, work[w].op \in DocOps \cup Reshapes,
           \/ Writes(work[w], r, cols)
           \/ Scans(work[w], r, docs)
           \/ Rewrites(work[w], r)
    PROVE  Pathed(r, f, cols, docs)
<1> DEFINE q == work[w]
<1>1. q \in Request /\ FitsCols(q, app, cols)
  BY OneRequest
<1>2. CASE Writes(q, r, cols)
  <2>1. /\ q.op \in Reshapes /\ q.row \in Cols /\ q.pc = "write" /\ r.op = q.op /\ r.row = q.row
        /\ r.parent = q.parent /\ r.name = q.name /\ r.pc = "scan"
        /\ r.old = q.old \o cols[q.row].name /\ r.new = q.new \o q.name
    BY <1>1, <1>2 DEF Writes, SameJob, FitsCols, Reshapes
  <2>2. q.old = f[cols[q.row].parent] /\ q.new = f[q.parent]
    BY <2>1 DEF Pathed
  <2>3. f[q.row] = f[cols[q.row].parent] \o cols[q.row].name
    BY <2>1 DEF IsPaths
  <2>4. r.old = f[r.row] /\ r.new = f[r.parent] \o r.name
    BY <2>1, <2>2, <2>3
  <2> QED BY <2>1, <2>4 DEF Pathed, DocOps, Reshapes
<1>3. CASE Scans(q, r, docs)
  <2>1. /\ q.pc = "scan" /\ r.op = q.op /\ r.row = q.row /\ r.parent = q.parent /\ r.name = q.name
        /\ r.pc = "rewrite" /\ r.old = q.old /\ r.new = q.new /\ r.done = {} /\ Writing(q)
        /\ q.op \in Reshapes
    BY <1>1, <1>3 DEF Scans, SameRow, Writing, FitsCols, Reshapes
  <2>2. q.old = f[q.row] /\ q.new = f[q.parent] \o q.name
    BY <2>1 DEF Pathed
  <2> DEFINE under == {x \in Docs : HasRowIn(x, docs) /\ Under(q.old, docs[x].key)}
  <2>3. /\ q.old = q.new => r.todo = {}
        /\ q.old # q.new => r.todo = {<<d, Rekeyed(d, q.old, q.new, docs)>> : d \in under}
    BY <1>3 DEF Scans
  <2>4. \A e \in r.todo \cup r.done :
          Under(r.old, docs[e[1]].key) /\ e[2] = Rekeyed(e[1], r.old, r.new, docs)
    BY <2>1, <2>3
  <2>5. r.old # r.new => \A d \in Docs : HasRowIn(d, docs) /\ Under(r.old, docs[d].key) =>
                              \E e \in r.todo \cup r.done : e[1] = d
    <3> SUFFICES ASSUME r.old # r.new, NEW d \in Docs, HasRowIn(d, docs), Under(r.old, docs[d].key)
                 PROVE  \E e \in r.todo \cup r.done : e[1] = d
      OBVIOUS
    <3>1. d \in under
      BY <2>1
    <3> HIDE DEF under
    <3>2. <<d, Rekeyed(d, q.old, q.new, docs)>> \in r.todo
      BY <2>1, <2>3, <3>1
    <3> QED BY <3>2
  <2> QED BY <2>1, <2>2, <2>4, <2>5 DEF Pathed, DocOps, Reshapes
<1>4. CASE Rewrites(q, r)
  <2>1. /\ q.pc = "rewrite" /\ r.op = q.op /\ r.row = q.row /\ r.parent = q.parent /\ r.name = q.name
        /\ r.pc = "rewrite" /\ r.old = q.old /\ r.new = q.new
        /\ r.todo \cup r.done = q.todo \cup q.done /\ Writing(q) /\ q.op \in Reshapes
    BY <1>1, <1>4 DEF Rewrites, SameRow, Writing, FitsCols, Reshapes
  <2>2. q.old = f[q.row] /\ q.new = f[q.parent] \o q.name
    BY <2>1 DEF Pathed
  <2>3. /\ \A e \in q.todo \cup q.done :
             Under(q.old, docs[e[1]].key) /\ e[2] = Rekeyed(e[1], q.old, q.new, docs)
        /\ q.old # q.new => \A d \in Docs : HasRowIn(d, docs) /\ Under(q.old, docs[d].key) =>
                                \E e \in q.todo \cup q.done : e[1] = d
    BY <2>1 DEF Pathed
  <2> HIDE DEF q
  <2> QED BY <2>1, <2>2, <2>3 DEF Pathed, DocOps, Reshapes
<1> QED BY <1>2, <1>3, <1>4

LEMMA LockPathed ==
    ASSUME IInv, NEW f, IsPaths(f, cols), Grown(cols, work), Plain(cols, docs, work),
           NEW w \in Requests, NEW r \in Request, Locks(work[w], r, cols)
    PROVE  Pathed(r, f, cols, docs)
<1> DEFINE q == work[w]
<1>1. /\ q \in Request /\ q.pc = "lock" /\ q.at = q.parent /\ q.parent \in Places
      /\ r.op = q.op /\ r.old = <<>> /\ r.new = <<>> /\ r.at = q.at
  BY OneRequest DEF Locks, SameRow, FitsCols, Plain, Request
<1>2. CASE q.op \in Reshapes
  <2>1. r.pc \in {"cycle", "check"}
    BY <1>2 DEF Locks, Reshapes
  <2> QED BY <1>1, <1>2, <2>1 DEF Pathed, DocOps, Reshapes, Writing
<1>3. CASE q.op = "moveDoc"
  <2>1. r.parent = q.parent /\ r.pc = (IF q.parent = Root THEN "check" ELSE "newpath")
    BY <1>3 DEF Locks
  <2>2. f[q.parent] \in Seq(STRING) /\ f[Root] = <<>>
    BY <1>1 DEF IsPaths
  <2>3. f[q.parent] \o <<>> = f[q.parent]
    BY <2>2, ConcatEmptySeq
  <2>4. Exists(q.parent, cols)
    BY <1>3 DEF Grown, DocOps
  <2> QED BY <1>1, <1>3, <2>1, <2>2, <2>3, <2>4 DEF Pathed, DocOps, Reshapes
<1> QED BY <1>2, <1>3 DEF Locks, Reshapes

LEMMA ClimbPathed ==
    ASSUME NEW q, NEW r, NEW f, NEW ds, Climbs(q, r, app, cols),
           Pathed(q, f, cols, ds), q.op \in Reshapes
    PROVE  Pathed(r, f, cols, ds)
<1>1. r.op = q.op /\ r.old = <<>> /\ r.new = <<>> /\ r.pc \in {"cycle", "check"}
  BY DEF Climbs, SameJob, Pathed
<1> QED BY <1>1 DEF Pathed, DocOps, Reshapes, Writing

LEMMA AdvancePathed ==
    ASSUME IInv, NEW f, IsPaths(f, cols), TreePart(cols, work, raced), "cycle" \notin raced,
           Plain(cols, docs, work), NEW w \in Requests, Pathed(work[w], f, cols, docs),
           NEW r \in Request, Advances(work[w], r, app, cols, docs)
    PROVE  Pathed(r, f, cols, docs)
<1> DEFINE q == work[w]
<1>1. Grown(cols, work) /\ NoCycle(cols) /\ Cleared(q, cols)
  BY DEF TreePart
<1>2. CASE r = Over
  BY <1>2, OverIsIdle DEF Pathed, DocOps, Reshapes
<1>3. CASE r # Over /\ q.op \notin DocOps \cup Reshapes
  <2>1. r.op = q.op
    BY <1>3 DEF Advances, Locks, Climbs, Follows, Knows, Grows, Checks, Writes, Scans,
       Rewrites, SameJob, SameRow
  <2> QED BY <1>3, <2>1 DEF Pathed, DocOps, Reshapes
<1>4. CASE r # Over /\ q.op \in DocOps \cup Reshapes
  <2>1. q.op = "moveCol" /\ q.pc \notin {"lock", "cycle"} => Exists(q.parent, cols)
    BY <1>1 DEF Cleared, Above, Exists
  <2>2. CASE Locks(q, r, cols)
    BY <1>1, <2>2, LockPathed
  <2>3. CASE Climbs(q, r, app, cols)
    <3>1. q.op \in Reshapes
      BY <1>4, <2>3 DEF Climbs, Pathed
    <3> QED BY <2>3, <3>1, ClimbPathed
  <2>4. CASE Follows(q, r, app, cols)
    <3>1. q.pc \notin {"lock", "cycle"}
      BY <2>4 DEF Follows
    <3> QED BY <1>1, <1>4, <2>1, <2>4, <3>1, FollowPathed
  <2>5. CASE Checks(q, r, cols, docs)
    <3>1. q.pc \notin {"lock", "cycle"}
      BY <2>5 DEF Checks
    <3> QED BY <1>1, <1>4, <2>1, <2>5, <3>1, CheckPathed
  <2>6. CASE Writes(q, r, cols) \/ Scans(q, r, docs) \/ Rewrites(q, r)
    BY <1>4, <2>6, WritePathed
  <2> QED BY <1>4, <2>2, <2>3, <2>4, <2>5, <2>6 DEF Advances
<1> QED BY <1>2, <1>3, <1>4

LEMMA BeginPathed ==
    ASSUME IInv, NEW f, IsPaths(f, cols), NEW w \in Requests, Arrives(w)
    PROVE  \E r \in Request : Begins(w, r) /\ Pathed(r, f, cols, docs)
<1>1. \E r \in Request : Begins(w, r) /\
             \/ r.op \in Reshapes /\ r.pc = "lock"
             \/ r.op = "createCol"
             \/ r.op = "createDoc" /\ There(r.parent)
                /\ r.pc = (IF r.parent = Root THEN "check" ELSE "newpath")
             \/ r.op = "moveDoc" /\ r.pc = "lock"
  BY ArrivesBegins, Zenon DEF Reshapes
<1>2. PICK r \in Request : Begins(w, r) /\
             \/ r.op \in Reshapes /\ r.pc = "lock"
             \/ r.op = "createCol"
             \/ r.op = "createDoc" /\ There(r.parent)
                /\ r.pc = (IF r.parent = Root THEN "check" ELSE "newpath")
             \/ r.op = "moveDoc" /\ r.pc = "lock"
  BY <1>1
<1>3. CASE r.op = "createDoc"
  <2>1. There(r.parent) /\ r.pc = (IF r.parent = Root THEN "check" ELSE "newpath")
        /\ r.at = r.parent /\ r.new = <<>> /\ r.parent \in Places
    BY <1>2, <1>3 DEF Begins, Request, Reshapes
  <2>2. f[r.parent] \in Seq(STRING) /\ f[Root] = <<>>
    BY <2>1 DEF IsPaths
  <2>3. f[r.parent] \o <<>> = f[r.parent]
    BY <2>2, ConcatEmptySeq
  <2>4. Exists(r.parent, cols)
    BY <2>1 DEF Exists, There
  <2>5. Pathed(r, f, cols, docs)
    BY <1>3, <2>1, <2>2, <2>3, <2>4 DEF Pathed, DocOps, Reshapes
  <2> QED BY <1>2, <2>5
<1>4. CASE r.op # "createDoc"
  <2>1. Pathed(r, f, cols, docs)
    BY <1>2, <1>4 DEF Pathed, DocOps, Reshapes, Writing
  <2> QED BY <1>2, <2>1
<1> QED BY <1>3, <1>4

-----------------------------------------------------------------------------
(* What a change of the collections does to paths.                         *)

\* Among collections whose parents are among them, or the root, and that stay as they
\* are, paths stay.
LEMMA SamePaths ==
    ASSUME NEW cs, NEW new, NEW f, NEW g, IsPaths(f, cs), IsPaths(g, new), NoCycle(cs),
           NEW S \in SUBSET Cols,
           \A c \in S : /\ cs[c].parent \in S \cup {Root}
                        /\ new[c].parent = cs[c].parent /\ new[c].name = cs[c].name
    PROVE  \A p \in S \cup {Root} : g[p] = f[p]
<1> DEFINE D == {c \in S : g[c] # f[c]}
<1>1. ASSUME NEW c \in D PROVE cs[c].parent \in D
  <2>1. f[c] = f[cs[c].parent] \o cs[c].name /\ g[c] = g[new[c].parent] \o new[c].name
    BY DEF IsPaths
  <2>2. new[c].parent = cs[c].parent /\ new[c].name = cs[c].name /\ g[c] # f[c]
    OBVIOUS
  <2>3. g[cs[c].parent] # f[cs[c].parent]
    BY <2>1, <2>2, Zenon
  <2> QED BY <2>3 DEF IsPaths
<1>2. D = {}
  BY <1>1 DEF NoCycle, EndlessIn
<1> QED BY <1>2 DEF IsPaths

\* A change that leaves alone the collections that exist, and the keys, leaves what a
\* request knows about them true.
LEMMA SamePathed ==
    ASSUME NEW cs, NEW new, NEW f, NEW g, NEW ds, NEW nds, NEW r, NEW ap,
           \A p \in Places : Exists(p, cs) => g[p] = f[p] /\ Exists(p, new),
           \A c \in Cols : /\ cs[c].row # "none" => new[c].parent = cs[c].parent
                           /\ cs[c].parent \in Places /\ Exists(cs[c].parent, cs),
           \A d \in Docs : nds[d].key = ds[d].key /\ (HasRowIn(d, nds) => HasRowIn(d, ds)),
           r \in Request, FitsCols(r, ap, cs),
           \A e \in r.todo \cup r.done : e[1] \in Docs,
           r.op \in DocOps => Exists(r.parent, cs),
           r.op = "moveCol" /\ r.pc \notin {"lock", "cycle"} => Exists(r.parent, cs),
           Pathed(r, f, cs, ds)
    PROVE  Pathed(r, g, new, nds)
<1>1. r.at \in Places /\ r.parent \in Places
  BY DEF Request
<1>2. CASE r.op \in DocOps
  BY <1>1, <1>2 DEF Pathed, DocOps, Reshapes
<1>3. CASE r.op \in Reshapes /\ r.pc # "lock"
  <2>1. r.row \in Cols /\ cs[r.row].row = "there" /\ r.row \in Places /\ Exists(r.row, cs)
    BY <1>3 DEF FitsCols, HoldsCol, Reshapes, Places, Exists
  <2>2. new[r.row].parent = cs[r.row].parent /\ g[cs[r.row].parent] = f[cs[r.row].parent]
        /\ g[r.row] = f[r.row]
    BY <2>1
  <2>3. r.pc \notin {"cycle"} => Exists(r.parent, cs)
    <3>1. r.op = "renameCol" => r.parent = cs[r.row].parent
      BY <1>3 DEF FitsCols
    <3> QED BY <1>3, <2>1, <3>1 DEF Reshapes
  <2>4. r.pc \notin {"cycle"} => g[r.parent] = f[r.parent]
    BY <1>1, <2>3
  <2>5. \A d \in Docs : Rekeyed(d, r.old, r.new, nds) = Rekeyed(d, r.old, r.new, ds)
    BY DEF Rekeyed
  <2>6. r.pc = "rewrite" =>
                /\ \A e \in r.todo \cup r.done :
                      Under(r.old, nds[e[1]].key) /\ e[2] = Rekeyed(e[1], r.old, r.new, nds)
                /\ r.old # r.new => \A d \in Docs : HasRowIn(d, nds) /\ Under(r.old, nds[d].key) =>
                                        \E e \in r.todo \cup r.done : e[1] = d
    BY <1>3, <2>5 DEF Pathed
  <2>7. r.pc \in {"oldpath", "newpath"} => Exists(r.at, new) /\ g[r.at] = f[r.at]
    BY <1>1, <1>3 DEF Pathed
  <2> QED BY <1>3, <2>2, <2>4, <2>6, <2>7 DEF Pathed, DocOps, Reshapes, Writing
<1>4. CASE r.op \in Reshapes /\ r.pc = "lock"
  BY <1>4 DEF Pathed, DocOps, Reshapes, Writing
<1> QED BY <1>2, <1>3, <1>4 DEF Pathed

\* The collections that are there are a tree of their own, in which names have one
\* segment and siblings differ.
OneSegment == \A n \in Names : Len(n) = 1

Forest(cs) ==
    /\ NoCycle(cs)
    /\ \A x \in Cols : cs[x].row = "there" =>
          /\ cs[x].name \in Names
          /\ cs[x].parent = Root \/ (cs[x].parent \in Cols /\ cs[cs[x].parent].row = "there")
    /\ \A x, y \in Cols : x # y /\ cs[x].row = "there" /\ cs[y].row = "there" =>
          cs[x].parent # cs[y].parent \/ cs[x].name # cs[y].name

LEMMA NotEmptyAfter ==
    \A p, n \in Seq(STRING) : n # <<>> => p \o n # <<>>
<1> SUFFICES ASSUME NEW p \in Seq(STRING), NEW n \in Seq(STRING), n # <<>>, p \o n = <<>> PROVE FALSE
  OBVIOUS
<1>1. Len(p \o n) = Len(p) + Len(n) /\ Len(p) \in Nat /\ Len(n) \in Nat \ {0}
  BY ConcatProperties, LenProperties, EmptySeq
<1> QED BY <1>1, EmptySeq

\* No two collections have the same path.
LEMMA PathsDiffer ==
    ASSUME OneSegment, NEW cs, Forest(cs), NEW f, IsPaths(f, cs)
    PROVE  \A x, y \in Cols : cs[x].row = "there" /\ cs[y].row = "there" /\ x # y => f[x] # f[y]
<1> DEFINE D == {x \in Cols : cs[x].row = "there" /\
                    \E y \in Cols : y # x /\ cs[y].row = "there" /\ f[x] = f[y]}
<1>1. ASSUME NEW x \in D PROVE cs[x].parent \in D
  <2>1. PICK y \in Cols : y # x /\ cs[y].row = "there" /\ f[x] = f[y]
    OBVIOUS
  <2> DEFINE p == cs[x].parent
             q == cs[y].parent
             n == cs[x].name
             m == cs[y].name
             s == f[p]
             t == f[q]
  <2>2. /\ n \in Names /\ (p = Root \/ (p \in Cols /\ cs[p].row = "there"))
        /\ m \in Names /\ (q = Root \/ (q \in Cols /\ cs[q].row = "there"))
        /\ p # q \/ n # m
    BY <2>1 DEF Forest
  <2>3. p \in Places /\ q \in Places /\ n \in Seq(STRING) /\ m \in Seq(STRING)
        /\ Len(n) = 1 /\ Len(m) = 1
    BY <2>2, NamesAssumption DEF OneSegment, Places
  <2>4. s \in Seq(STRING) /\ t \in Seq(STRING) /\ f[Root] = <<>>
    BY <2>3 DEF IsPaths
  <2>5. s \o n = t \o m
    BY <2>1 DEF IsPaths
  <2> HIDE DEF D, s, t, n, m
  <2>6. s = t /\ n = m
    <3>1. s \in Seq(STRING) /\ t \in Seq(STRING) /\ n \in Seq(STRING) /\ m \in Seq(STRING)
      BY <2>3, <2>4
    <3>2. Len(n) = 1 /\ Len(m) = 1 /\ s \o n = t \o m => s = t /\ n = m
      BY <3>1, LastName, Zenon
    <3> QED BY <2>3, <2>5, <3>2
  <2>7. \A a \in Cols : cs[a].row = "there" => f[a] # <<>>
    <3> SUFFICES ASSUME NEW a \in Cols, cs[a].row = "there" PROVE f[a] # <<>>
      OBVIOUS
    <3> DEFINE u == f[cs[a].parent]
               v == cs[a].name
    <3>1. u \in Seq(STRING) /\ v \in Seq(STRING) /\ v # <<>>
      BY NamesAssumption DEF Forest, IsPaths, Places
    <3>2. f[a] = u \o v
      BY DEF IsPaths
    <3> HIDE DEF u, v
    <3> QED BY <3>1, <3>2, NotEmptyAfter, Zenon
  <2>8. p # q /\ f[p] = f[q]
    BY <2>2, <2>6 DEF s, t
  <2>9. p # Root /\ q # Root
    BY <2>2, <2>4, <2>7, <2>8
  <2> QED BY <2>2, <2>8, <2>9 DEF D
<1>2. D = {}
  BY <1>1 DEF Forest, NoCycle, EndlessIn
<1> QED BY <1>2

\* Paths that go on after o go on after d instead, and the others stay.
Carried(f, g, cs, o, d) ==
    /\ \A x \in Cols, t \in Seq(STRING) : cs[x].row = "there" /\ f[x] = o \o t => g[x] = d \o t
    /\ \A x \in Cols : cs[x].row = "there" /\ (\A t \in Seq(STRING) : f[x] # o \o t) => g[x] = f[x]

\* Where a collection is renamed or moved, the paths that go through it begin with its
\* new one, and no other path changes.
LEMMA ReshapePaths ==
    ASSUME OneSegment, NEW cs, NEW new, Forest(cs), NEW f, NEW g, IsPaths(f, cs), IsPaths(g, new),
           NEW c \in Cols, cs[c].row = "there",
           \A x \in Cols \ {c} : new[x].parent = cs[x].parent /\ new[x].name = cs[x].name,
           NEW o, NEW d, o = f[c], d = g[c]
    PROVE  Carried(f, g, cs, o, d)
<1>1. o \in Seq(STRING) /\ d \in Seq(STRING)
  BY DEF IsPaths, Places
<1>2. ASSUME NEW x \in Cols, cs[x].row = "there"
      PROVE  /\ f[cs[x].parent] \in Seq(STRING) /\ g[cs[x].parent] \in Seq(STRING)
             /\ cs[x].name \in Seq(STRING) /\ Len(cs[x].name) = 1 /\ cs[x].name # <<>>
             /\ f[x] = f[cs[x].parent] \o cs[x].name
             /\ x # c => g[x] = g[cs[x].parent] \o cs[x].name
  <2>1. cs[x].parent \in Places /\ cs[x].name \in Names
    BY <1>2 DEF Forest, Places
  <2>2. f[cs[x].parent] \in Seq(STRING) /\ g[cs[x].parent] \in Seq(STRING)
    BY <2>1 DEF IsPaths
  <2>3. cs[x].name \in Seq(STRING) /\ Len(cs[x].name) = 1 /\ cs[x].name # <<>>
    BY <2>1, NamesAssumption DEF OneSegment
  <2>4. f[x] = f[cs[x].parent] \o cs[x].name
    BY DEF IsPaths
  <2>5. x # c => g[x] = g[cs[x].parent] \o cs[x].name
    <3> SUFFICES ASSUME x # c PROVE g[x] = g[cs[x].parent] \o cs[x].name
      OBVIOUS
    <3>1. g[x] = g[new[x].parent] \o new[x].name
      BY DEF IsPaths
    <3> QED BY <3>1, Zenon
  <2> QED BY <2>2, <2>3, <2>4, <2>5
<1>3. o # <<>>
  <2> DEFINE s == f[cs[c].parent]
             n == cs[c].name
  <2>1. s \in Seq(STRING) /\ n \in Seq(STRING) /\ n # <<>> /\ o = s \o n
    BY <1>2
  <2> HIDE DEF s, n
  <2> QED BY <2>1, NotEmptyAfter, Zenon
<1> DEFINE A == {x \in Cols : cs[x].row = "there" /\
                    \E t \in Seq(STRING) : f[x] = o \o t /\ g[x] # d \o t}
           B == {x \in Cols : cs[x].row = "there" /\ (\A t \in Seq(STRING) : f[x] # o \o t)
                              /\ g[x] # f[x]}
<1>4. ASSUME NEW x \in A PROVE cs[x].parent \in A
  <2>1. PICK t \in Seq(STRING) : f[x] = o \o t /\ g[x] # d \o t
    OBVIOUS
  <2> DEFINE p == cs[x].parent
             n == cs[x].name
             s == f[p]
             u == g[p]
  <2>2. s \in Seq(STRING) /\ u \in Seq(STRING) /\ n \in Seq(STRING) /\ Len(n) = 1 /\ f[x] = s \o n
        /\ (x # c => g[x] = u \o n)
    BY <1>2
  <2>3. p = Root \/ (p \in Cols /\ cs[p].row = "there")
    BY DEF Forest
  <2>4. t # <<>>
    <3>1. ASSUME t = <<>> PROVE FALSE
      <4>1. o \o t = o /\ d \o t = d
        BY <1>1, <3>1, ConcatEmptySeq
      <4>2. x # c
        BY <2>1, <4>1
      <4> QED BY <2>1, <4>1, <4>2, PathsDiffer
    <3> QED BY <3>1
  <2>5. x # c
    <3>1. ASSUME x = c PROVE FALSE
      <4>1. o = o \o t
        BY <2>1, <3>1
      <4>2. Len(o) = Len(o) + Len(t) /\ Len(o) \in Nat /\ Len(t) \in Nat
        BY <1>1, <4>1, ConcatProperties, LenProperties
      <4>3. Len(t) # 0
        BY <2>4, EmptySeq
      <4> QED BY <4>2, <4>3
    <3> QED BY <3>1
  <2> HIDE DEF A, B, s, n, u
  <2>6. PICK v \in Seq(STRING) : s = o \o v /\ t = v \o n
    <3>1. o \in Seq(STRING) /\ t \in Seq(STRING) /\ n \in Seq(STRING) /\ s \in Seq(STRING)
      BY <1>1, <2>2
    <3>2. s \o n = o \o t /\ Len(n) = 1
      BY <2>1, <2>2
    <3>3. Len(n) = 1 /\ s \o n = o \o t /\ t # <<>> => BothGoOn(s, n, o, t)
      BY <3>1, OneMore, Zenon
    <3> QED BY <2>4, <3>2, <3>3 DEF BothGoOn
  <2>7. p # Root
    <3>1. ASSUME p = Root PROVE FALSE
      <4>1. s = <<>>
        BY <3>1 DEF s, IsPaths
      <4>2. Len(o \o v) = Len(o) + Len(v) /\ Len(o) \in Nat /\ Len(v) \in Nat /\ Len(o) # 0
        BY <1>1, <1>3, ConcatProperties, LenProperties, EmptySeq
      <4>3. Len(o \o v) = 0
        BY <2>6, <4>1, EmptySeq
      <4> QED BY <4>2, <4>3
    <3> QED BY <3>1
  <2>8. u # d \o v
    <3>1. ASSUME u = d \o v PROVE FALSE
      <4>1. g[x] = (d \o v) \o n
        BY <2>2, <2>5, <3>1
      <4>2. (d \o v) \o n = d \o (v \o n)
        <5>1. d \in Seq(STRING) /\ v \in Seq(STRING) /\ n \in Seq(STRING)
          BY <1>1, <2>2, <2>6
        <5> QED BY <5>1, ConcatRegroups, Zenon
      <4> QED BY <2>1, <2>6, <4>1, <4>2
    <3> QED BY <3>1
  <2> QED BY <2>3, <2>6, <2>7, <2>8 DEF A, s, u
<1>5. A = {}
  BY <1>4 DEF Forest, NoCycle, EndlessIn
<1>6. ASSUME NEW x \in B PROVE cs[x].parent \in B
  <2> DEFINE p == cs[x].parent
             n == cs[x].name
             s == f[p]
             u == g[p]
  <2>1. x # c
    <3>1. <<>> \in Seq(STRING) /\ o \o <<>> = o
      BY <1>1, ConcatEmptySeq
    <3> QED BY <3>1
  <2>2. s \in Seq(STRING) /\ n \in Seq(STRING) /\ f[x] = s \o n /\ g[x] = u \o n
    BY <1>2, <2>1
  <2>3. p = Root \/ (p \in Cols /\ cs[p].row = "there")
    BY DEF Forest
  <2>4. \A t \in Seq(STRING) : s # o \o t
    <3> SUFFICES ASSUME NEW t \in Seq(STRING), s = o \o t PROVE FALSE
      OBVIOUS
    <3>0. \A v \in Seq(STRING) : f[x] # o \o v
      OBVIOUS
    <3> HIDE DEF A, B, s, n, u
    <3>1. (o \o t) \o n = o \o (t \o n)
      <4>1. o \in Seq(STRING) /\ t \in Seq(STRING) /\ n \in Seq(STRING)
        BY <1>1, <2>2
      <4> QED BY <4>1, ConcatRegroups, Zenon
    <3>2. t \o n \in Seq(STRING)
      BY <2>2, ConcatIsSeq, Zenon
    <3> QED BY <2>2, <3>0, <3>1, <3>2
  <2>5. s # u
    BY <2>2
  <2>6. p # Root
    BY <2>5 DEF IsPaths
  <2> QED BY <2>3, <2>4, <2>5, <2>6
<1>7. B = {}
  BY <1>6 DEF Forest, NoCycle, EndlessIn
<1> QED BY <1>5, <1>7 DEF Carried

\* Key x is k with path d for path o, where k is below that, and k where nothing changes.
KeyFollows(x, k, o, d) ==
    /\ Under(o, k) => x = d \o SubSeq(k, Len(o) + 1, Len(k))
    /\ ~Under(o, k) \/ o = d => x = k

\* The keys under the old path are those of the documents that the new one leads to.
LEMMA KeysFollow ==
    ASSUME OneSegment, NEW cs, NEW new, Forest(cs), NEW f, NEW g, IsPaths(f, cs), IsPaths(g, new),
           NEW c \in Cols, cs[c].row = "there",
           \A x \in Cols \ {c} : new[x].parent = cs[x].parent /\ new[x].name = cs[x].name,
           NEW o, NEW d, o = f[c], d = g[c],
           NEW p \in Places, p = Root \/ cs[p].row = "there", NEW n \in Names,
           NEW k, k = f[p] \o n, NEW y, y = g[p] \o n
    PROVE  KeyFollows(y, k, o, d)
<1> DEFINE s == f[p]
           u == g[p]
<1>1. /\ o \in Seq(STRING) /\ d \in Seq(STRING) /\ s \in Seq(STRING) /\ u \in Seq(STRING)
      /\ n \in Seq(STRING) /\ Len(n) = 1 /\ n # <<>> /\ p \in Cols \cup {Root}
  BY NamesAssumption DEF IsPaths, Places, OneSegment
<1>2. o # <<>>
  <2> DEFINE a == f[cs[c].parent]
             m == cs[c].name
  <2>1. m \in Names /\ cs[c].parent \in Places
    BY DEF Forest, Places
  <2>2. a \in Seq(STRING) /\ m \in Seq(STRING) /\ m # <<>> /\ o = a \o m
    BY <2>1, NamesAssumption DEF IsPaths
  <2> HIDE DEF a, m
  <2> QED BY <2>2, NotEmptyAfter, Zenon
<1>3. Carried(f, g, cs, o, d)
  BY ReshapePaths
<1>4. k \in Seq(STRING) /\ k = s \o n
  <2>1. k = s \o n
    OBVIOUS
  <2> HIDE DEF s
  <2>2. s \o n \in Seq(STRING)
    BY <1>1, ConcatIsSeq, Zenon
  <2> QED BY <2>1, <2>2
<1>5. CASE Under(o, k)
  <2>1. PICK t \in Seq(STRING) : k = o \o t
    BY <1>1, <1>4, <1>5, UnderIsCut
  <2>2. SubSeq(k, Len(o) + 1, Len(k)) = t /\ t # <<>>
    <3>1. /\ SubSeq(o \o t, Len(o) + 1, Len(o \o t)) = t
          /\ Under(o, o \o t) <=> t # <<>>
      BY <1>1, CutAfter
    <3> QED BY <1>5, <2>1, <3>1
  <2> HIDE DEF s, u
  <2>3. PICK v \in Seq(STRING) : s = o \o v /\ t = v \o n
    <3>1. s \o n = o \o t
      BY <1>4, <2>1
    <3>2. Len(n) = 1 /\ s \o n = o \o t /\ t # <<>> => BothGoOn(s, n, o, t)
      BY <1>1, OneMore, Zenon
    <3> QED BY <1>1, <2>2, <3>1, <3>2 DEF BothGoOn
  <2>4. p # Root
    <3>1. ASSUME p = Root PROVE FALSE
      <4>1. s = <<>>
        BY <3>1 DEF s, IsPaths
      <4>2. Len(o \o v) = Len(o) + Len(v) /\ Len(o) \in Nat /\ Len(v) \in Nat /\ Len(o) # 0
        BY <1>1, <1>2, ConcatProperties, LenProperties, EmptySeq
      <4>3. Len(o \o v) = 0
        BY <2>3, <4>1, EmptySeq
      <4> QED BY <4>2, <4>3
    <3> QED BY <3>1
  <2>5. u = d \o v
    <3>1. p \in Cols /\ cs[p].row = "there"
      BY <1>1, <2>4
    <3> QED BY <1>3, <2>3, <3>1 DEF s, u, Carried
  <2>6. (d \o v) \o n = d \o (v \o n)
    <3>1. d \in Seq(STRING) /\ v \in Seq(STRING) /\ n \in Seq(STRING)
      BY <1>1
    <3> QED BY <3>1, ConcatRegroups, Zenon
  <2>7. u \o n = d \o t
    BY <2>3, <2>5, <2>6
  <2>8. u \o n = d \o SubSeq(k, Len(o) + 1, Len(k)) /\ (o = d => u \o n = k)
    BY <2>1, <2>2, <2>7
  <2>9. y = u \o n
    BY DEF u
  <2> QED BY <1>5, <2>8, <2>9 DEF KeyFollows
<1>6. CASE ~Under(o, k)
  <2>1. ASSUME NEW v \in Seq(STRING), s = o \o v PROVE FALSE
    <3> DEFINE w == v \o n
    <3> HIDE DEF s
    <3>1. w \in Seq(STRING) /\ w # <<>>
      <4>1. v \o n \in Seq(STRING)
        BY <1>1, ConcatIsSeq, Zenon
      <4>2. v \o n # <<>>
        BY <1>1, NotEmptyAfter, Zenon
      <4> QED BY <4>1, <4>2
    <3>2. (o \o v) \o n = o \o (v \o n)
      <4>1. o \in Seq(STRING) /\ v \in Seq(STRING) /\ n \in Seq(STRING)
        BY <1>1
      <4> QED BY <4>1, ConcatRegroups, Zenon
    <3>3. k = o \o w
      BY <1>4, <2>1, <3>2
    <3> HIDE DEF w
    <3>4. Under(o, o \o w) <=> w # <<>>
      BY <1>1, <3>1, CutAfter
    <3> QED BY <1>6, <3>1, <3>3, <3>4
  <2>2. u = s
    <3>1. CASE p = Root
      BY <3>1 DEF IsPaths
    <3>2. CASE p # Root
      <4>1. p \in Cols /\ cs[p].row = "there"
        BY <1>1, <3>2
      <4>2. \A v \in Seq(STRING) : f[p] # o \o v
        BY <2>1
      <4> QED BY <1>3, <4>1, <4>2 DEF Carried
    <3> QED BY <3>1, <3>2
  <2>3. y = u \o n
    BY DEF u
  <2> QED BY <1>4, <1>6, <2>2, <2>3 DEF KeyFollows
<1> QED BY <1>5, <1>6

LEMMA RacedGrows ==
    ASSUME IInv, [Next]_vars PROVE raced \subseteq raced'
<1>1. ASSUME NEW w \in Requests, Arrives(w) PROVE raced \subseteq raced'
  BY <1>1, ArrivesBegins DEF Begins
<1>2. ASSUME NEW w \in Requests, Step(w) \/ Fail(w) PROVE raced \subseteq raced'
  BY <1>2, StepAdvances, CommitEnds DEF Goes
<1>3. Deletes \/ UNCHANGED vars => raced \subseteq raced'
  BY DeleteWrites DEF vars
<1> QED BY <1>1, <1>2, <1>3 DEF Next, Deletes

LEMMA TreeIsForest ==
    ASSUME IInv, Plain(cols, docs, work), NoCycle(cols)
    PROVE  Forest(cols) /\ IsPaths(PathsOf(cols), cols)
<1>1. \A c \in Cols : cols[c].parent \in Places /\ cols[c].name \in Seq(STRING)
                      /\ (cols[c].parent # Root => cols[c].parent \in Cols)
  BY ParentIsPlace
<1>2. IsPaths(PathsOf(cols), cols)
  BY <1>1, PathsArePaths
<1>3. Parents(app, cols, docs) /\ SiblingsDiffer
  BY Split
<1>4. Forest(cols)
  BY <1>1, <1>3 DEF Forest, Parents, ThereIn, SiblingsDiffer, Plain
<1> QED BY <1>2, <1>4

\* A commit that renames or moves a collection leaves the path of its parent alone.
LEMMA ParentPathStays ==
    ASSUME OneSegment, IInv, Plain(cols, docs, work), NoCycle(cols), Grown(cols, work),
           NEW w \in Requests, Cleared(work[w], cols), CommitCollection(w),
           NEW f, NEW g, IsPaths(f, cols), IsPaths(g, cols')
    PROVE  g[work[w].parent] = f[work[w].parent]
<1> DEFINE q == work[w]
           c == q.row
<1>1. /\ q.op \in Reshapes /\ q.pc = "rewrite" /\ c \in Cols /\ q.parent \in Places
      /\ q.op = "renameCol" => q.parent = cols[c].parent
      /\ cols[c].row = "there"
  BY OneRequest DEF CommitCollection, FitsCols, Writing, HoldsCol, Reshapes, Request
<1>2. \A x \in Cols \ {c} : cols'[x] = cols[x]
  BY CommitWrites
<1>3. CASE q.op = "moveCol"
  <2>1. PICK S \in SUBSET Places : Above(S, {}, q, cols)
    BY <1>1, <1>3 DEF Cleared
  <2> DEFINE T == S \ {Root}
  <2>2. T \in SUBSET Cols
    BY DEF Places
  <2>3. \A x \in T : /\ cols[x].parent \in T \cup {Root}
                     /\ cols'[x].parent = cols[x].parent /\ cols'[x].name = cols[x].name
    BY <1>2, <2>1, <2>2 DEF Above
  <2>4. q.parent \in T \cup {Root}
    BY <2>1 DEF Above
  <2> HIDE DEF T, q
  <2> QED BY <2>2, <2>3, <2>4, SamePaths DEF q
<1>4. CASE q.op = "renameCol"
  <2> DEFINE T == {x \in Cols : cols[x].row # "none" /\ Len(f[x]) < Len(f[c])}
  <2>1. ASSUME NEW x \in Cols, cols[x].row # "none"
        PROVE  /\ Len(f[x]) = Len(f[cols[x].parent]) + 1
               /\ Len(f[x]) \in Nat /\ Len(f[cols[x].parent]) \in Nat
    <3> DEFINE s == f[cols[x].parent]
               n == cols[x].name
    <3>1. cols[x].parent \in Places /\ n \in Names
      BY <2>1, ParentIsPlace DEF Plain
    <3>2. s \in Seq(STRING) /\ n \in Seq(STRING) /\ Len(n) = 1 /\ f[x] = s \o n
      BY <3>1, NamesAssumption DEF IsPaths, OneSegment
    <3> HIDE DEF s, n
    <3>3. Len(s \o n) = Len(s) + Len(n) /\ Len(s) \in Nat
      BY <3>2, ConcatProperties, LenProperties
    <3> QED BY <3>2, <3>3 DEF s
  <2>2. \A x \in Cols : cols[x].parent \in Cols \cup {Root} /\ Exists(cols[x].parent, cols)
    BY ParentIsPlace DEF Grown
  <2>3. \A x \in T : /\ cols[x].parent \in T \cup {Root}
                     /\ cols'[x].parent = cols[x].parent /\ cols'[x].name = cols[x].name
    <3> SUFFICES ASSUME NEW x \in T
                 PROVE  /\ cols[x].parent \in T \cup {Root}
                        /\ cols'[x].parent = cols[x].parent /\ cols'[x].name = cols[x].name
      OBVIOUS
    <3>1. /\ Len(f[x]) = Len(f[cols[x].parent]) + 1 /\ Len(f[x]) < Len(f[c])
          /\ Len(f[x]) \in Nat /\ Len(f[cols[x].parent]) \in Nat /\ Len(f[c]) \in Nat
      BY <1>1, <2>1
    <3>2. x # c /\ Len(f[cols[x].parent]) < Len(f[c])
      BY <3>1
    <3>3. cols[x].parent \in T \cup {Root}
      BY <2>2, <3>2 DEF Exists
    <3> QED BY <1>2, <3>2, <3>3
  <2>4. q.parent \in T \cup {Root}
    <3>1. Len(f[c]) = Len(f[cols[c].parent]) + 1 /\ Len(f[cols[c].parent]) \in Nat
      BY <1>1, <2>1
    <3>2. Len(f[cols[c].parent]) < Len(f[c])
      BY <3>1
    <3> QED BY <1>1, <1>4, <2>2, <3>2 DEF Exists
  <2>5. T \in SUBSET Cols
    OBVIOUS
  <2> HIDE DEF T, q
  <2> QED BY <2>3, <2>4, <2>5, SamePaths DEF q
<1> QED BY <1>1, <1>3, <1>4 DEF Reshapes

LEMMA CommitKeys ==
    ASSUME OneSegment, IInv, Plain(cols, docs, work), NoCycle(cols), Grown(cols, work),
           NEW w \in Requests, Cleared(work[w], cols), CommitCollection(w),
           NEW f, NEW g, IsPaths(f, cols), IsPaths(g, cols'),
           Pathed(work[w], f, cols, docs), KeysOK(f, docs)
    PROVE  KeysOK(g, docs')
<1> DEFINE q == work[w]
           c == q.row
<1>1. /\ q.op \in Reshapes /\ q.pc = "rewrite" /\ c \in Cols /\ q.parent \in Places /\ q.todo = {}
      /\ cols[c].row = "there"
  BY OneRequest DEF CommitCollection, FitsCols, Writing, HoldsCol, Reshapes, Request
<1>2. /\ \A x \in Cols \ {c} : cols'[x] = cols[x]
      /\ cols'[c].parent = q.parent /\ cols'[c].name = q.name
      /\ \A d \in Docs : /\ docs'[d].row = docs[d].row /\ docs'[d].parent = docs[d].parent
                         /\ docs'[d].name = docs[d].name
                         /\ IF d \in Rewritten(q.done) THEN <<d, docs'[d].key>> \in q.done
                            ELSE docs'[d] = docs[d]
  BY <1>1, CommitWrites
<1>3. /\ q.old = f[c] /\ q.new = f[q.parent] \o q.name
      /\ \A e \in q.done : Under(q.old, docs[e[1]].key) /\ e[2] = Rekeyed(e[1], q.old, q.new, docs)
      /\ q.old # q.new => \A d \in Docs : HasRowIn(d, docs) /\ Under(q.old, docs[d].key) =>
                              \E e \in q.done : e[1] = d
  <2>1. q.todo \cup q.done = q.done
    BY <1>1
  <2> QED BY <1>1, <2>1 DEF Pathed, Writing
<1>4. q.new = g[c]
  <2>1. g[q.parent] = f[q.parent]
    BY ParentPathStays
  <2>2. g[c] = g[cols'[c].parent] \o cols'[c].name
    BY <1>1 DEF IsPaths
  <2> QED BY <1>2, <1>3, <2>1, <2>2
<1>5. Forest(cols) /\ Parents(app, cols, docs)
  BY TreeIsForest, Split
<1> SUFFICES ASSUME NEW d \in Docs, HasRowIn(d, docs')
             PROVE  docs'[d].key = g[docs'[d].parent] \o docs'[d].name
  BY DEF KeysOK
<1> DEFINE p == docs[d].parent
           n == docs[d].name
           k == docs[d].key
           o == q.old
           e == q.new
<1>6. HasRowIn(d, docs) /\ p \in Places /\ n \in Names /\ k = f[p] \o n
      /\ (p = Root \/ cols[p].row = "there")
  <2>1. HasRowIn(d, docs)
    BY <1>2 DEF HasRowIn
  <2>2. docs[d] \in Document
    BY DEF IInv, TypeOK
  <2> QED BY <1>5, <2>1, <2>2 DEF Parents, ThereIn, Plain, KeysOK, Document
<1>7. \A x \in Cols \ {c} : cols'[x].parent = cols[x].parent /\ cols'[x].name = cols[x].name
  BY <1>2
<1> DEFINE y == g[p] \o n
<1>8. KeyFollows(y, k, o, e)
  <2>1. o = f[c] /\ e = g[c] /\ y = g[p] \o n
    BY <1>3, <1>4
  <2> HIDE DEF p, n, k, o, e, c, y
  <2> QED BY <1>1, <1>5, <1>6, <1>7, <2>1, KeysFollow
<1>9. CASE d \in Rewritten(q.done)
  <2>1. <<d, docs'[d].key>> \in q.done
    BY <1>2, <1>9
  <2>2. Under(o, k) /\ docs'[d].key = Rekeyed(d, o, e, docs)
    BY <1>3, <2>1
  <2>3. docs'[d].key = e \o SubSeq(k, Len(o) + 1, Len(k))
    BY <2>2 DEF Rekeyed
  <2> QED BY <1>2, <1>8, <2>2, <2>3 DEF KeyFollows
<1>10. CASE d \notin Rewritten(q.done)
  <2>1. docs'[d] = docs[d]
    BY <1>2, <1>10
  <2>2. ~Under(o, k) \/ o = e
    BY <1>3, <1>6, <1>10 DEF Rewritten
  <2> QED BY <1>8, <2>1, <2>2 DEF KeyFollows
<1> QED BY <1>9, <1>10

LEMMA NextKeys ==
    ASSUME OneSegment, IInv, Noted(work, raced), TreePart(cols, work, raced),
           Plain(cols, docs, work), KeysPart(PathsOf(cols), cols, docs, work, raced), [Next]_vars
    PROVE  KeysPart(PathsOf(cols'), cols', docs', work', raced')
<1> DEFINE f == PathsOf(cols)
           g == PathsOf(cols')
<1> SUFFICES ASSUME "keys" \notin raced', "cycle" \notin raced'
             PROVE  KeysOK(g, docs') /\ \A v \in Requests : Pathed(work'[v], g, cols', docs')
  BY DEF KeysPart
<1>1. "keys" \notin raced /\ "cycle" \notin raced
  BY RacedGrows
<1>2. /\ Grown(cols, work) /\ NoCycle(cols) /\ \A v \in Requests : Cleared(work[v], cols)
      /\ KeysOK(f, docs) /\ \A v \in Requests : Pathed(work[v], f, cols, docs)
  BY <1>1 DEF TreePart, KeysPart
<1>3. IsPaths(f, cols)
  BY <1>2, TreeIsForest
<1>4. IsPaths(g, cols')
  <2>1. NoCycle(cols')
    BY NextTree DEF TreePart
  <2>2. \A c \in Cols : cols'[c] \in Collection
    BY NextKeepsInv DEF IInv, TypeOK
  <2>3. \A c \in Cols : cols'[c].parent \in Places /\ cols'[c].name \in Seq(STRING)
    <3>1. <<>> \in Seq(STRING)
      OBVIOUS
    <3> QED BY <2>2, <3>1, NamesAssumption DEF Collection
  <2> QED BY <2>1, <2>3, PathsArePaths
<1>5. ASSUME cols' = cols PROVE g = f
  BY <1>5
<1>20. /\ \A c \in Cols : cols[c].parent \in Places /\ cols[c].parent \in Cols \cup {Root}
       /\ \A d \in Docs : docs[d].parent \in Places
       /\ Parents(app, cols, docs)
  <2>1. \A c \in Cols : cols[c].parent \in Places /\ cols[c].parent \in Cols \cup {Root}
    BY ParentIsPlace
  <2>2. \A d \in Docs : docs[d].parent \in Places
    BY DEF IInv, TypeOK, Document
  <2> QED BY <2>1, <2>2, Split
\* What stays true where a table changes elsewhere.
<1>21. ASSUME \A p \in Places : Exists(p, cols) => g[p] = f[p] /\ Exists(p, cols'),
              \A c \in Cols : cols[c].row # "none" => cols'[c].parent = cols[c].parent,
              \A d \in Docs : /\ docs'[d].parent = docs[d].parent /\ docs'[d].name = docs[d].name
                              /\ docs'[d].key = docs[d].key
                              /\ HasRowIn(d, docs') => HasRowIn(d, docs)
       PROVE  KeysOK(g, docs') /\ \A v \in Requests : Pathed(work[v], g, cols', docs')
  <2>1. KeysOK(g, docs')
    <3> SUFFICES ASSUME NEW d \in Docs, HasRowIn(d, docs')
                 PROVE  docs'[d].key = g[docs'[d].parent] \o docs'[d].name
      BY DEF KeysOK
    <3>1. HasRowIn(d, docs) /\ docs[d].parent \in Places /\ Exists(docs[d].parent, cols)
      BY <1>20, <1>21 DEF Parents, ThereIn, Exists
    <3>2. g[docs[d].parent] = f[docs[d].parent]
      BY <1>21, <3>1
    <3>3. docs[d].key = f[docs[d].parent] \o docs[d].name
      BY <1>2, <3>1 DEF KeysOK
    <3> HIDE DEF f, g
    <3> QED BY <1>21, <3>2, <3>3
  <2>2. ASSUME NEW v \in Requests PROVE Pathed(work[v], g, cols', docs')
    <3> DEFINE r == work[v]
    <3>1. /\ r \in Request /\ FitsCols(r, app, cols)
          /\ Pathed(r, f, cols, docs) /\ Cleared(r, cols)
          /\ r.op \in DocOps => Exists(r.parent, cols)
      BY <1>2, OneRequest DEF Grown
    <3>2. \A e \in r.todo \cup r.done : e[1] \in Docs
      BY <3>1 DEF Request
    <3>3. r.op = "moveCol" /\ r.pc \notin {"lock", "cycle"} => Exists(r.parent, cols)
      BY <3>1 DEF Cleared, Above, Exists
    <3>4. \A c \in Cols : /\ cols[c].row # "none" => cols'[c].parent = cols[c].parent
                          /\ cols[c].parent \in Places /\ Exists(cols[c].parent, cols)
      BY <1>2, <1>20, <1>21 DEF Grown
    <3>5. \A d \in Docs : docs'[d].key = docs[d].key /\ (HasRowIn(d, docs') => HasRowIn(d, docs))
      BY <1>21
    <3> HIDE DEF r, f, g
    <3>6. Pathed(r, g, cols', docs')
      BY <1>21, <3>1, <3>2, <3>3, <3>4, <3>5, SamePathed
    <3> QED BY <3>6 DEF r
  <2> QED BY <2>1, <2>2
<1>6. CASE UNCHANGED vars
  BY <1>2, <1>6 DEF vars
<1>7. ASSUME NEW w \in Requests, Arrives(w)
      PROVE  KeysOK(g, docs') /\ \A v \in Requests : Pathed(work'[v], g, cols', docs')
  <2>1. \E r \in Request : Begins(w, r) /\ Pathed(r, f, cols, docs)
    BY <1>3, <1>7, BeginPathed
  <2>2. PICK r \in Request : Begins(w, r) /\ Pathed(r, f, cols, docs)
    BY <2>1
  <2>3. /\ \A v \in Requests : work'[v] = IF v = w THEN r ELSE work[v]
        /\ cols' = cols /\ docs' = docs
    BY <2>2 DEF Begins, IInv, TypeOK
  <2> QED BY <1>2, <2>2, <2>3
<1>8. ASSUME NEW w \in Requests, NEW r \in Request, Goes(w, r),
             Advances(work[w], r, app, cols, docs)
      PROVE  KeysOK(g, docs') /\ \A v \in Requests : Pathed(work'[v], g, cols', docs')
  <2>1. Pathed(r, f, cols, docs)
    BY <1>1, <1>2, <1>3, <1>8, AdvancePathed
  <2>2. /\ \A v \in Requests : work'[v] = IF v = w THEN r ELSE work[v]
        /\ cols' = cols /\ docs' = docs
    BY <1>8 DEF Goes, IInv, TypeOK
  <2> QED BY <1>2, <2>1, <2>2
<1>9. Pathed(Over, g, cols', docs')
  BY OverIsIdle DEF Pathed, DocOps, Reshapes
<1>10. ASSUME NEW w \in Requests, Commits(w), ~Ends(w)
       PROVE  KeysOK(g, docs') /\ \A v \in Requests : Pathed(work'[v], g, cols', docs')
  <2> DEFINE q == work[w]
  <2>1. /\ \A v \in Requests : work'[v] = IF v = w THEN Over ELSE work[v]
        /\ app' = app /\ raced' = raced
    BY <1>10, CommitEnds DEF IInv, TypeOK
  <2>2. CASE InsertCollection(w)
    <3>1. /\ q.row \in Cols /\ cols[q.row].row = "none" /\ docs' = docs
          /\ \A x \in Cols \ {q.row} : cols'[x] = cols[x]
          /\ cols'[q.row].row = "there"
      BY <1>10, <2>2, InsertWrites
    <3> HIDE DEF q
    <3> DEFINE S == {c \in Cols : cols[c].row # "none"}
    <3>2. \A c \in S : /\ cols[c].parent \in S \cup {Root}
                       /\ cols'[c].parent = cols[c].parent /\ cols'[c].name = cols[c].name
      BY <1>2, <1>20, <3>1 DEF Grown, Exists
    <3>3. \A p \in S \cup {Root} : g[p] = f[p]
      <4>1. S \in SUBSET Cols
        OBVIOUS
      <4> HIDE DEF S, f, g
      <4> QED BY <1>2, <1>3, <1>4, <3>2, <4>1, SamePaths
    <3>4. \A p \in Places : Exists(p, cols) => g[p] = f[p] /\ Exists(p, cols')
      <4> HIDE DEF f, g
      <4> QED BY <3>1, <3>3 DEF Exists, Places
    <3>5. KeysOK(g, docs') /\ \A v \in Requests : Pathed(work[v], g, cols', docs')
      BY <1>21, <3>1, <3>2, <3>4
    <3> QED BY <1>9, <2>1, <3>5
  <2>3. CASE CommitCollection(w)
    <3>1. q.op \in Reshapes
      BY <2>3, OneRequest DEF CommitCollection, FitsCols, Writing, Reshapes
    <3>2. KeysOK(g, docs')
      <4> HIDE DEF f, g
      <4> QED BY <1>2, <1>3, <1>4, <2>3, CommitKeys
    <3>3. ASSUME NEW v \in Requests, v # w PROVE Pathed(work[v], g, cols', docs')
      <4>1. work[v].op \notin DocOps \cup Reshapes
        BY <1>1, <3>1, <3>3, HarmOf DEF Noted, DocOps, Reshapes
      <4> QED BY <4>1 DEF Pathed
    <3> QED BY <1>9, <2>1, <3>2, <3>3
  <2>4. CASE PlaceDocument(w)
    <3>1. /\ q.op \in DocOps /\ q.pc = "write" /\ q.row \in Docs /\ cols' = cols
          /\ \A x \in Docs \ {q.row} : docs'[x] = docs[x]
          /\ docs'[q.row].parent = q.parent /\ docs'[q.row].name = q.name
          /\ docs'[q.row].key = q.new \o q.name
      BY <1>10, <2>4, PlaceWrites
    <3>2. q.new = f[q.parent]
      BY <1>2, <3>1 DEF Pathed
    <3>3. KeysOK(g, docs')
      <4>1. g = f
        BY <1>5, <3>1
      <4>2. \A d \in Docs \ {q.row} : HasRowIn(d, docs') => HasRowIn(d, docs)
        BY <3>1 DEF HasRowIn
      <4> HIDE DEF f, g, q
      <4> QED BY <1>2, <3>1, <3>2, <4>1, <4>2 DEF KeysOK
    <3>4. ASSUME NEW v \in Requests, v # w PROVE Pathed(work[v], g, cols', docs')
      <4>1. work[v].op \notin Reshapes
        BY <1>1, <3>1, <3>4, HarmOf DEF Noted, DocOps, Reshapes
      <4>2. Pathed(work[v], f, cols, docs) /\ g = f /\ cols' = cols
        BY <1>2, <1>5, <3>1
      <4> HIDE DEF f, g, q
      <4> QED BY <4>1, <4>2 DEF Pathed
    <3> QED BY <1>9, <2>1, <3>3, <3>4
  <2> QED BY <1>10, <2>2, <2>3, <2>4 DEF Commits
<1>11. CASE Deletes
  <2>1. /\ work' = work
        /\ \A c \in Cols : /\ cols'[c].parent = cols[c].parent /\ cols'[c].name = cols[c].name
                           /\ cols[c].row # "none" => cols'[c].row # "none"
        /\ \A d \in Docs : /\ docs'[d].parent = docs[d].parent /\ docs'[d].name = docs[d].name
                           /\ docs'[d].key = docs[d].key
                           /\ HasRowIn(d, docs') => HasRowIn(d, docs)
    BY <1>11, DeleteWrites
  <2>2. \A p \in Cols \cup {Root} : g[p] = f[p]
    <3> DEFINE S == Cols
    <3>1. \A c \in S : /\ cols[c].parent \in S \cup {Root}
                       /\ cols'[c].parent = cols[c].parent /\ cols'[c].name = cols[c].name
      BY <1>20, <2>1
    <3>2. S \in SUBSET Cols
      OBVIOUS
    <3> HIDE DEF S, f, g
    <3>3. \A p \in S \cup {Root} : g[p] = f[p]
      BY <1>2, <1>3, <1>4, <3>1, <3>2, SamePaths
    <3> QED BY <3>3 DEF S
  <2>3. \A p \in Places : Exists(p, cols) => g[p] = f[p] /\ Exists(p, cols')
    <3> HIDE DEF f, g
    <3> QED BY <2>1, <2>2 DEF Exists, Places
  <2> QED BY <1>21, <2>1, <2>3
<1> QED BY <1>6, <1>7, <1>8, <1>10, <1>11, StepAdvances DEF Next, Deletes

LEMMA InitKeys == Init => Plain(cols, docs, work) /\ KeysPart(PathsOf(cols), cols, docs, work, raced)
<1> SUFFICES ASSUME Init
             PROVE  Plain(cols, docs, work) /\ KeysPart(PathsOf(cols), cols, docs, work, raced)
  OBVIOUS
<1>1. AnyTree /\ \A w \in Requests : work[w] = New
  BY DEF Init
<1>2. \A w \in Requests : work[w].op = "" /\ work[w].pc = "new" /\ work[w].old = <<>> /\ work[w].new = <<>>
  <2>1. New.old = <<>> /\ New.new = <<>>
    BY DEF New
  <2> QED BY <1>1, <2>1, OverIsIdle
<1>3. \A c \in Cols : cols[c].row # "none" => cols[c].name \in Names
  <2> SUFFICES ASSUME NEW c \in Cols, cols[c].row # "none" PROVE cols[c].name \in Names
    OBVIOUS
  <2>1. cols[c] \in {[row |-> "none", parent |-> Root, name |-> <<>>]} \cup
                         [row : {"there"}, parent : Places, name : Names]
    BY <1>1 DEF AnyTree
  <2> QED BY <2>1
<1>4. ASSUME NEW d \in Docs, HasRowIn(d, docs)
      PROVE  docs[d].name \in Names /\ docs[d].key = Path[docs[d].parent] \o docs[d].name
  <2> DEFINE row(x, p, n) == [row |-> x, parent |-> p, name |-> n, key |-> Path[p] \o n]
             none == [row |-> "none", parent |-> Root, name |-> <<>>, key |-> <<>>]
  <2>1. docs[d] \in {none} \cup {row(x, p, n) : x \in {"live", "tombstone"}, p \in Places, n \in Names}
    BY <1>1 DEF AnyTree
  <2>2. docs[d] # none
    BY <1>4 DEF HasRowIn
  <2> HIDE DEF row, none
  <2>3. PICK x \in {"live", "tombstone"}, p \in Places, n \in Names : docs[d] = row(x, p, n)
    BY <2>1, <2>2
  <2>4. row(x, p, n).parent = p /\ row(x, p, n).name = n /\ row(x, p, n).key = Path[p] \o n
    <3> DEFINE k == Path[p] \o n
    <3>1. row(x, p, n) = [row |-> x, parent |-> p, name |-> n, key |-> k]
      BY DEF row
    <3> HIDE DEF k
    <3> QED BY <3>1 DEF k
  <2> QED BY <2>3, <2>4
<1>5. Plain(cols, docs, work)
  BY <1>2, <1>3, <1>4 DEF Plain
<1>6. KeysOK(PathsOf(cols), docs)
  BY <1>4, PathIs DEF KeysOK
<1>7. \A w \in Requests : Pathed(work[w], PathsOf(cols), cols, docs)
  BY <1>2 DEF Pathed, DocOps, Reshapes
<1> QED BY <1>5, <1>6, <1>7 DEF KeysPart

\* A document's stored key is its path, whatever is created, deleted or failed meanwhile,
\* unless a rename or a move of a collection overlapped another, or the placement of a
\* document; as long as no name has a slash in it.
THEOREM KeysInvariance ==
    ASSUME \A n \in Names : Len(n) = 1
    PROVE  Spec => []KeysArePaths
<1> DEFINE J == /\ IInv /\ Noted(work, raced) /\ TreePart(cols, work, raced)
                /\ Plain(cols, docs, work) /\ KeysPart(PathsOf(cols), cols, docs, work, raced)
<1>1. Init => J
  BY InitInv, InitNoted, InitTree, InitKeys
<1>2. J /\ [Next]_vars => J'
  <2> SUFFICES ASSUME J, [Next]_vars PROVE J'
    OBVIOUS
  <2>1. OneSegment
    BY DEF OneSegment
  <2>2. IInv' /\ Noted(work', raced') /\ TreePart(cols', work', raced')
    BY NextKeepsInv, NextNoted, NextTree
  <2>3. Plain(cols', docs', work')
    BY NextPlain
  <2>4. KeysPart(PathsOf(cols'), cols', docs', work', raced')
    BY <2>1, NextKeys
  <2> QED BY <2>2, <2>3, <2>4
<1>3. J => KeysArePaths
  <2> SUFFICES ASSUME J, raced \cap {"keys", "cycle"} = {}, NEW d \in Docs, HasRow(d)
               PROVE  docs[d].key = Path[docs[d].parent] \o docs[d].name
    BY DEF KeysArePaths
  <2>1. KeysOK(PathsOf(cols), docs)
    BY DEF KeysPart
  <2> QED BY <2>1, PathIs DEF KeysOK, HasRow, HasRowIn
<1> QED BY <1>1, <1>2, <1>3, PTL DEF Spec

=============================================================================
