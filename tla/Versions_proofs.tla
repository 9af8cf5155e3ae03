---------------------------- MODULE Versions_proofs ----------------------------
(***************************************************************************)
(* Proofs about Versions: its inductive invariant, the truth of a status   *)
(* read in two statements, and the refinement of VersionLog.               *)
(***************************************************************************)
EXTENDS Versions, TLAPS

\* IInv is a conjunction over the clients and over the tables.  Each part takes the
\* state it is about as arguments, so that it can be read before and after a step.

\* A base b with text from f fits the history vs of a document whose row is rw.
Fits(rw, vs, c, b, f) ==
    rw = "gone" \/ (b <= Len(vs) /\ (b <= f \/ Wrote(vs, c, f)))

\* Client c, with save q in flight and editor e.
ClientOK(c, q, e, rw, vss, lk) ==
    /\ InSave(q) => lk[q.doc] = c /\ rw[q.doc] = "there" /\ q.base < MaxVer
    /\ q.pc = "counted" => q.count = Len(vss[q.doc])
    /\ Fits(rw[q.doc], vss[q.doc], c, q.base, q.from)
    /\ Fits(rw[e.doc], vss[e.doc], c, e.base, e.from)
    /\ q.pc = "conflict" => q.base < q.count
    /\ q.pc # "none" => e.pc = "saving"
    /\ e.pc = "saving" => q.pc # "none" /\ q.doc = e.doc
    /\ q.pc = "sent" => q.base < MaxVer
    /\ q.pc = "saved" => rw[q.doc] = "gone" \/ Wrote(vss[q.doc], c, q.count + 1)
    /\ e.pc = "resync" => rw[e.doc] = "gone" \/ Wrote(vss[e.doc], c, e.from)

HeldBySave(lk, rq) ==
    \A d \in Docs : lk[d] # Nobody => InSave(rq[lk[d]]) /\ rq[lk[d]].doc = d

Inv(rw, vss, lk, rq, ed) ==
    /\ \A c \in Clients : ClientOK(c, rq[c], ed[c], rw, vss, lk)
    /\ HeldBySave(lk, rq)

LEMMA Split ==
    IInv <=> /\ TypeOK /\ LinearHistory /\ NothingBeforeItExists
             /\ Inv(row, versions, rowLock, req, editor)
BY DEF IInv, LockIsSave, CountIsFresh, BasesExist, ConflictMeansBehind, OneSave, EditsAreOwn,
       Inv, ClientOK, Fits, HeldBySave

LEMMA SplitNext ==
    IInv' <=> /\ TypeOK' /\ LinearHistory' /\ NothingBeforeItExists'
              /\ Inv(row', versions', rowLock', req', editor')
BY DEF IInv, LockIsSave, CountIsFresh, BasesExist, ConflictMeansBehind, OneSave, EditsAreOwn,
       Inv, ClientOK, Fits, HeldBySave

-----------------------------------------------------------------------------
(* Heads and statuses.                                                     *)

\* The head of a history without gaps is its length.
LEMMA HeadIsLength ==
    ASSUME NEW vs \in Seq(Version), \A i \in 1..Len(vs) : vs[i].num = i
    PROVE  HeadOf(vs) = Len(vs)
<1>1. CASE vs = <<>>
  BY <1>1 DEF HeadOf
<1>2. CASE vs # <<>>
  <2> DEFINE nums == {vs[i].num : i \in 1..Len(vs)}
  <2>1. Len(vs) \in Nat /\ Len(vs) \in 1..Len(vs)
    BY <1>2
  <2>2. nums = 1..Len(vs)
    BY <2>1
  <2>3. (CHOOSE n \in nums : \A m \in nums : m <= n) = Len(vs)
    BY <2>1, <2>2
  <2> QED BY <1>2, <2>3 DEF HeadOf
<1> QED BY <1>1, <1>2

LEMMA StatusHasName == ASSUME NEW entry, NEW head PROVE StatusOf(entry, head) \in StatusNames
BY DEF StatusOf, StatusNames

\* A status request stays one when its witness looks on.
LEMMA WitnessType ==
    ASSUME reader \in [Readers -> Reader], Witness
    PROVE  reader' \in [Readers -> Reader]
<1> SUFFICES ASSUME NEW r \in Readers
             PROVE  reader'[r] \in Reader
  BY DEF Witness
<1> DEFINE R == reader[r]
           now == StatusOf(live'[R.doc], HeadOf(versions'[R.doc]))
           gone == R.dropped \/ (live[R.doc] # 0 /\ live'[R.doc] = 0)
<1>1. R \in Reader
  OBVIOUS
<1>2. now \in StatusNames
  BY StatusHasName
<1>3. gone \in BOOLEAN
  <2>1. R.dropped \in BOOLEAN
    BY <1>1, Zenon DEF Reader
  <2> QED BY <2>1
<1>4. reader'[r] = IF R.pc # "entry" THEN R
                   ELSE [R EXCEPT !.truths = R.truths \cup {now}, !.dropped = gone]
  BY DEF Witness
<1> HIDE DEF now, gone, R
<1>5. CASE R.pc # "entry"
  BY <1>1, <1>4, <1>5
<1>6. CASE R.pc = "entry"
  <2> DEFINE t == R.truths \cup {now}
  <2>1. t \in SUBSET StatusNames
    BY <1>1, <1>2 DEF Reader
  <2> HIDE DEF t
  <2>2. reader'[r] = [R EXCEPT !.truths = t, !.dropped = gone]
    BY <1>4, <1>6 DEF t
  <2> QED BY <1>1, <1>3, <2>1, <2>2, Zenon DEF Reader
<1> QED BY <1>5, <1>6

-----------------------------------------------------------------------------
(* Steps of one client that leave the tables alone.                        *)

\* Client c moves; it may take or drop row locks of its own.
LEMMA ClientMoves ==
    ASSUME IInv, NEW c \in Clients,
           UNCHANGED <<row, versions, live, released, reader>>,
           req' \in [Clients -> Request], editor' \in [Clients -> Editor],
           rowLock' \in [Docs -> Clients \cup {Nobody}],
           \A x \in Clients \ {c} : req'[x] = req[x] /\ editor'[x] = editor[x],
           \A d \in Docs : rowLock'[d] # rowLock[d] => rowLock[d] \in {c, Nobody},
           \A d \in Docs : rowLock'[d] # Nobody =>
               \/ rowLock'[d] = rowLock[d] /\ rowLock[d] # c
               \/ rowLock'[d] = c /\ InSave(req'[c]) /\ req'[c].doc = d,
           ClientOK(c, req'[c], editor'[c], row, versions, rowLock')
    PROVE  IInv'
<1>1. Inv(row, versions, rowLock, req, editor)
  BY Split
<1>2. \A x \in Clients : ClientOK(x, req'[x], editor'[x], row', versions', rowLock')
  <2> SUFFICES ASSUME NEW x \in Clients, x # c
               PROVE  ClientOK(x, req[x], editor[x], row, versions, rowLock')
    OBVIOUS
  <2>1. ClientOK(x, req[x], editor[x], row, versions, rowLock)
    BY <1>1 DEF Inv
  <2>2. InSave(req[x]) => rowLock'[req[x].doc] = x
    <3>1. InSave(req[x]) => rowLock[req[x].doc] = x /\ req[x].doc \in Docs
      BY <2>1 DEF ClientOK, IInv, TypeOK, Request
    <3> QED BY <3>1, ClientsAssumption
  <2> QED BY <2>1, <2>2 DEF ClientOK
<1>3. HeldBySave(rowLock', req')
  <2> SUFFICES ASSUME NEW d \in Docs, rowLock'[d] # Nobody
               PROVE  InSave(req'[rowLock'[d]]) /\ req'[rowLock'[d]].doc = d
    BY DEF HeldBySave
  <2>1. CASE rowLock'[d] = rowLock[d] /\ rowLock[d] # c
    BY <1>1, <2>1 DEF Inv, HeldBySave, IInv, TypeOK
  <2>2. CASE rowLock'[d] = c /\ InSave(req'[c]) /\ req'[c].doc = d
    BY <2>2
  <2> QED BY <2>1, <2>2
<1>4. TypeOK' /\ LinearHistory' /\ NothingBeforeItExists'
  <2>1. TypeOK'
    BY DEF IInv, TypeOK
  <2> QED BY <2>1 DEF IInv, LinearHistory, NothingBeforeItExists
<1> QED BY <1>2, <1>3, <1>4, SplitNext DEF Inv

\* What is known of one client, and that it holds no lock outside of a save.
LEMMA OneClient ==
    ASSUME IInv, NEW c \in Clients
    PROVE  /\ req[c] \in Request /\ editor[c] \in Editor
           /\ ClientOK(c, req[c], editor[c], row, versions, rowLock)
           /\ \A d \in Docs : rowLock[d] = c => InSave(req[c]) /\ req[c].doc = d
<1>1. Inv(row, versions, rowLock, req, editor)
  BY Split
<1> QED BY <1>1, ClientsAssumption DEF IInv, TypeOK, Inv, HeldBySave

\* The client moves and its locks stay.
LEMMA ClientMovesOn ==
    ASSUME IInv, NEW c \in Clients,
           UNCHANGED <<row, versions, live, released, reader, rowLock>>,
           req' \in [Clients -> Request], editor' \in [Clients -> Editor],
           \A x \in Clients \ {c} : req'[x] = req[x] /\ editor'[x] = editor[x],
           InSave(req[c]) => InSave(req'[c]) /\ req'[c].doc = req[c].doc,
           ClientOK(c, req'[c], editor'[c], row, versions, rowLock)
    PROVE  IInv'
<1>1. rowLock' \in [Docs -> Clients \cup {Nobody}]
  BY DEF IInv, TypeOK
<1>2. \A d \in Docs : rowLock'[d] # Nobody =>
          \/ rowLock'[d] = rowLock[d] /\ rowLock[d] # c
          \/ rowLock'[d] = c /\ InSave(req'[c]) /\ req'[c].doc = d
  BY OneClient
<1> QED BY <1>1, <1>2, ClientMoves

LEMMA HeadOfDoc ==
    ASSUME IInv, NEW d \in Docs
    PROVE  HeadVersion(d) = Len(versions[d]) /\ Len(versions[d]) \in Nat
<1>1. versions[d] \in Seq(Version)
  BY DEF IInv, TypeOK
<1> QED BY <1>1, HeadIsLength DEF HeadVersion, IInv, LinearHistory

LEMMA EmptyRequest == NoRequest \in Request /\ Closed \in Editor /\ AnyDoc \in Docs
BY DocsAssumption DEF NoRequest, Closed, AnyDoc, Request, Editor

LEMMA LockDocumentStep ==
    ASSUME IInv, NEW c \in Clients, LockDocument(c) PROVE IInv'
<1>1. req' \in [Clients -> Request] /\ editor' \in [Clients -> Editor]
      /\ rowLock' \in [Docs -> Clients \cup {Nobody}]
  BY DEF LockDocument, IInv, TypeOK, Request
<1>2. req'[c].pc = "locked" /\ req'[c].doc = req[c].doc /\ req'[c].base = req[c].base
      /\ req'[c].from = req[c].from /\ req[c].doc \in Docs
  BY DEF LockDocument, IInv, TypeOK, Request
<1>3. ClientOK(c, req'[c], editor'[c], row, versions, rowLock')
  BY <1>2, OneClient DEF LockDocument, ClientOK, InSave, IInv, TypeOK
<1>4. \A d \in Docs : rowLock[d] # c
  BY OneClient DEF LockDocument, InSave
<1>5. \A d \in Docs : rowLock'[d] = IF d = req[c].doc THEN c ELSE rowLock[d]
  BY DEF LockDocument, IInv, TypeOK
<1>6. \A x \in Clients \ {c} : req'[x] = req[x] /\ editor'[x] = editor[x]
  BY DEF LockDocument, IInv, TypeOK
<1>7. InSave(req'[c])
  BY <1>2 DEF InSave
<1>8. \A d \in Docs : rowLock'[d] # Nobody =>
          \/ rowLock'[d] = rowLock[d] /\ rowLock[d] # c
          \/ rowLock'[d] = c /\ InSave(req'[c]) /\ req'[c].doc = d
  BY <1>2, <1>4, <1>5, <1>7
<1>9. UNCHANGED <<row, versions, live, released, reader>>
  BY DEF LockDocument
<1>10. \A d \in Docs : rowLock'[d] # rowLock[d] => rowLock[d] \in {Nobody, c}
  BY <1>5 DEF LockDocument
<1> QED BY <1>1, <1>3, <1>6, <1>8, <1>9, <1>10, ClientMoves

LEMMA ReleaseStep ==
    ASSUME IInv, NEW c \in Clients, Conflict(c) \/ Fail(c) PROVE IInv'
<1>1. req' \in [Clients -> Request] /\ editor' \in [Clients -> Editor]
      /\ rowLock' \in [Docs -> Clients \cup {Nobody}]
  <2>0. TypeOK
    BY DEF IInv
  <2>1. CASE Conflict(c)
    BY <2>0, <2>1 DEF Conflict, TypeOK, Request
  <2>2. CASE Fail(c)
    <3> DEFINE q == [req[c] EXCEPT !.pc = "failed", !.count = 0]
    <3>1. q \in Request
      <4>1. req[c] \in Request /\ 0 \in Nat
        BY <2>0 DEF TypeOK
      <4> QED BY <4>1, Zenon DEF Request
    <3>2. req' = [req EXCEPT ![c] = q]
      BY <2>0, <2>2 DEF Fail, TypeOK
    <3> HIDE DEF q
    <3> QED BY <2>0, <2>2, <3>1, <3>2 DEF Fail, TypeOK
  <2> QED BY <2>1, <2>2
<1>2. /\ req'[c].doc = req[c].doc /\ req'[c].base = req[c].base
      /\ req'[c].from = req[c].from /\ req[c].doc \in Docs
      /\ Conflict(c) => req'[c].pc = "conflict" /\ req[c].base # req[c].count
                         /\ req[c].pc = "counted" /\ req'[c].count = req[c].count
      /\ Fail(c) => req'[c].pc = "failed" /\ req[c].pc # "none"
  BY DEF Conflict, Fail, IInv, TypeOK, Request
<1>3. ClientOK(c, req'[c], editor'[c], row, versions, rowLock')
  <2>1. editor' = editor
    BY DEF Conflict, Fail
  <2>2. Conflict(c) => req'[c].base < req'[c].count
    <3>1. ClientOK(c, req[c], editor[c], row, versions, rowLock) /\ req[c] \in Request
      BY OneClient
    <3>2. Conflict(c) => req[c].base <= req[c].count
      BY <1>2, <3>1 DEF ClientOK, InSave, Fits
    <3> QED BY <1>2, <3>1, <3>2 DEF Request
  <2>3. req'[c].pc \in {"conflict", "failed"} /\ req[c].pc # "none"
    BY <1>2 DEF Conflict, Fail
  <2> QED BY <1>2, <2>1, <2>2, <2>3, OneClient DEF ClientOK, InSave
<1>4. /\ \A d \in Docs : rowLock'[d] # rowLock[d] => rowLock[d] = c
      /\ \A d \in Docs : rowLock'[d] # Nobody => rowLock'[d] = rowLock[d] /\ rowLock[d] # c
  <2>1. \A d \in Docs : rowLock[d] = c => InSave(req[c]) /\ req[c].doc = d
    BY OneClient
  <2>2. CASE Conflict(c)
    BY <2>1, <2>2, OneClient, ClientsAssumption DEF Conflict, IInv, TypeOK, ClientOK, InSave
  <2>3. CASE Fail(c)
    BY <2>3 DEF Fail
  <2> QED BY <2>2, <2>3
<1>5. UNCHANGED <<row, versions, live, released, reader>>
      /\ \A x \in Clients \ {c} : req'[x] = req[x] /\ editor'[x] = editor[x]
  BY DEF Conflict, Fail, IInv, TypeOK
<1> QED BY <1>1, <1>3, <1>4, <1>5, ClientMoves

LEMMA RequestStep ==
    ASSUME IInv, NEW c \in Clients, NotFound(c) \/ CountVersions(c) PROVE IInv'
<1>1. req' \in [Clients -> Request] /\ editor' \in [Clients -> Editor]
  <2>0. TypeOK
    BY DEF IInv
  <2>1. CASE NotFound(c)
    BY <2>0, <2>1 DEF NotFound, TypeOK, Request
  <2>2. CASE CountVersions(c)
    <3>1. Len(versions[req[c].doc]) \in Nat
      BY <2>0, HeadOfDoc DEF TypeOK, Request
    <3> DEFINE n == Len(versions[req[c].doc])
    <3> HIDE DEF n
    <3>2. req' = [req EXCEPT ![c].pc = "counted", ![c].count = n] /\ n \in Nat
      BY <2>2, <3>1 DEF CountVersions, n
    <3> DEFINE q == [req[c] EXCEPT !.pc = "counted", !.count = n]
    <3>3. req[c] \in Request
      BY <2>0 DEF TypeOK
    <3>4. q \in Request
      BY <3>2, <3>3, Zenon DEF Request
    <3>5. \A x \in Clients : req'[x] = IF x = c THEN q ELSE req[x]
      BY <2>0, <3>2 DEF TypeOK
    <3>6. req' = [x \in Clients |-> IF x = c THEN q ELSE req[x]]
      BY <2>0, <3>2, <3>5 DEF TypeOK
    <3> HIDE DEF q
    <3> QED BY <2>0, <2>2, <3>4, <3>6 DEF CountVersions, TypeOK
  <2> QED BY <2>1, <2>2
<1>2. /\ req'[c].doc = req[c].doc /\ req'[c].base = req[c].base
      /\ req'[c].from = req[c].from /\ req[c].doc \in Docs
      /\ NotFound(c) => req'[c].pc = "failed" /\ req[c].pc = "sent"
      /\ CountVersions(c) => req'[c].pc = "counted" /\ req[c].pc = "locked"
                              /\ req'[c].count = Len(versions[req[c].doc])
  BY DEF NotFound, CountVersions, IInv, TypeOK, Request
<1>3. ClientOK(c, req'[c], editor'[c], row, versions, rowLock)
  <2>1. editor' = editor
    BY DEF NotFound, CountVersions
  <2> QED BY <1>2, <2>1, OneClient DEF ClientOK, InSave
<1>4. UNCHANGED <<row, versions, live, released, reader, rowLock>>
      /\ \A x \in Clients \ {c} : req'[x] = req[x] /\ editor'[x] = editor[x]
  BY DEF NotFound, CountVersions, IInv, TypeOK
<1> QED BY <1>1, <1>2, <1>3, <1>4, ClientMovesOn DEF InSave

\* The editor opens or closes.
LEMMA DoorStep ==
    ASSUME IInv, NEW c \in Clients, Close(c) \/ \E d \in Docs : OpenDocument(c, d)
    PROVE  IInv'
<1>1. PICK d \in Docs :
        /\ editor[c].pc \in {"editing", "closed"}
        /\ \/ editor' = [editor EXCEPT ![c] = Closed]
           \/ editor' = [editor EXCEPT ![c] = [Closed EXCEPT !.pc = "opening", !.doc = d]]
        /\ UNCHANGED <<row, versions, rowLock, req, live, released, reader>>
  <2>1. CASE Close(c)
    BY <2>1, DocsAssumption DEF Close
  <2>2. CASE \E d \in Docs : OpenDocument(c, d)
    BY <2>2 DEF OpenDocument
  <2> QED BY <2>1, <2>2
<1>2. TypeOK
  BY DEF IInv
<1>3. /\ editor'[c] \in Editor /\ editor'[c].pc \in {"closed", "opening"}
      /\ editor'[c].base = 0 /\ editor'[c].from = 0
  <2>1. CASE editor' = [editor EXCEPT ![c] = Closed]
    BY <1>2, <2>1, EmptyRequest DEF TypeOK, Closed
  <2>2. CASE editor' = [editor EXCEPT ![c] = [Closed EXCEPT !.pc = "opening", !.doc = d]]
    <3> DEFINE e == [Closed EXCEPT !.pc = "opening", !.doc = d]
    <3>1. e \in Editor
      BY EmptyRequest, Zenon DEF Editor
    <3>2. e.pc = "opening" /\ e.base = 0 /\ e.from = 0
      BY DEF Closed
    <3>3. editor'[c] = e
      BY <1>2, <2>2 DEF TypeOK
    <3> HIDE DEF e
    <3> QED BY <3>1, <3>2, <3>3
  <2> QED BY <1>1, <2>1, <2>2
<1>4. editor' \in [Clients -> Editor]
      /\ \A x \in Clients \ {c} : req'[x] = req[x] /\ editor'[x] = editor[x]
  <2> DEFINE e == editor'[c]
  <2>1. editor' = [editor EXCEPT ![c] = e]
    BY <1>1, <1>2 DEF TypeOK
  <2>2. e \in Editor
    BY <1>3
  <2> HIDE DEF e
  <2> QED BY <1>1, <1>2, <2>1, <2>2 DEF TypeOK
<1>5. ClientOK(c, req'[c], editor'[c], row, versions, rowLock)
  <2>1. Fits(row[editor'[c].doc], versions[editor'[c].doc], c, editor'[c].base, editor'[c].from)
    <3>1. Len(versions[editor'[c].doc]) \in Nat
      BY <1>3, HeadOfDoc DEF Editor
    <3> QED BY <1>3, <3>1 DEF Fits
  <2>2. req'[c] = req[c] /\ req[c].pc = "none"
    BY <1>1, OneClient DEF ClientOK
  <2>3. ClientOK(c, req[c], editor[c], row, versions, rowLock)
    BY OneClient
  <2> QED BY <1>3, <2>1, <2>2, <2>3 DEF ClientOK, InSave
<1> QED BY <1>1, <1>2, <1>4, <1>5, ClientMovesOn DEF TypeOK

\* The editor takes over a head, or none: its text stays fit for the base.
LEMMA HeadStep ==
    ASSUME IInv, NEW c \in Clients, ShowHead(c) \/ Resync(c) \/ ResyncFails(c)
    PROVE  IInv'
<1> DEFINE e == editor[c]
           n == Len(versions[e.doc])
<1>1. TypeOK /\ e \in Editor /\ e.doc \in Docs
  BY DEF IInv, TypeOK, Editor
<1>2. HeadVersion(e.doc) = n /\ n \in Nat
  BY <1>1, HeadOfDoc
<1>3. ClientOK(c, req[c], e, row, versions, rowLock)
  BY OneClient
<1>4. /\ editor' \in [Clients -> Editor]
      /\ \A x \in Clients \ {c} : editor'[x] = editor[x]
      /\ e.pc \in {"opening", "resync"} /\ editor'[c].pc = "editing" /\ editor'[c].doc = e.doc
      /\ Fits(row[e.doc], versions[e.doc], c, editor'[c].base, editor'[c].from)
  <2>1. CASE ShowHead(c)
    <3> DEFINE f == [e EXCEPT !.pc = "editing", !.base = n, !.from = n]
    <3>1. f \in Editor
      BY <1>1, <1>2, Zenon DEF Editor
    <3>2. f.pc = "editing" /\ f.doc = e.doc /\ f.base = n /\ f.from = n
      BY <1>1 DEF Editor
    <3>3. editor' = [editor EXCEPT ![c] = f]
      BY <1>1, <1>2, <2>1 DEF ShowHead, TypeOK
    <3>4. e.pc = "opening"
      BY <2>1 DEF ShowHead
    <3> HIDE DEF f
    <3> QED BY <1>1, <1>2, <3>1, <3>2, <3>3, <3>4 DEF TypeOK, Fits
  <2>2. ASSUME NEW b \in Nat, e.pc = "resync", b = 0 \/ b = e.base \/ (row[e.doc] = "there" /\ b = n),
               editor' = [editor EXCEPT ![c].pc = "editing", ![c].base = b]
        PROVE  <1>4!1 /\ <1>4!2 /\ <1>4!3 /\ <1>4!4
    <3> DEFINE f == [e EXCEPT !.pc = "editing", !.base = b]
    <3>1. f \in Editor
      BY <1>1, <2>2, Zenon DEF Editor
    <3>2. f.pc = "editing" /\ f.doc = e.doc /\ f.base = b /\ f.from = e.from
      BY <1>1 DEF Editor
    <3>3. editor' = [editor EXCEPT ![c] = f]
      BY <1>1, <2>2 DEF TypeOK
    <3>4. Fits(row[e.doc], versions[e.doc], c, b, e.from)
      <4>1. row[e.doc] = "gone" \/ Wrote(versions[e.doc], c, e.from)
        BY <1>3, <2>2 DEF ClientOK
      <4>2. row[e.doc] = "gone" \/ b <= n
        BY <1>2, <1>3, <2>2 DEF ClientOK, Fits
      <4> QED BY <4>1, <4>2 DEF Fits
    <3> HIDE DEF f, e
    <3> QED BY <1>1, <2>2, <3>1, <3>2, <3>3, <3>4 DEF TypeOK
  <2>3. CASE Resync(c)
    <3>1. /\ e.pc = "resync" /\ row[e.doc] = "there"
          /\ editor' = [editor EXCEPT ![c].pc = "editing", ![c].base = n]
      BY <1>2, <2>3 DEF Resync
    <3> HIDE DEF e
    <3> QED BY <1>2, <2>2, <3>1
  <2>4. CASE ResyncFails(c)
    <3>1. PICK b \in {0, e.base} : editor' = [editor EXCEPT ![c].pc = "editing", ![c].base = b]
      BY <2>4 DEF ResyncFails
    <3>2. e.pc = "resync" /\ e.base \in Nat
      BY <1>1, <2>4 DEF ResyncFails, Editor
    <3> HIDE DEF e
    <3> QED BY <2>2, <3>1, <3>2
  <2> QED BY <2>1, <2>3, <2>4
<1>5. UNCHANGED <<row, versions, rowLock, req, live, released, reader>>
  BY DEF ShowHead, Resync, ResyncFails
<1>6. ClientOK(c, req'[c], editor'[c], row, versions, rowLock)
  BY <1>3, <1>4, <1>5 DEF ClientOK
<1> QED BY <1>1, <1>4, <1>5, <1>6, ClientMovesOn DEF TypeOK

\* A save is sent, or its answer is taken.
LEMMA SaveStep ==
    ASSUME IInv, NEW c \in Clients, Save(c) \/ Saved(c) \/ SaveRefused(c)
    PROVE  IInv'
<1> DEFINE e == editor[c]
           q == req[c]
<1>1. TypeOK /\ e \in Editor /\ q \in Request
  BY DEF IInv, TypeOK
<1>2. ClientOK(c, q, e, row, versions, rowLock)
  BY OneClient
<1>3. UNCHANGED <<row, versions, rowLock, live, released, reader>>
  BY DEF Save, Send, Saved, SaveRefused
<1>4. \A d \in Docs : Fits(row[d], versions[d], c, 0, 0)
  BY HeadOfDoc DEF Fits
<1>5. /\ NoRequest \in Request /\ NoRequest.base = 0 /\ NoRequest.from = 0
      /\ NoRequest.pc = "none" /\ NoRequest.doc \in Docs
  BY EmptyRequest DEF NoRequest
<1>6. CASE Save(c)
  <2> DEFINE s == [pc |-> "sent", doc |-> e.doc, base |-> e.base, from |-> e.from, count |-> 0]
  <2>1. s \in Request
    BY <1>1 DEF Editor, Request
  <2>2. req' = [req EXCEPT ![c] = s] /\ q.pc = "none" /\ e.pc = "editing"
        /\ editor' = [editor EXCEPT ![c].pc = "saving"] /\ e.base < MaxVer
    BY <1>6 DEF Save, Send
  <2>3. editor' \in [Clients -> Editor] /\ req' \in [Clients -> Request]
    <3> HIDE DEF s
    <3> QED BY <1>1, <2>1, <2>2 DEF TypeOK, Editor
  <2>4. /\ editor'[c].pc = "saving" /\ editor'[c].doc = e.doc /\ editor'[c].base = e.base
        /\ editor'[c].from = e.from /\ req'[c] = s
    <3> HIDE DEF s
    <3> QED BY <1>1, <2>2 DEF TypeOK, Editor
  <2>5. ClientOK(c, req'[c], editor'[c], row, versions, rowLock)
    BY <1>2, <2>2, <2>4 DEF ClientOK, InSave
  <2>6. \A x \in Clients \ {c} : req'[x] = req[x] /\ editor'[x] = editor[x]
    BY <1>1, <2>2 DEF TypeOK
  <2>7. ~InSave(q)
    BY <2>2 DEF InSave
  <2> QED BY <1>3, <2>3, <2>5, <2>6, <2>7, ClientMovesOn
<1>7. CASE SaveRefused(c)
  <2>1. /\ req' = [req EXCEPT ![c] = NoRequest] /\ e.pc = "saving"
        /\ q.pc \in {"conflict", "failed"}
        /\ editor' = [editor EXCEPT ![c].pc = "editing"]
    BY <1>7 DEF SaveRefused
  <2>2. editor' \in [Clients -> Editor] /\ req' \in [Clients -> Request]
    BY <1>1, <1>5, <2>1 DEF TypeOK, Editor
  <2>3. /\ editor'[c].pc = "editing" /\ editor'[c].doc = e.doc /\ editor'[c].base = e.base
        /\ editor'[c].from = e.from /\ req'[c] = NoRequest
    BY <1>1, <2>1 DEF TypeOK, Editor
  <2>4. ClientOK(c, req'[c], editor'[c], row, versions, rowLock)
    BY <1>2, <1>4, <1>5, <2>3 DEF ClientOK, InSave
  <2>5. \A x \in Clients \ {c} : req'[x] = req[x] /\ editor'[x] = editor[x]
    BY <1>1, <2>1 DEF TypeOK
  <2>6. ~InSave(q)
    BY <2>1 DEF InSave
  <2> QED BY <1>3, <2>2, <2>4, <2>5, <2>6, ClientMovesOn
<1>8. CASE Saved(c)
  <2> DEFINE n == q.count + 1
             f == [e EXCEPT !.pc = "resync", !.from = n]
  <2>1. /\ req' = [req EXCEPT ![c] = NoRequest] /\ e.pc = "saving" /\ q.pc = "saved"
        /\ editor' = [editor EXCEPT ![c] = f]
    BY <1>1, <1>8 DEF Saved, TypeOK
  <2>2. n \in Nat
    BY <1>1 DEF Request
  <2>3. f \in Editor
    <3> HIDE DEF n
    <3> QED BY <1>1, <2>2, Zenon DEF Editor
  <2>4. f.pc = "resync" /\ f.doc = e.doc /\ f.base = e.base /\ f.from = n
    BY <1>1 DEF Editor
  <2>5. /\ editor' \in [Clients -> Editor] /\ req' \in [Clients -> Request]
        /\ editor'[c] = f /\ req'[c] = NoRequest
    <3> HIDE DEF f
    <3> QED BY <1>1, <1>5, <2>1, <2>3 DEF TypeOK
  <2>6. row[e.doc] = "gone" \/ Wrote(versions[e.doc], c, n)
    BY <1>2, <2>1 DEF ClientOK
  <2>7. Fits(row[e.doc], versions[e.doc], c, e.base, n)
    BY <1>2, <2>6 DEF ClientOK, Fits
  <2>8. ClientOK(c, NoRequest, f, row, versions, rowLock)
    <3> HIDE DEF f, n
    <3> QED BY <1>4, <1>5, <2>4, <2>6, <2>7 DEF ClientOK, InSave
  <2>9. \A x \in Clients \ {c} : req'[x] = req[x] /\ editor'[x] = editor[x]
    <3> HIDE DEF f
    <3> QED BY <1>1, <2>1 DEF TypeOK
  <2>10. ~InSave(q)
    BY <2>1 DEF InSave
  <2> HIDE DEF f
  <2> QED BY <1>3, <2>5, <2>8, <2>9, <2>10, ClientMovesOn
<1> QED BY <1>6, <1>7, <1>8

-----------------------------------------------------------------------------
(* Steps that change the tables.                                           *)

\* A version is appended to the history the save has counted.
LEMMA InsertType ==
    ASSUME IInv, NEW c \in Clients, InsertVersion(c)
    PROVE  /\ req[c].doc \in Docs /\ row[req[c].doc] = "there" /\ rowLock[req[c].doc] = c
           /\ req[c].base = Len(versions[req[c].doc])
           /\ LET v == [num |-> req[c].base + 1, author |-> c, base |-> req[c].base,
                        from |-> req[c].from]
              IN  v \in Version /\ versions' = [versions EXCEPT ![req[c].doc] = Append(@, v)]
<1>1. TypeOK /\ req[c] \in Request /\ ClientOK(c, req[c], editor[c], row, versions, rowLock)
  BY OneClient DEF IInv
<1>2. req[c].pc = "counted" /\ req[c].base = req[c].count
  BY DEF InsertVersion
<1>3. /\ req[c].doc \in Docs /\ row[req[c].doc] = "there" /\ rowLock[req[c].doc] = c
      /\ req[c].base = Len(versions[req[c].doc]) /\ req[c].base < MaxVer
  BY <1>1, <1>2 DEF ClientOK, InSave, Request
<1>4. req[c].base + 1 \in 1..MaxVer
  BY <1>1, <1>3, MaxAssumption DEF Request
<1>5. [num |-> req[c].base + 1, author |-> c, base |-> req[c].base, from |-> req[c].from] \in Version
  BY <1>1, <1>4 DEF Request, Version
<1> QED BY <1>2, <1>3, <1>5 DEF InsertVersion

\* What fits a history still fits it when a version is appended.
LEMMA FitsLonger ==
    ASSUME NEW vs \in Seq(Version), NEW v \in Version, NEW rw, NEW c, NEW b \in Nat, NEW f
    PROVE  /\ Fits(rw, vs, c, b, f) => Fits(rw, Append(vs, v), c, b, f)
           /\ Wrote(vs, c, f) => Wrote(Append(vs, v), c, f)
<1> HIDE DEF Version
<1>1. /\ Len(vs) \in Nat /\ Len(Append(vs, v)) = Len(vs) + 1
      /\ \A i \in 1..Len(vs) : Append(vs, v)[i] = vs[i]
  OBVIOUS
<1>2. Wrote(vs, c, f) => Wrote(Append(vs, v), c, f)
  BY <1>1 DEF Wrote
<1> QED BY <1>1, <1>2 DEF Fits

LEMMA InsertVersionStep ==
    ASSUME IInv, NEW c \in Clients, InsertVersion(c) PROVE IInv'
<1> DEFINE q == req[c]
           d == q.doc
           vs == versions[d]
           v == [num |-> q.base + 1, author |-> c, base |-> q.base, from |-> q.from]
           ws == Append(vs, v)
<1>1. TypeOK /\ q \in Request /\ q.pc = "counted" /\ q.base = q.count /\ d \in Docs
  BY InsertType DEF IInv, TypeOK, InsertVersion
<1>2. ClientOK(c, q, editor[c], row, versions, rowLock)
  BY OneClient
<1>3. row[d] = "there" /\ rowLock[d] = c /\ q.base = Len(vs) /\ v \in Version
  BY InsertType
<1>4. versions' = [versions EXCEPT ![d] = ws] /\ vs \in Seq(Version)
  BY <1>1, InsertType DEF TypeOK
<1>5. /\ v.num = Len(vs) + 1 /\ v.author = c /\ v.base = Len(vs) /\ v.from = q.from
      /\ q.from \in Nat
  BY <1>1, <1>3 DEF Request
<1> HIDE DEF v
<1>6. /\ Len(vs) \in Nat /\ Len(ws) = Len(vs) + 1 /\ ws \in Seq(Version)
      /\ \A i \in 1..Len(vs) : ws[i] = vs[i]
      /\ ws[Len(vs) + 1] = v
  <2> HIDE DEF vs
  <2>1. \A i \in 1..Len(vs) : i \in Nat
    OBVIOUS
  <2> QED BY <1>3, <1>4, <2>1
<1>7. /\ req' = [req EXCEPT ![c].pc = "saved"] /\ UNCHANGED <<row, editor, live, released>>
      /\ rowLock' = [rowLock EXCEPT ![d] = Nobody] /\ Witness
  BY DEF InsertVersion
<1>8. /\ req' \in [Clients -> Request] /\ req'[c].pc = "saved" /\ req'[c].doc = d
      /\ req'[c].base = q.base /\ req'[c].from = q.from /\ req'[c].count = q.count
      /\ \A x \in Clients \ {c} : req'[x] = req[x]
  BY <1>1, <1>7 DEF TypeOK, Request
<1>9. versions' \in [Docs -> Seq(Version)] /\ versions'[d] = ws
      /\ \A x \in Docs \ {d} : versions'[x] = versions[x]
  <2> HIDE DEF ws, d
  <2> QED BY <1>1, <1>4, <1>6 DEF TypeOK
<1>10. TypeOK'
  <2>1. rowLock' \in [Docs -> Clients \cup {Nobody}]
    BY <1>1, <1>7 DEF TypeOK
  <2>2. reader' \in [Readers -> Reader]
    BY <1>1, <1>7, WitnessType DEF TypeOK
  <2> QED BY <1>1, <1>7, <1>8, <1>9, <2>1, <2>2 DEF TypeOK
<1>11. LinearHistory'
  <2> SUFFICES ASSUME NEW x \in Docs, NEW i \in 1..Len(versions'[x])
               PROVE  versions'[x][i].num = i /\ versions'[x][i].base = i - 1
    BY DEF LinearHistory
  <2>1. CASE x # d
    BY <1>9, <2>1 DEF IInv, LinearHistory
  <2>2. CASE x = d /\ i \in 1..Len(vs)
    <3>1. vs[i].num = i /\ vs[i].base = i - 1
      BY <1>1, <2>2 DEF IInv, LinearHistory
    <3> HIDE DEF ws, vs, d
    <3> QED BY <1>6, <1>9, <2>2, <3>1
  <2>3. CASE x = d /\ i = Len(vs) + 1
    <3> HIDE DEF ws, vs, d
    <3> QED BY <1>5, <1>6, <1>9, <2>3
  <2>4. x = d => i \in 1..Len(vs) \/ i = Len(vs) + 1
    <3> HIDE DEF ws, vs, d
    <3> QED BY <1>6, <1>9
  <2> QED BY <2>1, <2>2, <2>3, <2>4
<1>12. NothingBeforeItExists'
  <2>1. \A x \in Docs : live[x] # 0 => live[x] <= Len(versions'[x])
    <3> SUFFICES ASSUME NEW x \in Docs, live[x] # 0
                 PROVE  live[x] <= Len(versions'[x])
      OBVIOUS
    <3>1. live[x] \in Nat /\ live[x] <= Len(versions[x])
      BY <1>1, MaxAssumption DEF TypeOK, IInv, NothingBeforeItExists
    <3> HIDE DEF ws, d
    <3> QED BY <1>6, <1>9, <3>1
  <2>2. \A x \in Docs : row[x] = "none" => versions'[x] = <<>>
    BY <1>3, <1>9 DEF IInv, NothingBeforeItExists
  <2> QED BY <1>7, <2>1, <2>2 DEF IInv, NothingBeforeItExists
<1>13. ASSUME NEW x \in Clients
       PROVE  ClientOK(x, req'[x], editor'[x], row', versions', rowLock')
  <2>1. ClientOK(x, req[x], editor[x], row, versions, rowLock) /\ req[x] \in Request
        /\ editor[x] \in Editor
    BY OneClient
  <2>2. /\ req'[x].doc = req[x].doc /\ req'[x].base = req[x].base /\ req'[x].from = req[x].from
        /\ req'[x].count = req[x].count
        /\ x # c => req'[x].pc = req[x].pc
        /\ req[x].doc \in Docs /\ editor[x].doc \in Docs /\ editor'[x] = editor[x]
        /\ req[x].base \in Nat /\ editor[x].base \in Nat
    BY <1>7, <1>8, <2>1 DEF Request, Editor
  <2>3. ASSUME NEW D \in Docs, NEW b \in Nat, NEW f
        PROVE  /\ Fits(row[D], versions[D], x, b, f) => Fits(row[D], versions'[D], x, b, f)
               /\ Wrote(versions[D], x, f) => Wrote(versions'[D], x, f)
    BY <1>3, <1>4, <1>9, FitsLonger
  <2>4. x # c /\ InSave(req[x]) => req[x].doc # d
    BY <1>3, <2>1 DEF ClientOK
  <2>5. x = c => Wrote(versions'[d], c, q.count + 1)
    <3>1. q.count + 1 = Len(vs) + 1
      BY <1>1, <1>3
    <3> HIDE DEF ws, vs, d
    <3> QED BY <1>5, <1>6, <1>9, <3>1 DEF Wrote
  <2>6. /\ Fits(row[req[x].doc], versions'[req[x].doc], x, req[x].base, req[x].from)
        /\ Fits(row[editor[x].doc], versions'[editor[x].doc], x, editor[x].base, editor[x].from)
        /\ req[x].pc = "saved" => row[req[x].doc] = "gone" \/ Wrote(versions'[req[x].doc], x, req[x].count + 1)
        /\ editor[x].pc = "resync" => row[editor[x].doc] = "gone" \/ Wrote(versions'[editor[x].doc], x, editor[x].from)
    BY <2>1, <2>2, <2>3 DEF ClientOK
  <2>7. row' = row
    BY <1>7
  <2>8. CASE x = c
    BY <1>1, <1>8, <2>1, <2>2, <2>5, <2>6, <2>7, <2>8 DEF ClientOK, InSave
  <2>9. CASE x # c
    <3>1. InSave(req[x]) => rowLock'[req[x].doc] = x /\ versions'[req[x].doc] = versions[req[x].doc]
      BY <1>1, <1>7, <1>9, <2>1, <2>2, <2>4, <2>9 DEF ClientOK, TypeOK
    <3>2. req'[x] = req[x]
      BY <1>8, <2>9
    <3> QED BY <2>1, <2>2, <2>6, <2>7, <3>1, <3>2 DEF ClientOK, InSave
  <2> QED BY <2>8, <2>9
<1>14. HeldBySave(rowLock', req')
  <2> SUFFICES ASSUME NEW x \in Docs, rowLock'[x] # Nobody
               PROVE  InSave(req'[rowLock'[x]]) /\ req'[rowLock'[x]].doc = x
    BY DEF HeldBySave
  <2>1. x # d /\ rowLock'[x] = rowLock[x] /\ rowLock[x] \in Clients
    BY <1>1, <1>7 DEF TypeOK
  <2>2. InSave(req[rowLock[x]]) /\ req[rowLock[x]].doc = x
    BY <2>1, Split DEF Inv, HeldBySave
  <2>3. rowLock[x] # c
    BY <2>1, <2>2
  <2> QED BY <1>8, <2>1, <2>2, <2>3
<1> QED BY <1>10, <1>11, <1>12, <1>13, <1>14, SplitNext DEF Inv

\* The base of a save is ahead of its text only where its author wrote that text.
LEMMA InsertHides ==
    ASSUME IInv, HidesOnlyAfterOwnSave, NEW c \in Clients, InsertVersion(c)
    PROVE  HidesOnlyAfterOwnSave'
<1> DEFINE q == req[c]
           d == q.doc
           vs == versions[d]
           v == [num |-> q.base + 1, author |-> c, base |-> q.base, from |-> q.from]
           ws == Append(vs, v)
<1>1. TypeOK /\ q \in Request /\ q.pc = "counted" /\ q.base = q.count /\ d \in Docs
  BY InsertType DEF IInv, TypeOK, InsertVersion
<1>2. ClientOK(c, q, editor[c], row, versions, rowLock)
  BY OneClient
<1>3. row[d] = "there" /\ rowLock[d] = c /\ q.base = Len(vs) /\ v \in Version
  BY InsertType
<1>4. versions' = [versions EXCEPT ![d] = ws] /\ vs \in Seq(Version)
  BY <1>1, InsertType DEF TypeOK
<1>5. /\ v.num = Len(vs) + 1 /\ v.author = c /\ v.base = Len(vs) /\ v.from = q.from
      /\ q.from \in Nat
  BY <1>1, <1>3 DEF Request
<1> HIDE DEF v
<1>6. /\ Len(vs) \in Nat /\ Len(ws) = Len(vs) + 1 /\ ws \in Seq(Version)
      /\ \A i \in 1..Len(vs) : ws[i] = vs[i]
      /\ ws[Len(vs) + 1] = v
  <2> HIDE DEF vs
  <2>1. \A i \in 1..Len(vs) : i \in Nat
    OBVIOUS
  <2> QED BY <1>3, <1>4, <2>1
<1>7. /\ req' = [req EXCEPT ![c].pc = "saved"] /\ UNCHANGED <<row, editor, live, released>>
      /\ rowLock' = [rowLock EXCEPT ![d] = Nobody] /\ Witness
  BY DEF InsertVersion
<1>8. /\ req' \in [Clients -> Request] /\ req'[c].pc = "saved" /\ req'[c].doc = d
      /\ req'[c].base = q.base /\ req'[c].from = q.from /\ req'[c].count = q.count
      /\ \A x \in Clients \ {c} : req'[x] = req[x]
  BY <1>1, <1>7 DEF TypeOK, Request
<1>9. versions' \in [Docs -> Seq(Version)] /\ versions'[d] = ws
      /\ \A x \in Docs \ {d} : versions'[x] = versions[x]
  <2> HIDE DEF ws, d
  <2> QED BY <1>1, <1>4, <1>6 DEF TypeOK
<1>10. HidesOnlyAfterOwnSave'
  <2> SUFFICES ASSUME NEW x \in Docs, NEW i \in 1..Len(versions'[x]),
                      versions'[x][i].from < versions'[x][i].base
               PROVE  versions'[x][i].from > 0
                      /\ versions'[x][versions'[x][i].from].author = versions'[x][i].author
    BY DEF HidesOnlyAfterOwnSave
  <2>1. CASE x # d
    BY <1>9, <2>1 DEF HidesOnlyAfterOwnSave
  <2>2. CASE x = d /\ i \in 1..Len(vs)
    <3> DEFINE f == vs[i].from
    <3>1. ws[i] = vs[i] /\ vs[i] \in Version /\ vs[i].base = i - 1
      BY <1>1, <1>4, <1>6, <2>2 DEF IInv, LinearHistory
    <3>2. f \in Nat /\ f < i - 1
      BY <1>9, <2>2, <3>1 DEF Version
    <3>3. f > 0 /\ vs[f].author = vs[i].author
      BY <1>1, <2>2, <3>1, <3>2 DEF HidesOnlyAfterOwnSave
    <3>4. ws[f] = vs[f]
      <4> HIDE DEF ws, vs, f
      <4> QED BY <1>6, <2>2, <3>2, <3>3
    <3> HIDE DEF ws, vs, d
    <3> QED BY <1>9, <2>2, <3>1, <3>3, <3>4
  <2>3. CASE x = d /\ i = Len(vs) + 1
    <3>1. v.from < v.base
      BY <1>6, <1>9, <2>3
    <3>2. Wrote(vs, c, q.from)
      BY <1>2, <1>3, <1>5, <3>1 DEF ClientOK, Fits
    <3>3. q.from \in 1..Len(vs) /\ vs[q.from].author = c
      BY <3>2 DEF Wrote
    <3> HIDE DEF ws, vs, d
    <3> QED BY <1>5, <1>6, <1>9, <2>3, <3>3
  <2>4. x = d => i \in 1..Len(vs) \/ i = Len(vs) + 1
    <3> HIDE DEF ws, vs, d
    <3> QED BY <1>6, <1>9
  <2> QED BY <2>1, <2>2, <2>3, <2>4
<1> QED BY <1>10

\* A document comes into being, is deleted, published or taken down.
LEMMA TableStep ==
    ASSUME IInv, NEW d \in Docs, Surroundings(d) PROVE IInv'
<1>1. TypeOK
  BY DEF IInv
<1>2. UNCHANGED <<rowLock, req, editor>>
  BY DEF Surroundings, CreateDocument, DeleteDocument, Unpublish, Publish
<1>3. /\ row' \in [Docs -> {"none", "there", "gone"}]
      /\ versions' \in [Docs -> Seq(Version)]
      /\ \A x \in Docs \ {d} : row'[x] = row[x] /\ versions'[x] = versions[x]
      /\ \/ row'[d] = row[d] /\ versions'[d] = versions[d]
         \/ row[d] = "none" /\ row'[d] = "there" /\ versions'[d] = versions[d]
         \/ row[d] = "there" /\ row'[d] = "gone" /\ versions'[d] = <<>> /\ rowLock[d] = Nobody
            /\ d \notin released /\ live' = live /\ released' = released
  <2>1. CASE CreateDocument(d)
    BY <1>1, <2>1 DEF CreateDocument, TypeOK
  <2>2. CASE DeleteDocument(d)
    <3> HIDE DEF Version
    <3>1. <<>> \in Seq(Version)
      OBVIOUS
    <3> QED BY <1>1, <2>2, <3>1 DEF DeleteDocument, TypeOK
  <2>3. CASE Unpublish(d) \/ \E n \in 1..MaxVer : Publish(d, n)
    BY <1>1, <2>3 DEF Unpublish, Publish, TypeOK
  <2> QED BY <2>1, <2>2, <2>3 DEF Surroundings
<1>4. reader' \in [Readers -> Reader]
  BY <1>1, WitnessType DEF Surroundings, CreateDocument, DeleteDocument, Unpublish, Publish, TypeOK
<1>5. /\ live' \in [Docs -> 0..MaxVer] /\ released' \in SUBSET Docs
      /\ \A x \in Docs : live'[x] # 0 => x \in released' /\ live'[x] <= Len(versions'[x])
  <2>1. CASE CreateDocument(d)
    BY <1>1, <2>1 DEF CreateDocument, TypeOK, IInv, NothingBeforeItExists
  <2>2. CASE DeleteDocument(d)
    BY <1>1, <1>3, <2>2 DEF DeleteDocument, TypeOK, IInv, NothingBeforeItExists
  <2>3. CASE Unpublish(d)
    BY <1>1, <2>3, MaxAssumption DEF Unpublish, TypeOK, IInv, NothingBeforeItExists
  <2>4. ASSUME NEW n \in 1..MaxVer, Publish(d, n)
        PROVE  <1>5!1 /\ <1>5!2
    <3>1. n \in Nat /\ n <= Len(versions[d]) /\ n # 0
      <4>1. PICK i \in 1..Len(versions[d]) : versions[d][i].num = n
        BY <2>4 DEF Publish
      <4>2. n = i /\ Len(versions[d]) \in Nat
        BY <1>1, <4>1, HeadOfDoc DEF IInv, LinearHistory
      <4> QED BY <4>1, <4>2
    <3>2. /\ live' = [live EXCEPT ![d] = n] /\ released' = released \cup {d}
          /\ UNCHANGED <<row, versions>>
      BY <2>4 DEF Publish
    <3>3. n \in 0..MaxVer
      BY MaxAssumption
    <3> QED BY <1>1, <3>1, <3>2, <3>3, MaxAssumption DEF TypeOK, IInv, NothingBeforeItExists
  <2> QED BY <2>1, <2>2, <2>3, <2>4 DEF Surroundings
<1>6. TypeOK'
  BY <1>1, <1>2, <1>3, <1>4, <1>5 DEF TypeOK
<1>7. LinearHistory'
  <2>1. \A x \in Docs : versions'[x] = versions[x] \/ 1..Len(versions'[x]) = {}
    BY <1>3
  <2> QED BY <2>1 DEF IInv, LinearHistory
<1>8. NothingBeforeItExists'
  BY <1>3, <1>5 DEF IInv, NothingBeforeItExists
<1>9. HeldBySave(rowLock', req')
  BY <1>2, Split DEF Inv
<1>10. ASSUME NEW c \in Clients
       PROVE  ClientOK(c, req'[c], editor'[c], row', versions', rowLock')
  <2>1. ClientOK(c, req[c], editor[c], row, versions, rowLock) /\ req[c] \in Request
        /\ editor[c] \in Editor
    BY OneClient
  <2>2. req[c].doc \in Docs /\ editor[c].doc \in Docs
    BY <2>1 DEF Request, Editor
  <2>3. ASSUME NEW D \in Docs
        PROVE  row'[D] = "gone" \/ (versions'[D] = versions[D] /\ row[D] # "gone")
               \/ (versions'[D] = versions[D] /\ row'[D] = row[D])
    BY <1>3
  <2>4. InSave(req[c]) => /\ row'[req[c].doc] = "there"
                          /\ versions'[req[c].doc] = versions[req[c].doc]
    <3>1. InSave(req[c]) => rowLock[req[c].doc] = c /\ row[req[c].doc] = "there"
      BY <2>1 DEF ClientOK
    <3> QED BY <1>3, <2>2, <3>1, ClientsAssumption
  <2>5. /\ Fits(row'[req[c].doc], versions'[req[c].doc], c, req[c].base, req[c].from)
        /\ Fits(row'[editor[c].doc], versions'[editor[c].doc], c, editor[c].base, editor[c].from)
    BY <2>1, <2>2, <2>3 DEF ClientOK, Fits
  <2>6. req[c].pc = "counted" => InSave(req[c])
    BY DEF InSave
  <2> QED BY <1>2, <2>1, <2>2, <2>3, <2>4, <2>5, <2>6 DEF ClientOK
<1> QED BY <1>6, <1>7, <1>8, <1>9, <1>10, SplitNext DEF Inv

\* Status requests write nothing.
LEMMA ReaderStep ==
    ASSUME IInv, NEW r \in Readers, ReadStatus(r) PROVE IInv'
<1>1. UNCHANGED <<row, versions, rowLock, req, editor, live, released>> /\ TypeOK
  BY DEF ReadStatus, ReadEntry, ReadHead, Answered, IInv
<1>2. Resting \in Reader
  <2>1. AnyDoc \in Docs
    BY EmptyRequest
  <2>2. FALSE \in BOOLEAN /\ {} \in SUBSET StatusNames /\ "draft" \in StatusNames /\ 0 \in Nat
    BY DEF StatusNames
  <2> QED BY <2>1, <2>2, Zenon DEF Resting, Reader
<1>3. reader' \in [Readers -> Reader]
  <2>1. ASSUME NEW d \in Docs, ReadEntry(r, d)
        PROVE  reader' \in [Readers -> Reader]
    <3> DEFINE t == {StatusOf(live[d], HeadVersion(d))}
               R == [Resting EXCEPT !.pc = "entry", !.doc = d, !.entry = live[d], !.truths = t]
    <3>1. t \in SUBSET StatusNames
      BY StatusHasName
    <3>2. live[d] \in Nat
      BY <1>1, MaxAssumption DEF TypeOK
    <3>3. R \in Reader
      <4> HIDE DEF t
      <4> QED BY <1>2, <3>1, <3>2, Zenon DEF Reader
    <3>4. reader' = [reader EXCEPT ![r] = R]
      BY <2>1 DEF ReadEntry
    <3> HIDE DEF R
    <3> QED BY <1>1, <3>3, <3>4 DEF TypeOK
  <2>2. CASE ReadHead(r)
    <3> DEFINE a == StatusOf(reader[r].entry, HeadVersion(reader[r].doc))
               t == reader[r].truths \cap {a}
               R == [reader[r] EXCEPT !.pc = "done", !.entry = 0, !.result = a, !.truths = t]
    <3>1. a \in StatusNames
      BY StatusHasName
    <3>2. R \in Reader
      <4>1. reader[r] \in Reader /\ 0 \in Nat
        BY <1>1 DEF TypeOK
      <4>2. t \in SUBSET StatusNames
        <5> HIDE DEF a
        <5> QED BY <3>1
      <4> HIDE DEF a, t
      <4> QED BY <3>1, <4>1, <4>2, Zenon DEF Reader
    <3>3. reader' = [reader EXCEPT ![r] = R]
      BY <1>1, <2>2 DEF ReadHead, TypeOK
    <3> HIDE DEF R
    <3> QED BY <1>1, <3>2, <3>3 DEF TypeOK
  <2>3. CASE Answered(r)
    BY <1>1, <1>2, <2>3 DEF Answered, TypeOK
  <2> QED BY <2>1, <2>2, <2>3 DEF ReadStatus
<1>4. TypeOK' /\ LinearHistory' /\ NothingBeforeItExists'
  BY <1>1, <1>3 DEF IInv, TypeOK, LinearHistory, NothingBeforeItExists
<1> QED BY <1>1, <1>4, Split, SplitNext

LEMMA InitInv == Init => IInv
<1> SUFFICES ASSUME Init PROVE IInv
  OBVIOUS
<1>1. TypeOK
  <2>1. reader \in [Readers -> Reader]
    <3>1. AnyDoc \in Docs /\ FALSE \in BOOLEAN /\ {} \in SUBSET StatusNames
          /\ "draft" \in StatusNames /\ 0 \in Nat
      BY EmptyRequest DEF StatusNames
    <3>2. Resting \in Reader
      BY <3>1, Zenon DEF Resting, Reader
    <3> QED BY <3>2 DEF Init
  <2>2. <<>> \in Seq(Version)
    <3> HIDE DEF Version
    <3> QED OBVIOUS
  <2> QED BY <2>1, <2>2, EmptyRequest, MaxAssumption DEF Init, TypeOK
<1>2. /\ \A d \in Docs : row[d] = "none" /\ versions[d] = <<>> /\ rowLock[d] = Nobody /\ live[d] = 0
      /\ \A c \in Clients : req[c] = NoRequest /\ editor[c] = Closed
  BY DEF Init
<1>3. \A c \in Clients : ClientOK(c, req[c], editor[c], row, versions, rowLock)
  <2>1. /\ NoRequest.pc = "none" /\ NoRequest.base = 0 /\ NoRequest.from = 0 /\ NoRequest.doc = AnyDoc
        /\ Closed.pc = "closed" /\ Closed.base = 0 /\ Closed.from = 0 /\ Closed.doc = AnyDoc
    BY DEF NoRequest, Closed
  <2> QED BY <1>2, <2>1, EmptyRequest DEF ClientOK, InSave, Fits
<1>4. LinearHistory /\ NothingBeforeItExists /\ HeldBySave(rowLock, req)
  BY <1>2 DEF LinearHistory, NothingBeforeItExists, HeldBySave
<1> QED BY <1>1, <1>3, <1>4, Split DEF Inv

LEMMA NextKeepsInv == IInv /\ [Next]_vars => IInv'
<1> SUFFICES ASSUME IInv, [Next]_vars PROVE IInv'
  OBVIOUS
<1>1. ASSUME NEW c \in Clients, Serve(c) \/ Fail(c) PROVE IInv'
  BY <1>1, LockDocumentStep, RequestStep, ReleaseStep, InsertVersionStep DEF Serve
<1>2. ASSUME NEW e \in Clients, Edit(e) PROVE IInv'
  BY <1>2, DoorStep, HeadStep, SaveStep DEF Edit
<1>3. CASE UNCHANGED vars
  BY <1>3, Split, SplitNext
     DEF vars, IInv, TypeOK, LinearHistory, NothingBeforeItExists
<1> QED BY <1>1, <1>2, <1>3, TableStep, ReaderStep DEF Next

\* For every number of documents, editors and readers: each history is a line of
\* versions, each saved onto the one before by an author who named it, and what
\* clients, locks and releases hold agrees with it (versions.go:45-119).
THEOREM VersionsInvariance == Spec => []IInv
<1> QED BY InitInv, NextKeepsInv, PTL DEF Spec

\* A save never replaces unseen what another author wrote, except right after the
\* editor's own save, when refresh() took over a later head (editor.vue:48-68).
THEOREM HidingInvariance == Spec => []HidesOnlyAfterOwnSave
<1>1. Init => HidesOnlyAfterOwnSave
  BY DEF Init, HidesOnlyAfterOwnSave
<1>2. IInv /\ HidesOnlyAfterOwnSave /\ [Next]_vars => HidesOnlyAfterOwnSave'
  <2> SUFFICES ASSUME IInv, HidesOnlyAfterOwnSave, [Next]_vars
               PROVE  HidesOnlyAfterOwnSave'
    OBVIOUS
  <2>1. ASSUME UNCHANGED versions PROVE HidesOnlyAfterOwnSave'
    BY <2>1 DEF HidesOnlyAfterOwnSave
  <2>2. ASSUME NEW c \in Clients, Serve(c) \/ Fail(c) PROVE HidesOnlyAfterOwnSave'
    BY <2>1, <2>2, InsertHides DEF Serve, Fail, LockDocument, NotFound, CountVersions, Conflict
  <2>3. ASSUME NEW e \in Clients, Edit(e) PROVE HidesOnlyAfterOwnSave'
    BY <2>1, <2>3 DEF Edit, OpenDocument, ShowHead, Save, Send, Saved, Resync, ResyncFails,
                      SaveRefused, Close
  <2>4. ASSUME NEW d \in Docs, Surroundings(d) PROVE HidesOnlyAfterOwnSave'
    <3>1. CASE DeleteDocument(d)
      <4>1. \A x \in Docs : versions'[x] = versions[x] \/ 1..Len(versions'[x]) = {}
        BY <3>1 DEF DeleteDocument, IInv, TypeOK
      <4> QED BY <4>1 DEF HidesOnlyAfterOwnSave
    <3>2. CASE ~DeleteDocument(d)
      BY <2>1, <2>4, <3>2 DEF Surroundings, CreateDocument, Publish, Unpublish
    <3> QED BY <3>1, <3>2
  <2>5. ASSUME NEW r \in Readers, ReadStatus(r) PROVE HidesOnlyAfterOwnSave'
    BY <2>1, <2>5 DEF ReadStatus, ReadEntry, ReadHead, Answered
  <2>6. CASE UNCHANGED vars
    BY <2>1, <2>6 DEF vars
  <2> QED BY <2>2, <2>3, <2>4, <2>5, <2>6 DEF Next
<1> QED BY <1>1, <1>2, VersionsInvariance, PTL DEF Spec

-----------------------------------------------------------------------------
(* The status of a document.                                               *)

\* What one request reads agrees with what has been true.
ReadOK(R, vss, lv) ==
    R.pc = "entry" =>
        \/ R.dropped
        \/ /\ StatusOf(R.entry, HeadOf(vss[R.doc])) \in R.truths
           /\ R.entry # 0 => lv[R.doc] # 0 /\ R.entry <= Len(vss[R.doc])

\* A change of the tables that a waiting request witnesses: the document keeps its
\* versions, gains one, or loses all of them while nothing of it is live.
LEMMA WitnessKeeps ==
    ASSUME IInv, IInv', ReadsAgree, StatusWasTrue, Witness, NEW d \in Docs,
           \A x \in Docs \ {d} : versions'[x] = versions[x] /\ live'[x] = live[x],
           \/ versions'[d] = versions[d]
           \/ Len(versions'[d]) = Len(versions[d]) + 1 /\ live'[d] = live[d]
           \/ live[d] = 0
    PROVE  ReadsAgree' /\ StatusWasTrue'
<1>1. ASSUME NEW r \in Readers PROVE ReadOK(reader'[r], versions', live')
  <2> DEFINE R == reader[r]
             x == R.doc
             now == StatusOf(live'[x], HeadOf(versions'[x]))
             gone == R.dropped \/ (live[x] # 0 /\ live'[x] = 0)
             t == R.truths \cup {now}
  <2>1. R \in Reader /\ x \in Docs
    BY DEF IInv, TypeOK, Reader
  <2>2. reader'[r] = IF R.pc # "entry" THEN R ELSE [R EXCEPT !.truths = t, !.dropped = gone]
    BY DEF Witness
  <2>3. CASE R.pc # "entry"
    BY <2>2, <2>3 DEF ReadOK
  <2>4. CASE R.pc = "entry"
    <3>1. /\ reader'[r].doc = x /\ reader'[r].entry = R.entry
          /\ reader'[r].truths = t /\ reader'[r].dropped = gone
      <4>1. reader'[r] = [R EXCEPT !.truths = t, !.dropped = gone]
        BY <2>2, <2>4
      <4> HIDE DEF t, gone
      <4> QED BY <2>1, <4>1, Zenon DEF Reader
    <3>2. /\ HeadOf(versions[x]) = Len(versions[x]) /\ HeadOf(versions'[x]) = Len(versions'[x])
          /\ Len(versions[x]) \in Nat /\ Len(versions'[x]) \in Nat
      <4>1. versions[x] \in Seq(Version) /\ versions'[x] \in Seq(Version)
        BY <2>1 DEF IInv, TypeOK
      <4>2. \A i \in 1..Len(versions[x]) : versions[x][i].num = i
        BY <2>1 DEF IInv, LinearHistory
      <4>3. \A i \in 1..Len(versions'[x]) : versions'[x][i].num = i
        BY <2>1 DEF IInv, LinearHistory
      <4>4. ASSUME NEW vs \in Seq(Version), \A i \in 1..Len(vs) : vs[i].num = i
            PROVE  HeadOf(vs) = Len(vs) /\ Len(vs) \in Nat
        BY <4>4, HeadIsLength
      <4> HIDE DEF x, Version
      <4> QED BY <4>1, <4>2, <4>3, <4>4, Zenon
    <3>3. R.entry \in Nat /\ live[x] \in Nat /\ live'[x] \in Nat
      BY <2>1, MaxAssumption DEF Reader, IInv, TypeOK
    <3>4. live'[x] # 0 => live'[x] <= Len(versions'[x])
      BY <2>1 DEF IInv, NothingBeforeItExists
    <3>5. live[x] # 0 => live[x] <= Len(versions[x])
      BY <2>1 DEF IInv, NothingBeforeItExists
    <3>6. CASE gone
      BY <3>1, <3>6 DEF ReadOK
    <3>7. CASE ~gone
      <4>1. /\ StatusOf(R.entry, Len(versions[x])) \in R.truths
            /\ R.entry # 0 => live[x] # 0 /\ R.entry <= Len(versions[x])
            /\ live[x] # 0 => live'[x] # 0
        BY <2>4, <3>2, <3>7 DEF ReadsAgree
      <4>2. R.entry # 0 => live'[x] # 0
        BY <4>1
      <4>3. \/ versions'[x] = versions[x]
            \/ Len(versions'[x]) = Len(versions[x]) + 1 /\ live'[x] = live[x]
            \/ R.entry = 0
        BY <2>1, <4>1
      <4>4. now \in t /\ R.truths \subseteq t
        OBVIOUS
      <4>5. StatusOf(R.entry, Len(versions'[x])) \in t /\ (R.entry # 0 => R.entry <= Len(versions'[x]))
        <5>1. CASE versions'[x] = versions[x]
          BY <4>1, <5>1
        <5>2. CASE R.entry = 0
          BY <4>1, <4>4, <5>2 DEF StatusOf
        <5>3. CASE R.entry # 0 /\ Len(versions'[x]) = Len(versions[x]) + 1 /\ live'[x] = live[x]
          <6>1. now = "published-with-newer-draft"
            BY <3>2, <3>3, <3>5, <4>1, <5>3 DEF StatusOf
          <6>2. StatusOf(R.entry, Len(versions'[x])) = "published-with-newer-draft"
            BY <3>2, <3>3, <4>1, <5>3 DEF StatusOf
          <6> QED BY <3>2, <3>3, <4>1, <4>4, <5>3, <6>1, <6>2
        <5> QED BY <4>3, <5>1, <5>2, <5>3
      <4> HIDE DEF t, gone, R
      <4> QED BY <3>1, <3>2, <4>2, <4>5 DEF ReadOK
    <3> QED BY <3>6, <3>7
  <2> QED BY <2>3, <2>4
<1>2. StatusWasTrue'
  <2> SUFFICES ASSUME NEW r \in Readers, reader'[r].pc = "done"
               PROVE  reader'[r].result \in reader'[r].truths \/ reader'[r].dropped
    BY DEF StatusWasTrue
  <2>1. reader[r] \in Reader
    BY DEF IInv, TypeOK
  <2>2. CASE reader[r].pc # "entry"
    BY <2>2 DEF Witness, StatusWasTrue
  <2>3. CASE reader[r].pc = "entry"
    <3> DEFINE t == reader[r].truths \cup {StatusOf(live'[reader[r].doc], HeadOf(versions'[reader[r].doc]))}
               g == reader[r].dropped \/ (live[reader[r].doc] # 0 /\ live'[reader[r].doc] = 0)
    <3>1. reader'[r] = [reader[r] EXCEPT !.truths = t, !.dropped = g]
      BY <2>3 DEF Witness
    <3> HIDE DEF t, g
    <3>2. reader'[r].pc = "entry"
      BY <2>1, <2>3, <3>1, Zenon DEF Reader
    <3> QED BY <3>2
  <2> QED BY <2>2, <2>3
<1> QED BY <1>1, <1>2 DEF ReadOK, ReadsAgree

\* A request begins, answers or is done with.
LEMMA ReaderKeeps ==
    ASSUME IInv, ReadsAgree, StatusWasTrue, NEW r \in Readers, ReadStatus(r)
    PROVE  ReadsAgree' /\ StatusWasTrue'
<1>1. UNCHANGED <<versions, live>>
      /\ \A x \in Readers \ {r} : reader'[x] = reader[x]
  BY DEF ReadStatus, ReadEntry, ReadHead, Answered, IInv, TypeOK
<1> SUFFICES /\ ReadOK(reader'[r], versions, live)
             /\ reader'[r].pc = "done" =>
                    reader'[r].result \in reader'[r].truths \/ reader'[r].dropped
  BY <1>1 DEF ReadsAgree, StatusWasTrue, ReadOK
<1>2. reader \in [Readers -> Reader]
  BY DEF IInv, TypeOK
<1>3. ASSUME NEW d \in Docs, ReadEntry(r, d)
      PROVE  ReadOK(reader'[r], versions, live) /\ reader'[r].pc # "done"
  <2> DEFINE t == {StatusOf(live[d], HeadVersion(d))}
             R == [Resting EXCEPT !.pc = "entry", !.doc = d, !.entry = live[d], !.truths = t]
  <2>1. reader'[r] = R
    BY <1>2, <1>3 DEF ReadEntry
  <2>2. R.pc = "entry" /\ R.doc = d /\ R.entry = live[d] /\ R.truths = t
    BY DEF Resting
  <2>3. live[d] # 0 => live[d] <= Len(versions[d])
    BY DEF IInv, NothingBeforeItExists
  <2> HIDE DEF R
  <2> QED BY <2>1, <2>2, <2>3 DEF ReadOK, HeadVersion
<1>4. CASE ReadHead(r)
  <2> DEFINE R == reader[r]
             a == StatusOf(R.entry, HeadVersion(R.doc))
             t == R.truths \cap {a}
             S == [R EXCEPT !.pc = "done", !.entry = 0, !.result = a, !.truths = t]
  <2>1. reader'[r] = S /\ R.pc = "entry"
    BY <1>2, <1>4 DEF ReadHead
  <2>2. S.pc = "done" /\ S.result = a /\ S.truths = t /\ S.dropped = R.dropped
    <3>1. R \in Reader
      BY <1>2
    <3> HIDE DEF a, R, t
    <3> QED BY <3>1, Zenon DEF Reader
  <2>3. R.dropped \/ a \in R.truths
    BY <2>1 DEF ReadsAgree, HeadVersion
  <2> HIDE DEF S, a
  <2> QED BY <2>1, <2>2, <2>3 DEF ReadOK
<1>5. CASE Answered(r)
  BY <1>2, <1>5 DEF Answered, Resting, ReadOK
<1> QED BY <1>3, <1>4, <1>5 DEF ReadStatus

\* A status derived from two reads was the document's status at some instant
\* between them, unless the document was taken down meanwhile (documents.go:166-220).
THEOREM StatusInvariance == Spec => []StatusWasTrue
<1> DEFINE J == IInv /\ ReadsAgree /\ StatusWasTrue
<1>1. Init => J
  <2>1. Init => ReadsAgree /\ StatusWasTrue
    BY DEF Init, ReadsAgree, StatusWasTrue, Resting
  <2> QED BY <2>1, InitInv
<1>2. J /\ [Next]_vars => J'
  <2> SUFFICES ASSUME J, [Next]_vars PROVE ReadsAgree' /\ StatusWasTrue'
    BY NextKeepsInv
  <2>1. IInv'
    BY NextKeepsInv
  <2>2. ASSUME UNCHANGED <<versions, live, reader>> PROVE ReadsAgree' /\ StatusWasTrue'
    BY <2>2 DEF ReadsAgree, StatusWasTrue
  <2>3. ASSUME NEW c \in Clients, Serve(c) \/ Fail(c) PROVE ReadsAgree' /\ StatusWasTrue'
    <3>1. CASE InsertVersion(c)
      <4> DEFINE d == req[c].doc
      <4>1. /\ d \in Docs /\ Witness /\ live' = live
            /\ \A x \in Docs \ {d} : versions'[x] = versions[x]
            /\ Len(versions'[d]) = Len(versions[d]) + 1
        <5> DEFINE v == [num |-> req[c].base + 1, author |-> c, base |-> req[c].base,
                         from |-> req[c].from]
        <5>1. d \in Docs /\ v \in Version /\ versions' = [versions EXCEPT ![d] = Append(@, v)]
          BY <3>1, InsertType
        <5>2. versions \in [Docs -> Seq(Version)]
          BY DEF IInv, TypeOK
        <5>3. Witness /\ live' = live
          BY <3>1 DEF InsertVersion
        <5> HIDE DEF v, d, Version
        <5> QED BY <5>1, <5>2, <5>3
      <4> HIDE DEF d
      <4> QED BY <2>1, <4>1, WitnessKeeps
    <3>2. CASE LockDocument(c) \/ NotFound(c) \/ CountVersions(c) \/ Conflict(c) \/ Fail(c)
      BY <2>2, <3>2 DEF LockDocument, NotFound, CountVersions, Conflict, Fail
    <3> QED BY <2>3, <3>1, <3>2 DEF Serve
  <2>4. ASSUME NEW e \in Clients, Edit(e) PROVE ReadsAgree' /\ StatusWasTrue'
    BY <2>2, <2>4 DEF Edit, OpenDocument, ShowHead, Save, Send, Saved, Resync, ResyncFails,
                      SaveRefused, Close
  <2>5. ASSUME NEW d \in Docs, Surroundings(d) PROVE ReadsAgree' /\ StatusWasTrue'
    <3>1. CASE CreateDocument(d)
      BY <2>2, <3>1 DEF CreateDocument
    <3>2. CASE DeleteDocument(d)
      <4>1. live[d] = 0
        BY <3>2 DEF DeleteDocument, IInv, NothingBeforeItExists
      <4> QED BY <2>1, <3>2, <4>1, WitnessKeeps DEF DeleteDocument, IInv, TypeOK
    <3>3. CASE Unpublish(d) \/ \E n \in 1..MaxVer : Publish(d, n)
      BY <2>1, <3>3, WitnessKeeps DEF Unpublish, Publish, IInv, TypeOK
    <3> QED BY <2>5, <3>1, <3>2, <3>3 DEF Surroundings
  <2>6. CASE UNCHANGED vars
    BY <2>2, <2>6 DEF vars
  <2> QED BY <2>3, <2>4, <2>5, <2>6, ReaderKeeps DEF Next
<1>3. J => StatusWasTrue
  OBVIOUS
<1> QED BY <1>1, <1>2, <1>3, PTL DEF Spec

-----------------------------------------------------------------------------
(* The versions table implements VersionLog.                               *)

\* The log a history stands for.
LogOf(vs) == [i \in 1..Len(vs) |-> [author |-> vs[i].author, onto |-> vs[i].base]]

\* A longer history stands for a longer log.
LEMMA LogOfAppend ==
    ASSUME NEW vs \in Seq(Version), NEW v \in Version
    PROVE  LogOf(Append(vs, v)) = Append(LogOf(vs), [author |-> v.author, onto |-> v.base])
           /\ Len(LogOf(vs)) = Len(vs)
<1> DEFINE E == [author : Clients, onto : Nat]
           e == [author |-> v.author, onto |-> v.base]
           n == Len(vs)
<1>1. n \in Nat /\ e \in E
  BY DEF Version
<1>2. \A i \in 1..n : [author |-> vs[i].author, onto |-> vs[i].base] \in E
  <2>1. ASSUME NEW i \in 1..n PROVE vs[i] \in Version
    <3> HIDE DEF Version
    <3> QED OBVIOUS
  <2>2. ASSUME NEW w \in Version PROVE [author |-> w.author, onto |-> w.base] \in E
    BY DEF Version
  <2> HIDE DEF Version, E
  <2> QED BY <2>1, <2>2
<1>3. LogOf(vs) \in Seq(E)
  <2> HIDE DEF E, Version
  <2>1. LogOf(vs) \in [1..n -> E]
    BY <1>2 DEF LogOf
  <2> QED BY <1>1, <2>1
<1>4. Len(LogOf(vs)) = n /\ DOMAIN LogOf(vs) = 1..n
  BY <1>1, <1>3 DEF LogOf
<1>5. /\ Len(Append(vs, v)) = n + 1 /\ Append(vs, v)[n + 1] = v
      /\ \A i \in 1..n : Append(vs, v)[i] = vs[i]
  <2> HIDE DEF Version
  <2> QED BY <1>1
<1>6. /\ Append(LogOf(vs), e)[n + 1] = e
      /\ \A i \in 1..n : Append(LogOf(vs), e)[i] = LogOf(vs)[i]
      /\ Append(LogOf(vs), e) = [i \in 1..(n + 1) |-> Append(LogOf(vs), e)[i]]
  <2> DEFINE t == LogOf(vs)
             u == Append(t, e)
  <2>1. t \in Seq(E) /\ Len(t) = n
    BY <1>3, <1>4
  <2> HIDE DEF E, e, n, t, u
  <2>2. u \in Seq(E) /\ Len(u) = n + 1
    BY <1>1, <2>1 DEF u
  <2>3. u = [i \in 1..Len(u) |-> u[i]]
    BY <2>2
  <2>4. u[n + 1] = e /\ \A i \in 1..n : u[i] = t[i]
    BY <1>1, <2>1 DEF u
  <2> QED BY <2>2, <2>3, <2>4 DEF t, u
<1>7. \A i \in 1..(n + 1) : LogOf(Append(vs, v))[i] = Append(LogOf(vs), e)[i]
  <2> SUFFICES ASSUME NEW i \in 1..(n + 1)
               PROVE  LogOf(Append(vs, v))[i] = Append(LogOf(vs), e)[i]
    OBVIOUS
  <2>1. LogOf(Append(vs, v))[i] = [author |-> Append(vs, v)[i].author, onto |-> Append(vs, v)[i].base]
    BY <1>5 DEF LogOf
  <2>2. CASE i = n + 1
    BY <1>5, <1>6, <2>1, <2>2
  <2>3. CASE i \in 1..n
    BY <1>5, <1>6, <2>1, <2>3 DEF LogOf
  <2>4. i = n + 1 \/ i \in 1..n
    <3> HIDE DEF n
    <3> QED BY <1>1
  <2> QED BY <2>2, <2>3, <2>4
<1>8. LogOf(Append(vs, v)) = [i \in 1..(n + 1) |-> LogOf(Append(vs, v))[i]]
  BY <1>5 DEF LogOf
<1> HIDE DEF e
<1>9. LogOf(Append(vs, v)) = Append(LogOf(vs), e)
  BY <1>6, <1>7, <1>8
<1> QED BY <1>4, <1>9 DEF e

logbar == [d \in Docs |-> LogOf(versions[d])]

LEMMA LogOfNone == LogOf(<<>>) = <<>>
<1>1. Len(<<>>) = 0 /\ 1..0 = {}
  OBVIOUS
<1>2. LogOf(<<>>) = [i \in 1..0 |-> [author |-> <<>>[i].author, onto |-> <<>>[i].base]]
  BY <1>1 DEF LogOf
<1> QED BY <1>1, <1>2

\* One history is rewritten.
LEMMA LogbarExcept ==
    ASSUME NEW d \in Docs, NEW vs,
           versions \in [Docs -> Seq(Version)], versions' = [versions EXCEPT ![d] = vs]
    PROVE  logbar' = [logbar EXCEPT ![d] = LogOf(vs)]
<1>1. \A x \in Docs : versions'[x] = IF x = d THEN vs ELSE versions[x]
  BY DEF Version
<1>2. logbar' = [x \in Docs |-> LogOf(versions'[x])]
  BY DEF logbar
<1>3. [logbar EXCEPT ![d] = LogOf(vs)] = [x \in Docs |-> IF x = d THEN LogOf(vs) ELSE LogOf(versions[x])]
  BY DEF logbar
<1>4. \A x \in Docs : LogOf(versions'[x]) = IF x = d THEN LogOf(vs) ELSE LogOf(versions[x])
  BY <1>1
<1> QED BY <1>2, <1>3, <1>4

\* The versions table is an append-only log with compare-and-append: whatever requests
\* overlap, a history changes by one whole save onto its head, or is forgotten with
\* its document (versions.go:45-119, documents.go:311-359).
THEOREM LogRefinement == Spec => ImplementsLog
<1>1. Init => Log!LogInit
  <2> SUFFICES ASSUME Init PROVE logbar = [d \in Docs |-> <<>>]
    BY DEF Log!LogInit, logbar, LogOf
  <2>1. \A d \in Docs : LogOf(versions[d]) = <<>>
    BY LogOfNone DEF Init
  <2> QED BY <2>1 DEF logbar
<1>2. IInv /\ [Next]_vars => [Log!LogNext]_logbar
  <2> SUFFICES ASSUME IInv, [Next]_vars PROVE [Log!LogNext]_logbar
    OBVIOUS
  <2>1. versions \in [Docs -> Seq(Version)]
    BY DEF IInv, TypeOK
  <2>2. ASSUME UNCHANGED versions PROVE UNCHANGED logbar
    BY <2>2 DEF logbar
  <2>3. ASSUME NEW c \in Clients, InsertVersion(c) PROVE Log!LogNext
    <3> DEFINE d == req[c].doc
               vs == versions[d]
               v == [num |-> req[c].base + 1, author |-> c, base |-> req[c].base, from |-> req[c].from]
    <3>1. /\ d \in Docs /\ v \in Version /\ req[c].base = Len(vs)
          /\ versions' = [versions EXCEPT ![d] = Append(vs, v)]
      BY <2>1, <2>3, InsertType
    <3>2. v.author = c /\ v.base = Len(vs) /\ vs \in Seq(Version)
      BY <2>1, <3>1
    <3> HIDE DEF v, Version
    <3>3. logbar' = [logbar EXCEPT ![d] = LogOf(Append(vs, v))]
      BY <2>1, <3>1, LogbarExcept
    <3>4. /\ LogOf(Append(vs, v)) = Append(LogOf(vs), [author |-> c, onto |-> Len(LogOf(vs))])
      BY <3>1, <3>2, LogOfAppend
    <3>5. logbar[d] = LogOf(vs)
      BY <3>1 DEF logbar
    <3> HIDE DEF d, vs
    <3>6. logbar' = [logbar EXCEPT ![d] = Append(logbar[d], [author |-> c, onto |-> Len(logbar[d])])]
      BY <3>3, <3>4, <3>5
    <3>7. d \in Docs /\ logbar' = [logbar EXCEPT ![d] = Append(logbar[d], [author |-> c, onto |-> Len(logbar[d])])]
      BY <3>1, <3>6
    <3>8. ASSUME NEW D \in Docs,
                 logbar' = [logbar EXCEPT ![D] = Append(logbar[D], [author |-> c, onto |-> Len(logbar[D])])]
          PROVE  Log!LogNext
      <4>1. Log!CompareAndAppend(D, c)
        BY <3>8 DEF Log!CompareAndAppend, logbar, LogOf
      <4> QED BY <4>1 DEF Log!LogNext
    <3> QED BY <3>7, <3>8
  <2>4. ASSUME NEW d \in Docs, DeleteDocument(d) PROVE Log!LogNext
    <3>1. versions' = [versions EXCEPT ![d] = <<>>]
      BY <2>4 DEF DeleteDocument
    <3>2. logbar' = [logbar EXCEPT ![d] = <<>>]
      BY <2>1, <3>1, LogbarExcept, LogOfNone
    <3>3. Log!Forget(d)
      BY <3>2 DEF Log!Forget, logbar, LogOf
    <3> QED BY <3>3 DEF Log!LogNext
  <2>5. ASSUME NEW c \in Clients, Serve(c) \/ Fail(c), ~InsertVersion(c) PROVE UNCHANGED versions
    BY <2>5 DEF Serve, Fail, LockDocument, NotFound, CountVersions, Conflict
  <2>6. ASSUME NEW e \in Clients, Edit(e) PROVE UNCHANGED versions
    BY <2>6 DEF Edit, OpenDocument, ShowHead, Save, Send, Saved, Resync, ResyncFails,
                SaveRefused, Close
  <2>7. ASSUME NEW d \in Docs, Surroundings(d), ~DeleteDocument(d) PROVE UNCHANGED versions
    BY <2>7 DEF Surroundings, CreateDocument, Publish, Unpublish
  <2>8. ASSUME NEW r \in Readers, ReadStatus(r) PROVE UNCHANGED versions
    BY <2>8 DEF ReadStatus, ReadEntry, ReadHead, Answered
  <2>9. CASE UNCHANGED vars
    BY <2>2, <2>9 DEF vars
  <2> QED BY <2>2, <2>3, <2>4, <2>5, <2>6, <2>7, <2>8, <2>9 DEF Next
<1>3. Log!LogInit /\ [][Log!LogNext]_logbar => ImplementsLog
  BY DEF ImplementsLog, Log!LogSpec, logbar, LogOf
<1> QED BY <1>1, <1>2, <1>3, VersionsInvariance, PTL DEF Spec

=============================================================================
