------------------------------- MODULE Versions -------------------------------
(***************************************************************************)
(* A document's versions and the clients that write and read them.         *)
(*   database/stores/versions.go            Save, Head                     *)
(*   database/stores/documents.go           Status, GetWithHead            *)
(*   web/.../studio/editor.vue              the studio's editor            *)
(*                                                                         *)
(* A save is a request: sent, then served statement by statement in a      *)
(* transaction that holds the document row, then answered; the answer may  *)
(* be lost.  The release an app serves appears only as the version each    *)
(* document has in it (live): cuts are the subject of Releases.            *)
(***************************************************************************)
EXTENDS Naturals, FiniteSets, Sequences

CONSTANTS
    Docs,
    Clients,      \* studio editors, with at most one save in flight each
    Readers,      \* requests that derive a document's status
    Nobody,       \* holder of a free row lock
    MaxVer        \* bound: versions per document

ASSUME DocsAssumption == Docs # {}
ASSUME ClientsAssumption == Nobody \notin Clients
ASSUME MaxAssumption == MaxVer \in Nat

VARIABLES
    row,        \* the documents table: not yet, there, or deleted for good
    versions,   \* a document's rows of the versions table, in insertion order
    rowLock,    \* holder of a document row's FOR UPDATE lock
    req,        \* the save each client has in flight
    editor,     \* what each editor holds
    live,       \* the version of a document in the current release (0: none)
    released,   \* the documents some release carries, now or before
    reader      \* status requests

vars == <<row, versions, rowLock, req, editor, live, released, reader>>

\* base and from are no columns: the base the save named, and the version whose
\* text the saved text was edited from.
Version == [num : 1..MaxVer, author : Clients, base : Nat, from : Nat]

Request == [pc : {"none", "sent", "locked", "counted", "saved", "conflict", "failed"},
            doc : Docs, base : Nat, from : Nat, count : Nat]

Editor == [pc : {"closed", "opening", "editing", "saving", "resync"},
           doc : Docs, base : Nat, from : Nat]

StatusNames == {"draft", "published", "published-with-newer-draft"}

\* truths: every status the document has had since the request's first read; once it
\* is done, whether the one it answers with is among them.
Reader == [pc : {"idle", "entry", "done"}, doc : Docs, entry : Nat,
           result : StatusNames, truths : SUBSET StatusNames, dropped : BOOLEAN]

AnyDoc == CHOOSE d \in Docs : TRUE

NoRequest == [pc |-> "none", doc |-> AnyDoc, base |-> 0, from |-> 0, count |-> 0]

Closed == [pc |-> "closed", doc |-> AnyDoc, base |-> 0, from |-> 0]

Resting == [pc |-> "idle", doc |-> AnyDoc, entry |-> 0, result |-> "draft",
            truths |-> {}, dropped |-> FALSE]

TypeOK ==
    /\ row \in [Docs -> {"none", "there", "gone"}]
    /\ versions \in [Docs -> Seq(Version)]
    /\ released \in SUBSET Docs
    /\ rowLock \in [Docs -> Clients \cup {Nobody}]
    /\ req \in [Clients -> Request]
    /\ editor \in [Clients -> Editor]
    /\ live \in [Docs -> 0..MaxVer]
    /\ reader \in [Readers -> Reader]

Init ==
    /\ row = [d \in Docs |-> "none"]
    /\ versions = [d \in Docs |-> <<>>]
    /\ released = {}
    /\ rowLock = [d \in Docs |-> Nobody]
    /\ req = [c \in Clients |-> NoRequest]
    /\ editor = [e \in Clients |-> Closed]
    /\ live = [d \in Docs |-> 0]
    /\ reader = [r \in Readers |-> Resting]

-----------------------------------------------------------------------------

\* Versions.Head: the highest number of the document's rows, 0 without any.
HeadOf(vs) == IF vs = <<>> THEN 0
              ELSE LET nums == {vs[i].num : i \in 1..Len(vs)}
                   IN  CHOOSE n \in nums : \A m \in nums : m <= n

HeadVersion(d) == HeadOf(versions[d])

\* Documents.Status over one release entry and one head.
StatusOf(entry, head) ==
    IF entry = 0 THEN "draft"
    ELSE IF head = 0 \/ head = entry THEN "published"
    ELSE "published-with-newer-draft"

-----------------------------------------------------------------------------
(* The save request.                                                       *)

\* The request leaves client c.  The wire refuses a missing or negative base.
Send(c, d, base, from) ==
    /\ req[c].pc = "none"
    /\ base < MaxVer
    /\ req' = [req EXCEPT ![c] = [pc |-> "sent", doc |-> d, base |-> base,
                                  from |-> from, count |-> 0]]

\* A bug for TLC to find: the row is read without FOR UPDATE.
FaultyLockDocument(c) ==
    /\ req[c].pc = "sent"
    /\ row[req[c].doc] = "there"
    /\ rowLock' = [rowLock EXCEPT ![req[c].doc] = c]
    /\ req' = [req EXCEPT ![c].pc = "locked"]
    /\ UNCHANGED <<row, versions, editor, live, released, reader>>

\* SELECT ... FOR UPDATE of the document row.
LockDocument(c) ==
    /\ req[c].pc = "sent"
    /\ row[req[c].doc] = "there"
    /\ rowLock[req[c].doc] = Nobody
    /\ rowLock' = [rowLock EXCEPT ![req[c].doc] = c]
    /\ req' = [req EXCEPT ![c].pc = "locked"]
    /\ UNCHANGED <<row, versions, editor, live, released, reader>>

\* A bug for TLC to find: only a document that never was is not found.
FaultyNotFound(c) ==
    /\ req[c].pc = "sent"
    /\ row[req[c].doc] = "none"
    /\ req' = [req EXCEPT ![c].pc = "failed"]
    /\ UNCHANGED <<row, versions, rowLock, editor, live, released, reader>>

\* The lock finds no row: ErrNotFound.
NotFound(c) ==
    /\ req[c].pc = "sent"
    /\ row[req[c].doc] # "there"
    /\ req' = [req EXCEPT ![c].pc = "failed"]
    /\ UNCHANGED <<row, versions, rowLock, editor, live, released, reader>>

\* The head is the number of rows.
CountVersions(c) ==
    /\ req[c].pc = "locked"
    /\ req' = [req EXCEPT ![c].pc = "counted", ![c].count = Len(versions[req[c].doc])]
    /\ UNCHANGED <<row, versions, rowLock, editor, live, released, reader>>

\* VersionConflictError carries the head the count gave.
Conflict(c) ==
    /\ req[c].pc = "counted"
    /\ req[c].base # req[c].count
    /\ rowLock' = [rowLock EXCEPT ![req[c].doc] = Nobody]
    /\ req' = [req EXCEPT ![c].pc = "conflict"]
    /\ UNCHANGED <<row, versions, editor, live, released, reader>>

\* A status request between its two reads has one more state to be true of.
Witness ==
    reader' = [r \in Readers |->
        LET R == reader[r] IN
        IF R.pc # "entry" THEN R
        ELSE [R EXCEPT !.truths = @ \cup {StatusOf(live'[R.doc], HeadOf(versions'[R.doc]))},
                       !.dropped = @ \/ (live[R.doc] # 0 /\ live'[R.doc] = 0)]]

\* The insert and the commit.  (document_id, version_number) is unique.
InsertVersion(c) ==
    LET r == req[c]
        vs == versions[r.doc]
    IN
    /\ r.pc = "counted"
    /\ r.base = r.count
    /\ \A i \in 1..Len(vs) : vs[i].num # r.count + 1
    /\ versions' = [versions EXCEPT ![r.doc] =
           Append(@, [num |-> r.count + 1, author |-> c, base |-> r.base, from |-> r.from])]
    /\ rowLock' = [rowLock EXCEPT ![r.doc] = Nobody]
    /\ req' = [req EXCEPT ![c].pc = "saved"]
    /\ UNCHANGED <<row, editor, live, released>>
    /\ Witness

\* A cancelled context or a dead server: rolled back.  Or the version is
\* committed and only the answer is lost.
Fail(c) ==
    /\ req[c].pc \in {"sent", "locked", "counted", "saved"}
    /\ rowLock' = [d \in Docs |-> IF rowLock[d] = c THEN Nobody ELSE rowLock[d]]
    /\ req' = [req EXCEPT ![c].pc = "failed", ![c].count = 0]
    /\ UNCHANGED <<row, versions, editor, live, released, reader>>

-----------------------------------------------------------------------------
(* The studio's editor.                                                    *)

\* documents.open: GetWithHead reads the row, then the head.
OpenDocument(e, d) ==
    /\ editor[e].pc = "closed"
    /\ row[d] = "there"
    /\ editor' = [editor EXCEPT ![e] = [Closed EXCEPT !.pc = "opening", !.doc = d]]
    /\ UNCHANGED <<row, versions, rowLock, req, live, released, reader>>

\* The editor mounts with the head's text and edits it.  (An older version opened
\* over the head as a draft is an edit the author makes of the head.)
ShowHead(e) ==
    LET head == HeadVersion(editor[e].doc) IN
    /\ editor[e].pc = "opening"
    /\ editor' = [editor EXCEPT ![e].pc = "editing", ![e].base = head, ![e].from = head]
    /\ UNCHANGED <<row, versions, rowLock, req, live, released, reader>>

\* save(): the base is the head last fetched, the text is the buffer.
Save(e) ==
    /\ editor[e].pc = "editing"
    /\ Send(e, editor[e].doc, editor[e].base, editor[e].from)
    /\ editor' = [editor EXCEPT ![e].pc = "saving"]
    /\ UNCHANGED <<row, versions, rowLock, live, released, reader>>

\* The buffer is now an edit of the version just saved.
Saved(e) ==
    /\ editor[e].pc = "saving"
    /\ req[e].pc = "saved"
    /\ editor' = [editor EXCEPT ![e].pc = "resync", ![e].from = req[e].count + 1]
    /\ req' = [req EXCEPT ![e] = NoRequest]
    /\ UNCHANGED <<row, versions, rowLock, live, released, reader>>

\* refresh() after a save takes over the head; the buffer stays as it is.
Resync(e) ==
    /\ editor[e].pc = "resync"
    /\ row[editor[e].doc] = "there"
    /\ editor' = [editor EXCEPT ![e].pc = "editing", ![e].base = HeadVersion(editor[e].doc)]
    /\ UNCHANGED <<row, versions, rowLock, req, live, released, reader>>

\* A failed refetch may keep the document last fetched or drop it: base 0.
ResyncFails(e) ==
    /\ editor[e].pc = "resync"
    /\ \E base \in {0, editor[e].base} :
           editor' = [editor EXCEPT ![e].pc = "editing", ![e].base = base]
    /\ UNCHANGED <<row, versions, rowLock, req, live, released, reader>>

\* A bug for TLC to find: a refused save takes over the head.
FaultySaveRefused(e) ==
    /\ editor[e].pc = "saving"
    /\ req[e].pc \in {"conflict", "failed"}
    /\ editor' = [editor EXCEPT ![e].pc = "editing", ![e].base = HeadVersion(editor[e].doc)]
    /\ req' = [req EXCEPT ![e] = NoRequest]
    /\ UNCHANGED <<row, versions, rowLock, live, released, reader>>

\* The catch: a message is shown, the buffer and the base stay.
SaveRefused(e) ==
    /\ editor[e].pc = "saving"
    /\ req[e].pc \in {"conflict", "failed"}
    /\ editor' = [editor EXCEPT ![e].pc = "editing"]
    /\ req' = [req EXCEPT ![e] = NoRequest]
    /\ UNCHANGED <<row, versions, rowLock, live, released, reader>>

\* Navigating away, or reloading after a conflict, unmounts the editor.
Close(e) ==
    /\ editor[e].pc = "editing"
    /\ editor' = [editor EXCEPT ![e] = Closed]
    /\ UNCHANGED <<row, versions, rowLock, req, live, released, reader>>

-----------------------------------------------------------------------------
(* Documents and releases around the versions.                             *)

\* Documents.Create, as far as versions see it.
CreateDocument(d) ==
    /\ row[d] = "none"
    /\ row' = [row EXCEPT ![d] = "there"]
    /\ UNCHANGED <<versions, rowLock, req, editor, live, released, reader>>

\* A bug for TLC to find: the first version is left behind.
FaultyDeleteDocument(d) ==
    /\ row[d] = "there" /\ d \notin released
    /\ rowLock[d] = Nobody
    /\ row' = [row EXCEPT ![d] = "gone"]
    /\ versions' = [versions EXCEPT ![d] = SelectSeq(@, LAMBDA v : v.num = 1)]
    /\ UNCHANGED <<rowLock, req, editor, live, released>>
    /\ Witness

\* Documents.Delete of a document no release ever carried; versions cascade.
\* What a release carries is refused or kept as a tombstone, versions and all.
DeleteDocument(d) ==
    /\ row[d] = "there" /\ d \notin released
    /\ rowLock[d] = Nobody
    /\ row' = [row EXCEPT ![d] = "gone"]
    /\ versions' = [versions EXCEPT ![d] = <<>>]
    /\ UNCHANGED <<rowLock, req, editor, live, released>>
    /\ Witness

\* A cut that carries version n of d; the entry's foreign key locks the row.
Publish(d, n) ==
    /\ row[d] = "there" /\ rowLock[d] = Nobody
    /\ \E i \in 1..Len(versions[d]) : versions[d][i].num = n
    /\ live' = [live EXCEPT ![d] = n]
    /\ released' = released \cup {d}
    /\ UNCHANGED <<row, versions, rowLock, req, editor>>
    /\ Witness

\* A cut that drops d.
Unpublish(d) ==
    /\ live[d] # 0
    /\ live' = [live EXCEPT ![d] = 0]
    /\ UNCHANGED <<row, versions, rowLock, req, editor, released>>
    /\ Witness

-----------------------------------------------------------------------------
(* Status and Statuses: the entry in one statement, the head in another.   *)

ReadEntry(r, d) ==
    /\ reader[r].pc = "idle"
    /\ row[d] = "there"
    /\ reader' = [reader EXCEPT ![r] =
           [Resting EXCEPT !.pc = "entry", !.doc = d, !.entry = live[d],
                           !.truths = {StatusOf(live[d], HeadVersion(d))}]]
    /\ UNCHANGED <<row, versions, rowLock, req, editor, live, released>>

\* A bug for TLC to find: a document that is not live has a newer draft as well.
FaultyReadHead(r) ==
    LET R == reader[r]
        answer == IF HeadVersion(R.doc) = R.entry THEN "published"
                  ELSE "published-with-newer-draft" IN
    /\ R.pc = "entry"
    /\ reader' = [reader EXCEPT ![r] = [R EXCEPT !.pc = "done", !.entry = 0, !.result = answer,
                                                 !.truths = R.truths \cap {answer}]]
    /\ UNCHANGED <<row, versions, rowLock, req, editor, live, released>>

ReadHead(r) ==
    LET R == reader[r]
        answer == StatusOf(R.entry, HeadVersion(R.doc)) IN
    /\ R.pc = "entry"
    /\ reader' = [reader EXCEPT ![r] = [R EXCEPT !.pc = "done", !.entry = 0, !.result = answer,
                                                 !.truths = R.truths \cap {answer}]]
    /\ UNCHANGED <<row, versions, rowLock, req, editor, live, released>>

Answered(r) ==
    /\ reader[r].pc = "done"
    /\ reader' = [reader EXCEPT ![r] = Resting]
    /\ UNCHANGED <<row, versions, rowLock, req, editor, live, released>>

-----------------------------------------------------------------------------

Serve(c) == LockDocument(c) \/ NotFound(c) \/ CountVersions(c) \/ Conflict(c) \/ InsertVersion(c)

Edit(e) ==
    \/ \E d \in Docs : OpenDocument(e, d)
    \/ ShowHead(e) \/ Save(e) \/ Saved(e) \/ Resync(e) \/ ResyncFails(e)
    \/ SaveRefused(e) \/ Close(e)

Surroundings(d) ==
    \/ CreateDocument(d) \/ DeleteDocument(d) \/ Unpublish(d)
    \/ \E n \in 1..MaxVer : Publish(d, n)

ReadStatus(r) == (\E d \in Docs : ReadEntry(r, d)) \/ ReadHead(r) \/ Answered(r)

Next ==
    \/ \E c \in Clients : Serve(c) \/ Fail(c)
    \/ \E e \in Clients : Edit(e)
    \/ \E d \in Docs : Surroundings(d)
    \/ \E r \in Readers : ReadStatus(r)

\* A server drives a request on; Postgres grants a row lock in turn.
Fairness ==
    \A c \in Clients :
        /\ WF_vars(NotFound(c)) /\ WF_vars(CountVersions(c))
        /\ WF_vars(Conflict(c)) /\ WF_vars(InsertVersion(c))
        /\ SF_vars(LockDocument(c))

Spec == Init /\ [][Next]_vars

FairSpec == Spec /\ Fairness

-----------------------------------------------------------------------------
(* Properties.                                                             *)

InSave(r) == r.pc \in {"locked", "counted"}

\* The numbers of a document's versions have no gap and no repeat, and each
\* version was saved on top of the one before it: of two saves from one base one
\* wins (Versions.Save, versions.go:46-57).
LinearHistory ==
    \A d \in Docs : \A i \in 1..Len(versions[d]) :
        versions[d][i].num = i /\ versions[d][i].base = i - 1

\* A row lock has one holder, which is the save it serves.
LockIsSave ==
    /\ \A c \in Clients : InSave(req[c]) =>
           rowLock[req[c].doc] = c /\ row[req[c].doc] = "there" /\ req[c].base < MaxVer
    /\ \A d \in Docs : rowLock[d] # Nobody => InSave(req[rowLock[d]]) /\ req[rowLock[d]].doc = d

\* What a save counted is still the number of versions when it inserts.
CountIsFresh ==
    \A c \in Clients : req[c].pc = "counted" => req[c].count = Len(versions[req[c].doc])

\* No client is ahead of the history: a base names a version that exists, unless
\* the document is gone.
BasesExist ==
    \A c \in Clients :
        /\ row[req[c].doc] = "gone" \/ req[c].base <= Len(versions[req[c].doc])
        /\ row[editor[c].doc] = "gone" \/ editor[c].base <= Len(versions[editor[c].doc])

\* A conflict always means that somebody else's version came in between: the
\* head it names is above the base (VersionConflictError, versions.go:34-43).
ConflictMeansBehind ==
    \A c \in Clients : req[c].pc = "conflict" => req[c].base < req[c].count

\* Only documents with versions are served, and only saved versions are.
NothingBeforeItExists ==
    \A d \in Docs :
        /\ row[d] = "none" => versions[d] = <<>>
        /\ live[d] # 0 => d \in released /\ live[d] <= Len(versions[d])

\* A save hides another's version only where the editor's own save came just before
\* it: the buffer is an edit of the version named as base, or of one the same editor
\* saved, after which refresh() took over a later head (editor.vue:48-68).  No other
\* path, a conflict or a lost answer least of all, moves the base ahead of the buffer.
HidesOnlyAfterOwnSave ==
    \A d \in Docs : \A i \in 1..Len(versions[d]) :
        LET v == versions[d][i] IN
        v.from < v.base => v.from > 0 /\ versions[d][v.from].author = v.author

\* An editor has one save in flight, of the document it is on.
OneSave ==
    \A e \in Clients :
        /\ req[e].pc # "none" => editor[e].pc = "saving"
        /\ editor[e].pc = "saving" => req[e].pc # "none" /\ req[e].doc = editor[e].doc
        /\ req[e].pc = "sent" => req[e].base < MaxVer

\* Author a wrote version n of the history vs.
Wrote(vs, a, n) == n \in 1..Len(vs) /\ vs[n].author = a

\* A client whose base is ahead of its text wrote the version the text is an edit of.
EditsAreOwn ==
    \A c \in Clients :
        /\ \/ row[req[c].doc] = "gone" \/ req[c].base <= req[c].from
           \/ Wrote(versions[req[c].doc], c, req[c].from)
        /\ \/ row[editor[c].doc] = "gone" \/ editor[c].base <= editor[c].from
           \/ Wrote(versions[editor[c].doc], c, editor[c].from)
        /\ req[c].pc = "saved" =>
               row[req[c].doc] = "gone" \/ Wrote(versions[req[c].doc], c, req[c].count + 1)
        /\ editor[c].pc = "resync" =>
               row[editor[c].doc] = "gone" \/ Wrote(versions[editor[c].doc], c, editor[c].from)

IInv ==
    /\ TypeOK
    /\ LinearHistory
    /\ LockIsSave
    /\ CountIsFresh
    /\ BasesExist
    /\ ConflictMeansBehind
    /\ NothingBeforeItExists
    /\ OneSave
    /\ EditsAreOwn

\* A status derived from two statements was the document's status at some
\* instant between them, unless the document was taken down meanwhile: then an
\* entry that was dropped may be compared with a head saved later
\* (Documents.Status and Statuses, documents.go:166-220).
StatusWasTrue ==
    \A r \in Readers :
        reader[r].pc = "done" => reader[r].result \in reader[r].truths \/ reader[r].dropped

\* What a status request could answer now has been true, and its entry is not ahead
\* of the history.
ReadsAgree ==
    \A r \in Readers :
        LET R == reader[r] IN
        R.pc = "entry" =>
            \/ R.dropped
            \/ /\ StatusOf(R.entry, HeadOf(versions[R.doc])) \in R.truths
               /\ R.entry # 0 => live[R.doc] # 0 /\ R.entry <= Len(versions[R.doc])

\* Every save gets an answer: an accepted or lost version, a conflict, a missing
\* document.  No holder of the row keeps the others waiting.
SavesEnd ==
    \A c \in Clients : req[c].pc = "sent" ~> req[c].pc \in {"saved", "conflict", "failed", "none"}

\* The versions table implements an append-only log with compare-and-append.
Log == INSTANCE VersionLog WITH
    Authors <- Clients,
    log <- [d \in Docs |-> [i \in 1..Len(versions[d]) |->
               [author |-> versions[d][i].author, onto |-> versions[d][i].base]]]

ImplementsLog == Log!LogSpec

=============================================================================
