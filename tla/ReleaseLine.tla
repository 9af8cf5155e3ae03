----------------------------- MODULE ReleaseLine -----------------------------
(***************************************************************************)
(* What the release machinery of an app promises (the header comments of   *)
(* database/stores/releases.go and database/migrations/006): one           *)
(* append-only line of numbered manifests, each with its comparison to the *)
(* one before, the live one always the newest, and one set of outbox jobs  *)
(* per step that says how the served index follows.  There are no requests,*)
(* locks or phases here: a cut is one step.                                *)
(***************************************************************************)
EXTENDS ReleaseDiff, Sequences

VARIABLES
    line,   \* the releases ever cut, oldest first
    live,   \* the entries being served
    sent    \* the outbox jobs of each cut

lineVars == <<line, live, sent>>

Init ==
    /\ line = <<>>
    /\ live = {}
    /\ sent = <<>>

Cut(entries) ==
    /\ Manifest(entries)
    /\ line' = Append(line, [number |-> Len(line) + 1, entries |-> entries,
                             changes |-> Diff(live, entries)])
    /\ live' = entries
    /\ sent' = Append(sent, JobsOf(Diff(live, entries)))

Next == Cut(live')

Spec == Init /\ [][Next]_lineVars

=============================================================================
