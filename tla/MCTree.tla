------------------------------- MODULE MCTree -------------------------------
(* Instances of Tree for TLC.                                              *)
EXTENDS Tree, TLC, SequencesExt

OneNames == {<<"a">>, <<"b">>}

AllOps == [w \in Requests |-> {"createCol", "renameCol", "moveCol", "createDoc", "moveDoc"}]

\* A move beside a move or the move of a document, and a rename.
MoveOps ==
    LET order == SetToSeq(Requests) IN
    [w \in Requests |-> CASE w = order[1] -> {"moveCol"}
                          [] w = order[2] -> {"moveCol", "moveDoc"}
                          [] OTHER -> {"renameCol"}]

\* Two collections in the root, the others in the second: what it takes for two moves
\* to close a cycle below a child.  The documents lie at the bottom.
TwoBranches ==
    LET order == SetToSeq(Cols) IN
    /\ \A i \in DOMAIN order : cols[order[i]].row = "there"
    /\ \A i \in DOMAIN order : cols[order[i]].parent = IF i <= 2 THEN Root ELSE order[2]
    /\ \A i \in DOMAIN order : cols[order[i]].name = IF i = 2 THEN <<"b">> ELSE <<"a">>
    /\ \A d \in Docs :
           docs[d].row = "live" /\ docs[d].parent = order[Len(order)] /\ docs[d].name = <<"a">>
    /\ released = Docs

MovesInit == Init /\ TwoBranches

MovesSpec == MovesInit /\ [][Next]_vars /\ Fairness

Symmetry == Permutations(Cols) \cup Permutations(Docs) \cup Permutations(Requests)

=============================================================================
