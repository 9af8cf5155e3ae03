------------------------------ MODULE MCAssets ------------------------------
(* Instances of Assets for TLC.                                            *)
EXTENDS Assets, TLC

\* f/a, and /f//a: with a slash in front, and a folder that has no name.
TwoKeys == {<<"f", "a">>, <<"", "f", "", "a">>}

OneFolder == {<<"f", "g">>}

TwoKinds == {"image", "text"}

TwoContents == {<<"image", 1>>, <<"text", 3>>}

Symmetry == Permutations(Requests)

=============================================================================
