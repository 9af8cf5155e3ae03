------------------------------ MODULE MCServing ------------------------------
(* Small instances of Serving for TLC. *)
EXTENDS Serving, TLC

CONSTANTS d1, d2, k1, k2

One == {[doc |-> d1, key |-> k1, ver |-> 1]}

\* A document unpublished, published, republished at another version, and moved.
OneDocMoving ==
    {{}} \cup {{[doc |-> d1, key |-> k1, ver |-> v]} : v \in {1, 2}}
         \cup {{[doc |-> d1, key |-> k2, ver |-> 1]}}

\* Two documents that trade paths.
TwoDocs ==
    {{}, One, {[doc |-> d2, key |-> k1, ver |-> 1]},
     One \cup {[doc |-> d2, key |-> k2, ver |-> 1]},
     {[doc |-> d2, key |-> k1, ver |-> 1], [doc |-> d1, key |-> k2, ver |-> 1]}}

=============================================================================
