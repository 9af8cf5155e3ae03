----------------------------- MODULE MCReleases -----------------------------
(* Small instances of Releases for TLC. *)
EXTENDS Releases, TLC

\* Requests, documents and paths are interchangeable: no definition tells two
\* of them apart.  Only for the runs that check no liveness property.
Interchangeable ==
    Permutations(Workers) \cup Permutations(Docs) \cup Permutations(Keys)

=============================================================================
