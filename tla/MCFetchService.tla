--------------------------- MODULE MCFetchService ---------------------------
(* Small instances of FetchService for TLC.                                *)
EXTENDS FetchService, TLC

\* Downloads and digests are interchangeable, and so are the IDs as long as
\* fetchctl asks for none of them.
Symmetry ==
  Permutations(Downloads) \cup Permutations(Digests)
    \cup (IF FetchctlIds = {} THEN Permutations(Ids) ELSE {})
=============================================================================
