--------------------------- MODULE MCAttribution ---------------------------
(***************************************************************************)
(* Instances of Attribution for TLC, and the documented precedence, which  *)
(* a run refutes.                                                          *)
(***************************************************************************)
EXTENDS Attribution, TLC

CONSTANTS l1, l2, r1, r2, c1, c2

AttributionSymmetry ==
  Permutations(Label) \cup Permutations(Repo) \cup Permutations(Caller)

\* docs/reference/client-attribution.md:23 says that a repository-specific
\* mapping "Only applies to a specific repository", and its example (:40, :41,
\* :46) that an issue of org/website whose label is mapped globally to "City of
\* Amsterdam" is billed to that client although the label is also mapped to
\* another one for org/internal-tools.
OtherRepositoriesDoNotCount ==
  \A i \in Issues :
    Own(i.labels, i.repo) = {} /\ Global(i.labels) # {} =>
      Resolve(i.labels, i.repo) = OldestClient(Global(i.labels))

=============================================================================
