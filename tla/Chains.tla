------------------------------- MODULE Chains -------------------------------
(***************************************************************************)
(* The walk over superseded_by that GetCorrectionChain (time entries) and  *)
(* GetChain (plans) share.  A table is seen through its links: link[k] is  *)
(* the superseded_by of row k, 0 for NULL.  Both loops of the code are     *)
(* unbounded; here each runs Len(link) rounds, which is enough to end      *)
(* whenever it ends at all.                                                *)
(***************************************************************************)
EXTENDS Naturals, Sequences, SequencesExt

\* SELECT id ... WHERE superseded_by = n.
Predecessors(link, n) == {k \in DOMAIN link : link[k] = n}

\* The first loop: from id back to a row nobody points at.  QueryRow keeps
\* the first row of the answer, whichever that is.
ChainRoot(link, id) ==
  LET back[n \in 0 .. Len(link)] ==
        IF n = 0 THEN id
        ELSE LET row == back[n - 1]
                 p == Predecessors(link, row)
             IN  IF p = {} THEN row ELSE CHOOSE k \in p : TRUE
  IN  back[Len(link)]

\* The second loop: from the root forward to a row without a successor.
Chain(link, id) ==
  LET walk[n \in 0 .. Len(link)] ==
        IF n = 0 THEN <<ChainRoot(link, id)>>
        ELSE LET chain == walk[n - 1]
                 next == link[Last(chain)]
             IN  IF next = 0 THEN chain ELSE Append(chain, next)
  IN  walk[Len(link)]

\* What the two loops are for: they end, and list the row they were asked
\* about once, among rows in the order in which they were created.
WalksWell(link, id) ==
  LET chain == Chain(link, id)
  IN  /\ Predecessors(link, chain[1]) = {}
      /\ link[Last(chain)] = 0
      /\ id \in Range(chain)
      /\ \A n \in 1 .. Len(chain) - 1 : chain[n] < chain[n + 1]

=============================================================================
