--------------------------- MODULE MCSatiRegistry ---------------------------
(* SatiRegistry on small sets of wallets, mints and clients.                *)
EXTENDS SatiRegistry, TLC

CONSTANTS g1, g2, g3

\* g1 is the group the deployment script creates; g2 already has a member and
\* room for one; g3 does not pass initialize's checks.
MCGroupSize0 == [g \in Groups |-> IF g = g2 THEN 1 ELSE 0]
MCGroupMax   == [g \in Groups |-> IF g = g2 THEN 2 ELSE 9]

\* Bound: transactions that have been sent and not yet executed or dropped.
TwoInFlight == Cardinality(pending) <= 2

Symmetry == Permutations(Mints) \cup Permutations(Clients) \cup Permutations(Wallets)
            \cup Permutations(Configs)
=============================================================================
