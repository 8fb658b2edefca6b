---------------------------- MODULE MCAgentReads ----------------------------
(* AgentReads with agents of the registry and an NFT outside of it.         *)
EXTENDS AgentReads, TLC

CONSTANTS a1, a2, f1

\* A batch whose order is not that of registration and that has a stranger in it.
MCQueries == {<<>>, <<a2, f1, a1>>}

Symmetry == Permutations(Wallets)
=============================================================================
