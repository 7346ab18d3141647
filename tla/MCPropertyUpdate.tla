-------------------------- MODULE MCPropertyUpdate --------------------------
(* TLC instance of PropertyUpdate: a careful agent and a careless one.     *)
EXTENDS PropertyUpdate, TLC

CONSTANTS a1, a2, t1, t2

MCAgents == {a1, a2}
MCCareless == {a2}
MCTags == {t1, t2}

Symmetry == Permutations(MCTags)

=============================================================================
