---------------------------- MODULE MCConnTable ----------------------------
(***************************************************************************)
(* Two slots, three clients and three places in memory: the table fills, a  *)
(* third client meets it full, and freed memory is used again.              *)
(***************************************************************************)
EXTENDS ConnTable, TLC

CONSTANTS t1, t2, t3, a, b, c

MCTasks == {t1, t2, t3}
MCClients == {a, b, c}
MCTwo == {a, b}
MCSymmetry == Permutations(MCTasks) \cup Permutations(MCClients)
=============================================================================
