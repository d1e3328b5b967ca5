----------------------------- MODULE MCAccounts ------------------------------
(* Instances of Accounts for TLC: two friends, an account that is not registered yet, and *)
(* more connections than numbers for them.                                                *)
EXTENDS Accounts, TLC

CONSTANTS c1, c2, c3, n1, n2, p1, p2

MCConns == {c1, c2, c3}
MCFds == {n1, n2}
MCAccounts == 1..3
MCPasswords == {p1, p2}
MCFriends == {<<1, 2>>, <<2, 1>>}
MCRegistered == {1, 2}
Symmetry == Permutations(MCConns) \cup Permutations(MCFds)
=============================================================================
