------------------------------- MODULE MCGroups ------------------------------
(* Instances of Groups for TLC: two accounts, one of them with two logins. *)
EXTENDS Groups, TLC

CONSTANTS a1, a2, c1, c2, c3, g1

MCAccounts == {a1, a2}
MCClients == {c1, c2, c3}
MCAccountOf == (c1 :> a1) @@ (c2 :> a1) @@ (c3 :> a2)
MCOnline == {c1, c3}
MCGroups == {g1}
MCNobody == {}
=============================================================================
