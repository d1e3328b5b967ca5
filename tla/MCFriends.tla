------------------------------ MODULE MCFriends ------------------------------
(* Instances of Friends for TLC: two accounts, one of them with two logins. *)
EXTENDS Friends, TLC

CONSTANTS a1, a2, c1, c2, c3

MCAccounts == {a1, a2}
MCClients == {c1, c2, c3}
MCAccountOf == (c1 :> a1) @@ (c2 :> a1) @@ (c3 :> a2)
MCOnline == {c1, c3}
=============================================================================
