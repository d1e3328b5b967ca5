------------------------------- MODULE MCChat --------------------------------
(* Instances of Chat for TLC: a second login of one account, one member of the group    *)
(* that is accepted while messages are sent, and one that is never logged in.           *)
EXTENDS Chat, TLC

CONSTANTS a1, a2, a3, c1, c2, c3

MCAccounts == {a1, a2, a3}
MCClients == {c1, c2, c3}
MCAccountOf == (c1 :> a1) @@ (c2 :> a2) @@ (c3 :> a1)
MCOnline == {c1, c2}
MCMembers == <<a1, a2, a3>>
MCPending == {a2}
=============================================================================
