------------------------------- MODULE GroupMail -------------------------------
(***************************************************************************)
(* What the store of group messages promises, without statements,          *)
(* transactions or threads: a message is stored in one step, for all of    *)
(* the core members and perhaps more, and never changes or goes away; a    *)
(* sender is told of success only for a message that is stored.  Chat      *)
(* implements it, with what is on disk as the store.                       *)
(***************************************************************************)

CONSTANTS
  Messages,
  Accounts,
  Core            \* accounts that are members throughout

VARIABLES
  mail,           \* which message is stored for which account: pairs
  confirmed       \* messages whose senders were told of success

mailVars == <<mail, confirmed>>

MailInit == mail = {} /\ confirmed = {}

Store(m, receivers) ==
  /\ receivers # {} /\ Core \subseteq receivers
  /\ \A pair \in mail : pair[1] # m
  /\ mail' = mail \cup ({m} \X receivers)
  /\ UNCHANGED confirmed

Confirm(m) ==
  /\ \E pair \in mail : pair[1] = m
  /\ confirmed' = confirmed \cup {m}
  /\ UNCHANGED mail

MailNext ==
  \E m \in Messages :
    \/ \E receivers \in SUBSET Accounts : Store(m, receivers)
    \/ Confirm(m)

MailSpec == MailInit /\ [][MailNext]_mailVars
=============================================================================
