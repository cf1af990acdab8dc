------------------------------- MODULE MCInbox -------------------------------
(***************************************************************************)
(* Inbox for TLC: the tabs all belong to the first user.  Servers, groups  *)
(* and tabs are interchangeable.                                           *)
(***************************************************************************)
EXTENDS Inbox, TLC

CONSTANT User

MCUserOf == [t \in Tabs |-> User]
Symmetry == Permutations(Servers) \cup Permutations(Groups) \cup Permutations(Tabs)
=============================================================================
