------------------------------ MODULE MCServer ------------------------------
(* An instance of Server for TLC.  Calls share nothing but the process: one *)
(* shows what can happen to any of them, and ServerProofs has any number.   *)
EXTENDS Server

CONSTANTS c1, u1, u2

\* A player's token, a service's with half the permission, an administrator's,
\* and a text that names a player whose token it is not.
Texts ==
  {[good |-> TRUE, grants |-> {}, sub |-> u1],
   [good |-> TRUE, grants |-> {"DELETE"}, sub |-> NoSubject],
   [good |-> TRUE, grants |-> Action, sub |-> u2],
   [good |-> FALSE, grants |-> Action, sub |-> u2]}
=============================================================================
