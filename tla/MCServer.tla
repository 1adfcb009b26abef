------------------------------ MODULE MCServer ------------------------------
(* Instances of Server for TLC. *)
EXTENDS Server

CONSTANTS u1, t1

\* All requests are about one user with one refresh token.
TheToken == [r \in Refreshers |-> t1]
TheUser  == [x \in Tokens \cup Writers \cup Deleters |-> u1]
=============================================================================
