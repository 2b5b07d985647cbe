--------------------------- MODULE MCHealthCheck ---------------------------
(* Instance of HealthCheck for TLC: a list with a line of information, one with
   two equal entries, and a server that changes between them. *)
EXTENDS HealthCheck

Key(n, s) == [name |-> n, server |-> s]
Lists == {<<Key("info", 1), Key("a", 1), Key("b", 1)>>, <<Key("b", 2), Key("b", 2)>>, <<>>}
=============================================================================
