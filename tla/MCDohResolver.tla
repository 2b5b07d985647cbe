---------------------------- MODULE MCDohResolver ----------------------------
(* Two or three futures, one or two hosts, one address list.                *)
EXTENDS DohResolver
===============================================================================
