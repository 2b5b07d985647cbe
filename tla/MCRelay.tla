------------------------------- MODULE MCRelay -------------------------------
(* The relay with two chunks a side and an idle limit of one tick.            *)
EXTENDS Relay
===============================================================================
