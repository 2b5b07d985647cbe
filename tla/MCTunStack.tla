----------------------------- MODULE MCTunStack -----------------------------
(* Instance of TunStack for TLC: two client sockets on two ports, and three hosts
   for a pool of two, on four addresses of which one is reserved.  Both
   allocation loops have one iteration less than there are values, as in the
   code. *)
EXTENDS TunStack, TLC

DestsDef == Ips
Symmetry == Permutations(Sources) \cup Permutations(Hosts)
=============================================================================
