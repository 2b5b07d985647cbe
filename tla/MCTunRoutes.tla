------------------------------ MODULE MCTunRoutes ------------------------------
(* Two nodes, so that a switch has an old and a new route, three starts or *)
(* switches, and failures or crashes in any command.                       *)
EXTENDS TunRoutes
===============================================================================
