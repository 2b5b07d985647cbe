---------------------------- MODULE MCModeControl ----------------------------
(* Mode control with two spawned futures at a time; bounds in the configs.    *)
EXTENDS ModeControl
===============================================================================
