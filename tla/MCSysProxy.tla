------------------------------ MODULE MCSysProxy ------------------------------
(* The system proxy with one foreign server and at most one task; the bounds   *)
(* are in the configs.                                                         *)
EXTENDS SysProxy
===============================================================================
