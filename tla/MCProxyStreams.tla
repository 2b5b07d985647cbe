--------------------------- MODULE MCProxyStreams ---------------------------
(* Instance of ProxyStreams for TLC. *)
EXTENDS ProxyStreams
=============================================================================
