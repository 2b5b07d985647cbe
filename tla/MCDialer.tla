------------------------------ MODULE MCDialer ------------------------------
(* Instance of Dialer for TLC: no address, one, and races of two and of more
   addresses than are tried. *)
EXTENDS Dialer

Lists == {<<>>, <<"v4">>, <<"v6", "v4">>, <<"v6", "v6", "v4">>}
=============================================================================
