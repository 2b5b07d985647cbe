--------------------------- MODULE MCProfileStore ---------------------------
(* Instance of ProfileStore for TLC: two URLs with one content in common, which
   is also that of a local file. *)
EXTENDS ProfileStore

ServesDef == [u \in Urls |-> IF u = "u1" THEN {"shared", "c1"} ELSE {"shared", "c2"}]
=============================================================================
