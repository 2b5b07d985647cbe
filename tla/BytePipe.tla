------------------------------ MODULE BytePipe ------------------------------
(***************************************************************************)
(* What every proxy stream of clash-proxynet promises to whoever reads it: *)
(* the bytes the server's application sent, in order, none lost and none   *)
(* twice, from a server that passed the handshake, and an end of file that *)
(* is the truth.  A stream may fail at any time.  The variable blind says  *)
(* whether the protocol can tell a cut connection from an ended one: a     *)
(* blind stream may report a cut as an end of file.                        *)
(***************************************************************************)
EXTENDS Naturals, Sequences

CONSTANT MaxBytes       \* bytes the server sends at most

VARIABLES blind,        \* the protocol does not detect a cut
          trusted,      \* the server goes along with the handshake
          sent,         \* number of bytes the server's application has sent
          got,          \* bytes the reader has been given
          ended,        \* "no", "closed" or "cut"
          state         \* of the reader: "open", "eof" or "error"

vars == <<blind, trusted, sent, got, ended, state>>

Byte(i) == <<"b", i>>

Init ==
    /\ blind \in BOOLEAN
    /\ trusted \in BOOLEAN
    /\ sent = 0
    /\ got = <<>>
    /\ ended = "no"
    /\ state = "open"

Send ==
    /\ ended = "no"
    /\ sent' \in (sent + 1) .. MaxBytes
    /\ UNCHANGED <<blind, trusted, got, ended, state>>

(* A server that has closed may still lose what is under way. *)
End ==
    /\ \/ ended = "no" /\ ended' \in {"closed", "cut"}
       \/ ended = "closed" /\ ended' = "cut"
    /\ UNCHANGED <<blind, trusted, sent, got, state>>

Read ==
    /\ state = "open"
    /\ trusted
    /\ \E n \in (Len(got) + 1) .. sent : got' = [i \in 1 .. n |-> Byte(i)]
    /\ UNCHANGED <<blind, trusted, sent, ended, state>>

Eof ==
    /\ state = "open"
    /\ trusted
    /\ \/ ended # "no" /\ Len(got) = sent
       \/ ended = "cut" /\ blind
    /\ state' = "eof"
    /\ UNCHANGED <<blind, trusted, sent, got, ended>>

Fail ==
    /\ state = "open"
    /\ state' = "error"
    /\ UNCHANGED <<blind, trusted, sent, got, ended>>

Next == Send \/ End \/ Read \/ Eof \/ Fail

Spec == Init /\ [][Next]_vars
=============================================================================
