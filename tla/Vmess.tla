------------------------------- MODULE Vmess -------------------------------
(***************************************************************************)
(* VmessAuthStream of vmess/stream.rs: a response header, then chunks of a *)
(* masked size, a sealed payload and padding.  Both ends draw from the     *)
(* same SHAKE stream, first the padding and then the mask of each chunk,   *)
(* and stay together only if they draw equally often.  The stream ends     *)
(* with an empty chunk; without it every end of the connection is an error.*)
(* Kind "vmess" has the sealed (AEAD) header, "vmess0" the legacy one.     *)
(***************************************************************************)
EXTENDS Stream

(* The SHAKE stream, the padding and the masked size it gives. *)
Shake(d) == (d * d + 1) % 5
Padding(d) == Shake(d) % 2
SizeSpace == 16
Mask(n, d) == (n + Shake(d)) % SizeSpace
Unmask(v, d) == (v + SizeSpace - Shake(d)) % SizeSpace

(* Draws 2c and 2c + 1 are the ones of chunk c, whose nonce is c. *)
VmChunk(payload, c) ==
    LET pad == Padding(2 * c)
    IN  <<<<"size", Mask(Len(payload) + 1 + pad, 2 * c + 1)>>>>
        \o payload \o <<<<"tag", IF peer = "forges" THEN 99 ELSE c>>>> \o [i \in 1 .. pad |-> <<"pad", 0>>]

(* The response header: sealed length and sealed content, or plain. *)
VmHeader ==
    IF kind = "vmess"
    THEN <<<<"hlen", 1>>, <<"tag", "hlen">>, <<"hdr", peer # "no">>, <<"tag", "hdr">>>>
    ELSE <<<<"hdr", peer # "no">>, <<"opt", 0>>>>

VmReader == [st |-> "header", part |-> 1, buf |-> <<>>, n |-> 0, pad |-> 0, draws |-> 0, nonce |-> 0]
VmWriter == [st |-> "chunk", buf |-> <<>>, plain |-> 0, draws |-> 0, nonce |-> 0]

VmServer ==
    LET header == IF srv = 0 THEN VmHeader ELSE <<>>
    IN  \/ \E n \in 1 .. (MaxBytes - sent) :
             Put(header \o VmChunk(Bytes(sent + 1, sent + n), frames), n, 1)
        \/ Close(header \o VmChunk(<<>>, frames))

-----------------------------------------------------------------------------
VmExact(size) == Len(rd.buf) < size /\ Input(size - Len(rd.buf), "error")

VmHeaderChecked(hdr) ==
    IF hdr = <<"hdr", TRUE>>
    THEN Become([rd EXCEPT !.st = "length", !.buf = <<>>])
    ELSE Finish("error")

VmReadLegacyHeader ==
    /\ kind = "vmess0"
    /\ rd.st = "header"
    /\ \/ VmExact(2)
       \/ Len(rd.buf) = 2 /\ VmHeaderChecked(rd.buf[1])

(* The sealed length: opened with the key of the length, whatever has been read. *)
VmReadHeaderLength ==
    /\ kind = "vmess"
    /\ rd.st = "header"
    /\ rd.part = 1
    /\ \/ VmExact(2)
       \/ /\ Len(rd.buf) = 2
          /\ IF rd.buf[2] = <<"tag", "hlen">>
             THEN Become([rd EXCEPT !.part = 2, !.buf = <<>>])
             ELSE Finish("error")

(* The sealed header, in the same poll.  Pending leaves the state Header: the
   next poll reads a length again, into the place read_pos has reached. *)
VmReadHeaderContent ==
    /\ kind = "vmess"
    /\ rd.st = "header"
    /\ rd.part = 2
    /\ \/ Len(rd.buf) < 2 /\ (Pull(2 - Len(rd.buf)) \/ AtEof("error"))
       \/ /\ Len(rd.buf) < 2
          /\ wire = <<>>
          /\ ~fin
          /\ task' = "waiting"
          /\ rd' = [rd EXCEPT !.part = 1]
          /\ UNCHANGED <<wire, got, out>>
       \/ Len(rd.buf) = 2 /\ VmHeaderChecked(rd.buf[1])

(* Padding and mask are drawn once the size is there, never on Pending. *)
VmReadLength ==
    /\ rd.st = "length"
    /\ \/ VmExact(1)
       \/ /\ Len(rd.buf) = 1
          /\ Become([rd EXCEPT !.st = "data", !.buf = <<>>, !.draws = @ + 2,
                               !.pad = Padding(rd.draws), !.n = Unmask(Val(rd.buf[1]), rd.draws + 1)])

VmReadData ==
    LET sealed == IF rd.n > rd.pad THEN rd.n - rd.pad ELSE 0 IN
    /\ rd.st = "data"
    /\ \/ VmExact(rd.n)
       \/ /\ Len(rd.buf) = rd.n
          /\ IF sealed > 0 /\ rd.buf[sealed] = <<"tag", rd.nonce>>
             THEN Become([rd EXCEPT !.st = "pending", !.buf = Take(@, sealed - 1), !.nonce = @ + 1])
             ELSE Finish("error")

(* An empty chunk is given to the caller as it is: the end of the file. *)
VmReadPending ==
    /\ rd.st = "pending"
    /\ \/ rd.buf = <<>> /\ Finish("eof")
       \/ \E take \in 1 .. Len(rd.buf) :
            Deliver(Take(rd.buf, take),
                    [rd EXCEPT !.st = IF take < Len(rd.buf) THEN "pending" ELSE "length", !.buf = Drop(@, take)])

VmRead ==
    \/ VmReadLegacyHeader
    \/ VmReadHeaderLength
    \/ VmReadHeaderContent
    \/ VmReadLength
    \/ VmReadData
    \/ VmReadPending

-----------------------------------------------------------------------------
VmWriteChunk ==
    /\ wr.st = "chunk"
    /\ LET pad == Padding(wr.draws)
           size == Mask(Consume + 1 + pad, wr.draws + 1)
       IN  Stage(<<<<"size", size>>>> \o Chunk \o <<<<"tag", wr.nonce>>>> \o [i \in 1 .. pad |-> <<"pad", 0>>],
                 [wr EXCEPT !.st = "flush", !.plain = Consume, !.draws = @ + 2, !.nonce = @ + 1])

VmWriteFlush ==
    /\ wr.st = "flush"
    /\ \/ Push
       \/ wr.buf = <<>> /\ Ack(wr.plain, [wr EXCEPT !.st = "chunk"])

VmWrite == offer > 0 /\ (VmWriteChunk \/ VmWriteFlush)
=============================================================================
