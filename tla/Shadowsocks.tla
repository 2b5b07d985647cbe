---------------------------- MODULE Shadowsocks ----------------------------
(***************************************************************************)
(* ShadowedStream of ss.rs: a salt, then chunks of a sealed length and a   *)
(* sealed payload, each seal with the next nonce.  A sealed item is its    *)
(* plain tokens and <<"tag", nonce>>; opening compares the nonce.          *)
(***************************************************************************)
EXTENDS Stream

Salt == <<<<"salt", 1>>, <<"salt", 2>>>>

(* One chunk: the length under nonce k, the payload under k + 1.  On the way a
   chunk may be changed ("forges") or an old one sent again ("replays"). *)
SsChunk(payload, k) ==
    <<<<"len", Len(payload)>>, <<"tag", k>>>> \o payload \o <<<<"tag", k + 1>>>>

SsReader == [st |-> "salt", buf |-> <<>>, n |-> 0, nonce |-> 0]
SsWriter == [st |-> "salt", buf |-> <<>>, plain |-> 0, nonce |-> 0]

SsForged(chunk) == [chunk EXCEPT ![Len(chunk)] = <<"tag", 99>>]

SsServer ==
    \/ \E n \in 1 .. (MaxBytes - sent) :
         LET chunk == SsChunk(Bytes(sent + 1, sent + n), IF peer = "replays" THEN 0 ELSE 2 * frames)
         IN  Put((IF frames = 0 THEN Salt ELSE <<>>) \o (IF peer = "forges" THEN SsForged(chunk) ELSE chunk), n, srv)
    \/ Close(<<>>)

-----------------------------------------------------------------------------
(* poll_read_exact: read_pos is Len(rd.buf), and stays when the call is
   interrupted by Pending. *)
SsExact(size, ending) == Len(rd.buf) < size /\ Input(size - Len(rd.buf), ending)

SsOpens(size) == Len(rd.buf) = size /\ rd.buf[size] = <<"tag", rd.nonce>>

SsReadSalt ==
    /\ rd.st = "salt"
    /\ \/ SsExact(Len(Salt), "error")
       \/ /\ Len(rd.buf) = Len(Salt)
          /\ Become([rd EXCEPT !.st = "len", !.buf = <<>>])

(* The end of the connection here is an end of file, also in the middle of the
   length. *)
SsReadLength ==
    /\ rd.st = "len"
    /\ \/ SsExact(2, "eof")
       \/ /\ Len(rd.buf) = 2
          /\ IF SsOpens(2)
             THEN Become([rd EXCEPT !.st = "data", !.buf = <<>>, !.n = Val(rd.buf[1]), !.nonce = @ + 1])
             ELSE Finish("error")

SsReadData ==
    /\ rd.st = "data"
    /\ \/ SsExact(rd.n + 1, "error")
       \/ /\ Len(rd.buf) = rd.n + 1
          /\ IF SsOpens(rd.n + 1)
             THEN Become([rd EXCEPT !.st = "pending", !.buf = Take(@, rd.n), !.nonce = @ + 1])
             ELSE Finish("error")

SsReadPending ==
    /\ rd.st = "pending"
    /\ \E take \in 1 .. rd.n :
         Deliver(Take(rd.buf, take),
                 [rd EXCEPT !.st = IF take < rd.n THEN "pending" ELSE "len",
                            !.buf = Drop(@, take), !.n = @ - take])

SsRead == SsReadSalt \/ SsReadLength \/ SsReadData \/ SsReadPending

-----------------------------------------------------------------------------
SsWriteSalt ==
    /\ wr.st = "salt"
    /\ Stage(Salt, [wr EXCEPT !.st = "chunk"])

(* Mutant of SsWriteChunk: the chunk uses up one nonce. *)
SsWriteChunkReuse ==
    /\ wr.st = "chunk"
    /\ Stage(SsChunk(Chunk, wr.nonce),
             [wr EXCEPT !.st = "flush", !.plain = Consume, !.nonce = @ + 1])

(* The chunk is appended to the salt, if that is still there. *)
SsWriteChunk ==
    /\ wr.st = "chunk"
    /\ Stage(SsChunk(Chunk, wr.nonce),
             [wr EXCEPT !.st = "flush", !.plain = Consume, !.nonce = @ + 2])

SsWriteFlush ==
    /\ wr.st = "flush"
    /\ \/ Push
       \/ wr.buf = <<>> /\ Ack(wr.plain, [wr EXCEPT !.st = "chunk"])

SsWrite == offer > 0 /\ (SsWriteSalt \/ SsWriteChunk \/ SsWriteFlush)
=============================================================================
