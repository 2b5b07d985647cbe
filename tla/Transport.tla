----------------------------- MODULE Transport -----------------------------
(***************************************************************************)
(* The transports of transport.rs: the HTTP upgrade handshake, the stream  *)
(* that first gives out what came with the answer (PrefixedStream), and    *)
(* the WebSocket frames.  Kind "upgrade" is httpupgrade, "ws" WebSocket.   *)
(***************************************************************************)
EXTENDS Stream

(* A frame of the server: opcode and length, then the payload. *)
WsFrame(op, payload) == <<<<"op", [op |-> op, n |-> Len(payload)]>>>> \o payload

UpReader == [st |-> "upgrade", buf |-> <<>>, rx |-> <<>>, decoded |-> <<>>, empty |-> 0]
WsWriter == [st |-> "idle", buf |-> <<>>, plain |-> 0]

UpServer ==
    \/ srv = 0 /\ Say(HttpHead, 1)
    \/ /\ kind = "upgrade"
       /\ srv = 1
       /\ peer # "long"
       /\ \/ \E n \in 1 .. (MaxBytes - sent) : Put(Bytes(sent + 1, sent + n), n, 1)
          \/ Close(<<>>)

(* Data frames, empty ones too, a ping, a close frame or a plain close. *)
WsServer ==
    \/ UpServer
    \/ /\ kind = "ws"
       /\ srv \in {1, 2}
       /\ peer # "long"
       /\ \/ \E n \in 0 .. (MaxBytes - sent) : Put(WsFrame("data", Bytes(sent + 1, sent + n)), n, srv)
          \/ srv = 1 /\ Say(WsFrame("ping", <<<<"ping", 0>>>>), 2)
          \/ Close(WsFrame("close", <<>>))
          \/ Close(<<>>)

-----------------------------------------------------------------------------
(* http_upgrade: read until the end of the header, check status (and, for
   WebSocket, the accept key), keep the rest. *)
UpRead ==
    /\ rd.st = "upgrade"
    /\ IF "eoh" \in Tags(rd.buf)
       THEN IF rd.buf[1] = <<"http", TRUE>>
            THEN Become([rd EXCEPT !.st = "open", !.buf = Drop(@, HeadEnd(@))])
            ELSE Finish("error")
       ELSE IF Len(rd.buf) > MaxHead THEN Finish("error") ELSE Input(Len(wire), "error")

(* PrefixedStream: the rest first, then the stream below. *)
PrefixedRead ==
    /\ kind = "upgrade"
    /\ rd.st = "open"
    /\ IF rd.buf # <<>>
       THEN \E n \in 1 .. Len(rd.buf) : Deliver(Take(rd.buf, n), [rd EXCEPT !.buf = Drop(@, n)])
       ELSE PassThrough

-----------------------------------------------------------------------------
(* parse_ws_frame: the header and all of the payload must be there. *)
WsLen == Val(rd.rx[1]).n
WsWhole == rd.rx # <<>> /\ Len(rd.rx) > WsLen

WsReadDecoded ==
    /\ rd.decoded # <<>>
    /\ \E n \in 1 .. Len(rd.decoded) : Deliver(Take(rd.decoded, n), [rd EXCEPT !.decoded = Drop(@, n)])

(* Mutant of WsReadFrame: a data frame does not reset the count of empty ones. *)
WsReadFrameNoReset ==
    /\ rd.decoded = <<>>
    /\ WsWhole
    /\ LET op == Val(rd.rx[1]).op
           payload == SubSeq(rd.rx, 2, 1 + WsLen)
           rest == [rd EXCEPT !.rx = Drop(@, 1 + WsLen)]
       IN  IF op = "close" THEN Finish("eof")
           ELSE IF op = "ping" THEN Become(rest)
           ELSE IF payload # <<>> THEN Become([rest EXCEPT !.decoded = payload])
           ELSE IF rd.empty < MaxEmpty THEN Become([rest EXCEPT !.empty = @ + 1])
           ELSE Finish("error")

(* A close frame is the end of the file; pings are skipped; too many empty
   frames in a row are an error. *)
WsReadFrame ==
    /\ rd.decoded = <<>>
    /\ WsWhole
    /\ LET op == Val(rd.rx[1]).op
           payload == SubSeq(rd.rx, 2, 1 + WsLen)
           rest == [rd EXCEPT !.rx = Drop(@, 1 + WsLen)]
       IN  IF op = "close" THEN Finish("eof")
           ELSE IF op = "ping" THEN Become(rest)
           ELSE IF payload # <<>> THEN Become([rest EXCEPT !.decoded = payload, !.empty = 0])
           ELSE IF rd.empty < MaxEmpty THEN Become([rest EXCEPT !.empty = @ + 1])
           ELSE Finish("error")

(* More input, what came with the answer first.  An end of the connection is an
   end of the file, inside a frame too. *)
WsReadMore ==
    /\ rd.decoded = <<>>
    /\ ~WsWhole
    /\ IF rd.buf # <<>>
       THEN Become([rd EXCEPT !.rx = @ \o rd.buf, !.buf = <<>>])
       ELSE \/ /\ wire # <<>>
               /\ rd' = [rd EXCEPT !.rx = @ \o wire]
               /\ wire' = <<>>
               /\ UNCHANGED <<got, out, task>>
            \/ Pend
            \/ AtEof("eof")

WsRead ==
    /\ kind = "ws"
    /\ rd.st = "open"
    /\ WsReadDecoded \/ WsReadFrame \/ WsReadMore

-----------------------------------------------------------------------------
(* The frame is encoded once; the count returned is the one of the buffer it
   was encoded from. *)
WsWriteStage ==
    /\ wr.st = "idle"
    /\ Stage(<<<<"len", offer>>, <<"mask", 0>>>> \o Offered, [wr EXCEPT !.st = "flush", !.plain = offer])

WsWriteFlush ==
    /\ wr.st = "flush"
    /\ \/ Push
       \/ wr.buf = <<>> /\ Ack(wr.plain, [wr EXCEPT !.st = "idle", !.plain = 0])

WsWrite == offer > 0 /\ (WsWriteStage \/ WsWriteFlush)
=============================================================================
