------------------------------ MODULE Reality ------------------------------
(***************************************************************************)
(* The REALITY client of reality/: the TLS record layer (record.rs), the   *)
(* handshake (handshake.rs) and the stream (stream.rs).                    *)
(*                                                                         *)
(* A record is <<"rec", [ty, n]>> and n tokens.  A protected one has the   *)
(* outer type "app" and ends with <<"tag", [key, seq, ty]>>, its key, its  *)
(* sequence number and its real type.  A handshake message is a header and *)
(* a body token; records may split messages anywhere.                      *)
(***************************************************************************)
EXTENDS Stream

MaxFlight == 5          \* messages of the server before its Finished (8 in the code)

Plain(ty, body) == <<<<"rec", [ty |-> ty, n |-> Len(body)]>>>> \o body
Protected(key, seq, ty, body) == Plain("app", Append(body, <<"tag", [key |-> key, seq |-> seq, ty |-> ty]>>))

Message(m, body) == <<<<"hs", m>>, <<"body", body>>>>

RlReader == [st |-> "hello", buf |-> <<>>, key |-> "none", seq |-> 0, hs |-> <<>>, tr |-> <<>>,
             flight |-> 0, leaf |-> "none", left |-> <<>>, pend |-> <<>>, empty |-> 0]
RlWriter == [st |-> "idle", buf |-> <<>>, plain |-> 0, seq |-> 0]

-----------------------------------------------------------------------------
(* The server: a REALITY server ("yes", or "update" if it asks for new keys
   later, or its records are changed on the way, "forges"), the real site behind it ("site"), one without the private key
   ("impostor"), and servers that break the protocol. *)
ServerFlight ==
    CASE peer = "endless" -> [i \in 1 .. 2 * (MaxFlight + 1) |-> IF i % 2 = 1 THEN <<"hs", "ee">> ELSE <<"body", 0>>]
      [] peer = "certreq" -> Message("ee", 0) \o Message("certreq", 0)
      [] peer = "nocert" -> Message("ee", 0) \o Message("fin", <<"ch", "sh", "ee">>)
      [] OTHER -> Message("ee", 0) \o Message("cert", IF peer = "site" THEN "ordinary" ELSE "bound") \o Message("cv", 0)
                  \o Message("fin", IF peer = "impostor" THEN <<>> ELSE <<"ch", "sh", "ee", "cert", "cv">>)

(* How many tokens of its flight the server puts into one record. *)
Packings == IF peer = "yes" THEN {3, 99} ELSE {99}
RlServerInit == [st |-> "hello", at |-> 0, pack |-> 0, seq |-> 0]

RlServerHello ==
    /\ srv.st = "hello"
    /\ \E p \in Packings :
         IF peer = "alert"
         THEN Say(Plain("alert", <<<<"desc", 40>>>>), [srv EXCEPT !.st = "done"])
         ELSE Say(Plain("hs", Message("sh", 0) \o (IF peer = "early" THEN <<<<"hs", "ee">>>> ELSE <<>>))
                  \o Plain("ccs", <<<<"one", 1>>>>),
                  [srv EXCEPT !.st = "flight", !.pack = p])

RlServerFlight ==
    /\ srv.st = "flight"
    /\ LET to == Least(srv.at + srv.pack, Len(ServerFlight))
           last == to = Len(ServerFlight)
       IN  Say(Protected("hs", srv.seq, "hs", SubSeq(ServerFlight, srv.at + 1, to)),
               [srv EXCEPT !.st = IF last THEN "app" ELSE "flight", !.at = to, !.seq = IF last THEN 0 ELSE @ + 1])

(* Application data right behind the flight, tickets, empty records, the end. *)
RlServerApp ==
    LET next == [srv EXCEPT !.seq = @ + 1] IN
    /\ srv.st = "app"
    /\ \/ peer = "yes"
       \/ peer \in {"update", "site", "forges"} /\ frames = 0
    /\ \/ peer # "forges" /\ \E n \in 0 .. (MaxBytes - sent) : Put(Protected("ap", srv.seq, "app", Bytes(sent + 1, sent + n)), n, next)
       \/ Put(Protected("ap", srv.seq, "hs", <<<<"hs", "ticket">>>>), 0, next)
       \/ peer = "forges" /\ Put(Protected("other", srv.seq, "app", Bytes(sent + 1, sent + 1)), 1, next)
       \/ peer = "update" /\ Put(Protected("ap", srv.seq, "hs", <<<<"hs", "update">>>>), 0, next)
       \/ Close(Protected("ap", srv.seq, "alert", <<<<"desc", 0>>>>))
       \/ Close(<<>>)

RlServer == RlServerHello \/ RlServerFlight \/ RlServerApp

-----------------------------------------------------------------------------
(* try_read_buffered: the first record, if all of it is there; opened with the
   current key and sequence number, except a ChangeCipherSpec. *)
RecLen == Val(rd.buf[1]).n
RecWhole == rd.buf # <<>> /\ Len(rd.buf) > RecLen
RecBody == SubSeq(rd.buf, 2, 1 + RecLen)
RecClear == rd.key = "none" \/ Val(rd.buf[1]).ty = "ccs"
RecTag == Val(Last(RecBody))
RecOpens == RecClear \/ (RecTag.key = rd.key /\ RecTag.seq = rd.seq)
RecType == IF RecClear THEN Val(rd.buf[1]).ty ELSE RecTag.ty
RecPayload == IF RecClear THEN RecBody ELSE Front(RecBody)

(* The reader once the record is taken from the inbound buffer. *)
RecTaken == [rd EXCEPT !.buf = Drop(@, 1 + RecLen), !.seq = IF RecClear THEN @ ELSE @ + 1]

(* poll_read_record: one read of the transport.  If the record is still not
   complete the poll is Pending, but no waker is registered below: the task is
   woken at once. *)
RlReadMore(ending) ==
    /\ ~RecWhole
    /\ \/ /\ wire # <<>>
          /\ rd' = [rd EXCEPT !.buf = @ \o wire]
          /\ wire' = <<>>
          /\ task' = "ready"
          /\ UNCHANGED <<got, out>>
       \/ Pend
       \/ AtEof(ending)

-----------------------------------------------------------------------------
(* HandshakeReader::next: records until a message is complete. *)
HsComplete == Len(rd.hs) >= 2

RlHandshakeRecord ==
    /\ rd.st \in {"hello", "flight"}
    /\ ~HsComplete
    /\ \/ Input(Len(wire), "error") /\ ~RecWhole
       \/ /\ RecWhole
          /\ IF ~RecOpens THEN Finish("error") ELSE
             CASE RecType = "alert" -> Finish("error")
               [] RecType = "ccs" -> Become(RecTaken)
               [] RecType = "app" -> IF rd.key = "none"
                                     THEN Finish("error")
                                     ELSE Become([RecTaken EXCEPT !.left = @ \o RecPayload])
               [] RecType = "hs" -> IF RecPayload = <<>>
                                    THEN Finish("error")
                                    ELSE Become([RecTaken EXCEPT !.hs = @ \o RecPayload])

(* The ServerHello; nothing unprotected may follow it.  From here on the
   handshake key of the server opens the records. *)
RlHandshakeHello ==
    /\ rd.st = "hello"
    /\ HsComplete
    /\ IF rd.hs[1] = <<"hs", "sh">> /\ Len(rd.hs) = 2
       THEN Become([rd EXCEPT !.st = "flight", !.hs = <<>>, !.key = "hs", !.seq = 0, !.tr = <<"ch", "sh">>])
       ELSE Finish("error")

(* A message of the server's flight.  Its Finished must match the transcript,
   its certificate must be bound to our shared secret; then both directions
   change to the application keys. *)
RlHandshakeMessage ==
    /\ rd.st = "flight"
    /\ HsComplete
    /\ LET m == Val(rd.hs[1])
           body == Val(rd.hs[2])
           heard == [rd EXCEPT !.hs = Drop(@, 2), !.flight = @ + 1, !.tr = Append(@, m)]
       IN  IF rd.flight = MaxFlight THEN Finish("error") ELSE
           CASE m \in {"ee", "cv"} -> Become(heard)
             [] m = "cert" -> Become([heard EXCEPT !.leaf = body])
             [] m = "fin" /\ body = rd.tr /\ rd.leaf = "bound" ->
                  Become([heard EXCEPT !.st = "app", !.key = "ap", !.seq = 0, !.pend = rd.left])
             [] OTHER -> Finish("error")

RlHandshake == RlHandshakeRecord \/ RlHandshakeHello \/ RlHandshakeMessage

-----------------------------------------------------------------------------
RlReadPending ==
    /\ rd.st = "app"
    /\ \E n \in 1 .. Len(rd.pend) : Deliver(Take(rd.pend, n), [rd EXCEPT !.pend = Drop(@, n)])

(* count_empty: records without application data in a row. *)
CountEmpty(r) == IF rd.empty < MaxEmpty THEN Become([r EXCEPT !.empty = @ + 1]) ELSE Finish("error")

(* poll_fill: application data, or a record that carries none.  The end of the
   connection is an end of the file, inside a record too. *)
RlReadRecord ==
    /\ rd.st = "app"
    /\ rd.pend = <<>>
    /\ \/ RlReadMore("eof")
       \/ /\ RecWhole
          /\ IF ~RecOpens THEN Finish("error") ELSE
             CASE RecType = "app" -> IF RecPayload = <<>>
                                     THEN CountEmpty(RecTaken)
                                     ELSE Become([RecTaken EXCEPT !.pend = RecPayload, !.empty = 0])
               [] RecType = "ccs" -> CountEmpty(RecTaken)
               [] RecType = "hs" -> IF RecPayload \in {<<>>, <<<<"hs", "ticket">>>>}
                                    THEN CountEmpty(RecTaken)
                                    ELSE Finish("error")
               [] RecType = "alert" -> Finish(IF RecPayload = <<<<"desc", 0>>>> THEN "eof" ELSE "error")

RlRead == RlHandshake \/ RlReadPending \/ RlReadRecord

-----------------------------------------------------------------------------
(* poll_write_app: a record that is out already, by a flush, is acknowledged
   first; else a new one is staged. *)
RlWriteApp ==
    /\ offer > 0
    /\ \/ /\ wr.st = "staged"
          /\ wr.buf = <<>>
          /\ Ack(wr.plain, [wr EXCEPT !.st = "idle", !.plain = 0])
       \/ /\ wr.st = "idle"
          /\ Stage(<<<<"len", Consume>>>> \o Chunk \o <<<<"tag", wr.seq>>>>,
                   [wr EXCEPT !.st = "staged", !.plain = Consume, !.seq = @ + 1])

(* poll_write_app and poll_flush_app hand the staged record to the transport. *)
RlFlushApp == wr.st = "staged" /\ Push

RlWrite == RlWriteApp \/ RlFlushApp
=============================================================================
