-------------------------------- MODULE Obfs --------------------------------
(***************************************************************************)
(* The simple-obfs streams of obfs.rs.  HttpObfsStream wraps the first     *)
(* buffer of each direction in an HTTP message and is transparent after    *)
(* it; TlsObfsStream looks like a TLS session, a hello and then records.   *)
(***************************************************************************)
EXTENDS Stream

HoReader == [st |-> "header", buf |-> <<>>]
HoWriter == [st |-> "first", buf |-> <<>>]

HoServer ==
    \/ srv = 0 /\ Say(HttpHead, 1)
    \/ /\ srv = 1
       /\ peer # "long"
       /\ \/ \E n \in 1 .. (MaxBytes - sent) : Put(Bytes(sent + 1, sent + n), n, 1)
          \/ Close(<<>>)

(* The length is checked before each read, the end of the header after it. *)
HoReadHeader ==
    /\ rd.st = "header"
    /\ IF "eoh" \in Tags(rd.buf)
       THEN Become([rd EXCEPT !.st = "leftover", !.buf = Drop(@, HeadEnd(@))])
       ELSE IF Len(rd.buf) > MaxHead THEN Finish("error") ELSE Input(MaxHead, "error")

(* Bytes that came with the header. *)
HoReadLeftover ==
    /\ rd.st = "leftover"
    /\ \/ rd.buf = <<>> /\ Become([rd EXCEPT !.st = "transfer"])
       \/ \E n \in 1 .. Len(rd.buf) :
            Deliver(Take(rd.buf, n),
                    [rd EXCEPT !.st = IF n = Len(rd.buf) THEN "transfer" ELSE "leftover", !.buf = Drop(@, n)])

HoRead == HoReadHeader \/ HoReadLeftover \/ (rd.st = "transfer" /\ PassThrough)

HoWriteFirst ==
    /\ wr.st = "first"
    /\ Stage(<<<<"req", 0>>, <<"len", offer>>>> \o Offered, [wr EXCEPT !.st = "flush"])

HoWriteFlush ==
    /\ wr.st = "flush"
    /\ \/ Push
       \/ wr.buf = <<>> /\ Ack(offer, [wr EXCEPT !.st = "transfer"])

HoWrite ==
    /\ offer > 0
    /\ \/ HoWriteFirst
       \/ HoWriteFlush
       \/ wr.st = "transfer" /\ PassWrite(offer, LAMBDA n : wr)

-----------------------------------------------------------------------------
(* The server hello is skipped by its length, not parsed. *)
ServerHello == <<<<"hello", 1>>, <<"hello", 2>>, <<"hello", 3>>>>
RecordHeader(n) == <<<<"rec", 0>>, <<"len", n>>>>

ToReader == [st |-> "skip", buf |-> <<>>, left |-> Len(ServerHello)]
ToWriter == [st |-> "hello", buf |-> <<>>, left |-> 0]

ToServer ==
    \/ \E n \in 1 .. (MaxBytes - sent) :
         Put((IF frames = 0 THEN ServerHello ELSE <<>>) \o RecordHeader(n) \o Bytes(sent + 1, sent + n), n, srv)
    \/ Close(<<>>)

ToReadSkip ==
    /\ rd.st = "skip"
    /\ IF rd.left > 0
       THEN \/ \E n \in 1 .. Least(rd.left, Len(wire)) :
                 /\ wire' = Drop(wire, n)
                 /\ rd' = [rd EXCEPT !.left = @ - n]
                 /\ UNCHANGED <<got, out, task>>
            \/ Pend
            \/ AtEof("error")
       ELSE Become([rd EXCEPT !.st = "hdr"])

ToReadHdr ==
    /\ rd.st = "hdr"
    /\ IF Len(rd.buf) < 2
       THEN Input(2 - Len(rd.buf), "error")
       ELSE Become([rd EXCEPT !.st = "body", !.left = Val(rd.buf[2]), !.buf = <<>>])

(* The body goes straight into the caller's buffer. *)
ToReadBody ==
    /\ rd.st = "body"
    /\ \/ \E n \in 1 .. Least(rd.left, Len(wire)) :
            /\ got' = got \o Take(wire, n)
            /\ wire' = Drop(wire, n)
            /\ rd' = [rd EXCEPT !.left = @ - n, !.st = IF n = rd.left THEN "hdr" ELSE "body"]
            /\ UNCHANGED <<out, task>>
       \/ Pend
       \/ AtEof("error")

ToRead == ToReadSkip \/ ToReadHdr \/ ToReadBody

(* The first buffer travels as the session ticket of the client hello. *)
ToWriteHello ==
    /\ wr.st = "hello"
    /\ Stage(<<<<"req", 0>>, <<"len", Consume>>>> \o Chunk, [wr EXCEPT !.st = "flush"])

ToWriteFlush ==
    /\ wr.st = "flush"
    /\ \/ Push
       \/ wr.buf = <<>> /\ Ack(Consume, [wr EXCEPT !.st = "body"])

ToWriteRecHdr ==
    \/ wr.st = "body" /\ wr.left = 0 /\ Stage(RecordHeader(Consume), [wr EXCEPT !.st = "hdr", !.left = Consume])
    \/ /\ wr.st = "hdr"
       /\ IF wr.buf # <<>> THEN Push ELSE Stage(<<>>, [wr EXCEPT !.st = "body"])

(* Each write of the body is acknowledged on its own; the record stays open
   over several calls of poll_write. *)
ToWriteRecBody ==
    /\ wr.st = "body"
    /\ wr.left > 0
    /\ PassWrite(wr.left, LAMBDA n : [wr EXCEPT !.left = @ - n])

ToWrite == offer > 0 /\ (ToWriteHello \/ ToWriteFlush \/ ToWriteRecHdr \/ ToWriteRecBody)
=============================================================================
