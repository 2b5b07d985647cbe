----------------------------- MODULE ProxyDial -----------------------------
(***************************************************************************)
(* The dialogues of socks.rs and http_connect.rs.  Both read exactly their *)
(* answers from the connection and return it as it is, so one byte too     *)
(* many or too few shifts the tunnel.                                      *)
(*                                                                         *)
(* A SOCKS server ("yes") takes no authentication, "auth" asks for the     *)
(* password we have, "asks" for one we do not have; "denies" refuses the   *)
(* password, "method" has no method for us, "refuses" fails the connect.   *)
(***************************************************************************)
EXTENDS Stream

HasUser == peer \in {"auth", "denies"}

SoReader == [st |-> "select", buf |-> <<>>, asked |-> 1, rest |-> 0]
HcReader == [st |-> "head", buf |-> <<>>]

(* The server answers a request once it has been sent. *)
Answered(k) == srv = k - 1 /\ rd.asked >= k

SoMethod == CASE peer \in {"auth", "asks", "denies"} -> 2 [] peer = "method" -> 255 [] OTHER -> 0

(* The address the answer ends with: its type and what belongs to the type. *)
BoundAddresses == {<<<<"atyp", 1>>, <<"a", 1>>, <<"port", 0>>>>,
                   <<<<"atyp", 3>>, <<"alen", 1>>, <<"a", 1>>, <<"port", 0>>>>,
                   <<<<"atyp", 4>>, <<"a", 1>>, <<"a", 2>>, <<"port", 0>>>>}

SoServer ==
    \/ Answered(1) /\ Say(<<<<"ver", 5>>, <<"method", SoMethod>>>>, IF HasUser THEN 1 ELSE 2)
    \/ Answered(2) /\ HasUser /\ Say(<<<<"ver", 1>>, <<"status", peer = "auth">>>>, 2)
    \/ /\ Answered(3)
       /\ \E bound \in BoundAddresses : Say(<<<<"ver", 5>>, <<"reply", peer # "refuses">>>> \o bound, 3)
    \/ /\ srv = 3
       /\ \/ \E n \in 1 .. (MaxBytes - sent) : Put(Bytes(sent + 1, sent + n), n, 3)
          \/ Close(<<>>)

-----------------------------------------------------------------------------
SoExact(size) == Len(rd.buf) < size /\ Input(size - Len(rd.buf), "error")

(* The method the server selects: none, the password (only if we have one), or
   nothing we know. *)
SoReadSelect ==
    /\ rd.st = "select"
    /\ \/ SoExact(2)
       \/ /\ Len(rd.buf) = 2
          /\ CASE rd.buf[2] = <<"method", 0>> -> Become([rd EXCEPT !.st = "reply", !.buf = <<>>, !.asked = 3])
               [] rd.buf[2] = <<"method", 2>> /\ HasUser -> Become([rd EXCEPT !.st = "auth", !.buf = <<>>, !.asked = 2])
               [] OTHER -> Finish("error")

SoReadAuth ==
    /\ rd.st = "auth"
    /\ \/ SoExact(2)
       \/ /\ Len(rd.buf) = 2
          /\ IF Val(rd.buf[2])
             THEN Become([rd EXCEPT !.st = "reply", !.buf = <<>>, !.asked = 3])
             ELSE Finish("error")

(* Version, reply and address type; what is left depends on the type. *)
SoReadReply ==
    /\ rd.st = "reply"
    /\ \/ SoExact(3)
       \/ /\ Len(rd.buf) = 3
          /\ IF Val(rd.buf[2])
             THEN Become([rd EXCEPT !.st = IF rd.buf[3] = <<"atyp", 3>> THEN "length" ELSE "bound", !.buf = <<>>,
                                    !.rest = IF rd.buf[3] = <<"atyp", 1>> THEN 2 ELSE 3])
             ELSE Finish("error")

SoReadLength ==
    /\ rd.st = "length"
    /\ \/ SoExact(1)
       \/ Len(rd.buf) = 1 /\ Become([rd EXCEPT !.st = "bound", !.buf = <<>>, !.rest = Val(rd.buf[1]) + 1])

SoReadBound ==
    /\ rd.st = "bound"
    /\ \/ SoExact(rd.rest)
       \/ Len(rd.buf) = rd.rest /\ Become([rd EXCEPT !.st = "open", !.buf = <<>>])

SoRead ==
    \/ SoReadSelect
    \/ SoReadAuth
    \/ SoReadReply
    \/ SoReadLength
    \/ SoReadBound
    \/ rd.st = "open" /\ PassThrough

-----------------------------------------------------------------------------
HcServer ==
    \/ srv = 0 /\ Say(HttpHead, 1)
    \/ /\ srv = 1
       /\ peer # "long"
       /\ \/ \E n \in 1 .. (MaxBytes - sent) : Put(Bytes(sent + 1, sent + n), n, 1)
          \/ Close(<<>>)

(* The answer is read byte by byte, so nothing behind it is taken. *)
HcReadHead ==
    /\ rd.st = "head"
    /\ IF "eoh" \in Tags(rd.buf)
       THEN IF rd.buf[1] = <<"http", TRUE>>
            THEN Become([rd EXCEPT !.st = "open", !.buf = <<>>])
            ELSE Finish("error")
       ELSE IF Len(rd.buf) > MaxHead THEN Finish("error") ELSE Input(1, "error")

HcRead == HcReadHead \/ (rd.st = "open" /\ PassThrough)
=============================================================================
