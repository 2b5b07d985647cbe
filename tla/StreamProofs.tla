---------------------------- MODULE StreamProofs ----------------------------
(***************************************************************************)
(* The streams that are transparent behind a handshake, for any number of  *)
(* bytes and any way of cutting them into segments: simple-obfs HTTP,      *)
(* httpupgrade, the SOCKS and the HTTP CONNECT tunnel.  They refine the    *)
(* byte pipe and fail only with a cause.                                   *)
(*                                                                         *)
(* What is on its way to the reader (Rest: held in its buffer, arrived, in *)
(* flight) is a piece of one sequence, the answers h of the server and     *)
(* then the bytes of its application (Expected).  Along(h, p) says that    *)
(* the piece begins behind the first p tokens and, unless the connection   *)
(* was cut, reaches to the end of what was sent.  Each protocol adds what  *)
(* its server has said (HttpSaid, SocksSaid) and where its reader is in it *)
(* (HttpAt, SocksAt): an open reader is at Len(h) + Len(got), so that no   *)
(* byte of a handshake is passed on and none of the application is lost.   *)
(***************************************************************************)
EXTENDS ProxyStreams, SequenceTheorems, TLAPS

-----------------------------------------------------------------------------
(* Sequences, and what is on its way. *)

\* A prefix and what it leaves.
LEMMA TakeDrop ==
  ASSUME NEW S, NEW s \in Seq(S), NEW n \in 0 .. Len(s)
  PROVE  /\ Take(s, n) \in Seq(S) /\ Len(Take(s, n)) = n
         /\ \A i \in 1 .. n : Take(s, n)[i] = s[i]
         /\ Drop(s, n) \in Seq(S) /\ Len(Drop(s, n)) = Len(s) - n
         /\ \A i \in 1 .. Len(s) - n : Drop(s, n)[i] = s[n + i]
<1>1. \A i \in 1 .. n : s[i] \in S
  OBVIOUS
<1>2. \A i \in n + 1 .. Len(s) : s[i] \in S
  OBVIOUS
<1>3. 1 \in Int /\ n \in Int /\ n + 1 \in Int /\ Len(s) \in Int
  OBVIOUS
<1>4. /\ SubSeq(s, 1, n) \in Seq(S)
      /\ Len(SubSeq(s, 1, n)) = IF 1 <= n THEN n - 1 + 1 ELSE 0
      /\ \A i \in 1 .. n - 1 + 1 : SubSeq(s, 1, n)[i] = s[1 + i - 1]
  BY ONLY <1>1, <1>3, SubSeqProperties
<1>5. /\ SubSeq(s, n + 1, Len(s)) \in Seq(S)
      /\ Len(SubSeq(s, n + 1, Len(s))) = IF n + 1 <= Len(s) THEN Len(s) - (n + 1) + 1 ELSE 0
      /\ \A i \in 1 .. Len(s) - (n + 1) + 1 : SubSeq(s, n + 1, Len(s))[i] = s[n + 1 + i - 1]
  BY ONLY <1>2, <1>3, SubSeqProperties
<1>6. \A i \in 1 .. n : i \in 1 .. n - 1 + 1 /\ 1 + i - 1 = i
  BY <1>3
<1>7. \A i \in 1 .. Len(s) - n : i \in 1 .. Len(s) - (n + 1) + 1 /\ n + 1 + i - 1 = n + i
  BY <1>3
<1>8. n = (IF 1 <= n THEN n - 1 + 1 ELSE 0) /\ Len(s) - n = IF n + 1 <= Len(s) THEN Len(s) - (n + 1) + 1 ELSE 0
  BY <1>3
<1> QED
  BY ONLY <1>4, <1>5, <1>6, <1>7, <1>8 DEF Take, Drop

\* Two sequences, one behind the other.
LEMMA CatIs ==
  ASSUME NEW S, NEW s \in Seq(S), NEW t \in Seq(S)
  PROVE  /\ s \o t \in Seq(S) /\ Len(s \o t) = Len(s) + Len(t)
         /\ \A i \in 1 .. Len(s) : (s \o t)[i] = s[i]
         /\ \A i \in 1 .. Len(t) : (s \o t)[Len(s) + i] = t[i]
<1>1. /\ s \o t \in Seq(S) /\ Len(s \o t) = Len(s) + Len(t)
      /\ \A i \in 1 .. Len(s) + Len(t) : (s \o t)[i] = IF i <= Len(s) THEN s[i] ELSE t[i - Len(s)]
  BY ConcatProperties
<1>2. Len(s) \in Nat /\ Len(t) \in Nat
  OBVIOUS
<1>3. \A i \in 1 .. Len(s) : i \in 1 .. Len(s) + Len(t) /\ i <= Len(s)
  BY ONLY <1>2
<1>4. \A i \in 1 .. Len(t) : Len(s) + i \in 1 .. Len(s) + Len(t) /\ ~(Len(s) + i <= Len(s)) /\ Len(s) + i - Len(s) = i
  BY ONLY <1>2
<1>5. \A i \in 1 .. Len(s) : (s \o t)[i] = s[i]
  BY ONLY <1>1, <1>3
<1>6. \A i \in 1 .. Len(t) : (s \o t)[Len(s) + i] = t[i]
  BY ONLY <1>1, <1>4
<1> QED
  BY ONLY <1>1, <1>5, <1>6

\* What is on its way: held by the reader, arrived, in flight.
Ahead == Len(rd.buf) + Len(wire) + Len(flight)
Rest ==
  [i \in 1 .. Ahead |-> IF i <= Len(rd.buf) THEN rd.buf[i]
                        ELSE IF i <= Len(rd.buf) + Len(wire) THEN wire[i - Len(rd.buf)]
                        ELSE flight[i - Len(rd.buf) - Len(wire)]]

\* The tokens of a stream without frames.
Labels == {"http", "h", "eoh", "b", "ver", "method", "status", "reply", "atyp", "alen", "a", "port"}
Values == Nat \cup BOOLEAN
Tokens == Labels \X Values

Typed ==
  /\ "buf" \in DOMAIN rd
  /\ rd.buf \in Seq(Tokens)
  /\ wire \in Seq(Tokens)
  /\ flight \in Seq(Tokens)

\* What Typed says of what is on its way.
LEMMA RestIs ==
  ASSUME Typed
  PROVE  /\ Len(rd.buf) \in Nat /\ Len(wire) \in Nat /\ Len(flight) \in Nat
         /\ Ahead \in Nat /\ Ahead = Len(rd.buf) + Len(wire) + Len(flight)
         /\ \A i \in 1 .. Ahead : Rest[i] = IF i <= Len(rd.buf) THEN rd.buf[i]
                        ELSE IF i <= Len(rd.buf) + Len(wire) THEN wire[i - Len(rd.buf)]
                        ELSE flight[i - Len(rd.buf) - Len(wire)]
<1>1. Len(rd.buf) \in Nat /\ Len(wire) \in Nat /\ Len(flight) \in Nat
  BY DEF Typed
<1>2. Ahead \in Nat
  BY <1>1 DEF Ahead
<1> QED
  BY <1>1, <1>2 DEF Ahead, Rest

\* A segment arrives: what is on its way stays the same.
LEMMA ArriveMoves ==
  ASSUME Typed, Arrive
  PROVE  Typed' /\ Ahead' = Ahead /\ Rest' = Rest
<1>1. PICK n \in Segments : wire' = Take(flight, n) /\ flight' = Drop(flight, n)
  BY DEF Arrive
<1>2. wire = <<>> /\ rd' = rd
  BY DEF Arrive
<1> DEFINE b == rd.buf
           t == Take(flight, n)
           d == Drop(flight, n)
           m == Len(flight)
<1> HIDE DEF b, t, d, m
<1>3. flight \in Seq(Tokens)
  BY DEF Typed
<1>4. n \in 0 .. Len(flight)
  BY <1>1, <1>3 DEF Segments, Arrive
<1>5. /\ t \in Seq(Tokens) /\ d \in Seq(Tokens) /\ Len(t) = n /\ Len(d) = m - n
      /\ \A i \in 1 .. n : t[i] = flight[i]
      /\ \A i \in 1 .. m - n : d[i] = flight[n + i]
  BY <1>3, <1>4, TakeDrop DEF t, d, m
<1>6. Len(b) \in Nat /\ m \in Nat /\ n \in Nat /\ n <= m
  BY <1>3, <1>4 DEF Typed, b, m
<1>7. Typed'
  BY ONLY <1>1, <1>2, <1>5, Typed DEF Typed, t, d
<1>8. Ahead' = Len(b) + n + (m - n) /\ Ahead = Len(b) + 0 + m
  BY ONLY <1>1, <1>2, <1>5 DEF Ahead, b, t, d, m
<1>9. Ahead' = Ahead
  BY ONLY <1>6, <1>8
<1>10. ASSUME NEW i \in 1 .. Ahead
       PROVE  (IF i <= Len(b) THEN b[i] ELSE IF i <= Len(b) + n THEN t[i - Len(b)] ELSE d[i - Len(b) - n])
              = IF i <= Len(b) THEN b[i] ELSE IF i <= Len(b) + 0 THEN wire[i - Len(b)] ELSE flight[i - Len(b) - 0]
  <2>1. i \in Int /\ 1 <= i /\ i <= Len(b) + m
    BY ONLY <1>6, <1>8, <1>10
  <2>2. CASE i <= Len(b)
    BY ONLY <2>2
  <2>3. CASE Len(b) < i /\ i <= Len(b) + n
    <3>1. i - Len(b) \in 1 .. n /\ ~(i <= Len(b) + 0) /\ ~(i <= Len(b)) /\ i - Len(b) - 0 = i - Len(b)
      BY ONLY <1>6, <2>1, <2>3
    <3> QED
      BY ONLY <1>5, <2>3, <3>1
  <2>4. CASE Len(b) + n < i
    <3>1. /\ i - Len(b) - n \in 1 .. m - n /\ ~(i <= Len(b) + 0) /\ ~(i <= Len(b)) /\ ~(i <= Len(b) + n)
          /\ n + (i - Len(b) - n) = i - Len(b) - 0
      BY ONLY <1>6, <2>1, <2>4
    <3>2. d[i - Len(b) - n] = flight[n + (i - Len(b) - n)]
      BY ONLY <1>5, <3>1
    <3> QED
      BY ONLY <3>1, <3>2
  <2> QED
    BY ONLY <1>6, <2>1, <2>2, <2>3, <2>4
<1>11. Rest' = [i \in 1 .. Ahead |-> IF i <= Len(b) THEN b[i] ELSE IF i <= Len(b) + n THEN t[i - Len(b)] ELSE d[i - Len(b) - n]]
  BY ONLY <1>1, <1>2, <1>5, <1>9 DEF Rest, b, t, d
<1>12. Rest = [i \in 1 .. Ahead |-> IF i <= Len(b) THEN b[i] ELSE IF i <= Len(b) + 0 THEN wire[i - Len(b)] ELSE flight[i - Len(b) - 0]]
  BY ONLY <1>2 DEF Rest, b
<1>13. Rest' = Rest
  BY ONLY <1>10, <1>11, <1>12
<1> QED
  BY ONLY <1>7, <1>9, <1>13

\* The end of the connection takes what was in flight.
LEMMA EndCuts ==
  ASSUME Typed, End
  PROVE  /\ Typed'
         /\ Ahead' = Len(rd.buf) + Len(wire) /\ Ahead' <= Ahead
         /\ \A i \in 1 .. Ahead' : Rest'[i] = Rest[i]
         /\ ~cut' => Ahead' = Ahead
<1>1. flight' = <<>> /\ wire' = wire /\ rd' = rd /\ cut' = (~closed \/ flight # <<>>)
  BY DEF End
<1>2. Typed'
  <2>1. <<>> \in Seq(Tokens)
    OBVIOUS
  <2> QED
    BY ONLY <1>1, <2>1, Typed DEF Typed
<1>3. Len(rd.buf) \in Nat /\ Len(wire) \in Nat /\ Len(flight) \in Nat /\ Ahead = Len(rd.buf) + Len(wire) + Len(flight)
  BY RestIs
<1>4. Ahead' = Len(rd.buf) + Len(wire) + 0
  BY ONLY <1>1 DEF Ahead
<1>5. ~cut' => Len(flight) = 0
  <2>1. ~cut' => flight = <<>>
    BY ONLY <1>1, Zenon
  <2> QED
    BY ONLY <2>1
<1>6. ASSUME NEW i \in 1 .. Ahead' PROVE Rest'[i] = Rest[i]
  <2>1. i \in 1 .. Ahead /\ i <= Len(rd.buf) + Len(wire)
    BY ONLY <1>3, <1>4, <1>6
  <2>2. Rest'[i] = IF i <= Len(rd.buf) THEN rd.buf[i] ELSE wire[i - Len(rd.buf)]
    BY ONLY <1>1, <1>6, <2>1 DEF Rest
  <2>3. Rest[i] = IF i <= Len(rd.buf) THEN rd.buf[i] ELSE wire[i - Len(rd.buf)]
    BY ONLY <2>1 DEF Rest
  <2> QED
    BY ONLY <2>2, <2>3
<1>7. Ahead' = Len(rd.buf) + Len(wire) /\ Ahead' <= Ahead /\ (~cut' => Ahead' = Ahead)
  BY ONLY <1>3, <1>4, <1>5
<1> QED
  BY ONLY <1>2, <1>6, <1>7

\* poll_read of the stream below: from wire to the buffer.
LEMMA PullMoves ==
  ASSUME Typed, NEW room \in Nat, Pull(room), flight' = flight
  PROVE  /\ Typed' /\ Ahead' = Ahead /\ Rest' = Rest
         /\ rd' = [rd EXCEPT !.buf = rd'.buf]
         /\ Len(rd'.buf) = Len(rd.buf) + Least(room, Len(wire))
         /\ wire # <<>> /\ Len(wire) > 0
<1> DEFINE n == Least(room, Len(wire))
           b == rd.buf
           t == Take(wire, n)
           d == Drop(wire, n)
           c == b \o t
           m == Len(wire)
<1> HIDE DEF b, t, d, c, m
<1>1. wire \in Seq(Tokens)
  BY DEF Typed
<1>2. n \in 0 .. Len(wire)
  BY <1>1 DEF Least
<1>3. rd' = [rd EXCEPT !.buf = c] /\ wire' = d /\ wire # <<>>
  BY DEF Pull, b, t, d, c
<1> HIDE DEF n
<1>4. /\ t \in Seq(Tokens) /\ d \in Seq(Tokens) /\ Len(t) = n /\ Len(d) = m - n
      /\ \A i \in 1 .. n : t[i] = wire[i]
      /\ \A i \in 1 .. m - n : d[i] = wire[n + i]
  BY <1>1, <1>2, TakeDrop DEF t, d, m
<1>5. t \in Seq(Tokens)
  BY ONLY <1>4
<1>6. b \in Seq(Tokens)
  BY DEF Typed, b
<1>7. /\ c \in Seq(Tokens) /\ Len(c) = Len(b) + n
      /\ \A i \in 1 .. Len(b) : c[i] = b[i]
      /\ \A i \in 1 .. n : c[Len(b) + i] = t[i]
  <2>1. /\ c \in Seq(Tokens) /\ Len(c) = Len(b) + Len(t)
        /\ \A i \in 1 .. Len(b) : c[i] = b[i]
        /\ \A i \in 1 .. Len(t) : c[Len(b) + i] = t[i]
    BY ONLY <1>5, <1>6, CatIs DEF c
  <2> QED
    BY ONLY <1>4, <2>1
<1>8. Len(b) \in Nat /\ m \in Nat /\ n \in Nat /\ n <= m /\ Len(flight) \in Nat
  BY <1>1, <1>2, <1>6 DEF Typed, m
<1>9. rd'.buf = c /\ "buf" \in DOMAIN rd'
  BY ONLY <1>3, Typed DEF Typed
<1>10. Len(wire) > 0
  BY <1>1, <1>3
<1>11. Typed'
  BY ONLY <1>3, <1>4, <1>7, <1>9, flight' = flight, Typed DEF Typed
<1>12. Ahead' = Len(b) + n + (m - n) + Len(flight) /\ Ahead = Len(b) + m + Len(flight)
  BY ONLY <1>3, <1>4, <1>7, <1>9, flight' = flight DEF Ahead, b, m
<1>13. Ahead' = Ahead
  BY ONLY <1>8, <1>12
<1>14. ASSUME NEW i \in 1 .. Ahead
       PROVE  (IF i <= Len(c) THEN c[i] ELSE IF i <= Len(c) + Len(d) THEN d[i - Len(c)] ELSE flight[i - Len(c) - Len(d)])
              = IF i <= Len(b) THEN b[i] ELSE IF i <= Len(b) + m THEN wire[i - Len(b)] ELSE flight[i - Len(b) - m]
  <2>0. Len(c) = Len(b) + n /\ Len(d) = m - n
    BY ONLY <1>4, <1>7
  <2>1. i \in Int /\ 1 <= i /\ i <= Len(b) + m + Len(flight)
    BY ONLY <1>8, <1>12, <1>14
  <2>2. CASE i <= Len(b)
    <3>1. i <= Len(c) /\ i \in 1 .. Len(b)
      BY ONLY <1>8, <2>0, <2>1, <2>2
    <3> QED
      BY ONLY <1>7, <2>2, <3>1
  <2>3. CASE Len(b) < i /\ i <= Len(b) + n
    <3>1. /\ i - Len(b) \in 1 .. n /\ i <= Len(b) + m /\ ~(i <= Len(b)) /\ i <= Len(c)
          /\ Len(b) + (i - Len(b)) = i
      BY ONLY <1>8, <2>0, <2>1, <2>3
    <3>2. c[Len(b) + (i - Len(b))] = t[i - Len(b)] /\ t[i - Len(b)] = wire[i - Len(b)]
      BY ONLY <1>4, <1>7, <3>1
    <3> QED
      BY ONLY <3>1, <3>2
  <2>4. CASE Len(b) + n < i /\ i <= Len(b) + m
    <3>1. /\ i - Len(c) \in 1 .. m - n /\ ~(i <= Len(b)) /\ ~(i <= Len(c)) /\ i <= Len(c) + Len(d)
          /\ n + (i - Len(c)) = i - Len(b)
      BY ONLY <1>8, <2>0, <2>1, <2>4
    <3>2. d[i - Len(c)] = wire[n + (i - Len(c))]
      BY ONLY <1>4, <3>1
    <3> QED
      BY ONLY <2>4, <3>1, <3>2
  <2>5. CASE Len(b) + m < i
    <3>1. /\ ~(i <= Len(b)) /\ ~(i <= Len(c)) /\ ~(i <= Len(c) + Len(d)) /\ ~(i <= Len(b) + m)
          /\ i - Len(c) - Len(d) = i - Len(b) - m
      BY ONLY <1>8, <2>0, <2>1, <2>5
    <3> QED
      BY ONLY <3>1
  <2> QED
    BY ONLY <1>8, <2>1, <2>2, <2>3, <2>4, <2>5
<1>15. Rest' = [i \in 1 .. Ahead |-> IF i <= Len(c) THEN c[i] ELSE IF i <= Len(c) + Len(d) THEN d[i - Len(c)] ELSE flight[i - Len(c) - Len(d)]]
  BY ONLY <1>3, <1>9, <1>13, flight' = flight DEF Rest
<1>16. Rest = [i \in 1 .. Ahead |-> IF i <= Len(b) THEN b[i] ELSE IF i <= Len(b) + m THEN wire[i - Len(b)] ELSE flight[i - Len(b) - m]]
  BY ONLY DEF Rest, b, m
<1>17. Rest' = Rest
  BY ONLY <1>14, <1>15, <1>16
<1> QED
  BY ONLY <1>3, <1>7, <1>9, <1>10, <1>11, <1>13, <1>17 DEF n, b
\* What a step takes from the reader's buffer, or from the wire when that is empty,
\* is the front of what is on its way.
LEMMA BufTakes ==
  ASSUME Typed, NEW n \in 0 .. Len(rd.buf), rd'.buf = Drop(rd.buf, n), "buf" \in DOMAIN rd',
         wire' = wire, flight' = flight
  PROVE  /\ Typed' /\ Ahead' = Ahead - n /\ n <= Ahead
         /\ Len(rd'.buf) = Len(rd.buf) - n
         /\ \A i \in 1 .. Ahead' : Rest'[i] = Rest[n + i]
         /\ Take(rd.buf, n) \in Seq(Tokens) /\ Len(Take(rd.buf, n)) = n
         /\ \A i \in 1 .. n : Take(rd.buf, n)[i] = Rest[i]
<1> DEFINE b == rd.buf
           t == Take(b, n)
           d == Drop(b, n)
           m == Len(wire)
           g == Len(flight)
<1> HIDE DEF b, t, d, m, g
<1>1. b \in Seq(Tokens)
  BY DEF Typed, b
<1>2. n \in 0 .. Len(b)
  BY DEF b
<1>3. /\ t \in Seq(Tokens) /\ d \in Seq(Tokens) /\ Len(t) = n /\ Len(d) = Len(b) - n
      /\ \A i \in 1 .. n : t[i] = b[i]
      /\ \A i \in 1 .. Len(b) - n : d[i] = b[n + i]
  BY <1>1, <1>2, TakeDrop DEF t, d
<1>4. Len(b) \in Nat /\ m \in Nat /\ g \in Nat /\ n \in Nat /\ n <= Len(b)
  BY <1>2, RestIs DEF b, m, g
<1>5. rd'.buf = d
  BY DEF b, d
<1>6. Typed'
  BY ONLY <1>3, <1>5, Typed, "buf" \in DOMAIN rd', wire' = wire, flight' = flight DEF Typed
<1>7. Ahead' = Len(d) + m + g /\ Ahead = Len(b) + m + g
  BY ONLY <1>5, wire' = wire, flight' = flight DEF Ahead, b, m, g
<1>8. Ahead' = Ahead - n /\ n <= Ahead
  BY ONLY <1>3, <1>4, <1>7
<1>9. ASSUME NEW i \in 1 .. Ahead' PROVE Rest'[i] = Rest[n + i]
  <2>1. i \in Int /\ 1 <= i /\ i <= Len(b) - n + m + g
    BY ONLY <1>3, <1>4, <1>7, <1>9
  <2>2. n + i \in 1 .. Ahead
    BY ONLY <1>4, <1>7, <2>1
  <2>3. PICK j \in 1 .. Ahead : j = n + i
    BY ONLY <2>2
  <2>4. Rest[j] = IF j <= Len(b) THEN b[j] ELSE IF j <= Len(b) + m THEN wire[j - Len(b)] ELSE flight[j - Len(b) - m]
    BY ONLY <2>3 DEF Rest, b, m
  <2>5. Rest'[i] = IF i <= Len(d) THEN d[i] ELSE IF i <= Len(d) + m THEN wire[i - Len(d)] ELSE flight[i - Len(d) - m]
    BY ONLY <1>5, <1>9, wire' = wire, flight' = flight DEF Rest, m
  <2>6. CASE i <= Len(b) - n
    <3>1. i \in 1 .. Len(b) - n /\ j <= Len(b) /\ i <= Len(d)
      BY ONLY <1>3, <1>4, <2>1, <2>3, <2>6
    <3>2. d[i] = b[j]
      BY ONLY <1>3, <2>3, <3>1
    <3> QED
      BY ONLY <2>3, <2>4, <2>5, <3>1, <3>2
  <2>7. CASE Len(b) - n < i /\ i <= Len(b) - n + m
    <3>1. ~(j <= Len(b)) /\ ~(i <= Len(d)) /\ i <= Len(d) + m /\ j <= Len(b) + m /\ i - Len(d) = j - Len(b)
      BY ONLY <1>3, <1>4, <2>1, <2>3, <2>7
    <3> QED
      BY ONLY <2>3, <2>4, <2>5, <3>1
  <2>8. CASE Len(b) - n + m < i
    <3>1. /\ ~(j <= Len(b)) /\ ~(i <= Len(d)) /\ ~(i <= Len(d) + m) /\ ~(j <= Len(b) + m)
          /\ i - Len(d) - m = j - Len(b) - m
      BY ONLY <1>3, <1>4, <2>1, <2>3, <2>8
    <3> QED
      BY ONLY <2>3, <2>4, <2>5, <3>1
  <2> QED
    BY ONLY <1>4, <2>1, <2>6, <2>7, <2>8
<1>10. ASSUME NEW i \in 1 .. n PROVE t[i] = Rest[i]
  <2>1. i \in 1 .. Ahead /\ i <= Len(b)
    BY ONLY <1>4, <1>7, <1>10
  <2>2. Rest[i] = b[i]
    BY ONLY <2>1 DEF Rest, b
  <2> QED
    BY ONLY <1>3, <1>10, <2>2
<1> QED
  BY ONLY <1>3, <1>5, <1>6, <1>8, <1>9, <1>10 DEF b, t

\* What the application is given straight from the stream below.
LEMMA WireTakes ==
  ASSUME Typed, NEW n \in 0 .. Len(wire), rd.buf = <<>>, rd'.buf = <<>>, "buf" \in DOMAIN rd',
         wire' = Drop(wire, n), flight' = flight
  PROVE  /\ Typed' /\ Ahead' = Ahead - n /\ n <= Ahead
         /\ \A i \in 1 .. Ahead' : Rest'[i] = Rest[n + i]
         /\ Take(wire, n) \in Seq(Tokens) /\ Len(Take(wire, n)) = n
         /\ \A i \in 1 .. n : Take(wire, n)[i] = Rest[i]
<1> DEFINE t == Take(wire, n)
           d == Drop(wire, n)
           m == Len(wire)
           g == Len(flight)
<1> HIDE DEF t, d, m, g
<1>1. wire \in Seq(Tokens)
  BY DEF Typed
<1>2. /\ t \in Seq(Tokens) /\ d \in Seq(Tokens) /\ Len(t) = n /\ Len(d) = m - n
      /\ \A i \in 1 .. n : t[i] = wire[i]
      /\ \A i \in 1 .. m - n : d[i] = wire[n + i]
  BY <1>1, TakeDrop DEF t, d, m
<1>3. m \in Nat /\ g \in Nat /\ n \in Nat /\ n <= m
  BY RestIs DEF m, g
<1>4. wire' = d
  BY DEF d
<1>5. <<>> \in Seq(Tokens) /\ Len(<<>>) = 0
  OBVIOUS
<1>6. Typed'
  BY ONLY <1>2, <1>4, <1>5, Typed, rd'.buf = <<>>, "buf" \in DOMAIN rd', flight' = flight DEF Typed
<1>7. Ahead' = 0 + Len(d) + g /\ Ahead = 0 + m + g
  BY ONLY <1>4, <1>5, rd.buf = <<>>, rd'.buf = <<>>, flight' = flight DEF Ahead, m, g
<1>8. Ahead' = Ahead - n /\ n <= Ahead
  BY ONLY <1>2, <1>3, <1>7
<1>9. ASSUME NEW i \in 1 .. Ahead' PROVE Rest'[i] = Rest[n + i]
  <2>1. i \in Int /\ 1 <= i /\ i <= m - n + g
    BY ONLY <1>2, <1>3, <1>7, <1>9
  <2>2. n + i \in 1 .. Ahead
    BY ONLY <1>3, <1>7, <2>1
  <2>3. Rest'[i] = IF i <= 0 THEN rd'.buf[i] ELSE IF i <= 0 + Len(d) THEN d[i - 0] ELSE flight[i - 0 - Len(d)]
    BY ONLY <1>4, <1>5, <1>9, rd'.buf = <<>>, flight' = flight DEF Rest
  <2>4. Rest[n + i] = IF n + i <= 0 THEN rd.buf[n + i] ELSE IF n + i <= 0 + m THEN wire[n + i - 0] ELSE flight[n + i - 0 - m]
    BY ONLY <1>5, <2>2, rd.buf = <<>> DEF Rest, m
  <2>5. CASE i <= m - n
    <3>1. /\ i \in 1 .. m - n /\ ~(i <= 0) /\ ~(n + i <= 0) /\ i <= 0 + Len(d) /\ n + i <= 0 + m
          /\ i - 0 = i /\ n + i - 0 = n + i
      BY ONLY <1>2, <1>3, <2>1, <2>5
    <3> QED
      BY ONLY <1>2, <2>3, <2>4, <3>1
  <2>6. CASE m - n < i
    <3>1. /\ ~(i <= 0) /\ ~(n + i <= 0) /\ ~(i <= 0 + Len(d)) /\ ~(n + i <= 0 + m)
          /\ i - 0 - Len(d) = n + i - 0 - m
      BY ONLY <1>2, <1>3, <2>1, <2>6
    <3> QED
      BY ONLY <2>3, <2>4, <3>1
  <2> QED
    BY ONLY <1>3, <2>1, <2>5, <2>6
<1>10. ASSUME NEW i \in 1 .. n PROVE t[i] = Rest[i]
  <2>1. i \in 1 .. Ahead /\ i <= 0 + m /\ ~(i <= 0) /\ i - 0 = i
    BY ONLY <1>3, <1>7, <1>10
  <2>2. Rest[i] = IF i <= 0 THEN rd.buf[i] ELSE IF i <= 0 + m THEN wire[i - 0] ELSE flight[i - 0 - m]
    BY ONLY <1>5, <2>1, rd.buf = <<>> DEF Rest, m
  <2> QED
    BY ONLY <1>2, <1>10, <2>1, <2>2
<1> QED
  BY ONLY <1>2, <1>6, <1>8, <1>9, <1>10 DEF t

\* What the server sends comes last.
LEMMA PutGrows ==
  ASSUME Typed, NEW t \in Seq(Tokens), flight' = flight \o t, rd' = rd, wire' = wire
  PROVE  /\ Typed' /\ Ahead' = Ahead + Len(t)
         /\ \A i \in 1 .. Ahead : Rest'[i] = Rest[i]
         /\ \A i \in 1 .. Len(t) : Rest'[Ahead + i] = t[i]
<1> DEFINE u == flight \o t
           b == rd.buf
           m == Len(wire)
           g == Len(flight)
<1> HIDE DEF u, b, m, g
<1>1. flight \in Seq(Tokens)
  BY DEF Typed
<1>2. /\ u \in Seq(Tokens) /\ Len(u) = g + Len(t)
      /\ \A i \in 1 .. g : u[i] = flight[i]
      /\ \A i \in 1 .. Len(t) : u[g + i] = t[i]
  BY <1>1, CatIs DEF u, g
<1>3. Len(b) \in Nat /\ m \in Nat /\ g \in Nat /\ Len(t) \in Nat
  BY RestIs DEF b, m, g
<1>4. flight' = u
  BY DEF u
<1>5. Typed'
  BY ONLY <1>2, <1>4, Typed, rd' = rd, wire' = wire DEF Typed
<1>6. Ahead' = Len(b) + m + Len(u) /\ Ahead = Len(b) + m + g
  BY ONLY <1>4, rd' = rd, wire' = wire DEF Ahead, b, m, g
<1>7. Ahead' = Ahead + Len(t)
  BY ONLY <1>2, <1>3, <1>6
<1>8. ASSUME NEW i \in 1 .. Ahead'
      PROVE  Rest'[i] = IF i <= Len(b) THEN b[i] ELSE IF i <= Len(b) + m THEN wire[i - Len(b)] ELSE u[i - Len(b) - m]
  BY ONLY <1>4, <1>8, rd' = rd, wire' = wire DEF Rest, b, m
<1>9. ASSUME NEW i \in 1 .. Ahead PROVE Rest'[i] = Rest[i]
  <2>1. i \in 1 .. Ahead' /\ i \in Int /\ i <= Len(b) + m + g
    BY ONLY <1>3, <1>6, <1>7, <1>9
  <2>2. Rest[i] = IF i <= Len(b) THEN b[i] ELSE IF i <= Len(b) + m THEN wire[i - Len(b)] ELSE flight[i - Len(b) - m]
    BY ONLY <1>9 DEF Rest, b, m
  <2>3. CASE i <= Len(b) + m
    BY ONLY <1>8, <2>1, <2>2, <2>3
  <2>4. CASE ~(i <= Len(b) + m)
    <3>1. i - Len(b) - m \in 1 .. g /\ ~(i <= Len(b))
      BY ONLY <1>3, <2>1, <2>4
    <3>2. u[i - Len(b) - m] = flight[i - Len(b) - m]
      BY ONLY <1>2, <3>1
    <3> QED
      BY ONLY <1>8, <2>1, <2>2, <2>4, <3>1, <3>2
  <2> QED
    BY ONLY <2>3, <2>4
<1>10. ASSUME NEW i \in 1 .. Len(t) PROVE Rest'[Ahead + i] = t[i]
  <2>1. /\ Ahead + i \in 1 .. Ahead' /\ ~(Ahead + i <= Len(b)) /\ ~(Ahead + i <= Len(b) + m)
        /\ Ahead + i - Len(b) - m = g + i
    BY ONLY <1>3, <1>6, <1>7, <1>10
  <2>2. u[g + i] = t[i]
    BY ONLY <1>2, <1>10
  <2>3. PICK j \in 1 .. Ahead' : j = Ahead + i
    BY ONLY <2>1
  <2>4. ~(j <= Len(b)) /\ ~(j <= Len(b) + m) /\ j - Len(b) - m = g + i
    BY ONLY <1>3, <1>6, <1>10, <2>3
  <2>5. Rest'[j] = u[j - Len(b) - m]
    BY ONLY <1>8, <2>3, <2>4
  <2> QED
    BY ONLY <2>2, <2>3, <2>4, <2>5
<1> QED
  BY ONLY <1>5, <1>7, <1>9, <1>10

-----------------------------------------------------------------------------
\* A stream without frames: the answers of the handshake, h, and behind them the
\* bytes of the application.
Expected(h, j) == IF j <= Len(h) THEN h[j] ELSE Byte(j - Len(h))

\* What is on its way begins behind the first p tokens of what was sent and, unless
\* the connection was cut, ends where that ends.
Along(h, p) ==
  /\ h \in Seq(Tokens) /\ p \in Nat
  /\ p + Ahead <= Len(h) + sent
  /\ ~cut => p + Ahead = Len(h) + sent
  /\ \A i \in 1 .. Ahead : Rest[i] = Expected(h, p + i)

\* A step that moves nothing past the reader leaves Along as it is,
LEMMA AlongStays ==
  ASSUME NEW h, NEW p, Along(h, p), Ahead' = Ahead, Rest' = Rest, sent' = sent, cut' = cut
  PROVE  Along(h, p)'
BY DEF Along

\* and so does the end of the connection.
LEMMA AlongEnd ==
  ASSUME NEW h, NEW p, Typed, sent \in Nat, Along(h, p), End, cut => fin
  PROVE  Typed' /\ Along(h, p)'
<1>1. /\ Typed' /\ Ahead' <= Ahead /\ (~cut' => Ahead' = Ahead)
      /\ \A i \in 1 .. Ahead' : Rest'[i] = Rest[i]
  BY ONLY Typed, End, EndCuts
<1>2. Ahead \in Nat /\ Ahead' \in Nat
  BY ONLY Typed, <1>1, RestIs DEF Ahead, Typed
<1>3. sent' = sent /\ ~cut
  BY DEF End
<1>4. h \in Seq(Tokens) /\ p \in Nat /\ Len(h) \in Nat /\ p + Ahead = Len(h) + sent
  BY <1>3 DEF Along
<1>5. p + Ahead' <= Len(h) + sent' /\ (~cut' => p + Ahead' = Len(h) + sent')
  BY ONLY <1>1, <1>2, <1>3, <1>4, sent \in Nat
<1>6. \A i \in 1 .. Ahead' : i \in 1 .. Ahead
  BY ONLY <1>1, <1>2
<1>7. \A i \in 1 .. Ahead' : Rest'[i] = Expected(h, p + i)
  BY ONLY <1>1, <1>6, Along(h, p) DEF Along
<1> QED
  BY ONLY <1>1, <1>4, <1>5, <1>7 DEF Along

\* n tokens are used up.
LEMMA AlongTaken ==
  ASSUME NEW h, NEW p, NEW n \in Nat, Along(h, p), Ahead \in Nat, n <= Ahead, Ahead' = Ahead - n,
         \A i \in 1 .. Ahead' : Rest'[i] = Rest[n + i], sent' = sent, cut' = cut, sent \in Nat
  PROVE  Along(h, p + n)'
<1>1. h \in Seq(Tokens) /\ p \in Nat /\ Len(h) \in Nat /\ p + Ahead <= Len(h) + sent
  BY DEF Along
<1>2. ~cut => p + Ahead = Len(h) + sent
  BY DEF Along
<1>3. p + n \in Nat /\ p + n + Ahead' <= Len(h) + sent'
  BY <1>1
<1>4. ~cut' => p + n + Ahead' = Len(h) + sent'
  <2>1. CASE cut
    BY ONLY <2>1, cut' = cut
  <2>2. CASE ~cut
    <3>1. p + Ahead = Len(h) + sent
      BY ONLY <1>2, <2>2
    <3>2. p + n + Ahead' = Len(h) + sent'
      BY <1>1, <3>1
    <3> QED
      BY ONLY <3>2
  <2> QED
    BY ONLY <2>1, <2>2
<1>5. ASSUME NEW i \in 1 .. Ahead' PROVE Rest'[i] = Expected(h, p + n + i)
  <2>1. PICK j \in 1 .. Ahead : j = n + i
    BY ONLY <1>5, n \in Nat, Ahead \in Nat, Ahead' = Ahead - n
  <2>2. Rest[j] = Expected(h, p + j)
    BY ONLY <2>1, Along(h, p) DEF Along
  <2>3. p + j = p + n + i
    BY ONLY <1>1, <1>5, <2>1, n \in Nat
  <2>4. Rest'[i] = Rest[j]
    BY ONLY <1>5, <2>1, \A k \in 1 .. Ahead' : Rest'[k] = Rest[n + k]
  <2> QED
    BY ONLY <2>2, <2>3, <2>4
<1> QED
  BY ONLY <1>1, <1>3, <1>4, <1>5 DEF Along

\* The server goes on with its part of the handshake.
LEMMA AlongSay ==
  ASSUME NEW h, NEW p, Typed, Along(h, p), sent = 0, sent' = 0, ~cut, NEW t \in Seq(Tokens),
         flight' = flight \o t, rd' = rd, wire' = wire
  PROVE  /\ Typed' /\ Along(h \o t, p)'
         /\ Len(h \o t) = Len(h) + Len(t)
         /\ \A i \in 1 .. Len(h) : (h \o t)[i] = h[i]
         /\ \A i \in 1 .. Len(t) : (h \o t)[Len(h) + i] = t[i]
<1> DEFINE g == h \o t
<1> HIDE DEF g
<1>1. /\ Typed' /\ Ahead' = Ahead + Len(t)
      /\ \A i \in 1 .. Ahead : Rest'[i] = Rest[i]
      /\ \A i \in 1 .. Len(t) : Rest'[Ahead + i] = t[i]
  BY PutGrows
<1>2. h \in Seq(Tokens) /\ p \in Nat /\ Len(h) \in Nat /\ Len(t) \in Nat /\ p + Ahead = Len(h)
  <2>1. h \in Seq(Tokens) /\ p \in Nat /\ p + Ahead = Len(h) + sent
    BY DEF Along
  <2> QED
    BY <2>1
<1>3. /\ g \in Seq(Tokens) /\ Len(g) = Len(h) + Len(t)
      /\ \A i \in 1 .. Len(h) : g[i] = h[i]
      /\ \A i \in 1 .. Len(t) : g[Len(h) + i] = t[i]
  BY <1>2, CatIs DEF g
<1>4. Ahead \in Nat
  BY RestIs
<1>5. p + Ahead' = Len(g) + sent'
  <2>1. Ahead' = Ahead + Len(t) /\ Len(g) = Len(h) + Len(t)
    BY ONLY <1>1, <1>3
  <2> QED
    BY ONLY <1>2, <1>4, <2>1, sent' = 0
<1>6. ASSUME NEW i \in 1 .. Ahead' PROVE Rest'[i] = Expected(g, p + i)
  <2>1. i \in Int /\ 1 <= i /\ i <= Ahead + Len(t)
    BY ONLY <1>1, <1>2, <1>4, <1>6
  <2>2. PICK k \in 1 .. Len(g) : k = p + i
    BY ONLY <1>2, <1>3, <1>4, <2>1
  <2>3. Expected(g, p + i) = g[k]
    BY ONLY <1>2, <1>3, <2>2 DEF Expected
  <2>4. CASE i <= Ahead
    <3>1. i \in 1 .. Ahead /\ k \in 1 .. Len(h)
      BY ONLY <1>2, <1>4, <2>1, <2>2, <2>4
    <3>2. Rest[i] = Expected(h, p + i)
      BY ONLY <3>1, Along(h, p) DEF Along
    <3>3. Expected(h, p + i) = h[k]
      BY ONLY <1>2, <2>2, <3>1 DEF Expected
    <3>4. Rest'[i] = Rest[i] /\ g[k] = h[k]
      BY ONLY <1>1, <1>3, <3>1
    <3> QED
      BY ONLY <2>3, <3>2, <3>3, <3>4
  <2>5. CASE Ahead < i
    <3>1. PICK j \in 1 .. Len(t) : Ahead + j = i /\ Len(h) + j = k
      <4>1. i - Ahead \in 1 .. Len(t) /\ Ahead + (i - Ahead) = i /\ Len(h) + (i - Ahead) = k
        BY ONLY <1>2, <1>4, <2>1, <2>2, <2>5
      <4> QED
        BY ONLY <4>1
    <3>2. Rest'[Ahead + j] = t[j] /\ g[Len(h) + j] = t[j]
      BY ONLY <1>1, <1>3, <3>1
    <3> QED
      BY ONLY <2>3, <3>1, <3>2
  <2> QED
    BY ONLY <1>4, <2>1, <2>4, <2>5
<1>7. Along(g, p)'
  BY ONLY <1>2, <1>3, <1>5, <1>6, <1>4, <1>1, sent' = 0 DEF Along
<1> QED
  BY ONLY <1>1, <1>3, <1>7 DEF g

\* Bytes, token by token.
LEMMA BytesAre ==
  ASSUME NEW a \in Nat, NEW n \in Nat
  PROVE  /\ Bytes(a + 1, a + n) \in Seq(Tokens) /\ Len(Bytes(a + 1, a + n)) = n
         /\ \A i \in 1 .. n : Bytes(a + 1, a + n)[i] = Byte(a + i)
<1>1. a + n - (a + 1) + 1 = n
  OBVIOUS
<1>2. \A i \in 1 .. n : a + 1 + i - 1 = a + i /\ a + i \in Nat
  OBVIOUS
<1>3. Bytes(a + 1, a + n) = [i \in 1 .. n |-> Byte(a + 1 + i - 1)]
  BY ONLY <1>1 DEF Bytes
<1> DEFINE f == Bytes(a + 1, a + n)
<1> HIDE DEF f
<1>4. f = [i \in 1 .. n |-> Byte(a + 1 + i - 1)]
  BY ONLY <1>3 DEF f
<1>5. \A i \in 1 .. n : f[i] = Byte(a + i)
  BY ONLY <1>2, <1>4
<1>6. \A j \in Nat : Byte(j) \in Tokens
  <2>1. \A j \in Nat : j \in Values
    BY DEF Values
  <2>2. ASSUME NEW S, NEW T, NEW x \in S, NEW y \in T PROVE <<x, y>> \in S \X T
    OBVIOUS
  <2>3. "b" \in Labels
    BY DEF Labels
  <2> QED
    BY <2>1, <2>2, <2>3 DEF Byte, Tokens
<1>7. \A i \in 1 .. n : f[i] \in Tokens
  BY ONLY <1>2, <1>5, <1>6
<1>8. f \in Seq(Tokens) /\ Len(f) = n
  <2>1. f \in [1 .. n -> Tokens]
    BY ONLY <1>4, <1>7
  <2>2. f \in Seq(Tokens)
    BY ONLY <2>1, n \in Nat, SeqDef
  <2>3. DOMAIN f = 1 .. n
    BY ONLY <2>1
  <2> QED
    BY ONLY <2>2, <2>3, n \in Nat, LenProperties
<1> QED
  BY ONLY <1>5, <1>8 DEF f

\* The server sends n bytes of its application.
LEMMA AlongPut ==
  ASSUME NEW h, NEW p, Typed, Along(h, p), sent \in Nat, ~cut, NEW n \in Nat, sent' = sent + n,
         flight' = flight \o Bytes(sent + 1, sent + n), rd' = rd, wire' = wire
  PROVE  Typed' /\ Along(h, p)'
<1> DEFINE t == Bytes(sent + 1, sent + n)
<1> HIDE DEF t
<1>0. /\ t \in Seq(Tokens) /\ Len(t) = n
      /\ \A i \in 1 .. n : t[i] = Byte(sent + i)
  BY BytesAre DEF t
<1>1. /\ Typed' /\ Ahead' = Ahead + n
      /\ \A i \in 1 .. Ahead : Rest'[i] = Rest[i]
      /\ \A i \in 1 .. n : Rest'[Ahead + i] = t[i]
  <2>1. t \in Seq(Tokens) /\ flight' = flight \o t
    BY <1>0 DEF t
  <2>2. /\ Typed' /\ Ahead' = Ahead + Len(t)
        /\ \A i \in 1 .. Ahead : Rest'[i] = Rest[i]
        /\ \A i \in 1 .. Len(t) : Rest'[Ahead + i] = t[i]
    BY ONLY <2>1, Typed, rd' = rd, wire' = wire, PutGrows
  <2> QED
    BY ONLY <1>0, <2>2
<1>2. h \in Seq(Tokens) /\ p \in Nat /\ Len(h) \in Nat /\ p + Ahead = Len(h) + sent
  BY DEF Along
<1>4. Ahead \in Nat
  BY RestIs
<1>5. p + Ahead' = Len(h) + sent'
  <2>1. Ahead' = Ahead + n
    BY ONLY <1>1
  <2> QED
    BY ONLY <1>2, <1>4, <2>1, sent' = sent + n, n \in Nat, sent \in Nat
<1>6. ASSUME NEW i \in 1 .. Ahead' PROVE Rest'[i] = Expected(h, p + i)
  <2>1. i \in Int /\ 1 <= i /\ i <= Ahead + n
    BY ONLY <1>1, <1>4, <1>6, n \in Nat
  <2>2. CASE i <= Ahead
    <3>1. i \in 1 .. Ahead
      BY ONLY <1>4, <2>1, <2>2
    <3>2. Rest[i] = Expected(h, p + i)
      BY ONLY <3>1, Along(h, p) DEF Along
    <3> QED
      BY ONLY <1>1, <3>1, <3>2
  <2>3. CASE Ahead < i
    <3>1. PICK j \in 1 .. n : Ahead + j = i /\ ~(p + i <= Len(h)) /\ p + i - Len(h) = sent + j
      <4>1. i - Ahead \in 1 .. n /\ Ahead + (i - Ahead) = i /\ ~(p + i <= Len(h)) /\ p + i - Len(h) = sent + (i - Ahead)
        BY ONLY <1>2, <1>4, <2>1, <2>3, n \in Nat, sent \in Nat
      <4> QED
        BY ONLY <4>1
    <3>2. Rest'[Ahead + j] = t[j] /\ t[j] = Byte(sent + j)
      BY ONLY <1>0, <1>1, <3>1
    <3>3. Expected(h, p + i) = Byte(sent + j)
      <4>1. PICK k \in Int : k = p + i
        BY ONLY <1>2, <2>1
      <4>2. ~(k <= Len(h)) /\ k - Len(h) = sent + j
        BY ONLY <1>2, <1>4, <2>1, <3>1, <4>1, sent \in Nat
      <4>3. Expected(h, k) = Byte(k - Len(h))
        BY ONLY <4>2 DEF Expected
      <4>4. Expected(h, k) = Byte(sent + j)
        BY ONLY <4>2, <4>3
      <4> QED
        BY ONLY <4>1, <4>4
    <3> QED
      BY ONLY <3>1, <3>2, <3>3
  <2> QED
    BY ONLY <1>4, <2>1, <2>2, <2>3
<1>7. p + Ahead' <= Len(h) + sent'
  <2>1. Ahead' \in Nat /\ sent' \in Nat
    BY ONLY <1>1, <1>4, n \in Nat, sent \in Nat, sent' = sent + n
  <2> QED
    BY ONLY <1>2, <1>5, <2>1
<1>8. Along(h, p)'
  BY ONLY <1>2, <1>5, <1>6, <1>7 DEF Along
<1> QED
  BY ONLY <1>1, <1>8

-----------------------------------------------------------------------------
\* The connection: an end that is no cut comes after the server's.
Link ==
  /\ sent \in 0 .. MaxBytes
  /\ cut => fin
  /\ fin => flight = <<>>
  /\ fin /\ ~cut => closed

\* What the application has read are the server's first bytes.
Heard ==
  /\ got \in Seq(Tokens)
  /\ \A i \in 1 .. Len(got) : got[i] = Byte(i)

\* What a poll may do, as the application sees it: nothing, give it the next bytes
\* of an accepted server, end, or fail for a reason.
More == Trusted /\ out' = out /\ Heard' /\ Len(got) < Len(got') /\ Len(got') <= sent
Over == Trusted /\ out' = "eof" /\ got' = got /\ (cut \/ (closed /\ Len(got) = sent))
Broke == out' = "error" /\ got' = got /\ (~Sound \/ cut)
Silent == out' = out /\ got' = got
Polled == Silent \/ More \/ Over \/ Broke

\* The next bytes of the application, in order, are heard.
LEMMA HeardMore ==
  ASSUME Heard, NEW t \in Seq(Tokens), \A i \in 1 .. Len(t) : t[i] = Byte(Len(got) + i), got' = got \o t
  PROVE  Heard' /\ Len(got') = Len(got) + Len(t) /\ Len(got) \in Nat /\ Len(t) \in Nat
<1> DEFINE a == Len(got)
           g == got \o t
<1> HIDE DEF a, g
<1>1. got \in Seq(Tokens) /\ a \in Nat /\ Len(t) \in Nat
  BY DEF Heard, a
<1>2. /\ g \in Seq(Tokens) /\ Len(g) = a + Len(t)
      /\ \A i \in 1 .. a : g[i] = got[i]
      /\ \A i \in 1 .. Len(t) : g[a + i] = t[i]
  BY <1>1, CatIs DEF a, g
<1>3. ASSUME NEW i \in 1 .. Len(g) PROVE g[i] = Byte(i)
  <2>1. i \in Int /\ 1 <= i /\ i <= a + Len(t)
    BY ONLY <1>1, <1>2, <1>3
  <2>2. CASE i <= a
    <3>1. i \in 1 .. a
      BY ONLY <1>1, <2>1, <2>2
    <3>2. got[i] = Byte(i)
      BY ONLY <3>1, Heard DEF Heard, a
    <3> QED
      BY ONLY <1>2, <3>1, <3>2
  <2>3. CASE a < i
    <3>1. PICK j \in 1 .. Len(t) : j = i - a
      BY ONLY <1>1, <2>1, <2>3
    <3>2. a + j = i
      BY ONLY <1>1, <2>1, <3>1
    <3>3. g[a + j] = t[j]
      BY ONLY <1>2, <3>1
    <3>4. t[j] = Byte(a + j)
      BY ONLY <3>1, \A k \in 1 .. Len(t) : t[k] = Byte(Len(got) + k) DEF a
    <3> QED
      BY ONLY <3>2, <3>3, <3>4
  <2> QED
    BY ONLY <1>1, <2>1, <2>2, <2>3
<1>4. got' = g
  BY DEF g
<1>5. Heard'
  BY ONLY <1>2, <1>3, <1>4 DEF Heard
<1> QED
  BY ONLY <1>1, <1>2, <1>4, <1>5 DEF a

\* n tokens of what is on its way are given to the application of an open stream.
LEMMA OpenGives ==
  ASSUME NEW h, Typed, Link, Heard, Along(h, Len(h) + Len(got)), Trusted, MaxBytes \in Nat,
         NEW t \in Seq(Tokens), NEW n \in Nat \ {0}, Len(t) = n, n <= Ahead,
         \A i \in 1 .. n : t[i] = Rest[i], got' = got \o t,
         Ahead' = Ahead - n, \A i \in 1 .. Ahead' : Rest'[i] = Rest[n + i],
         out' = out, sent' = sent, cut' = cut
  PROVE  Heard' /\ Along(h, Len(h) + Len(got))' /\ More
<1>0. PICK a : a = Len(got)
  OBVIOUS
<1>1. PICK p : p = Len(h) + a /\ Along(h, p)
  BY <1>0
<1>2. h \in Seq(Tokens) /\ Len(h) \in Nat /\ p + Ahead <= Len(h) + sent
  BY <1>1 DEF Along
<1>3. a \in Nat /\ p = Len(h) + a /\ p \in Nat
  BY <1>0, <1>1, <1>2 DEF Heard
<1>4. Ahead \in Nat /\ sent \in Nat
  BY RestIs DEF Link
<1>5. ASSUME NEW i \in 1 .. n PROVE t[i] = Byte(a + i)
  <2>1. i \in 1 .. Ahead
    BY ONLY <1>4, <1>5, n \in Nat \ {0}, n <= Ahead
  <2>2. Rest[i] = Expected(h, p + i)
    BY ONLY <1>1, <2>1 DEF Along
  <2>3. PICK k \in Int : k = p + i
    BY ONLY <1>3, <2>1
  <2>4. ~(k <= Len(h)) /\ k - Len(h) = a + i
    BY ONLY <1>2, <1>3, <1>4, <2>1, <2>3
  <2>5. Expected(h, k) = Byte(k - Len(h))
    BY ONLY <2>4 DEF Expected
  <2>6. Expected(h, k) = Byte(a + i)
    BY ONLY <2>4, <2>5
  <2>7. t[i] = Rest[i]
    BY ONLY <1>5, \A j \in 1 .. n : t[j] = Rest[j]
  <2> QED
    BY ONLY <2>2, <2>3, <2>6, <2>7
<1>6. Heard' /\ Len(got') = a + n
  <2>1. \A i \in 1 .. Len(t) : t[i] = Byte(Len(got) + i)
    BY ONLY <1>0, <1>5, Len(t) = n
  <2>2. Heard' /\ Len(got') = Len(got) + Len(t)
    BY ONLY <2>1, Heard, t \in Seq(Tokens), got' = got \o t, HeardMore
  <2> QED
    BY ONLY <1>0, <2>2, Len(t) = n
<1>7. PICK q : q = p + n /\ Along(h, q)'
  BY ONLY <1>1, <1>4, n \in Nat \ {0}, n <= Ahead, Ahead' = Ahead - n, sent' = sent, cut' = cut,
          \A i \in 1 .. Ahead' : Rest'[i] = Rest[n + i], AlongTaken
<1>8. q = Len(h) + Len(got')
  BY ONLY <1>2, <1>3, <1>6, <1>7, n \in Nat \ {0}
<1>9. Along(h, Len(h) + Len(got))'
  BY ONLY <1>7, <1>8 DEF Along
<1>10. a < Len(got') /\ Len(got') <= sent
  BY ONLY <1>2, <1>3, <1>4, <1>6, n \in Nat \ {0}, n <= Ahead
<1>11. More
  BY ONLY <1>0, <1>6, <1>10, Trusted, out' = out DEF More
<1> QED
  BY ONLY <1>6, <1>9, <1>11

\* An open stream whose reader holds nothing passes on what the connection has.
LEMMA OpenPasses ==
  ASSUME NEW h, Typed, Link, Heard, Along(h, Len(h) + Len(got)), Trusted, MaxBytes \in Nat,
         rd.buf = <<>>, PassThrough, UNCHANGED netVars
  PROVE  Typed' /\ rd' = rd /\ Heard' /\ Along(h, Len(h) + Len(got))' /\ (Silent \/ More \/ Over)
<1>1. UNCHANGED <<flight, fin, cut, closed, sent>>
  BY DEF netVars
<1>2. CASE Pend \/ AtEof("eof")
  <2>1. rd' = rd /\ wire' = wire /\ got' = got
    BY <1>2 DEF Pend, AtEof
  <2>2. Ahead' = Ahead /\ Rest' = Rest /\ Typed' /\ Heard'
    BY ONLY <1>1, <2>1, Typed, Heard DEF Ahead, Rest, Typed, Heard
  <2>3. PICK p : p = Len(h) + Len(got) /\ Along(h, p)
    OBVIOUS
  <2>4. Along(h, p)'
    BY ONLY <1>1, <2>2, <2>3, AlongStays
  <2>5. Along(h, Len(h) + Len(got))'
    BY ONLY <2>1, <2>3, <2>4 DEF Along
  <2>6. Silent \/ Over
    <3>1. CASE Pend
      BY <3>1, <2>1 DEF Pend, Silent
    <3>2. CASE AtEof("eof")
      <4>1. wire = <<>> /\ fin /\ out' = "eof" /\ flight = <<>>
        BY <3>2 DEF AtEof, Link
      <4>2. Ahead = 0
        BY ONLY <4>1, rd.buf = <<>> DEF Ahead
      <4>3. CASE cut
        BY ONLY <2>1, <4>1, <4>3, Trusted DEF Over
      <4>4. CASE ~cut
        <5>1. closed
          BY <4>1, <4>4 DEF Link
        <5>2. Len(h) + Len(got) + Ahead = Len(h) + sent /\ h \in Seq(Tokens)
          BY <4>4 DEF Along
        <5>3. Len(h) \in Nat /\ Len(got) \in Nat /\ sent \in Nat
          BY <5>2 DEF Heard, Link
        <5>4. Len(got) = sent
          BY ONLY <4>2, <5>2, <5>3
        <5> QED
          BY ONLY <2>1, <4>1, <5>1, <5>4, Trusted DEF Over
      <4> QED
        BY ONLY <4>3, <4>4
    <3> QED
      BY ONLY <1>2, <3>1, <3>2
  <2> QED
    BY ONLY <2>1, <2>2, <2>5, <2>6
<1>3. ASSUME NEW n \in 1 .. Len(wire), got' = got \o Take(wire, n), wire' = Drop(wire, n), UNCHANGED <<rd, out, task>>
      PROVE  Typed' /\ rd' = rd /\ Heard' /\ Along(h, Len(h) + Len(got))' /\ More
  <2>1. n \in 0 .. Len(wire) /\ n \in Nat \ {0}
    BY <1>3, RestIs
  <2>2. rd.buf = <<>> /\ rd'.buf = <<>> /\ "buf" \in DOMAIN rd' /\ flight' = flight
    BY <1>1, <1>3 DEF Typed
  <2>3. /\ Typed' /\ Ahead' = Ahead - n /\ n <= Ahead
        /\ \A i \in 1 .. Ahead' : Rest'[i] = Rest[n + i]
        /\ Take(wire, n) \in Seq(Tokens) /\ Len(Take(wire, n)) = n
        /\ \A i \in 1 .. n : Take(wire, n)[i] = Rest[i]
    BY ONLY Typed, <2>1, <2>2, <1>3, WireTakes
  <2>4. PICK t : t = Take(wire, n)
    OBVIOUS
  <2>5. t \in Seq(Tokens) /\ Len(t) = n /\ (\A i \in 1 .. n : t[i] = Rest[i]) /\ got' = got \o t
    BY ONLY <1>3, <2>3, <2>4
  <2>6. Heard' /\ Along(h, Len(h) + Len(got))' /\ More
    BY ONLY Typed, Link, Heard, Along(h, Len(h) + Len(got)), Trusted, MaxBytes \in Nat,
            <1>1, <1>3, <2>1, <2>3, <2>5, OpenGives
  <2> QED
    BY ONLY <1>3, <2>3, <2>6
<1> QED
  BY <1>2, <1>3 DEF PassThrough

\* An open stream gives out of what its reader holds.
LEMMA OpenDelivers ==
  ASSUME NEW h, Typed, Link, Heard, Along(h, Len(h) + Len(got)), Trusted, MaxBytes \in Nat,
         NEW n \in 1 .. Len(rd.buf), NEW r, Deliver(Take(rd.buf, n), r), r.buf = Drop(rd.buf, n), "buf" \in DOMAIN r,
         UNCHANGED netVars
  PROVE  Typed' /\ rd' = r /\ Heard' /\ Along(h, Len(h) + Len(got))' /\ More
<1>1. UNCHANGED <<flight, fin, cut, closed, sent>>
  BY DEF netVars
<1>2. got' = got \o Take(rd.buf, n) /\ rd' = r /\ UNCHANGED <<wire, out, task>>
  BY DEF Deliver
<1>3. n \in 0 .. Len(rd.buf) /\ n \in Nat \ {0}
  BY RestIs
<1>4. rd'.buf = Drop(rd.buf, n) /\ "buf" \in DOMAIN rd' /\ wire' = wire /\ flight' = flight
  BY ONLY <1>1, <1>2, r.buf = Drop(rd.buf, n), "buf" \in DOMAIN r
<1>5. /\ Typed' /\ Ahead' = Ahead - n /\ n <= Ahead
      /\ \A i \in 1 .. Ahead' : Rest'[i] = Rest[n + i]
      /\ Take(rd.buf, n) \in Seq(Tokens) /\ Len(Take(rd.buf, n)) = n
      /\ \A i \in 1 .. n : Take(rd.buf, n)[i] = Rest[i]
  BY ONLY Typed, <1>3, <1>4, BufTakes
<1>6. PICK t : t = Take(rd.buf, n)
  OBVIOUS
<1>7. t \in Seq(Tokens) /\ Len(t) = n /\ (\A i \in 1 .. n : t[i] = Rest[i]) /\ got' = got \o t
  BY ONLY <1>2, <1>5, <1>6
<1>8. Heard' /\ Along(h, Len(h) + Len(got))' /\ More
  BY ONLY Typed, Link, Heard, Along(h, Len(h) + Len(got)), Trusted, MaxBytes \in Nat,
          <1>1, <1>2, <1>3, <1>5, <1>7, OpenGives
<1> QED
  BY ONLY <1>2, <1>5, <1>8

\* A read of the handshake: more is held, or nothing changes, or the connection has ended.
LEMMA Waits ==
  ASSUME NEW h, NEW p, Typed, Along(h, p), Link, NEW room \in Nat, Input(room, "error"), UNCHANGED netVars
  PROVE  /\ Typed' /\ Along(h, p)' /\ got' = got
         /\ \/ /\ out' = out /\ rd' = [rd EXCEPT !.buf = rd'.buf]
               /\ Len(rd'.buf) = Len(rd.buf) + Least(room, Len(wire)) /\ Len(wire) > 0
            \/ out' = out /\ rd' = rd
            \/ out' = "error" /\ rd' = rd /\ (cut \/ (closed /\ p + Len(rd.buf) = Len(h) + sent))
<1>1. UNCHANGED <<flight, fin, cut, closed, sent>>
  BY DEF netVars
<1>2. CASE Pull(room)
  <2>1. /\ Typed' /\ Ahead' = Ahead /\ Rest' = Rest
        /\ rd' = [rd EXCEPT !.buf = rd'.buf]
        /\ Len(rd'.buf) = Len(rd.buf) + Least(room, Len(wire))
        /\ Len(wire) > 0
    BY ONLY Typed, room \in Nat, <1>1, <1>2, PullMoves
  <2>2. Along(h, p)'
    BY ONLY <1>1, <2>1, Along(h, p), AlongStays
  <2>3. got' = got /\ out' = out
    BY <1>2 DEF Pull
  <2> QED
    BY ONLY <2>1, <2>2, <2>3
<1>3. CASE Pend \/ AtEof("error")
  <2>1. rd' = rd /\ wire' = wire /\ got' = got
    BY <1>3 DEF Pend, AtEof
  <2>2. Ahead' = Ahead /\ Rest' = Rest /\ Typed'
    BY ONLY <1>1, <2>1, Typed DEF Ahead, Rest, Typed
  <2>3. Along(h, p)'
    BY ONLY <1>1, <2>2, Along(h, p), AlongStays
  <2>4. \/ out' = out
        \/ out' = "error" /\ (cut \/ (closed /\ p + Len(rd.buf) = Len(h) + sent))
    <3>1. CASE Pend
      BY <3>1 DEF Pend
    <3>2. CASE AtEof("error") /\ ~cut
      <4>1. wire = <<>> /\ fin /\ out' = "error" /\ flight = <<>> /\ closed
        BY <3>2 DEF AtEof, Link
      <4>2. Ahead = Len(rd.buf) + 0 + 0
        BY ONLY <4>1 DEF Ahead
      <4>3. Ahead = Len(rd.buf)
        BY <4>2, RestIs
      <4>4. p + Ahead = Len(h) + sent
        BY <3>2 DEF Along
      <4> QED
        BY ONLY <4>1, <4>3, <4>4
    <3>3. CASE AtEof("error") /\ cut
      BY <3>3 DEF AtEof
    <3> QED
      BY ONLY <1>3, <3>1, <3>2, <3>3
  <2> QED
    BY ONLY <2>1, <2>2, <2>3, <2>4
<1> QED
  BY <1>2, <1>3 DEF Input

-----------------------------------------------------------------------------
\* The three streams that begin with an HTTP message: simple-obfs HTTP, httpupgrade
\* and HTTP CONNECT.
HttpKinds == {"httpobfs", "upgrade", "http"}
First == IF kind = "httpobfs" THEN "header" ELSE IF kind = "upgrade" THEN "upgrade" ELSE "head"

\* What the server has said.
HttpSaid(h) ==
  /\ srv \in {0, 1}
  /\ srv = 0 => Len(h) = 0 /\ sent = 0 /\ ~closed
  /\ srv = 1 => /\ h[1] = <<"http", peer = "yes">>
                /\ peer # "long" => Len(h) = 2 /\ h[2] = <<"eoh", 0>>
                /\ peer = "long" => Len(h) = 3 /\ h[2] = <<"h", 1>> /\ h[3] = <<"h", 2>> /\ sent = 0 /\ ~closed

\* Where the reader is: in front of the message, or behind it with what it has passed on.
HttpAt(h, p) ==
  /\ "st" \in DOMAIN rd
  /\ rd.st = First => /\ p = 0 /\ got = <<>> /\ out # "eof"
                      /\ kind = "http" /\ peer # "long" => Len(rd.buf) <= 2
  /\ rd.st # First => srv = 1 /\ peer = "yes" /\ p = Len(h) + Len(got)
  /\ rd.st = "transfer" \/ (kind = "http" /\ rd.st = "open") => rd.buf = <<>>

\* The end of the header is the second token of what the reader holds.
LEMMA HeadHeld ==
  ASSUME NEW h, Typed, Along(h, 0), HttpSaid(h), sent \in Nat
  PROVE  /\ "eoh" \in Tags(rd.buf) =>
              srv = 1 /\ peer # "long" /\ Len(rd.buf) >= 2 /\ HeadEnd(rd.buf) = 2 /\ rd.buf[1] = <<"http", peer = "yes">>
         /\ "eoh" \notin Tags(rd.buf) /\ peer # "long" => Len(rd.buf) < 2
<1>1. PICK b : b = rd.buf
  OBVIOUS
<1>2. b \in Seq(Tokens) /\ Len(b) \in Nat /\ Ahead \in Nat /\ Len(b) <= Ahead
  BY <1>1, RestIs DEF Typed
<1>3. h \in Seq(Tokens) /\ Len(h) \in Nat /\ Len(b) <= Len(h) + sent
  <2>1. h \in Seq(Tokens) /\ Len(h) \in Nat /\ 0 + Ahead <= Len(h) + sent
    BY DEF Along
  <2> QED
    BY <1>2, <2>1
<1>4. ASSUME NEW i \in 1 .. Len(b) PROVE b[i] = Expected(h, i)
  <2>1. i \in 1 .. Ahead /\ 0 + i = i /\ i <= Len(b)
    BY <1>2
  <2>2. Rest[i] = b[i]
    BY <1>1, <2>1, RestIs
  <2>3. Rest[i] = Expected(h, 0 + i)
    BY ONLY <2>1, Along(h, 0) DEF Along
  <2> QED
    BY ONLY <2>1, <2>2, <2>3
<1>5. \A i \in 1 .. Len(b) : i <= Len(h) => b[i] = h[i]
  BY ONLY <1>2, <1>3, <1>4 DEF Expected
<1>6. \A i \in 1 .. Len(b) : i > Len(h) => Tag(b[i]) = "b"
  <2> SUFFICES ASSUME NEW i \in 1 .. Len(b), i > Len(h) PROVE Tag(b[i]) = "b"
    OBVIOUS
  <2>1. ~(i <= Len(h))
    BY ONLY <1>2, <1>3, i \in 1 .. Len(b), i > Len(h)
  <2>2. b[i] = Byte(i - Len(h))
    BY ONLY <1>4, <2>1 DEF Expected
  <2>3. Tag(Byte(i - Len(h))) = "b"
    BY ONLY DEF Byte, Tag
  <2> QED
    BY ONLY <2>2, <2>3
<1>7. ASSUME "eoh" \in Tags(b)
      PROVE  srv = 1 /\ peer # "long" /\ Len(b) >= 2 /\ HeadEnd(b) = 2 /\ b[1] = <<"http", peer = "yes">>
  <2>1. PICK i \in 1 .. Len(b) : Tag(b[i]) = "eoh"
    BY <1>7 DEF Tags
  <2>2. i <= Len(h)
    BY ONLY <1>3, <1>2, <1>6, <2>1
  <2>3. srv = 1
    BY ONLY <1>3, <2>1, <2>2, HttpSaid(h) DEF HttpSaid
  <2>4. b[i] = h[i]
    BY ONLY <1>5, <2>1, <2>2
  <2>5. Tag(h[i]) = "eoh"
    BY ONLY <2>1, <2>4
  <2>6. peer # "long"
    <3> SUFFICES ASSUME peer = "long" PROVE FALSE
      OBVIOUS
    <3>1. Len(h) = 3 /\ h[1] = <<"http", peer = "yes">> /\ h[2] = <<"h", 1>> /\ h[3] = <<"h", 2>>
      BY <2>3 DEF HttpSaid
    <3>2. i = 1 \/ i = 2 \/ i = 3
      BY ONLY <2>1, <2>2, <3>1
    <3> QED
      BY ONLY <2>5, <3>1, <3>2 DEF Tag
  <2>7. Len(h) = 2 /\ h[1] = <<"http", peer = "yes">> /\ h[2] = <<"eoh", 0>>
    BY <2>3, <2>6 DEF HttpSaid
  <2>8. \A j \in 1 .. Len(b) : Tag(b[j]) = "eoh" => j = 2
    <3> SUFFICES ASSUME NEW j \in 1 .. Len(b), Tag(b[j]) = "eoh" PROVE j = 2
      OBVIOUS
    <3>1. j <= Len(h)
      BY ONLY <1>2, <1>3, <1>6, Tag(b[j]) = "eoh"
    <3>2. j = 1 \/ j = 2
      BY ONLY <2>7, <3>1, <1>2
    <3>3. b[j] = h[j]
      BY ONLY <1>5, <3>1
    <3> QED
      BY ONLY <2>7, <3>2, <3>3, Tag(b[j]) = "eoh" DEF Tag
  <2>9. i = 2
    BY ONLY <2>1, <2>8
  <2>10. Len(b) >= 2 /\ 1 \in 1 .. Len(b) /\ 1 <= Len(h)
    BY ONLY <1>2, <2>1, <2>7, <2>9
  <2>11. HeadEnd(b) = 2
    BY ONLY <2>1, <2>8, <2>9 DEF HeadEnd
  <2>12. b[1] = h[1]
    BY ONLY <1>5, <2>10
  <2> QED
    BY ONLY <2>3, <2>6, <2>7, <2>10, <2>11, <2>12
<1>8. ASSUME "eoh" \notin Tags(b), peer # "long", ~(Len(b) < 2) PROVE FALSE
  <2>1. 2 \in 1 .. Len(b) /\ Len(h) + sent > 0
    BY ONLY <1>2, <1>3, <1>8, sent \in Nat
  <2>2. srv = 1
    BY <1>3, <2>1 DEF HttpSaid
  <2>3. Len(h) = 2 /\ h[2] = <<"eoh", 0>>
    BY <1>8, <2>2 DEF HttpSaid
  <2>4. b[2] = h[2]
    BY ONLY <1>5, <2>1, <2>3
  <2>5. Tag(b[2]) = "eoh"
    BY ONLY <2>3, <2>4 DEF Tag
  <2> QED
    BY ONLY <1>8, <2>1, <2>5 DEF Tags
<1> QED
  BY ONLY <1>1, <1>7, <1>8

LEMMA TokenIs ==
  ASSUME NEW x \in Labels, NEW y \in Values
  PROVE  <<x, y>> \in Tokens
BY DEF Tokens

\* HttpHead, token by token.
LEMMA HeadIs ==
  /\ HttpHead \in Seq(Tokens)
  /\ HttpHead[1] = <<"http", peer = "yes">>
  /\ peer # "long" => Len(HttpHead) = 2 /\ HttpHead[2] = <<"eoh", 0>>
  /\ peer = "long" => Len(HttpHead) = 3 /\ HttpHead[2] = <<"h", 1>> /\ HttpHead[3] = <<"h", 2>>
<1>1. PICK ok \in BOOLEAN : ok = (peer = "yes")
  OBVIOUS
<1>2. ok \in Values /\ 0 \in Values /\ 1 \in Values /\ 2 \in Values
  BY DEF Values
<1>3. "http" \in Labels /\ "eoh" \in Labels /\ "h" \in Labels
  BY DEF Labels
<1>4. <<"http", ok>> \in Tokens /\ <<"eoh", 0>> \in Tokens /\ <<"h", 1>> \in Tokens /\ <<"h", 2>> \in Tokens
  BY ONLY <1>2, <1>3, TokenIs
<1>5. PICK x \in Tokens : x = <<"http", ok>>
  BY ONLY <1>4
<1>6. <<x>> \in Seq(Tokens) /\ Len(<<x>>) = 1 /\ <<x>>[1] = x
  BY ONLY <1>5
<1>7. CASE peer = "long"
  <2>1. PICK y \in Tokens : y = <<"h", 1>>
    BY ONLY <1>4
  <2>2. PICK z \in Tokens : z = <<"h", 2>>
    BY ONLY <1>4
  <2>3. <<y, z>> \in Seq(Tokens) /\ Len(<<y, z>>) = 2 /\ <<y, z>>[1] = y /\ <<y, z>>[2] = z
    BY ONLY <2>1, <2>2
  <2>4. PICK s \in Seq(Tokens) : s = <<x>> /\ Len(s) = 1 /\ s[1] = x
    BY ONLY <1>6
  <2>5. PICK t \in Seq(Tokens) : t = <<y, z>> /\ Len(t) = 2 /\ t[1] = y /\ t[2] = z
    BY ONLY <2>3
  <2>6. HttpHead = s \o t
    BY ONLY <1>1, <1>5, <1>7, <2>1, <2>2, <2>4, <2>5 DEF HttpHead
  <2>7. PICK u : u = s \o t
    OBVIOUS
  <2>8. u \in Seq(Tokens) /\ Len(u) = 3 /\ u[1] = x /\ u[2] = y /\ u[3] = z
    <3>1. /\ u \in Seq(Tokens) /\ Len(u) = Len(s) + Len(t)
          /\ \A i \in 1 .. Len(s) : u[i] = s[i]
          /\ \A i \in 1 .. Len(t) : u[Len(s) + i] = t[i]
      BY ONLY <2>4, <2>5, <2>7, CatIs
    <3>2. 1 \in 1 .. Len(s) /\ 1 \in 1 .. Len(t) /\ 2 \in 1 .. Len(t)
      BY ONLY <2>4, <2>5
    <3>3. u[1] = s[1] /\ u[Len(s) + 1] = t[1] /\ u[Len(s) + 2] = t[2]
      BY ONLY <3>1, <3>2
    <3>4. Len(s) + 1 = 2 /\ Len(s) + 2 = 3 /\ Len(s) + Len(t) = 3
      BY ONLY <2>4, <2>5
    <3> QED
      BY ONLY <2>4, <2>5, <3>1, <3>3, <3>4
  <2> QED
    BY ONLY <1>1, <1>5, <1>7, <2>1, <2>2, <2>6, <2>7, <2>8
<1>8. CASE peer # "long"
  <2>1. PICK y \in Tokens : y = <<"eoh", 0>>
    BY ONLY <1>4
  <2>3. <<y>> \in Seq(Tokens) /\ Len(<<y>>) = 1 /\ <<y>>[1] = y
    BY ONLY <2>1
  <2>4. PICK s \in Seq(Tokens) : s = <<x>> /\ Len(s) = 1 /\ s[1] = x
    BY ONLY <1>6
  <2>5. PICK t \in Seq(Tokens) : t = <<y>> /\ Len(t) = 1 /\ t[1] = y
    BY ONLY <2>3
  <2>6. HttpHead = s \o t
    BY ONLY <1>1, <1>5, <1>8, <2>1, <2>4, <2>5 DEF HttpHead
  <2>7. PICK u : u = s \o t
    OBVIOUS
  <2>8. u \in Seq(Tokens) /\ Len(u) = 2 /\ u[1] = x /\ u[2] = y
    <3>1. /\ u \in Seq(Tokens) /\ Len(u) = Len(s) + Len(t)
          /\ \A i \in 1 .. Len(s) : u[i] = s[i]
          /\ \A i \in 1 .. Len(t) : u[Len(s) + i] = t[i]
      BY ONLY <2>4, <2>5, <2>7, CatIs
    <3>2. 1 \in 1 .. Len(s) /\ 1 \in 1 .. Len(t)
      BY ONLY <2>4, <2>5
    <3>3. u[1] = s[1] /\ u[Len(s) + 1] = t[1]
      BY ONLY <3>1, <3>2
    <3>4. Len(s) + 1 = 2 /\ Len(s) + Len(t) = 2
      BY ONLY <2>4, <2>5
    <3> QED
      BY ONLY <2>4, <2>5, <3>1, <3>3, <3>4
  <2> QED
    BY ONLY <1>1, <1>5, <1>8, <2>1, <2>6, <2>7, <2>8
<1> QED
  BY ONLY <1>7, <1>8

\* A step of a server is none to its application, or it sends bytes, or it closes.
Served ==
  /\ ~cut /\ ~closed /\ ~fin
  /\ \/ sent' = sent /\ closed' = closed
     \/ sent' \in (sent + 1) .. MaxBytes /\ closed' = closed
     \/ sent' = sent /\ closed'

\* The server sends bytes of its application, or closes.
LEMMA Putting ==
  ASSUME NEW h, NEW p, Typed, Link, Along(h, p), MaxBytes \in Nat, NEW s,
         (\E n \in 1 .. (MaxBytes - sent) : Put(Bytes(sent + 1, sent + n), n, s)) \/ (srv = s /\ Close(<<>>)),
         UNCHANGED <<wire, rd>>
  PROVE  Typed' /\ Link' /\ Along(h, p)' /\ srv' = s /\ Served
<1>1. ~fin /\ ~closed /\ ~cut /\ sent \in Nat /\ sent \in 0 .. MaxBytes
  BY DEF Put, Close, MaySend, Link
<1>2. ASSUME NEW n \in 1 .. (MaxBytes - sent), Put(Bytes(sent + 1, sent + n), n, s)
      PROVE  Typed' /\ Link' /\ Along(h, p)' /\ srv' = s /\ Served
  <2>1. n \in Nat /\ sent' = sent + n /\ flight' = flight \o Bytes(sent + 1, sent + n)
        /\ UNCHANGED <<fin, cut, closed>> /\ srv' = s
    BY <1>2, <1>1 DEF Put
  <2>2. Typed' /\ Along(h, p)'
    BY ONLY Typed, Along(h, p), <1>1, <2>1, UNCHANGED <<wire, rd>>, AlongPut
  <2>3. sent' \in (sent + 1) .. MaxBytes /\ sent' \in 0 .. MaxBytes
    BY ONLY <1>1, <1>2, <2>1, MaxBytes \in Nat
  <2>4. Link' /\ Served
    BY ONLY <1>1, <2>1, <2>3 DEF Link, Served
  <2> QED
    BY ONLY <2>1, <2>2, <2>4
<1>3. CASE srv = s /\ Close(<<>>)
  <2>1. closed' = TRUE /\ flight' = flight \o <<>> /\ UNCHANGED <<fin, cut, sent, srv>>
    BY <1>3 DEF Close
  <2>2. flight \in Seq(Tokens)
    BY DEF Typed
  <2>3. flight' = flight
    BY ONLY <2>1, <2>2, ConcatEmptySeq
  <2>4. Ahead' = Ahead /\ Rest' = Rest /\ Typed'
    BY ONLY <2>3, Typed, UNCHANGED <<wire, rd>> DEF Ahead, Rest, Typed
  <2>5. Along(h, p)'
    BY ONLY <2>1, <2>4, Along(h, p), AlongStays
  <2>6. Link' /\ Served
    BY ONLY <1>1, <2>1 DEF Link, Served
  <2> QED
    BY ONLY <1>3, <2>1, <2>4, <2>5, <2>6
<1> QED
  BY ONLY <1>2, <1>3, (\E n \in 1 .. (MaxBytes - sent) : Put(Bytes(sent + 1, sent + n), n, s)) \/ (srv = s /\ Close(<<>>))

\* The server says its part of a handshake.
LEMMA Saying ==
  ASSUME NEW h, NEW p, Typed, Link, Along(h, p), sent = 0, NEW t \in Seq(Tokens), NEW s, Say(t, s), UNCHANGED <<wire, rd>>
  PROVE  \E g :
           /\ Typed' /\ Link' /\ Along(g, p)' /\ srv' = s /\ Served /\ UNCHANGED <<sent, closed>>
           /\ Len(g) = Len(h) + Len(t) /\ Len(h) \in Nat
           /\ \A i \in 1 .. Len(h) : g[i] = h[i]
           /\ \A i \in 1 .. Len(t) : g[Len(h) + i] = t[i]
<1>1. ~fin /\ ~closed /\ ~cut /\ flight' = flight \o t /\ srv' = s /\ UNCHANGED <<fin, cut, closed, sent>>
  BY DEF Say, MaySend, Link
<1>2. PICK g : g = h \o t
  OBVIOUS
<1>3. /\ Typed' /\ Along(g, p)'
      /\ Len(g) = Len(h) + Len(t)
      /\ \A i \in 1 .. Len(h) : g[i] = h[i]
      /\ \A i \in 1 .. Len(t) : g[Len(h) + i] = t[i]
  <2>1. sent' = 0 /\ rd' = rd /\ wire' = wire
    BY <1>1
  <2> QED
    BY ONLY Typed, Along(h, p), sent = 0, t \in Seq(Tokens), <1>1, <1>2, <2>1, AlongSay
<1>4. Len(h) \in Nat
  BY DEF Along
<1>5. Link' /\ Served
  BY ONLY <1>1, Link DEF Link, Served
<1> QED
  BY ONLY <1>1, <1>3, <1>4, <1>5

\* Server and reader of a stream behind an HTTP message.
HttpInv == \E h, p : Along(h, p) /\ HttpSaid(h) /\ HttpAt(h, p)

\* A step of the server behind an HTTP message.
LEMMA HttpServes ==
  ASSUME Typed, Link, HttpInv, MaxBytes \in Nat,
         \/ srv = 0 /\ Say(HttpHead, 1)
         \/ /\ srv = 1 /\ peer # "long"
            /\ (\E n \in 1 .. (MaxBytes - sent) : Put(Bytes(sent + 1, sent + n), n, 1)) \/ Close(<<>>),
         UNCHANGED <<kind, peer, readVars>>
  PROVE  Typed' /\ Link' /\ HttpInv' /\ Served
<1>1. PICK h, p : Along(h, p) /\ HttpSaid(h) /\ HttpAt(h, p)
  BY DEF HttpInv
<1>2. UNCHANGED <<kind, peer, wire, rd, got, out>>
  BY DEF readVars
<1>3. CASE srv = 0 /\ Say(HttpHead, 1)
  <2>1. sent = 0 /\ ~closed /\ Len(h) = 0 /\ rd.st = First
    BY <1>1, <1>3 DEF HttpSaid, HttpAt
  <2>2. PICK t \in Seq(Tokens) : t = HttpHead
    BY HeadIs
  <2>3. Say(t, 1)
    BY ONLY <1>3, <2>2
  <2>4. PICK g :
           /\ Typed' /\ Link' /\ Along(g, p)' /\ srv' = 1 /\ Served /\ UNCHANGED <<sent, closed>>
           /\ Len(g) = Len(h) + Len(t) /\ Len(h) \in Nat
           /\ \A i \in 1 .. Len(h) : g[i] = h[i]
           /\ \A i \in 1 .. Len(t) : g[Len(h) + i] = t[i]
    BY ONLY Typed, Link, <1>1, <1>2, <2>1, <2>2, <2>3, Saying
  <2>5. Len(t) \in Nat /\ t[1] = <<"http", peer = "yes">>
        /\ (peer # "long" => Len(t) = 2 /\ t[2] = <<"eoh", 0>>)
        /\ (peer = "long" => Len(t) = 3 /\ t[2] = <<"h", 1>> /\ t[3] = <<"h", 2>>)
    BY <2>2, HeadIs
  <2>6. \A i \in 1 .. Len(t) : Len(h) + i = i
    BY ONLY <2>1, <2>5
  <2>7. Len(g) = Len(t) /\ \A i \in 1 .. Len(t) : g[i] = t[i]
    BY ONLY <2>1, <2>4, <2>5, <2>6
  <2>8. 1 \in 1 .. Len(t) /\ 2 \in 1 .. Len(t) /\ (peer = "long" => 3 \in 1 .. Len(t))
    BY ONLY <2>5
  <2>9. /\ g[1] = <<"http", peer = "yes">>
        /\ peer # "long" => Len(g) = 2 /\ g[2] = <<"eoh", 0>>
        /\ peer = "long" => Len(g) = 3 /\ g[2] = <<"h", 1>> /\ g[3] = <<"h", 2>>
    BY ONLY <2>5, <2>7, <2>8
  <2>10. HttpSaid(g)'
    <3>1. srv' = 1 /\ sent' = 0 /\ ~closed' /\ peer' = peer
      BY ONLY <1>2, <2>1, <2>4
    <3> QED
      BY ONLY <2>9, <3>1 DEF HttpSaid
  <2>11. HttpAt(g, p)'
    BY ONLY <1>1, <1>2, <2>1 DEF HttpAt, First
  <2>12. HttpInv'
    BY ONLY <2>4, <2>10, <2>11 DEF HttpInv
  <2> QED
    BY ONLY <2>4, <2>12
<1>4. CASE /\ srv = 1 /\ peer # "long"
           /\ (\E n \in 1 .. (MaxBytes - sent) : Put(Bytes(sent + 1, sent + n), n, 1)) \/ Close(<<>>)
  <2>1. Typed' /\ Link' /\ Along(h, p)' /\ srv' = 1 /\ Served
    BY ONLY Typed, Link, MaxBytes \in Nat, <1>1, <1>2, <1>4, Putting
  <2>2. HttpSaid(h)' /\ HttpAt(h, p)'
    BY ONLY <1>1, <1>2, <1>4, <2>1 DEF HttpSaid, HttpAt, First
  <2> QED
    BY ONLY <2>1, <2>2 DEF HttpInv
<1> QED
  BY <1>3, <1>4

\* The message has been read: the reader goes on behind it, with what it holds beyond.
LEMMA HeadPassed ==
  ASSUME NEW h, NEW p, NEW r, Typed, Link, Heard, Along(h, p), HttpSaid(h), HttpAt(h, p), rd.st = First,
         "eoh" \in Tags(rd.buf), peer = "yes", Become(r), UNCHANGED <<kind, peer, netVars>>,
         "buf" \in DOMAIN r, "st" \in DOMAIN r, r.buf = Drop(rd.buf, 2), r.st # First,
         r.st # "transfer", kind = "http" => r.buf = <<>>
  PROVE  Typed' /\ Heard' /\ HttpInv' /\ Silent
<1>1. UNCHANGED <<wire, got, out, flight, fin, cut, closed, sent, srv>> /\ rd' = r
  BY DEF Become, netVars
<1>2. p = 0 /\ got = <<>> /\ sent \in Nat /\ peer # "long"
  BY DEF HttpAt, Link
<1>3. Along(h, 0)
  BY ONLY <1>2, Along(h, p)
<1>4. srv = 1 /\ Len(rd.buf) >= 2
  BY ONLY Typed, HttpSaid(h), <1>2, <1>3, "eoh" \in Tags(rd.buf), HeadHeld
<1>5. Len(h) = 2
  BY ONLY <1>2, <1>4, HttpSaid(h) DEF HttpSaid
<1>6. 2 \in 0 .. Len(rd.buf) /\ Ahead \in Nat
  BY <1>4, RestIs
<1>7. rd'.buf = Drop(rd.buf, 2) /\ "buf" \in DOMAIN rd' /\ wire' = wire /\ flight' = flight
  BY ONLY <1>1, r.buf = Drop(rd.buf, 2), "buf" \in DOMAIN r
<1>8. Typed' /\ Ahead' = Ahead - 2 /\ 2 <= Ahead /\ (\A i \in 1 .. Ahead' : Rest'[i] = Rest[2 + i])
  BY ONLY Typed, <1>6, <1>7, BufTakes
<1>9. 2 \in Nat
  OBVIOUS
<1>10. Along(h, 0 + 2)'
  BY ONLY <1>1, <1>2, <1>3, <1>6, <1>8, <1>9, AlongTaken
<1>11. Len(got) = 0 /\ got' = got
  BY ONLY <1>1, <1>2
<1>12. PICK q : q = 0 + 2 /\ q = Len(h) + Len(got) /\ Along(h, q)'
  BY ONLY <1>5, <1>10, <1>11
<1>13. First' = First
  BY ONLY UNCHANGED <<kind, peer, netVars>> DEF First
<1>14. HttpSaid(h)'
  BY ONLY <1>1, HttpSaid(h), UNCHANGED <<kind, peer, netVars>> DEF HttpSaid
<1>15. HttpAt(h, q)'
  <2>1. "st" \in DOMAIN rd' /\ rd'.st # First' /\ srv' = 1 /\ peer' = "yes" /\ q = Len(h) + Len(got')
    BY ONLY <1>1, <1>4, <1>11, <1>12, <1>13, "st" \in DOMAIN r, r.st # First, peer = "yes", UNCHANGED <<kind, peer, netVars>>
  <2>2. rd'.st # "transfer" /\ (kind' = "http" => rd'.buf = <<>>)
    BY ONLY <1>1, r.st # "transfer", kind = "http" => r.buf = <<>>, UNCHANGED <<kind, peer, netVars>>
  <2> QED
    BY ONLY <2>1, <2>2 DEF HttpAt
<1>16. HttpInv'
  BY ONLY <1>12, <1>14, <1>15 DEF HttpInv
<1>17. Heard' /\ Silent
  BY ONLY <1>1, Heard DEF Heard, Silent
<1> QED
  BY ONLY <1>8, <1>16, <1>17

\* The header is not complete.
LEMMA HeadWaits ==
  ASSUME NEW h, NEW p, NEW room \in Nat, Typed, Link, Heard, Along(h, p), HttpSaid(h), HttpAt(h, p), rd.st = First,
         "eoh" \notin Tags(rd.buf), kind = "http" => room = 1, Input(room, "error"), UNCHANGED <<kind, peer, netVars>>
  PROVE  Typed' /\ Heard' /\ HttpInv' /\ (Silent \/ Broke)
<1>1. UNCHANGED <<kind, peer, flight, fin, cut, closed, sent, srv>> /\ UNCHANGED netVars
  BY DEF netVars
<1>2. p = 0 /\ got = <<>> /\ out # "eof" /\ sent \in Nat /\ "st" \in DOMAIN rd
  BY DEF HttpAt, Link
<1>3. Along(h, 0)
  BY ONLY <1>2, Along(h, p)
<1>4. peer # "long" => Len(rd.buf) < 2
  BY ONLY Typed, HttpSaid(h), <1>2, <1>3, "eoh" \notin Tags(rd.buf), HeadHeld
<1>5. /\ Typed' /\ Along(h, p)' /\ got' = got
      /\ \/ /\ out' = out /\ rd' = [rd EXCEPT !.buf = rd'.buf]
            /\ Len(rd'.buf) = Len(rd.buf) + Least(room, Len(wire)) /\ Len(wire) > 0
         \/ out' = out /\ rd' = rd
         \/ out' = "error" /\ rd' = rd /\ (cut \/ (closed /\ p + Len(rd.buf) = Len(h) + sent))
  BY ONLY Typed, Along(h, p), Link, room \in Nat, Input(room, "error"), <1>1, Waits
<1>6. Len(rd.buf) \in Nat /\ Len(wire) \in Nat
  BY RestIs
<1>7. HttpSaid(h)' /\ Heard' /\ First' = First
  BY ONLY <1>1, <1>5, HttpSaid(h), Heard DEF HttpSaid, Heard, First
<1>8. rd'.st = First /\ "st" \in DOMAIN rd' /\ out' # "eof"
  BY ONLY <1>2, <1>5, rd.st = First
<1>9. kind = "http" /\ peer # "long" => Len(rd'.buf) <= 2
  <2> SUFFICES ASSUME kind = "http", peer # "long" PROVE Len(rd'.buf) <= 2
    OBVIOUS
  <2>1. Len(rd.buf) < 2 /\ room = 1
    BY <1>4
  <2>2. Least(1, Len(wire)) <= 1 /\ Least(1, Len(wire)) \in Nat
    BY <1>6 DEF Least
  <2>3. Len(rd'.buf) = Len(rd.buf) + Least(1, Len(wire)) \/ Len(rd'.buf) = Len(rd.buf)
    BY ONLY <1>5, <2>1
  <2> QED
    BY ONLY <1>6, <2>1, <2>2, <2>3
<1>10. HttpAt(h, p)'
  <2>1. rd'.st = First' /\ p = 0 /\ got' = <<>> /\ First' # "transfer" /\ ~(kind = "http" /\ rd'.st = "open")
    BY ONLY <1>2, <1>5, <1>7, <1>8 DEF First
  <2> QED
    BY ONLY <1>1, <1>8, <1>9, <2>1 DEF HttpAt
<1>11. HttpInv'
  BY ONLY <1>5, <1>7, <1>10 DEF HttpInv
<1>12. Silent \/ Broke
  <2>1. CASE out' = out
    BY ONLY <1>5, <2>1 DEF Silent
  <2>2. CASE out' = "error" /\ cut
    BY ONLY <1>5, <2>2 DEF Broke
  <2>3. CASE closed /\ p + Len(rd.buf) = Len(h) + sent
    <3>1. srv = 1 /\ peer # "long"
      BY ONLY <2>3, HttpSaid(h) DEF HttpSaid
    <3>2. Len(h) = 2
      BY ONLY <3>1, HttpSaid(h) DEF HttpSaid
    <3> QED
      BY ONLY <1>2, <1>4, <1>6, <2>3, <3>1, <3>2
  <2> QED
    BY ONLY <1>5, <2>1, <2>2, <2>3
<1> QED
  BY ONLY <1>5, <1>7, <1>11, <1>12

\* The handshake is refused.
LEMMA HeadFails ==
  ASSUME NEW h, NEW p, Typed, Heard, Along(h, p), HttpSaid(h), HttpAt(h, p), rd.st = First, ~Sound,
         Finish("error"), UNCHANGED <<kind, peer, netVars>>
  PROVE  Typed' /\ Heard' /\ HttpInv' /\ Broke
<1>1. UNCHANGED <<kind, peer, wire, rd, got, flight, cut, closed, sent, srv>> /\ out' = "error"
  BY DEF netVars, Finish
<1>2. Ahead' = Ahead /\ Rest' = Rest /\ Typed' /\ Heard'
  BY ONLY <1>1, Typed, Heard DEF Ahead, Rest, Typed, Heard
<1>3. Along(h, p)'
  BY ONLY <1>1, <1>2, Along(h, p), AlongStays
<1>4. HttpSaid(h)' /\ HttpAt(h, p)'
  BY ONLY <1>1, HttpSaid(h), HttpAt(h, p), rd.st = First DEF HttpSaid, HttpAt, First
<1>5. HttpInv'
  BY ONLY <1>3, <1>4 DEF HttpInv
<1>6. Broke
  BY ONLY <1>1, ~Sound DEF Broke
<1> QED
  BY ONLY <1>2, <1>5, <1>6

\* The stream is open and its reader holds nothing.
LEMMA HttpPasses ==
  ASSUME NEW h, NEW p, Typed, Link, Heard, Along(h, p), HttpSaid(h), HttpAt(h, p), rd.st # First, rd.buf = <<>>,
         MaxBytes \in Nat, PassThrough, UNCHANGED <<kind, peer, netVars>>
  PROVE  Typed' /\ Heard' /\ HttpInv' /\ Polled
<1>1. UNCHANGED <<kind, peer, closed, sent, srv>> /\ UNCHANGED netVars
  BY DEF netVars
<1>2. p = Len(h) + Len(got) /\ peer = "yes" /\ srv = 1
  BY DEF HttpAt
<1>3. Trusted /\ Along(h, Len(h) + Len(got))
  BY <1>2 DEF Trusted
<1>4. Typed' /\ rd' = rd /\ Heard' /\ Along(h, Len(h) + Len(got))' /\ (Silent \/ More \/ Over)
  BY ONLY Typed, Link, Heard, <1>1, <1>3, MaxBytes \in Nat, rd.buf = <<>>, PassThrough, OpenPasses
<1>5. PICK q : q = Len(h) + Len(got') /\ Along(h, q)'
  <2>1. PICK q : q = Len(h) + Len(got')
    OBVIOUS
  <2>2. Along(h, q)'
    BY ONLY <1>4, <2>1 DEF Along
  <2> QED
    BY ONLY <2>1, <2>2
<1>6. HttpSaid(h)' /\ HttpAt(h, q)'
  BY ONLY <1>1, <1>2, <1>4, <1>5, HttpSaid(h), HttpAt(h, p), rd.st # First DEF HttpSaid, HttpAt, First
<1>7. HttpInv'
  BY ONLY <1>5, <1>6 DEF HttpInv
<1> QED
  BY ONLY <1>4, <1>7 DEF Polled

\* The stream is open and gives out what came with the message.
LEMMA HttpDelivers ==
  ASSUME NEW h, NEW p, Typed, Link, Heard, Along(h, p), HttpSaid(h), HttpAt(h, p), rd.st # First,
         MaxBytes \in Nat, NEW n \in 1 .. Len(rd.buf), NEW r, Deliver(Take(rd.buf, n), r), r.buf = Drop(rd.buf, n),
         "buf" \in DOMAIN r, "st" \in DOMAIN r, r.st # First,
         r.st = "transfer" \/ (kind = "http" /\ r.st = "open") => r.buf = <<>>,
         UNCHANGED <<kind, peer, netVars>>
  PROVE  Typed' /\ Heard' /\ HttpInv' /\ Polled
<1>1. UNCHANGED <<kind, peer, closed, sent, srv>> /\ UNCHANGED netVars
  BY DEF netVars
<1>2. p = Len(h) + Len(got) /\ peer = "yes" /\ srv = 1
  BY DEF HttpAt
<1>3. Trusted /\ Along(h, Len(h) + Len(got))
  BY <1>2 DEF Trusted
<1>4. Typed' /\ rd' = r /\ Heard' /\ Along(h, Len(h) + Len(got))' /\ More
  BY ONLY Typed, Link, Heard, <1>1, <1>3, MaxBytes \in Nat, n \in 1 .. Len(rd.buf), Deliver(Take(rd.buf, n), r),
          r.buf = Drop(rd.buf, n), "buf" \in DOMAIN r, OpenDelivers
<1>5. PICK q : q = Len(h) + Len(got') /\ Along(h, q)'
  <2>1. PICK q : q = Len(h) + Len(got')
    OBVIOUS
  <2>2. Along(h, q)'
    BY ONLY <1>4, <2>1 DEF Along
  <2> QED
    BY ONLY <2>1, <2>2
<1>6. HttpSaid(h)' /\ HttpAt(h, q)'
  BY ONLY <1>1, <1>2, <1>4, <1>5, HttpSaid(h), "st" \in DOMAIN r, r.st # First,
          r.st = "transfer" \/ (kind = "http" /\ r.st = "open") => r.buf = <<>> DEF HttpSaid, HttpAt, First
<1>7. HttpInv'
  BY ONLY <1>5, <1>6 DEF HttpInv
<1> QED
  BY ONLY <1>4, <1>7 DEF Polled

\* A poll of one of the three streams (obfs.rs, transport.rs, http_connect.rs).
LEMMA HttpReads ==
  ASSUME Typed, Link, Heard, HttpInv, MaxBytes \in Nat, kind \in HttpKinds, peer \in Peers(kind),
         \/ kind = "httpobfs" /\ HoRead
         \/ kind = "upgrade" /\ (UpRead \/ PrefixedRead)
         \/ kind = "http" /\ HcRead,
         UNCHANGED <<kind, peer, netVars>>
  PROVE  Typed' /\ Heard' /\ HttpInv' /\ Polled
<1>1. PICK h, p : Along(h, p) /\ HttpSaid(h) /\ HttpAt(h, p)
  BY DEF HttpInv
<1>2. "buf" \in DOMAIN rd /\ "st" \in DOMAIN rd /\ rd.buf \in Seq(Tokens) /\ Len(rd.buf) \in Nat /\ Len(wire) \in Nat
  BY <1>1, RestIs DEF HttpAt, Typed
<1>3. ASSUME rd.st = First
      PROVE  /\ "eoh" \in Tags(rd.buf) => peer # "long" /\ Len(rd.buf) >= 2 /\ HeadEnd(rd.buf) = 2
                                          /\ rd.buf[1] = <<"http", peer = "yes">>
             /\ "eoh" \notin Tags(rd.buf) /\ peer # "long" => Len(rd.buf) < 2
  <2>1. Along(h, 0) /\ sent \in Nat
    BY <1>1, <1>3 DEF HttpAt, Link
  <2> QED
    BY ONLY Typed, <1>1, <2>1, HeadHeld
<1>4. peer = "long" => ~Sound
  BY DEF Sound
<1>5. kind = "httpobfs" => peer \in {"yes", "long"}
  BY DEF Peers
<1>6. ASSUME NEW st, st # First, st # "transfer", Become([rd EXCEPT !.st = st, !.buf = Drop(@, HeadEnd(@))]),
             rd.st = First, "eoh" \in Tags(rd.buf), peer = "yes", kind # "http"
      PROVE  Typed' /\ Heard' /\ HttpInv' /\ Polled
  <2>1. PICK r : r = [rd EXCEPT !.st = st, !.buf = Drop(rd.buf, 2)]
    OBVIOUS
  <2>2. Become(r)
    BY ONLY <1>3, <1>6, <2>1
  <2>3. "buf" \in DOMAIN r /\ "st" \in DOMAIN r /\ r.buf = Drop(rd.buf, 2) /\ r.st = st
    BY ONLY <1>2, <2>1
  <2>4. Typed' /\ Heard' /\ HttpInv' /\ Silent
    BY ONLY Typed, Link, Heard, <1>1, <1>6, <2>2, <2>3, UNCHANGED <<kind, peer, netVars>>, HeadPassed
  <2> QED
    BY ONLY <2>4 DEF Polled
<1>7. ASSUME rd.st = First, Finish("error"), ~Sound
      PROVE  Typed' /\ Heard' /\ HttpInv' /\ Polled
  <2>1. Typed' /\ Heard' /\ HttpInv' /\ Broke
    BY ONLY Typed, Heard, <1>1, <1>7, UNCHANGED <<kind, peer, netVars>>, HeadFails
  <2> QED
    BY ONLY <2>1 DEF Polled
<1>8. ASSUME rd.st = First, "eoh" \notin Tags(rd.buf), NEW room \in Nat, kind = "http" => room = 1, Input(room, "error")
      PROVE  Typed' /\ Heard' /\ HttpInv' /\ Polled
  <2>1. Typed' /\ Heard' /\ HttpInv' /\ (Silent \/ Broke)
    BY ONLY Typed, Link, Heard, <1>1, <1>8, UNCHANGED <<kind, peer, netVars>>, HeadWaits
  <2> QED
    BY ONLY <2>1 DEF Polled
<1>9. rd.st = First /\ "eoh" \notin Tags(rd.buf) /\ Len(rd.buf) > MaxHead => ~Sound
  BY ONLY <1>2, <1>3, <1>4 DEF MaxHead
<1>10. rd.st = First /\ "eoh" \in Tags(rd.buf) => (peer = "yes" <=> rd.buf[1] = <<"http", TRUE>>)
  <2> SUFFICES ASSUME rd.st = First, "eoh" \in Tags(rd.buf) PROVE peer = "yes" <=> rd.buf[1] = <<"http", TRUE>>
    OBVIOUS
  <2>1. PICK ok \in BOOLEAN : ok = (peer = "yes")
    OBVIOUS
  <2>2. rd.buf[1] = <<"http", ok>>
    BY <1>3, <2>1
  <2>3. <<"http", ok>> = <<"http", TRUE>> <=> ok
    BY ONLY <2>1
  <2> QED
    BY ONLY <2>1, <2>2, <2>3
<1>11. peer # "yes" /\ kind # "socks" => ~Sound
  <2>1. peer # "auth"
    BY DEF Peers, HttpKinds
  <2> QED
    BY <2>1 DEF Sound
<1>12. ASSUME rd.st # First, rd.buf = <<>>, PassThrough
       PROVE  Typed' /\ Heard' /\ HttpInv' /\ Polled
  BY ONLY Typed, Link, Heard, <1>1, <1>12, MaxBytes \in Nat, UNCHANGED <<kind, peer, netVars>>, HttpPasses
<1>13. CASE kind = "httpobfs" /\ HoRead
  <2>1. First = "header"
    BY <1>13 DEF First
  <2>2. CASE HoReadHeader
    <3>1. rd.st = First
      BY <2>1, <2>2 DEF HoReadHeader
    <3>2. CASE "eoh" \in Tags(rd.buf)
      <4>1. Become([rd EXCEPT !.st = "leftover", !.buf = Drop(@, HeadEnd(@))])
        BY <2>2, <3>2 DEF HoReadHeader
      <4>2. peer = "yes" /\ "leftover" # First /\ kind # "http"
        BY <1>3, <1>5, <1>13, <2>1, <3>1, <3>2
      <4> QED
        BY ONLY <1>6, <3>1, <3>2, <4>1, <4>2
    <3>3. CASE "eoh" \notin Tags(rd.buf)
      <4>1. (Len(rd.buf) > MaxHead /\ Finish("error")) \/ Input(MaxHead, "error")
        BY <2>2, <3>3 DEF HoReadHeader
      <4>2. MaxHead \in Nat
        BY DEF MaxHead
      <4> QED
        BY ONLY <1>7, <1>8, <1>9, <1>13, <3>1, <3>3, <4>1, <4>2
    <3> QED
      BY ONLY <3>2, <3>3
  <2>3. CASE HoReadLeftover
    <3>1. rd.st = "leftover" /\ rd.st # First
      BY <2>1, <2>3 DEF HoReadLeftover
    <3>2. CASE rd.buf = <<>> /\ Become([rd EXCEPT !.st = "transfer"])
      <4>1. UNCHANGED <<kind, peer, wire, got, out, flight, cut, closed, sent, srv>>
        BY <3>2 DEF Become, netVars
      <4>2. rd' = [rd EXCEPT !.st = "transfer"]
        BY <3>2 DEF Become
      <4>3. rd'.buf = rd.buf /\ rd'.buf = <<>> /\ rd'.st = "transfer" /\ "buf" \in DOMAIN rd' /\ "st" \in DOMAIN rd'
        BY ONLY <1>2, <3>2, <4>2
      <4>4. Ahead' = Ahead /\ Rest' = Rest /\ Typed' /\ Heard'
        BY ONLY <4>1, <4>3, Typed, Heard DEF Ahead, Rest, Typed, Heard
      <4>5. Along(h, p)'
        BY ONLY <1>1, <4>1, <4>4, AlongStays
      <4>6. HttpSaid(h)' /\ HttpAt(h, p)'
        BY ONLY <1>1, <2>1, <3>1, <4>1, <4>3 DEF HttpSaid, HttpAt, First
      <4>7. HttpInv' /\ Silent
        BY ONLY <4>1, <4>5, <4>6 DEF HttpInv, Silent
      <4> QED
        BY ONLY <4>4, <4>7 DEF Polled
    <3>3. ASSUME NEW n \in 1 .. Len(rd.buf),
                 Deliver(Take(rd.buf, n),
                         [rd EXCEPT !.st = IF n = Len(rd.buf) THEN "transfer" ELSE "leftover", !.buf = Drop(@, n)])
          PROVE  Typed' /\ Heard' /\ HttpInv' /\ Polled
      <4>1. PICK r : r = [rd EXCEPT !.st = IF n = Len(rd.buf) THEN "transfer" ELSE "leftover", !.buf = Drop(rd.buf, n)]
        OBVIOUS
      <4>2. Deliver(Take(rd.buf, n), r)
        BY ONLY <3>3, <4>1
      <4>3. "buf" \in DOMAIN r /\ "st" \in DOMAIN r /\ r.buf = Drop(rd.buf, n)
            /\ r.st = IF n = Len(rd.buf) THEN "transfer" ELSE "leftover"
        BY ONLY <1>2, <4>1
      <4>4. n = Len(rd.buf) => Drop(rd.buf, n) = <<>>
        <5>1. n \in 0 .. Len(rd.buf)
          BY <1>2, <3>3
        <5>2. Drop(rd.buf, n) \in Seq(Tokens) /\ Len(Drop(rd.buf, n)) = Len(rd.buf) - n
          BY ONLY <1>2, <5>1, TakeDrop
        <5> QED
          BY ONLY <1>2, <5>2, EmptySeq
      <4>5. r.st # First /\ (r.st = "transfer" \/ (kind = "http" /\ r.st = "open") => r.buf = <<>>)
        BY ONLY <1>13, <2>1, <4>3, <4>4
      <4> QED
        BY ONLY Typed, Link, Heard, <1>1, <3>1, <3>3, <4>2, <4>3, <4>5, MaxBytes \in Nat,
                UNCHANGED <<kind, peer, netVars>>, HttpDelivers
    <3> QED
      BY <2>3, <3>2, <3>3 DEF HoReadLeftover
  <2>4. CASE rd.st = "transfer" /\ PassThrough
    <3>1. rd.st # First /\ rd.buf = <<>>
      BY <1>1, <2>1, <2>4 DEF HttpAt
    <3> QED
      BY ONLY <1>12, <2>4, <3>1
  <2> QED
    BY <1>13, <2>2, <2>3, <2>4 DEF HoRead
<1>14. CASE kind = "upgrade" /\ (UpRead \/ PrefixedRead)
  <2>1. First = "upgrade"
    BY <1>14 DEF First
  <2>2. CASE UpRead
    <3>1. rd.st = First
      BY <2>1, <2>2 DEF UpRead
    <3>2. CASE "eoh" \in Tags(rd.buf) /\ rd.buf[1] = <<"http", TRUE>>
      <4>1. Become([rd EXCEPT !.st = "open", !.buf = Drop(@, HeadEnd(@))])
        BY <2>2, <3>2 DEF UpRead
      <4>2. peer = "yes" /\ "open" # First /\ kind # "http"
        BY <1>10, <1>14, <2>1, <3>1, <3>2
      <4> QED
        BY ONLY <1>6, <3>1, <3>2, <4>1, <4>2
    <3>3. CASE "eoh" \in Tags(rd.buf) /\ rd.buf[1] # <<"http", TRUE>>
      <4>1. Finish("error")
        BY <2>2, <3>3 DEF UpRead
      <4>2. ~Sound
        BY <1>10, <1>11, <1>14, <3>1, <3>3
      <4> QED
        BY ONLY <1>7, <3>1, <4>1, <4>2
    <3>4. CASE "eoh" \notin Tags(rd.buf)
      <4>1. (Len(rd.buf) > MaxHead /\ Finish("error")) \/ Input(Len(wire), "error")
        BY <2>2, <3>4 DEF UpRead
      <4> QED
        BY ONLY <1>2, <1>7, <1>8, <1>9, <1>14, <3>1, <3>4, <4>1
    <3> QED
      BY ONLY <3>2, <3>3, <3>4
  <2>3. CASE PrefixedRead
    <3>1. rd.st = "open" /\ rd.st # First
      BY <2>1, <2>3 DEF PrefixedRead
    <3>2. CASE rd.buf = <<>>
      <4>1. PassThrough
        BY <2>3, <3>2 DEF PrefixedRead
      <4> QED
        BY ONLY <1>12, <3>1, <3>2, <4>1
    <3>3. CASE rd.buf # <<>>
      <4>1. PICK n \in 1 .. Len(rd.buf) : Deliver(Take(rd.buf, n), [rd EXCEPT !.buf = Drop(@, n)])
        BY <2>3, <3>3 DEF PrefixedRead
      <4>2. PICK r : r = [rd EXCEPT !.buf = Drop(rd.buf, n)]
        OBVIOUS
      <4>3. Deliver(Take(rd.buf, n), r)
        BY ONLY <4>1, <4>2
      <4>4. "buf" \in DOMAIN r /\ "st" \in DOMAIN r /\ r.buf = Drop(rd.buf, n) /\ r.st = "open"
        BY ONLY <1>2, <3>1, <4>2
      <4>5. r.st # First /\ (r.st = "transfer" \/ (kind = "http" /\ r.st = "open") => r.buf = <<>>)
        BY ONLY <1>14, <2>1, <4>4
      <4> QED
        BY ONLY Typed, Link, Heard, <1>1, <3>1, <4>1, <4>3, <4>4, <4>5, MaxBytes \in Nat,
                UNCHANGED <<kind, peer, netVars>>, HttpDelivers
    <3> QED
      BY ONLY <3>2, <3>3
  <2> QED
    BY ONLY <1>14, <2>2, <2>3
<1>15. CASE kind = "http" /\ HcRead
  <2>1. First = "head"
    BY <1>15 DEF First
  <2>2. CASE HcReadHead
    <3>1. rd.st = First
      BY <2>1, <2>2 DEF HcReadHead
    <3>2. CASE "eoh" \in Tags(rd.buf) /\ rd.buf[1] = <<"http", TRUE>>
      <4>1. Become([rd EXCEPT !.st = "open", !.buf = <<>>])
        BY <2>2, <3>2 DEF HcReadHead
      <4>2. peer = "yes" /\ peer # "long" /\ Len(rd.buf) >= 2
        BY <1>3, <1>10, <3>1, <3>2
      <4>3. Len(rd.buf) <= 2
        BY <1>1, <1>15, <3>1, <4>2 DEF HttpAt
      <4>4. 2 \in 0 .. Len(rd.buf)
        BY ONLY <1>2, <4>2
      <4>5. Drop(rd.buf, 2) \in Seq(Tokens) /\ Len(Drop(rd.buf, 2)) = Len(rd.buf) - 2
        BY ONLY <1>2, <4>4, TakeDrop
      <4>6. Drop(rd.buf, 2) = <<>>
        BY ONLY <1>2, <4>2, <4>3, <4>5, EmptySeq
      <4>7. PICK r : r = [rd EXCEPT !.st = "open", !.buf = <<>>]
        OBVIOUS
      <4>8. "buf" \in DOMAIN r /\ "st" \in DOMAIN r /\ r.buf = <<>> /\ r.st = "open"
        BY ONLY <1>2, <4>7
      <4>9. Become(r) /\ r.buf = Drop(rd.buf, 2) /\ r.st # First /\ r.st # "transfer"
        BY ONLY <2>1, <4>1, <4>6, <4>7, <4>8
      <4>10. Typed' /\ Heard' /\ HttpInv' /\ Silent
        BY ONLY Typed, Link, Heard, <1>1, <3>1, <3>2, <4>2, <4>8, <4>9, UNCHANGED <<kind, peer, netVars>>, HeadPassed
      <4> QED
        BY ONLY <4>10 DEF Polled
    <3>3. CASE "eoh" \in Tags(rd.buf) /\ rd.buf[1] # <<"http", TRUE>>
      <4>1. Finish("error")
        BY <2>2, <3>3 DEF HcReadHead
      <4>2. ~Sound
        BY <1>10, <1>11, <1>15, <3>1, <3>3
      <4> QED
        BY ONLY <1>7, <3>1, <4>1, <4>2
    <3>4. CASE "eoh" \notin Tags(rd.buf)
      <4>1. (Len(rd.buf) > MaxHead /\ Finish("error")) \/ Input(1, "error")
        BY <2>2, <3>4 DEF HcReadHead
      <4>2. 1 \in Nat
        OBVIOUS
      <4> QED
        BY ONLY <1>7, <1>8, <1>9, <3>1, <3>4, <4>1, <4>2
    <3> QED
      BY ONLY <3>2, <3>3, <3>4
  <2>3. CASE rd.st = "open" /\ PassThrough
    <3>1. rd.st # First /\ rd.buf = <<>>
      BY <1>1, <1>15, <2>1, <2>3 DEF HttpAt
    <3> QED
      BY ONLY <1>12, <2>3, <3>1
  <2> QED
    BY <1>15, <2>2, <2>3 DEF HcRead
<1> QED
  BY <1>13, <1>14, <1>15

-----------------------------------------------------------------------------
\* The SOCKS dialogue: the method, the verdict on the password, the reply with the
\* bound address.  Base is the length of what comes before the reply.
Base == IF HasUser THEN 4 ELSE 2

\* What a SOCKS server has said: method, status of the password, reply and address.
SocksSaid(h) ==
  /\ srv \in {0, 1, 2, 3}
  /\ srv # 3 => sent = 0 /\ ~closed
  /\ srv = 0 => Len(h) = 0
  /\ srv = 1 => HasUser /\ Len(h) = 2
  /\ srv = 2 => Len(h) = Base
  /\ srv # 0 => h[2] = <<"method", SoMethod>>
  /\ srv \in {2, 3} /\ HasUser => h[4] = <<"status", peer = "auth">>
  /\ srv = 3 => /\ h[Base + 2] = <<"reply", peer # "refuses">>
                /\ \/ h[Base + 3] = <<"atyp", 1>> /\ Len(h) = Base + 5
                   \/ h[Base + 3] = <<"atyp", 3>> /\ Len(h) = Base + 6 /\ h[Base + 4] = <<"alen", 1>>
                   \/ h[Base + 3] = <<"atyp", 4>> /\ Len(h) = Base + 6

\* Where the reader is, and what has let it come there.
Accepted == srv = 3 /\ peer \in {"yes", "auth"}
\* Where the reader is in it.
SocksAt(h, p) ==
  /\ {"st", "buf", "asked", "rest"} \subseteq DOMAIN rd
  /\ rd.st # "open" => got = <<>> /\ out # "eof"
  /\ \/ rd.st = "select" /\ p = 0 /\ Len(rd.buf) <= 2 /\ rd.asked = 1
     \/ rd.st = "auth" /\ p = 2 /\ Len(rd.buf) <= 2 /\ rd.asked = 2 /\ HasUser
     \/ rd.st = "reply" /\ p = Base /\ Len(rd.buf) <= 3 /\ rd.asked = 3 /\ peer \in {"yes", "refuses", "auth"}
     \/ /\ rd.st = "length" /\ p = Base + 3 /\ Len(rd.buf) <= 1 /\ Accepted
        /\ Len(h) = Base + 6 /\ h[Base + 4] = <<"alen", 1>>
     \/ /\ rd.st = "bound" /\ rd.rest \in Nat /\ p + rd.rest = Len(h) /\ Len(rd.buf) <= rd.rest /\ Accepted
     \/ rd.st = "open" /\ p = Len(h) + Len(got) /\ rd.buf = <<>> /\ Accepted

\* Server and reader of a SOCKS tunnel.
SocksInv == \E h, p : Along(h, p) /\ SocksSaid(h) /\ SocksAt(h, p)

\* Answers of two tokens.
LEMMA PairIs ==
  ASSUME NEW a \in Tokens, NEW b \in Tokens
  PROVE  \E t \in Seq(Tokens) : t = <<a, b>> /\ Len(t) = 2 /\ t[1] = a /\ t[2] = b
<1>1. <<a, b>> \in Seq(Tokens) /\ Len(<<a, b>>) = 2 /\ <<a, b>>[1] = a /\ <<a, b>>[2] = b
  OBVIOUS
<1> QED
  BY ONLY <1>1

LEMMA SocksTokens ==
  /\ \A n \in Nat : <<"ver", n>> \in Tokens /\ <<"method", n>> \in Tokens
  /\ \A b \in BOOLEAN : <<"status", b>> \in Tokens /\ <<"reply", b>> \in Tokens
  /\ \A n \in Nat : <<"atyp", n>> \in Tokens /\ <<"alen", n>> \in Tokens /\ <<"a", n>> \in Tokens /\ <<"port", n>> \in Tokens
<1>1. \A n \in Nat : n \in Values
  BY DEF Values
<1>2. \A b \in BOOLEAN : b \in Values
  BY DEF Values
<1>3. {"ver", "method", "status", "reply", "atyp", "alen", "a", "port"} \subseteq Labels
  BY DEF Labels
<1> QED
  BY ONLY <1>1, <1>2, <1>3, TokenIs

\* The bound address, by its type.
LEMMA BoundIs ==
  ASSUME NEW bound \in BoundAddresses
  PROVE  /\ bound \in Seq(Tokens)
         /\ \/ bound[1] = <<"atyp", 1>> /\ Len(bound) = 3
            \/ bound[1] = <<"atyp", 3>> /\ Len(bound) = 4 /\ bound[2] = <<"alen", 1>>
            \/ bound[1] = <<"atyp", 4>> /\ Len(bound) = 4
<1>1. PICK a1 \in Tokens : a1 = <<"atyp", 1>>
  BY ONLY SocksTokens
<1>2. PICK a3 \in Tokens : a3 = <<"atyp", 3>>
  BY ONLY SocksTokens
<1>3. PICK a4 \in Tokens : a4 = <<"atyp", 4>>
  BY ONLY SocksTokens
<1>4. PICK x \in Tokens : x = <<"a", 1>>
  BY ONLY SocksTokens
<1>5. PICK y \in Tokens : y = <<"a", 2>>
  BY ONLY SocksTokens
<1>6. PICK q \in Tokens : q = <<"port", 0>>
  BY ONLY SocksTokens
<1>7. PICK l \in Tokens : l = <<"alen", 1>>
  BY ONLY SocksTokens
<1>8. bound = <<a1, x, q>> \/ bound = <<a3, l, x, q>> \/ bound = <<a4, x, y, q>>
  BY <1>1, <1>2, <1>3, <1>4, <1>5, <1>6, <1>7 DEF BoundAddresses
<1>9. <<a1, x, q>> \in Seq(Tokens) /\ Len(<<a1, x, q>>) = 3 /\ <<a1, x, q>>[1] = a1
  BY ONLY <1>1, <1>4, <1>6
<1>10. <<a3, l, x, q>> \in Seq(Tokens) /\ Len(<<a3, l, x, q>>) = 4 /\ <<a3, l, x, q>>[1] = a3 /\ <<a3, l, x, q>>[2] = l
  BY ONLY <1>2, <1>7, <1>4, <1>6
<1>11. <<a4, x, y, q>> \in Seq(Tokens) /\ Len(<<a4, x, y, q>>) = 4 /\ <<a4, x, y, q>>[1] = a4
  BY ONLY <1>3, <1>5, <1>4, <1>6
<1>12. CASE bound = <<a1, x, q>>
  BY ONLY <1>1, <1>9, <1>12
<1>13. CASE bound = <<a3, l, x, q>>
  BY ONLY <1>2, <1>7, <1>10, <1>13
<1>14. CASE bound = <<a4, x, y, q>>
  BY ONLY <1>3, <1>11, <1>14
<1> QED
  BY ONLY <1>8, <1>12, <1>13, <1>14

\* What SocksSaid keeps when the server goes on with t.
LEMMA SocksGrows ==
  ASSUME NEW h, NEW p, NEW t \in Seq(Tokens), NEW s, Typed, Link, Along(h, p), SocksSaid(h), SocksAt(h, p), srv # 3,
         Say(t, s), UNCHANGED <<kind, peer, readVars>>
  PROVE  \E g :
           /\ Typed' /\ Link' /\ Along(g, p)' /\ SocksAt(g, p)' /\ srv' = s /\ Served
           /\ Len(g) = Len(h) + Len(t) /\ Len(h) \in Nat /\ Len(t) \in Nat
           /\ \A i \in 1 .. Len(h) : g[i] = h[i]
           /\ \A i \in 1 .. Len(t) : g[Len(h) + i] = t[i]
           /\ sent' = 0 /\ ~closed' /\ peer' = peer /\ HasUser' = HasUser /\ Base' = Base /\ SoMethod' = SoMethod
<1>1. UNCHANGED <<kind, peer, wire, rd, got, out>>
  BY DEF readVars
<1>2. sent = 0 /\ ~closed
  BY DEF SocksSaid
<1>3. PICK g :
           /\ Typed' /\ Link' /\ Along(g, p)' /\ srv' = s /\ Served /\ UNCHANGED <<sent, closed>>
           /\ Len(g) = Len(h) + Len(t) /\ Len(h) \in Nat
           /\ \A i \in 1 .. Len(h) : g[i] = h[i]
           /\ \A i \in 1 .. Len(t) : g[Len(h) + i] = t[i]
  BY ONLY Typed, Link, Along(h, p), t \in Seq(Tokens), Say(t, s), <1>1, <1>2, Saying
<1>4. HasUser' = HasUser
  BY ONLY <1>1 DEF HasUser
<1>5. Base' = Base /\ SoMethod' = SoMethod
  BY ONLY <1>1 DEF Base, SoMethod, HasUser
<1>6. SocksAt(g, p)'
  BY ONLY <1>1, <1>4, <1>5, SocksAt(h, p), srv # 3 DEF SocksAt, Accepted
<1> QED
  BY ONLY <1>1, <1>2, <1>3, <1>4, <1>5, <1>6, t \in Seq(Tokens)

\* A step of the SOCKS server.
LEMMA SocksServes ==
  ASSUME Typed, Link, SocksInv, MaxBytes \in Nat, peer \in Peers("socks"), SoServer, UNCHANGED <<kind, peer, readVars>>
  PROVE  Typed' /\ Link' /\ SocksInv' /\ Served
<1>1. PICK h, p : Along(h, p) /\ SocksSaid(h) /\ SocksAt(h, p)
  BY DEF SocksInv
<1>2. UNCHANGED <<kind, peer, wire, rd, got, out>>
  BY DEF readVars
<1>3. SoMethod \in Nat
  BY DEF SoMethod
<1>4. Base = (IF HasUser THEN 4 ELSE 2) /\ (Base = 4 \/ Base = 2)
  BY DEF Base
<1>5. CASE Answered(1) /\ Say(<<<<"ver", 5>>, <<"method", SoMethod>>>>, IF HasUser THEN 1 ELSE 2)
  <2>1. srv = 0 /\ Len(h) = 0
    BY <1>1, <1>5 DEF Answered, SocksSaid
  <2>2. PICK m \in Tokens : m = <<"method", SoMethod>>
    BY ONLY <1>3, SocksTokens
  <2>3. PICK v \in Tokens : v = <<"ver", 5>>
    BY ONLY SocksTokens
  <2>4. PICK t \in Seq(Tokens) : t = <<v, m>> /\ Len(t) = 2 /\ t[1] = v /\ t[2] = m
    BY ONLY PairIs
  <2>5. PICK s : s = IF HasUser THEN 1 ELSE 2
    OBVIOUS
  <2>6. Say(t, s) /\ srv # 3
    BY ONLY <1>5, <2>1, <2>2, <2>3, <2>4, <2>5
  <2>12. t \in Seq(Tokens)
    BY ONLY <2>4
  <2>7. PICK g :
           /\ Typed' /\ Link' /\ Along(g, p)' /\ SocksAt(g, p)' /\ srv' = s /\ Served
           /\ Len(g) = Len(h) + Len(t) /\ Len(h) \in Nat /\ Len(t) \in Nat
           /\ \A i \in 1 .. Len(h) : g[i] = h[i]
           /\ \A i \in 1 .. Len(t) : g[Len(h) + i] = t[i]
           /\ sent' = 0 /\ ~closed' /\ peer' = peer /\ HasUser' = HasUser /\ Base' = Base /\ SoMethod' = SoMethod
    BY ONLY Typed, Link, <1>1, <2>12, <2>6, UNCHANGED <<kind, peer, readVars>>, SocksGrows
  <2>8. Len(g) = 2
    BY ONLY <2>1, <2>4, <2>7
  <2>9. g[2] = m
    <3>1. 2 \in 1 .. Len(t) /\ Len(h) + 2 = 2
      BY ONLY <2>1, <2>4
    <3>2. g[Len(h) + 2] = t[2]
      BY ONLY <2>7, <3>1
    <3> QED
      BY ONLY <2>4, <3>1, <3>2
  <2>10. SocksSaid(g)'
    <3>1. srv' \in {1, 2} /\ (srv' = 1 => HasUser) /\ (srv' = 2 => ~HasUser)
      BY ONLY <2>5, <2>7
    <3>2. sent' = 0 /\ ~closed' /\ peer' = peer /\ HasUser' = HasUser /\ Base' = Base /\ SoMethod' = SoMethod
      BY ONLY <2>7
    <3>3. g[2] = <<"method", SoMethod>> /\ (~HasUser => Len(g) = Base)
      BY ONLY <1>4, <2>2, <2>8, <2>9
    <3> QED
      BY ONLY <2>8, <3>1, <3>2, <3>3 DEF SocksSaid
  <2>11. SocksInv'
    BY ONLY <2>7, <2>10 DEF SocksInv
  <2> QED
    BY ONLY <2>7, <2>11
<1>6. CASE Answered(2) /\ HasUser /\ Say(<<<<"ver", 1>>, <<"status", peer = "auth">>>>, 2)
  <2>1. srv = 1 /\ Len(h) = 2 /\ h[2] = <<"method", SoMethod>> /\ Base = 4
    BY <1>1, <1>6 DEF Answered, SocksSaid, Base
  <2>2. PICK m \in Tokens : m = <<"status", peer = "auth">>
    BY ONLY SocksTokens
  <2>3. PICK v \in Tokens : v = <<"ver", 1>>
    BY ONLY SocksTokens
  <2>4. PICK t \in Seq(Tokens) : t = <<v, m>> /\ Len(t) = 2 /\ t[1] = v /\ t[2] = m
    BY ONLY PairIs
  <2>6. Say(t, 2) /\ srv # 3
    BY ONLY <1>6, <2>1, <2>2, <2>3, <2>4
  <2>12. t \in Seq(Tokens)
    BY ONLY <2>4
  <2>7. PICK g :
           /\ Typed' /\ Link' /\ Along(g, p)' /\ SocksAt(g, p)' /\ srv' = 2 /\ Served
           /\ Len(g) = Len(h) + Len(t) /\ Len(h) \in Nat /\ Len(t) \in Nat
           /\ \A i \in 1 .. Len(h) : g[i] = h[i]
           /\ \A i \in 1 .. Len(t) : g[Len(h) + i] = t[i]
           /\ sent' = 0 /\ ~closed' /\ peer' = peer /\ HasUser' = HasUser /\ Base' = Base /\ SoMethod' = SoMethod
    BY ONLY Typed, Link, <1>1, <2>12, <2>6, UNCHANGED <<kind, peer, readVars>>, SocksGrows
  <2>8. Len(g) = 4
    BY ONLY <2>1, <2>4, <2>7
  <2>9. g[4] = m /\ g[2] = h[2]
    <3>1. 2 \in 1 .. Len(t) /\ Len(h) + 2 = 4 /\ 2 \in 1 .. Len(h)
      BY ONLY <2>1, <2>4
    <3>2. g[Len(h) + 2] = t[2] /\ g[2] = h[2]
      BY ONLY <2>7, <3>1
    <3> QED
      BY ONLY <2>4, <3>1, <3>2
  <2>10. SocksSaid(g)'
    <3>1. srv' = 2
      BY ONLY <2>7
    <3>2. sent' = 0 /\ ~closed' /\ peer' = peer /\ HasUser' = HasUser /\ Base' = Base /\ SoMethod' = SoMethod
      BY ONLY <2>7
    <3>3. g[2] = <<"method", SoMethod>> /\ Len(g) = Base /\ g[4] = <<"status", peer = "auth">>
      BY ONLY <2>1, <2>2, <2>8, <2>9
    <3>4. g[2] = <<"method", SoMethod'>> /\ Len(g) = Base' /\ g[4] = <<"status", peer' = "auth">>
      BY ONLY <3>2, <3>3
    <3> QED
      BY ONLY <3>1, <3>2, <3>4 DEF SocksSaid
  <2>11. SocksInv'
    BY ONLY <2>7, <2>10 DEF SocksInv
  <2> QED
    BY ONLY <2>7, <2>11
<1>7. ASSUME Answered(3), NEW bound \in BoundAddresses, Say(<<<<"ver", 5>>, <<"reply", peer # "refuses">>>> \o bound, 3)
      PROVE  Typed' /\ Link' /\ SocksInv' /\ Served
  <2>1. srv = 2 /\ Len(h) = Base /\ h[2] = <<"method", SoMethod>> /\ (HasUser => h[4] = <<"status", peer = "auth">>)
    BY <1>1, <1>7 DEF Answered, SocksSaid
  <2>2. PICK m \in Tokens : m = <<"reply", peer # "refuses">>
    BY ONLY SocksTokens
  <2>3. PICK v \in Tokens : v = <<"ver", 5>>
    BY ONLY SocksTokens
  <2>4. PICK u \in Seq(Tokens) : u = <<v, m>> /\ Len(u) = 2 /\ u[1] = v /\ u[2] = m
    BY ONLY PairIs
  <2>5. /\ bound \in Seq(Tokens)
        /\ \/ bound[1] = <<"atyp", 1>> /\ Len(bound) = 3
           \/ bound[1] = <<"atyp", 3>> /\ Len(bound) = 4 /\ bound[2] = <<"alen", 1>>
           \/ bound[1] = <<"atyp", 4>> /\ Len(bound) = 4
    BY ONLY BoundIs
  <2>6. PICK t : t = u \o bound
    OBVIOUS
  <2>7. /\ t \in Seq(Tokens) /\ Len(t) = 2 + Len(bound)
        /\ t[2] = m /\ t[3] = bound[1] /\ (Len(bound) = 4 => t[4] = bound[2])
    <3>1. /\ t \in Seq(Tokens) /\ Len(t) = Len(u) + Len(bound)
          /\ \A i \in 1 .. Len(u) : t[i] = u[i]
          /\ \A i \in 1 .. Len(bound) : t[Len(u) + i] = bound[i]
      BY ONLY <2>4, <2>5, <2>6, CatIs
    <3>2. 2 \in 1 .. Len(u) /\ 1 \in 1 .. Len(bound) /\ (Len(bound) = 4 => 2 \in 1 .. Len(bound))
      BY ONLY <2>4, <2>5
    <3>3. t[2] = u[2] /\ t[Len(u) + 1] = bound[1] /\ (Len(bound) = 4 => t[Len(u) + 2] = bound[2])
      BY ONLY <3>1, <3>2
    <3>4. Len(u) + 1 = 3 /\ Len(u) + 2 = 4
      BY ONLY <2>4
    <3> QED
      BY ONLY <2>4, <3>1, <3>3, <3>4
  <2>8. Say(t, 3) /\ srv # 3
    BY ONLY <1>7, <2>1, <2>2, <2>3, <2>4, <2>6
  <2>9. PICK g :
           /\ Typed' /\ Link' /\ Along(g, p)' /\ SocksAt(g, p)' /\ srv' = 3 /\ Served
           /\ Len(g) = Len(h) + Len(t) /\ Len(h) \in Nat /\ Len(t) \in Nat
           /\ \A i \in 1 .. Len(h) : g[i] = h[i]
           /\ \A i \in 1 .. Len(t) : g[Len(h) + i] = t[i]
           /\ sent' = 0 /\ ~closed' /\ peer' = peer /\ HasUser' = HasUser /\ Base' = Base /\ SoMethod' = SoMethod
    BY ONLY Typed, Link, <1>1, <2>7, <2>8, UNCHANGED <<kind, peer, readVars>>, SocksGrows
  <2>10. Len(bound) = 3 \/ Len(bound) = 4
    BY ONLY <2>5
  <2>11. Len(g) = Base + 2 + Len(bound)
    BY ONLY <1>4, <2>1, <2>7, <2>9, <2>10
  <2>12. g[2] = h[2] /\ (HasUser => g[4] = h[4])
    <3>1. 2 \in 1 .. Len(h) /\ (HasUser => 4 \in 1 .. Len(h))
      BY ONLY <1>4, <2>1
    <3> QED
      BY ONLY <2>9, <3>1
  <2>13. g[Base + 2] = m /\ g[Base + 3] = bound[1] /\ (Len(bound) = 4 => g[Base + 4] = bound[2])
    <3>1. 2 \in 1 .. Len(t) /\ 3 \in 1 .. Len(t) /\ (Len(bound) = 4 => 4 \in 1 .. Len(t))
      BY ONLY <2>7, <2>10
    <3>2. g[Len(h) + 2] = t[2] /\ g[Len(h) + 3] = t[3] /\ (Len(bound) = 4 => g[Len(h) + 4] = t[4])
      <4>1. \A i \in 1 .. Len(t) : g[Len(h) + i] = t[i]
        BY ONLY <2>9
      <4> QED
        BY ONLY <3>1, <4>1
    <3>3. Len(h) + 2 = Base + 2 /\ Len(h) + 3 = Base + 3 /\ Len(h) + 4 = Base + 4
      BY ONLY <2>1
    <3> QED
      BY ONLY <2>7, <3>2, <3>3
  <2>14. \/ g[Base + 3] = <<"atyp", 1>> /\ Len(g) = Base + 5
         \/ g[Base + 3] = <<"atyp", 3>> /\ Len(g) = Base + 6 /\ g[Base + 4] = <<"alen", 1>>
         \/ g[Base + 3] = <<"atyp", 4>> /\ Len(g) = Base + 6
    <3>1. Len(bound) = 3 => Len(g) = Base + 5
      BY ONLY <1>4, <2>11
    <3>2. Len(bound) = 4 => Len(g) = Base + 6
      BY ONLY <1>4, <2>11
    <3> QED
      <4>1. CASE bound[1] = <<"atyp", 1>> /\ Len(bound) = 3
        BY ONLY <2>13, <3>1, <4>1
      <4>2. CASE bound[1] = <<"atyp", 3>> /\ Len(bound) = 4 /\ bound[2] = <<"alen", 1>>
        BY ONLY <2>13, <3>2, <4>2
      <4>3. CASE bound[1] = <<"atyp", 4>> /\ Len(bound) = 4
        BY ONLY <2>13, <3>2, <4>3
      <4> QED
        BY ONLY <2>5, <4>1, <4>2, <4>3
  <2>15. SocksSaid(g)'
    <3>1. srv' = 3 /\ peer' = peer /\ HasUser' = HasUser /\ Base' = Base /\ SoMethod' = SoMethod
      BY ONLY <2>9
    <3>2. g[2] = <<"method", SoMethod'>>
      BY ONLY <2>1, <2>12, <3>1
    <3>3. HasUser' => g[4] = <<"status", peer' = "auth">>
      BY ONLY <2>1, <2>12, <3>1
    <3>4. g[Base' + 2] = <<"reply", peer' # "refuses">>
      BY ONLY <2>2, <2>13, <3>1
    <3>5. \/ g[Base' + 3] = <<"atyp", 1>> /\ Len(g) = Base' + 5
          \/ g[Base' + 3] = <<"atyp", 3>> /\ Len(g) = Base' + 6 /\ g[Base' + 4] = <<"alen", 1>>
          \/ g[Base' + 3] = <<"atyp", 4>> /\ Len(g) = Base' + 6
      BY ONLY <2>14, <3>1
    <3> QED
      BY ONLY <3>1, <3>2, <3>3, <3>4, <3>5 DEF SocksSaid
  <2>16. SocksInv'
    BY ONLY <2>9, <2>15 DEF SocksInv
  <2> QED
    BY ONLY <2>9, <2>16
<1>8. CASE srv = 3 /\ ((\E n \in 1 .. (MaxBytes - sent) : Put(Bytes(sent + 1, sent + n), n, 3)) \/ Close(<<>>))
  <2>1. Typed' /\ Link' /\ Along(h, p)' /\ srv' = 3 /\ Served
    BY ONLY Typed, Link, MaxBytes \in Nat, <1>1, <1>2, <1>8, Putting
  <2>2. Base' = Base /\ SoMethod' = SoMethod /\ HasUser' = HasUser
    BY ONLY <1>2 DEF Base, SoMethod, HasUser
  <2>3. SocksSaid(h)' /\ SocksAt(h, p)'
    BY ONLY <1>1, <1>2, <1>8, <2>1, <2>2 DEF SocksSaid, SocksAt, Accepted
  <2> QED
    BY ONLY <2>1, <2>3 DEF SocksInv
<1> QED
  BY <1>5, <1>6, <1>7, <1>8 DEF SoServer

\* What the reader holds is the next part of what was said.
LEMMA HeldIs ==
  ASSUME NEW h, NEW p, Typed, Along(h, p), sent \in Nat
  PROVE  /\ p \in Nat /\ Len(h) \in Nat /\ Len(rd.buf) \in Nat /\ p + Len(rd.buf) <= Len(h) + sent
         /\ \A i \in 1 .. Len(rd.buf) : p + i <= Len(h) => rd.buf[i] = h[p + i]
<1>1. Len(rd.buf) \in Nat /\ Ahead \in Nat /\ Len(rd.buf) <= Ahead
  BY RestIs
<1>2. p \in Nat /\ Len(h) \in Nat /\ p + Ahead <= Len(h) + sent
  BY DEF Along
<1>3. p + Len(rd.buf) <= Len(h) + sent
  BY ONLY <1>1, <1>2, sent \in Nat
<1>4. ASSUME NEW i \in 1 .. Len(rd.buf), p + i <= Len(h) PROVE rd.buf[i] = h[p + i]
  <2>1. i \in 1 .. Ahead /\ i <= Len(rd.buf)
    BY ONLY <1>1, <1>4
  <2>2. Rest[i] = rd.buf[i]
    BY <2>1, RestIs
  <2>3. Rest[i] = Expected(h, p + i)
    BY ONLY <2>1, Along(h, p) DEF Along
  <2>4. Expected(h, p + i) = h[p + i]
    BY ONLY <1>4 DEF Expected
  <2> QED
    BY ONLY <2>2, <2>3, <2>4
<1> QED
  BY ONLY <1>1, <1>2, <1>3, <1>4

\* An answer is complete and the reader goes on behind it.
LEMMA SocksTakes ==
  ASSUME NEW h, NEW p, NEW r, Typed, Heard, Along(h, p), sent \in Nat, Become(r), r.buf = <<>>, "buf" \in DOMAIN r,
         UNCHANGED netVars
  PROVE  /\ Typed' /\ Heard' /\ Silent /\ rd' = r /\ got' = got /\ out' = out
         /\ \A q : q = p + Len(rd.buf) => Along(h, q)'
<1>1. UNCHANGED <<wire, got, out, flight, fin, cut, closed, sent, srv>> /\ rd' = r
  BY DEF Become, netVars
<1>2. rd.buf \in Seq(Tokens) /\ Len(rd.buf) \in Nat /\ Ahead \in Nat
  BY RestIs DEF Typed
<1>3. PICK n \in Nat : n = Len(rd.buf)
  BY ONLY <1>2
<1>4. n \in 0 .. Len(rd.buf)
  BY ONLY <1>2, <1>3
<1>5. Drop(rd.buf, n) \in Seq(Tokens) /\ Len(Drop(rd.buf, n)) = Len(rd.buf) - n
  <2>1. PICK b \in Seq(Tokens) : b = rd.buf
    BY ONLY <1>2
  <2>2. n \in 0 .. Len(b)
    BY ONLY <1>4, <2>1
  <2>3. Drop(b, n) \in Seq(Tokens) /\ Len(Drop(b, n)) = Len(b) - n
    BY ONLY <2>1, <2>2, TakeDrop
  <2> QED
    BY ONLY <2>1, <2>3
<1>6. Drop(rd.buf, n) = <<>>
  <2>1. PICK d \in Seq(Tokens) : d = Drop(rd.buf, n) /\ Len(d) = Len(rd.buf) - n
    BY ONLY <1>5
  <2>2. Len(d) = 0
    BY ONLY <1>2, <1>3, <2>1
  <2> QED
    BY ONLY <2>1, <2>2, EmptySeq
<1>7. rd'.buf = Drop(rd.buf, n) /\ "buf" \in DOMAIN rd' /\ wire' = wire /\ flight' = flight
  BY ONLY <1>1, <1>6, r.buf = <<>>, "buf" \in DOMAIN r
<1>8. Typed' /\ Ahead' = Ahead - n /\ n <= Ahead /\ (\A i \in 1 .. Ahead' : Rest'[i] = Rest[n + i])
  BY ONLY Typed, <1>4, <1>7, BufTakes
<1>9. PICK q : q = p + n /\ Along(h, q)'
  BY ONLY <1>1, <1>2, <1>3, <1>8, Along(h, p), sent \in Nat, AlongTaken
<1>10. Heard' /\ Silent
  BY ONLY <1>1, Heard DEF Heard, Silent
<1> QED
  BY ONLY <1>1, <1>3, <1>8, <1>9, <1>10

\* An answer that ends the dialogue.
LEMMA SocksFails ==
  ASSUME Typed, Heard, SocksInv, rd.st # "open", ~Sound, Finish("error"), UNCHANGED <<kind, peer, netVars>>
  PROVE  Typed' /\ Heard' /\ SocksInv' /\ Broke
<1>0. PICK h, p : Along(h, p) /\ SocksSaid(h) /\ SocksAt(h, p)
  BY DEF SocksInv
<1>1. UNCHANGED <<kind, peer, wire, rd, got, flight, cut, closed, sent, srv>> /\ out' = "error"
  BY DEF netVars, Finish
<1>2. Ahead' = Ahead /\ Rest' = Rest /\ Typed' /\ Heard'
  BY ONLY <1>1, Typed, Heard DEF Ahead, Rest, Typed, Heard
<1>3. Along(h, p)'
  BY ONLY <1>0, <1>1, <1>2, AlongStays
<1>4. Base' = Base /\ SoMethod' = SoMethod /\ HasUser' = HasUser
  BY ONLY <1>1 DEF Base, SoMethod, HasUser
<1>5. SocksSaid(h)' /\ SocksAt(h, p)'
  BY ONLY <1>0, <1>1, <1>4, rd.st # "open" DEF SocksSaid, SocksAt, Accepted
<1>6. SocksInv'
  BY ONLY <1>3, <1>5 DEF SocksInv
<1>7. Broke
  BY ONLY <1>1, ~Sound DEF Broke
<1> QED
  BY ONLY <1>2, <1>6, <1>7

\* The number of tokens the reader waits for.
Wanted == IF rd.st \in {"select", "auth"} THEN 2 ELSE IF rd.st = "reply" THEN 3 ELSE IF rd.st = "length" THEN 1 ELSE rd.rest

\* An answer that is not complete.
LEMMA SocksWaits ==
  ASSUME Typed, Link, Heard, SocksInv, rd.st # "open", SoExact(Wanted), UNCHANGED <<kind, peer, netVars>>
  PROVE  Typed' /\ Heard' /\ SocksInv' /\ (Silent \/ Broke)
<1>0. PICK h, p : Along(h, p) /\ SocksSaid(h) /\ SocksAt(h, p)
  BY DEF SocksInv
<1>1. UNCHANGED <<kind, peer, flight, fin, cut, closed, sent, srv>> /\ UNCHANGED netVars
  BY DEF netVars
<1>2. sent \in Nat /\ p \in Nat /\ Len(h) \in Nat /\ Len(rd.buf) \in Nat /\ Len(wire) \in Nat
  BY <1>0, RestIs DEF Link, Along
<1>3. PICK size \in Nat : size = Wanted
  BY <1>0 DEF Wanted, SocksAt
<1>4. Len(rd.buf) < size /\ Input(size - Len(rd.buf), "error")
  BY ONLY <1>3, SoExact(Wanted) DEF SoExact
<1>5. PICK room \in Nat : room = size - Len(rd.buf)
  <2>1. Len(rd.buf) < size
    BY ONLY <1>4
  <2>2. size - Len(rd.buf) \in Nat
    BY ONLY <1>2, <1>3, <2>1
  <2> QED
    BY ONLY <2>2
<1>6. Input(room, "error")
  BY ONLY <1>4, <1>5
<1>7. /\ Typed' /\ Along(h, p)' /\ got' = got
      /\ \/ /\ out' = out /\ rd' = [rd EXCEPT !.buf = rd'.buf]
            /\ Len(rd'.buf) = Len(rd.buf) + Least(room, Len(wire)) /\ Len(wire) > 0
         \/ out' = out /\ rd' = rd
         \/ out' = "error" /\ rd' = rd /\ (cut \/ (closed /\ p + Len(rd.buf) = Len(h) + sent))
  BY ONLY Typed, Link, <1>0, <1>1, <1>5, <1>6, Waits
<1>8. Least(room, Len(wire)) <= room /\ Least(room, Len(wire)) \in Nat
  <2>1. room \in Nat /\ Len(wire) \in Nat
    BY ONLY <1>2, <1>5
  <2> QED
    BY ONLY <2>1 DEF Least
<1>9. Len(rd'.buf) <= size
  BY ONLY <1>2, <1>3, <1>4, <1>5, <1>7, <1>8
<1>10. Base' = Base /\ SoMethod' = SoMethod /\ HasUser' = HasUser /\ (Base = 2 \/ Base = 4)
  BY ONLY <1>1 DEF Base, SoMethod, HasUser
<1>11. SocksSaid(h)'
  BY ONLY <1>0, <1>1, <1>10 DEF SocksSaid
<1>12. rd'.st = rd.st /\ rd'.asked = rd.asked /\ rd'.rest = rd.rest /\ DOMAIN rd' = DOMAIN rd
  <2>1. {"st", "buf", "asked", "rest"} \subseteq DOMAIN rd
    BY ONLY <1>0 DEF SocksAt
  <2> QED
    BY ONLY <1>7, <2>1
<1>13. SocksAt(h, p)'
  <2>1. rd.st # "open" /\ got' = <<>> /\ out' # "eof"
    BY ONLY <1>0, <1>7, rd.st # "open" DEF SocksAt
  <2>2. \/ rd.st \in {"select", "auth"} /\ Len(rd'.buf) <= 2
        \/ rd.st = "reply" /\ Len(rd'.buf) <= 3
        \/ rd.st = "length" /\ Len(rd'.buf) <= 1
        \/ rd.st = "bound" /\ Len(rd'.buf) <= rd.rest
    BY ONLY <1>0, <1>3, <1>9, <2>1 DEF SocksAt, Wanted
  <2> QED
    BY ONLY <1>0, <1>1, <1>10, <1>12, <2>1, <2>2 DEF SocksAt, Accepted
<1>14. SocksInv'
  BY ONLY <1>7, <1>11, <1>13 DEF SocksInv
<1>15. Heard'
  BY ONLY <1>7, Heard DEF Heard
<1>16. Silent \/ Broke
  <2>1. CASE out' = out
    BY ONLY <1>7, <2>1 DEF Silent
  <2>2. CASE out' = "error" /\ cut
    BY ONLY <1>7, <2>2 DEF Broke
  <2>3. CASE closed /\ p + Len(rd.buf) = Len(h) + sent
    <3>1. srv = 3 /\ Len(h) >= Base + 5
      <4>1. srv = 3
        BY ONLY <1>0, <2>3 DEF SocksSaid
      <4>2. Len(h) = Base + 5 \/ Len(h) = Base + 6
        BY ONLY <1>0, <4>1 DEF SocksSaid
      <4> QED
        BY ONLY <1>10, <4>1, <4>2
    <3>2. p + size <= Len(h)
      BY ONLY <1>0, <1>2, <1>3, <1>10, <3>1, rd.st # "open" DEF SocksAt, Wanted
    <3> QED
      BY ONLY <1>2, <1>3, <1>4, <2>3, <3>2
  <2> QED
    BY ONLY <1>7, <2>1, <2>2, <2>3
<1> QED
  BY ONLY <1>7, <1>14, <1>15, <1>16

\* A poll of the SOCKS stream (socks.rs).
LEMMA SocksReads ==
  ASSUME Typed, Link, Heard, SocksInv, MaxBytes \in Nat, peer \in Peers("socks"), SoRead, UNCHANGED <<kind, peer, netVars>>
  PROVE  Typed' /\ Heard' /\ SocksInv' /\ Polled
<1>1. PICK h, p : Along(h, p) /\ SocksSaid(h) /\ SocksAt(h, p)
  BY DEF SocksInv
<1>2. UNCHANGED <<kind, peer, closed, sent, srv>> /\ UNCHANGED netVars
  BY DEF netVars
<1>3. sent \in Nat
  BY DEF Link
<1>4. /\ p \in Nat /\ Len(h) \in Nat /\ Len(rd.buf) \in Nat /\ p + Len(rd.buf) <= Len(h) + sent
      /\ \A i \in 1 .. Len(rd.buf) : p + i <= Len(h) => rd.buf[i] = h[p + i]
  BY ONLY Typed, <1>1, <1>3, HeldIs
<1>5. Base' = Base /\ SoMethod' = SoMethod /\ HasUser' = HasUser /\ (Base = 2 \/ Base = 4) /\ (HasUser <=> Base = 4)
  BY ONLY <1>2 DEF Base, SoMethod, HasUser
<1>6. SocksSaid(h)'
  BY ONLY <1>1, <1>2, <1>5 DEF SocksSaid
<1>7. peer \in {"yes", "auth", "asks", "denies", "method", "refuses"}
  BY DEF Peers
<1>8. {"st", "buf", "asked", "rest"} \subseteq DOMAIN rd /\ (rd.st # "open" => got = <<>> /\ out # "eof")
  BY ONLY <1>1 DEF SocksAt
<1>9. ASSUME rd.st # "open", SoExact(Wanted) PROVE Typed' /\ Heard' /\ SocksInv' /\ Polled
  <2>1. Typed' /\ Heard' /\ SocksInv' /\ (Silent \/ Broke)
    BY ONLY Typed, Link, Heard, SocksInv, <1>9, UNCHANGED <<kind, peer, netVars>>, SocksWaits
  <2> QED
    BY ONLY <2>1 DEF Polled
<1>10. ASSUME rd.st # "open", Finish("error"), ~Sound PROVE Typed' /\ Heard' /\ SocksInv' /\ Polled
  <2>1. Typed' /\ Heard' /\ SocksInv' /\ Broke
    BY ONLY Typed, Heard, SocksInv, <1>10, UNCHANGED <<kind, peer, netVars>>, SocksFails
  <2> QED
    BY ONLY <2>1 DEF Polled
\* The next state of the reader, q tokens on, is one SocksAt allows.
<1>11. ASSUME NEW r, rd.st # "open", Become(r), DOMAIN r = DOMAIN rd, r.buf = <<>>, NEW q, q = p + Len(rd.buf),
              \/ r.st = "auth" /\ q = 2 /\ r.asked = 2 /\ HasUser
              \/ r.st = "reply" /\ q = Base /\ r.asked = 3 /\ peer \in {"yes", "refuses", "auth"}
              \/ /\ r.st = "length" /\ q = Base + 3 /\ Accepted
                 /\ Len(h) = Base + 6 /\ h[Base + 4] = <<"alen", 1>>
              \/ r.st = "bound" /\ r.rest \in Nat /\ q + r.rest = Len(h) /\ Accepted
              \/ r.st = "open" /\ q = Len(h) /\ Accepted
       PROVE  Typed' /\ Heard' /\ SocksInv' /\ Polled
  <2>1. "buf" \in DOMAIN r
    BY ONLY <1>8, <1>11
  <2>2. /\ Typed' /\ Heard' /\ Silent /\ rd' = r /\ got' = got /\ out' = out
        /\ Along(h, q)'
    BY ONLY Typed, Heard, <1>1, <1>2, <1>3, <1>11, <2>1, SocksTakes
  <2>3. Len(rd'.buf) = 0 /\ rd'.buf = <<>> /\ got' = <<>> /\ Len(got') = 0 /\ out' # "eof"
    BY ONLY <1>8, <1>11, <2>2
  <2>4. Accepted' <=> Accepted
    BY ONLY <1>2 DEF Accepted
  <2>5. {"st", "buf", "asked", "rest"} \subseteq DOMAIN rd' /\ rd' = r
    BY ONLY <1>8, <1>11, <2>2
  <2>6. SocksAt(h, q)'
    <3>1. \/ rd'.st = "auth" /\ q = 2 /\ Len(rd'.buf) <= 2 /\ rd'.asked = 2 /\ HasUser'
          \/ rd'.st = "reply" /\ q = Base' /\ Len(rd'.buf) <= 3 /\ rd'.asked = 3 /\ peer' \in {"yes", "refuses", "auth"}
          \/ /\ rd'.st = "length" /\ q = Base' + 3 /\ Len(rd'.buf) <= 1 /\ Accepted'
             /\ Len(h) = Base' + 6 /\ h[Base' + 4] = <<"alen", 1>>
          \/ /\ rd'.st = "bound" /\ rd'.rest \in Nat /\ q + rd'.rest = Len(h) /\ Len(rd'.buf) <= rd'.rest /\ Accepted'
          \/ rd'.st = "open" /\ q = Len(h) + Len(got') /\ rd'.buf = <<>> /\ Accepted'
      BY ONLY <1>2, <1>4, <1>5, <1>11, <2>3, <2>4, <2>5
    <3> QED
      BY ONLY <2>3, <2>5, <3>1 DEF SocksAt
  <2>7. SocksInv'
    BY ONLY <1>6, <2>2, <2>6 DEF SocksInv
  <2> QED
    BY ONLY <2>2, <2>7 DEF Polled
<1>12. CASE SoReadSelect
  <2>1. rd.st = "select" /\ rd.st # "open" /\ p = 0 /\ Wanted = 2
    BY <1>1, <1>12 DEF SoReadSelect, SocksAt, Wanted
  <2>2. CASE SoExact(2)
    BY ONLY <1>9, <2>1, <2>2
  <2>3. CASE Len(rd.buf) = 2
    <3>1. srv # 0 /\ Len(h) >= 2
      BY ONLY <1>1, <1>4, <1>5, <2>1, <2>3 DEF SocksSaid
    <3>2. rd.buf[2] = <<"method", SoMethod>>
      <4>1. 2 \in 1 .. Len(rd.buf) /\ p + 2 <= Len(h) /\ p + 2 = 2
        BY ONLY <1>4, <2>1, <2>3, <3>1
      <4>2. rd.buf[2] = h[p + 2]
        BY ONLY <1>4, <4>1
      <4> QED
        BY ONLY <1>1, <3>1, <4>1, <4>2 DEF SocksSaid
    <3>3. SoMethod = (IF peer \in {"auth", "asks", "denies"} THEN 2 ELSE IF peer = "method" THEN 255 ELSE 0)
      BY ONLY <1>7 DEF SoMethod
    <3>4. rd.buf[2] = <<"method", 0>> <=> SoMethod = 0
      BY ONLY <3>2, <3>3
    <3>5. rd.buf[2] = <<"method", 2>> <=> SoMethod = 2
      BY ONLY <3>2, <3>3
    <3>6. CASE SoMethod = 0
      <4>1. Become([rd EXCEPT !.st = "reply", !.buf = <<>>, !.asked = 3]) \/ SoExact(2)
        BY <1>12, <2>3, <3>4, <3>5, <3>6 DEF SoReadSelect
      <4>2. PICK r : r = [rd EXCEPT !.st = "reply", !.buf = <<>>, !.asked = 3]
        OBVIOUS
      <4>3. DOMAIN r = DOMAIN rd /\ r.buf = <<>> /\ r.st = "reply" /\ r.asked = 3
        BY ONLY <1>8, <4>2
      <4>4. peer \in {"yes", "refuses"} /\ Base = 2
        BY <1>7, <3>3, <3>6 DEF Base, HasUser
      <4>5. PICK q : q = p + Len(rd.buf)
        OBVIOUS
      <4>6. q = Base
        BY ONLY <2>1, <2>3, <4>4, <4>5
      <4>7. CASE Become(r)
        BY ONLY <1>11, <2>1, <4>3, <4>4, <4>5, <4>6, <4>7
      <4> QED
        BY ONLY <2>2, <4>1, <4>2, <4>7
    <3>7. CASE SoMethod = 2 /\ HasUser
      <4>1. Become([rd EXCEPT !.st = "auth", !.buf = <<>>, !.asked = 2]) \/ SoExact(2)
        BY <1>12, <2>3, <3>4, <3>5, <3>7 DEF SoReadSelect
      <4>2. PICK r : r = [rd EXCEPT !.st = "auth", !.buf = <<>>, !.asked = 2]
        OBVIOUS
      <4>3. DOMAIN r = DOMAIN rd /\ r.buf = <<>> /\ r.st = "auth" /\ r.asked = 2
        BY ONLY <1>8, <4>2
      <4>5. PICK q : q = p + Len(rd.buf)
        OBVIOUS
      <4>6. q = 2
        BY ONLY <2>1, <2>3, <4>5
      <4>7. CASE Become(r)
        BY ONLY <1>11, <2>1, <3>7, <4>3, <4>5, <4>6, <4>7
      <4> QED
        BY ONLY <2>2, <4>1, <4>2, <4>7
    <3>8. CASE SoMethod # 0 /\ ~(SoMethod = 2 /\ HasUser)
      <4>1. Finish("error") \/ SoExact(2)
        BY <1>12, <2>3, <3>4, <3>5, <3>8 DEF SoReadSelect
      <4>2. ~Sound
        BY <3>3, <3>8 DEF Sound, HasUser
      <4> QED
        BY ONLY <1>10, <2>1, <2>2, <4>1, <4>2
    <3> QED
      BY ONLY <3>6, <3>7, <3>8
  <2> QED
    BY <1>12, <2>2, <2>3 DEF SoReadSelect
<1>13. CASE SoReadAuth
  <2>1. rd.st = "auth" /\ rd.st # "open" /\ p = 2 /\ Wanted = 2 /\ HasUser /\ Base = 4
    BY <1>1, <1>13 DEF SoReadAuth, SocksAt, Wanted, Base
  <2>2. CASE SoExact(2)
    BY ONLY <1>9, <2>1, <2>2
  <2>3. CASE Len(rd.buf) = 2
    <3>1. srv \in {2, 3} /\ Len(h) >= 4
      BY ONLY <1>1, <1>4, <2>1, <2>3 DEF SocksSaid
    <3>2. rd.buf[2] = <<"status", peer = "auth">>
      <4>1. 2 \in 1 .. Len(rd.buf) /\ p + 2 <= Len(h) /\ p + 2 = 4
        BY ONLY <1>4, <2>1, <2>3, <3>1
      <4>2. rd.buf[2] = h[p + 2]
        BY ONLY <1>4, <4>1
      <4> QED
        BY ONLY <1>1, <2>1, <3>1, <4>1, <4>2 DEF SocksSaid
    <3>3. Val(rd.buf[2]) = (peer = "auth")
      BY ONLY <3>2 DEF Val
    <3>4. CASE peer = "auth"
      <4>1. Become([rd EXCEPT !.st = "reply", !.buf = <<>>, !.asked = 3]) \/ SoExact(2)
        BY <1>13, <3>3, <3>4 DEF SoReadAuth
      <4>2. PICK r : r = [rd EXCEPT !.st = "reply", !.buf = <<>>, !.asked = 3]
        OBVIOUS
      <4>3. DOMAIN r = DOMAIN rd /\ r.buf = <<>> /\ r.st = "reply" /\ r.asked = 3
        BY ONLY <1>8, <4>2
      <4>5. PICK q : q = p + Len(rd.buf)
        OBVIOUS
      <4>6. q = Base
        BY ONLY <2>1, <2>3, <4>5
      <4>7. CASE Become(r)
        BY ONLY <1>11, <2>1, <3>4, <4>3, <4>5, <4>6, <4>7
      <4> QED
        BY ONLY <2>2, <4>1, <4>2, <4>7
    <3>5. CASE peer # "auth"
      <4>1. Finish("error") \/ SoExact(2)
        BY <1>13, <3>3, <3>5 DEF SoReadAuth
      <4>2. ~Sound
        BY <2>1, <3>5 DEF Sound, HasUser
      <4> QED
        BY ONLY <1>10, <2>1, <2>2, <4>1, <4>2
    <3> QED
      BY ONLY <3>4, <3>5
  <2> QED
    BY <1>13, <2>2, <2>3 DEF SoReadAuth
<1>14. CASE SoReadReply
  <2>1. rd.st = "reply" /\ rd.st # "open" /\ p = Base /\ Wanted = 3 /\ peer \in {"yes", "refuses", "auth"}
    BY <1>1, <1>14 DEF SoReadReply, SocksAt, Wanted
  <2>2. CASE SoExact(3)
    BY ONLY <1>9, <2>1, <2>2
  <2>3. CASE Len(rd.buf) = 3
    <3>1. srv = 3 /\ Len(h) >= Base + 5
      BY ONLY <1>1, <1>4, <1>5, <2>1, <2>3 DEF SocksSaid
    <3>2. rd.buf[2] = <<"reply", peer # "refuses">> /\ rd.buf[3] = h[Base + 3]
      <4>1. 2 \in 1 .. Len(rd.buf) /\ 3 \in 1 .. Len(rd.buf) /\ p + 2 <= Len(h) /\ p + 3 <= Len(h)
        BY ONLY <1>4, <1>5, <2>1, <2>3, <3>1
      <4>2. rd.buf[2] = h[p + 2] /\ rd.buf[3] = h[p + 3]
        BY ONLY <1>4, <4>1
      <4> QED
        BY ONLY <1>1, <2>1, <3>1, <4>2 DEF SocksSaid
    <3>3. Val(rd.buf[2]) = (peer # "refuses")
      BY ONLY <3>2 DEF Val
    <3>4. CASE peer # "refuses"
      <4>1. \/ Become([rd EXCEPT !.st = IF rd.buf[3] = <<"atyp", 3>> THEN "length" ELSE "bound", !.buf = <<>>,
                                 !.rest = IF rd.buf[3] = <<"atyp", 1>> THEN 2 ELSE 3])
            \/ SoExact(3)
        BY <1>14, <3>3, <3>4 DEF SoReadReply
      <4>2. PICK r : r = [rd EXCEPT !.st = IF rd.buf[3] = <<"atyp", 3>> THEN "length" ELSE "bound", !.buf = <<>>,
                                    !.rest = IF rd.buf[3] = <<"atyp", 1>> THEN 2 ELSE 3]
        OBVIOUS
      <4>3. DOMAIN r = DOMAIN rd /\ r.buf = <<>> /\ r.st = (IF rd.buf[3] = <<"atyp", 3>> THEN "length" ELSE "bound")
            /\ r.rest = (IF rd.buf[3] = <<"atyp", 1>> THEN 2 ELSE 3)
        BY ONLY <1>8, <4>2
      <4>4. Accepted
        BY ONLY <2>1, <3>1, <3>4 DEF Accepted
      <4>5. PICK q : q = p + Len(rd.buf)
        OBVIOUS
      <4>6. q = Base + 3
        BY ONLY <2>1, <2>3, <4>5
      <4>7. \/ rd.buf[3] = <<"atyp", 1>> /\ Len(h) = Base + 5
            \/ rd.buf[3] = <<"atyp", 3>> /\ Len(h) = Base + 6 /\ h[Base + 4] = <<"alen", 1>>
            \/ rd.buf[3] = <<"atyp", 4>> /\ Len(h) = Base + 6
        BY ONLY <1>1, <3>1, <3>2 DEF SocksSaid
      <4>8. \/ r.st = "length" /\ q = Base + 3 /\ Len(h) = Base + 6 /\ h[Base + 4] = <<"alen", 1>>
            \/ r.st = "bound" /\ r.rest \in Nat /\ q + r.rest = Len(h)
        <5>1. CASE rd.buf[3] = <<"atyp", 1>> /\ Len(h) = Base + 5
          <6>1. r.st = "bound" /\ r.rest = 2
            BY ONLY <4>3, <5>1
          <6> QED
            BY ONLY <1>5, <4>6, <5>1, <6>1
        <5>2. CASE rd.buf[3] = <<"atyp", 3>> /\ Len(h) = Base + 6 /\ h[Base + 4] = <<"alen", 1>>
          BY ONLY <4>3, <4>6, <5>2
        <5>3. CASE rd.buf[3] = <<"atyp", 4>> /\ Len(h) = Base + 6
          <6>1. r.st = "bound" /\ r.rest = 3
            BY ONLY <4>3, <5>3
          <6> QED
            BY ONLY <1>5, <4>6, <5>3, <6>1
        <5> QED
          BY ONLY <4>7, <5>1, <5>2, <5>3
      <4>9. CASE Become(r)
        BY ONLY <1>11, <2>1, <4>3, <4>4, <4>5, <4>8, <4>9
      <4> QED
        BY ONLY <2>2, <4>1, <4>2, <4>9
    <3>5. CASE peer = "refuses"
      <4>1. Finish("error") \/ SoExact(3)
        BY <1>14, <3>3, <3>5 DEF SoReadReply
      <4>2. ~Sound
        BY <3>5 DEF Sound
      <4> QED
        BY ONLY <1>10, <2>1, <2>2, <4>1, <4>2
    <3> QED
      BY ONLY <3>4, <3>5
  <2> QED
    BY <1>14, <2>2, <2>3 DEF SoReadReply
<1>15. CASE SoReadLength
  <2>1. rd.st = "length" /\ rd.st # "open" /\ p = Base + 3 /\ Wanted = 1 /\ Accepted
        /\ Len(h) = Base + 6 /\ h[Base + 4] = <<"alen", 1>>
    BY <1>1, <1>15 DEF SoReadLength, SocksAt, Wanted
  <2>2. CASE SoExact(1)
    BY ONLY <1>9, <2>1, <2>2
  <2>3. CASE Len(rd.buf) = 1 /\ Become([rd EXCEPT !.st = "bound", !.buf = <<>>, !.rest = Val(rd.buf[1]) + 1])
    <3>1. rd.buf[1] = <<"alen", 1>>
      <4>1. 1 \in 1 .. Len(rd.buf) /\ p + 1 <= Len(h) /\ p + 1 = Base + 4
        BY ONLY <1>4, <1>5, <2>1, <2>3
      <4>2. rd.buf[1] = h[p + 1]
        BY ONLY <1>4, <4>1
      <4> QED
        BY ONLY <2>1, <4>1, <4>2
    <3>2. Val(rd.buf[1]) = 1
      BY ONLY <3>1 DEF Val
    <3>3. PICK r : r = [rd EXCEPT !.st = "bound", !.buf = <<>>, !.rest = 2]
      OBVIOUS
    <3>4. Become(r)
      <4>1. Val(rd.buf[1]) + 1 = 2
        BY ONLY <3>2
      <4> QED
        BY ONLY <2>3, <3>3, <4>1
    <3>5. DOMAIN r = DOMAIN rd /\ r.buf = <<>> /\ r.st = "bound" /\ r.rest = 2
      BY ONLY <1>8, <3>3
    <3>6. PICK q : q = p + Len(rd.buf)
      OBVIOUS
    <3>7. q + r.rest = Len(h) /\ r.rest \in Nat
      BY ONLY <1>5, <2>1, <2>3, <3>5, <3>6
    <3> QED
      BY ONLY <1>11, <2>1, <3>4, <3>5, <3>6, <3>7
  <2> QED
    BY <1>15, <2>2, <2>3 DEF SoReadLength
<1>16. CASE SoReadBound
  <2>1. rd.st = "bound" /\ rd.st # "open" /\ p + rd.rest = Len(h) /\ Wanted = rd.rest /\ Accepted
    BY <1>1, <1>16 DEF SoReadBound, SocksAt, Wanted
  <2>2. CASE SoExact(rd.rest)
    BY ONLY <1>9, <2>1, <2>2
  <2>3. CASE Len(rd.buf) = rd.rest /\ Become([rd EXCEPT !.st = "open", !.buf = <<>>])
    <3>1. PICK r : r = [rd EXCEPT !.st = "open", !.buf = <<>>]
      OBVIOUS
    <3>2. DOMAIN r = DOMAIN rd /\ r.buf = <<>> /\ r.st = "open" /\ Become(r)
      BY ONLY <1>8, <2>3, <3>1
    <3>3. PICK q : q = p + Len(rd.buf)
      OBVIOUS
    <3>4. q = Len(h)
      BY ONLY <2>1, <2>3, <3>3
    <3> QED
      BY ONLY <1>11, <2>1, <3>2, <3>3, <3>4
  <2> QED
    BY <1>16, <2>2, <2>3 DEF SoReadBound
<1>17. CASE rd.st = "open" /\ PassThrough
  <2>1. p = Len(h) + Len(got) /\ rd.buf = <<>> /\ Accepted
    BY ONLY <1>1, <1>17 DEF SocksAt
  <2>2. Trusted /\ Along(h, Len(h) + Len(got))
    BY ONLY <1>1, <2>1 DEF Trusted, Accepted
  <2>3. Typed' /\ rd' = rd /\ Heard' /\ Along(h, Len(h) + Len(got))' /\ (Silent \/ More \/ Over)
    BY ONLY Typed, Link, Heard, <1>2, <1>17, <2>1, <2>2, MaxBytes \in Nat, OpenPasses
  <2>4. PICK q : q = Len(h) + Len(got')
    OBVIOUS
  <2>5. Along(h, q)'
    BY ONLY <2>3, <2>4 DEF Along
  <2>6. SocksAt(h, q)'
    <3>1. Accepted' /\ rd'.st = "open" /\ rd'.buf = <<>> /\ {"st", "buf", "asked", "rest"} \subseteq DOMAIN rd'
      BY ONLY <1>2, <1>8, <1>17, <2>1, <2>3 DEF Accepted
    <3> QED
      BY ONLY <2>4, <3>1 DEF SocksAt
  <2>7. SocksInv'
    BY ONLY <1>6, <2>5, <2>6 DEF SocksInv
  <2> QED
    BY ONLY <2>3, <2>7 DEF Polled
<1> QED
  BY <1>12, <1>13, <1>14, <1>15, <1>16, <1>17 DEF SoRead

-----------------------------------------------------------------------------
\* The streams that are transparent behind a handshake.
Tunnels == HttpKinds \cup {"socks"}

Dialogue == IF kind = "socks" THEN SocksInv ELSE HttpInv
Reading == Typed /\ Link /\ Heard /\ Dialogue
\* The inductive invariant: a reader (or the upload of one of these kinds, which
\* meets no server) whose dialogue is where SocksAt or HttpAt says, and an error
\* that has a cause.
StreamInv ==
  /\ kind \in Tunnels
  /\ peer \in Peers(kind)
  /\ out = "error" => ~Sound \/ cut
  /\ (rd = None /\ flight = <<>> /\ out = "open") \/ Reading

\* A dialogue stays where it is when only the connection below moves.
LEMMA DialogueStays ==
  ASSUME NEW h, NEW p, Along(h, p)', UNCHANGED <<kind, peer, srv, sent, closed, rd, got, out>>
  PROVE  /\ kind # "socks" /\ HttpSaid(h) /\ HttpAt(h, p) => Dialogue'
         /\ kind = "socks" /\ SocksSaid(h) /\ SocksAt(h, p) => Dialogue'
<1>1. Base' = Base /\ SoMethod' = SoMethod /\ HasUser' = HasUser /\ First' = First
  BY DEF Base, SoMethod, HasUser, First
<1>2. ASSUME kind # "socks", HttpSaid(h), HttpAt(h, p) PROVE Dialogue'
  <2>1. HttpSaid(h)' /\ HttpAt(h, p)'
    BY ONLY <1>1, <1>2, UNCHANGED <<kind, peer, srv, sent, closed, rd, got, out>> DEF HttpSaid, HttpAt
  <2>2. HttpInv'
    BY ONLY <2>1, Along(h, p)' DEF HttpInv
  <2> QED
    BY ONLY <1>2, <2>2, UNCHANGED <<kind, peer, srv, sent, closed, rd, got, out>> DEF Dialogue
<1>3. ASSUME kind = "socks", SocksSaid(h), SocksAt(h, p) PROVE Dialogue'
  <2>1. SocksSaid(h)' /\ SocksAt(h, p)'
    BY ONLY <1>1, <1>3, UNCHANGED <<kind, peer, srv, sent, closed, rd, got, out>> DEF SocksSaid, SocksAt, Accepted
  <2>2. SocksInv'
    BY ONLY <2>1, Along(h, p)' DEF SocksInv
  <2> QED
    BY ONLY <1>3, <2>2, UNCHANGED <<kind, peer, srv, sent, closed, rd, got, out>> DEF Dialogue
<1> QED
  BY ONLY <1>2, <1>3

\* What is known of every dialogue.
LEMMA DialogueIs ==
  ASSUME Dialogue
  PROVE  \E h, p : /\ Along(h, p)
                   /\ \/ kind # "socks" /\ HttpSaid(h) /\ HttpAt(h, p)
                      \/ kind = "socks" /\ SocksSaid(h) /\ SocksAt(h, p)
BY DEF Dialogue, HttpInv, SocksInv

\* The steps, one after the other.
LEMMA ServeKeeps ==
  ASSUME StreamInv, Serve, StreamAssumption
  PROVE  StreamInv' /\ Served /\ Heard /\ UNCHANGED <<kind, peer, got, out, cut>>
<1>1. MaxBytes \in Nat
  BY DEF StreamAssumption
<1>2. Reading /\ UNCHANGED <<kind, peer, readVars>> /\ UNCHANGED <<kind, peer, got, out>>
  BY DEF StreamInv, Serve, readVars
<1>3. ASSUME kind = "socks" PROVE Typed' /\ Link' /\ Dialogue' /\ Served /\ cut' = cut
  <2>1. SoServer /\ SocksInv /\ peer \in Peers("socks")
    BY <1>2, <1>3 DEF Serve, Reading, Dialogue, StreamInv
  <2>2. Typed' /\ Link' /\ SocksInv' /\ Served
    BY ONLY <1>1, <1>2, <2>1, SocksServes DEF Reading
  <2>3. cut' = cut
    BY ONLY <2>1 DEF SoServer, Say, Put, Close
  <2> QED
    BY ONLY <1>2, <1>3, <2>2, <2>3 DEF Dialogue
<1>4. ASSUME kind # "socks" PROVE Typed' /\ Link' /\ Dialogue' /\ Served /\ cut' = cut
  <2>1. kind \in HttpKinds
    BY <1>4 DEF StreamInv, Tunnels
  <2>2. \/ srv = 0 /\ Say(HttpHead, 1)
        \/ /\ srv = 1 /\ peer # "long"
           /\ (\E n \in 1 .. (MaxBytes - sent) : Put(Bytes(sent + 1, sent + n), n, 1)) \/ Close(<<>>)
    BY <2>1 DEF Serve, HttpKinds, HoServer, WsServer, UpServer, HcServer
  <2>3. HttpInv
    BY <1>2, <1>4 DEF Reading, Dialogue
  <2>4. Typed' /\ Link' /\ HttpInv' /\ Served
    BY ONLY <1>1, <1>2, <2>2, <2>3, HttpServes DEF Reading
  <2>5. cut' = cut
    BY ONLY <2>2 DEF Say, Put, Close
  <2> QED
    BY ONLY <1>2, <1>4, <2>4, <2>5 DEF Dialogue
<1>5. Typed' /\ Link' /\ Dialogue' /\ Served /\ cut' = cut
  BY ONLY <1>3, <1>4
<1>6. Heard /\ Heard'
  BY ONLY <1>2 DEF Reading, Heard
<1>7. kind' \in Tunnels /\ peer' \in Peers(kind') /\ (out' = "error" => ~Sound' \/ cut')
  BY ONLY <1>2, <1>5, StreamInv DEF StreamInv, Sound
<1> QED
  BY ONLY <1>2, <1>5, <1>6, <1>7 DEF StreamInv, Reading

LEMMA InvStays ==
  ASSUME StreamInv, UNCHANGED <<kind, peer, flight, fin, cut, closed, sent, srv, wire, rd, got, out>>
  PROVE  StreamInv'
<1>1. kind' \in Tunnels /\ peer' \in Peers(kind') /\ (out' = "error" => ~Sound' \/ cut')
  BY DEF StreamInv, Sound
<1>2. CASE rd = None /\ flight = <<>> /\ out = "open"
  BY <1>1, <1>2 DEF StreamInv
<1>3. ASSUME Reading PROVE Reading'
  <2>1. Typed' /\ Link' /\ Heard'
    BY <1>3 DEF Reading, Typed, Link, Heard
  <2>2. PICK h, p : /\ Along(h, p)
                    /\ \/ kind # "socks" /\ HttpSaid(h) /\ HttpAt(h, p)
                       \/ kind = "socks" /\ SocksSaid(h) /\ SocksAt(h, p)
    BY <1>3, DialogueIs DEF Reading
  <2>3. Ahead' = Ahead /\ Rest' = Rest
    BY DEF Ahead, Rest
  <2>4. Along(h, p)'
    BY <2>2, <2>3, AlongStays
  <2>5. Dialogue'
    BY ONLY <2>2, <2>4, DialogueStays, UNCHANGED <<kind, peer, flight, fin, cut, closed, sent, srv, wire, rd, got, out>>
  <2> QED
    BY ONLY <2>1, <2>5 DEF Reading
<1> QED
  BY <1>1, <1>2, <1>3 DEF StreamInv

LEMMA ArriveKeeps ==
  ASSUME StreamInv, Arrive
  PROVE  StreamInv' /\ UNCHANGED <<kind, peer, sent, closed, cut, got, out>>
<1>1. flight # <<>> /\ UNCHANGED <<kind, peer, fin, cut, closed, sent, srv, rd, got, out>>
  BY DEF Arrive
<1>2. Reading
  BY <1>1 DEF StreamInv
<1>3. Typed' /\ Ahead' = Ahead /\ Rest' = Rest
  BY <1>2, ArriveMoves DEF Reading
<1>4. PICK h, p : /\ Along(h, p)
                  /\ \/ kind # "socks" /\ HttpSaid(h) /\ HttpAt(h, p)
                     \/ kind = "socks" /\ SocksSaid(h) /\ SocksAt(h, p)
  BY <1>2, DialogueIs DEF Reading
<1>5. Along(h, p)'
  BY ONLY <1>1, <1>3, <1>4, AlongStays
<1>6. Dialogue'
  BY ONLY <1>1, <1>4, <1>5, DialogueStays
<1>7. ~fin
  BY <1>1, <1>2 DEF Reading, Link
<1>8. Link' /\ Heard'
  BY ONLY <1>1, <1>2, <1>7 DEF Reading, Link, Heard
<1>9. kind' \in Tunnels /\ peer' \in Peers(kind') /\ (out' = "error" => ~Sound' \/ cut')
  BY ONLY <1>1, StreamInv DEF StreamInv, Sound
<1> QED
  BY ONLY <1>1, <1>3, <1>6, <1>8, <1>9 DEF StreamInv, Reading

LEMMA EndsKeeps ==
  ASSUME StreamInv, Ends, StreamAssumption
  PROVE  /\ StreamInv' /\ ~cut /\ UNCHANGED <<kind, peer, sent, closed, got, out>>
         /\ cut' \/ (~cut' /\ closed)
<1>1. /\ rd # None /\ ~fin /\ fin' = TRUE /\ cut' = (~closed \/ flight # <<>>) /\ flight' = <<>>
      /\ UNCHANGED <<kind, peer, closed, sent, srv, wire, rd, got, out>>
  BY DEF Ends, End
<1>2. Reading /\ End
  BY <1>1 DEF StreamInv, Ends
<1>3. ~cut /\ sent \in Nat /\ (cut => fin)
  BY <1>1, <1>2 DEF Reading, Link, StreamAssumption
<1>4. PICK h, p : /\ Along(h, p)
                  /\ \/ kind # "socks" /\ HttpSaid(h) /\ HttpAt(h, p)
                     \/ kind = "socks" /\ SocksSaid(h) /\ SocksAt(h, p)
  BY <1>2, DialogueIs DEF Reading
<1>5. Typed' /\ Along(h, p)'
  BY ONLY <1>2, <1>3, <1>4, AlongEnd DEF Reading
<1>6. Dialogue'
  BY ONLY <1>1, <1>4, <1>5, DialogueStays
<1>7. Link' /\ Heard'
  BY ONLY <1>1, <1>2 DEF Reading, Link, Heard
<1>8. out = "error" => ~Sound
  BY <1>3 DEF StreamInv
<1>9. kind' \in Tunnels /\ peer' \in Peers(kind') /\ (out' = "error" => ~Sound' \/ cut')
  BY ONLY <1>1, <1>8, StreamInv DEF StreamInv, Sound
<1> QED
  BY ONLY <1>1, <1>3, <1>5, <1>6, <1>7, <1>9 DEF StreamInv, Reading

LEMMA ReadKeeps ==
  ASSUME StreamInv, Read, StreamAssumption
  PROVE  StreamInv' /\ Heard /\ Heard' /\ Polled /\ out = "open" /\ UNCHANGED <<kind, peer, sent, closed, cut>>
<1>1. MaxBytes \in Nat
  BY DEF StreamAssumption
<1>2. Reading /\ out = "open" /\ UNCHANGED <<kind, peer, netVars>>
  BY DEF StreamInv, Read
<1>3. UNCHANGED <<flight, fin, cut, closed, sent, srv>>
  BY <1>2 DEF netVars
<1>4. ASSUME kind = "socks" PROVE Typed' /\ Heard' /\ Dialogue' /\ Polled
  <2>1. SoRead
    BY <1>4 DEF Read, PrefixedRead, WsRead
  <2>2. SocksInv /\ peer \in Peers("socks")
    BY <1>2, <1>4 DEF Reading, Dialogue, StreamInv
  <2>3. Typed' /\ Heard' /\ SocksInv' /\ Polled
    BY ONLY <1>1, <1>2, <2>1, <2>2, SocksReads DEF Reading
  <2> QED
    BY ONLY <1>2, <1>4, <2>3 DEF Dialogue
<1>5. ASSUME kind # "socks" PROVE Typed' /\ Heard' /\ Dialogue' /\ Polled
  <2>1. kind \in HttpKinds
    BY <1>5 DEF StreamInv, Tunnels
  <2>2. \/ kind = "httpobfs" /\ HoRead
        \/ kind = "upgrade" /\ (UpRead \/ PrefixedRead)
        \/ kind = "http" /\ HcRead
    <3>1. kind \in {"httpobfs", "upgrade", "http"}
      BY <2>1 DEF HttpKinds
    <3>2. (kind = "upgrade") \/ ~PrefixedRead
      BY DEF PrefixedRead
    <3>3. (kind = "ws") \/ ~WsRead
      BY DEF WsRead
    <3> QED
      BY <3>1, <3>2, <3>3 DEF Read
  <2>3. HttpInv /\ peer \in Peers(kind)
    BY <1>2, <1>5 DEF Reading, Dialogue, StreamInv
  <2>4. Typed' /\ Heard' /\ HttpInv' /\ Polled
    BY ONLY <1>1, <1>2, <2>1, <2>2, <2>3, HttpReads DEF Reading
  <2> QED
    BY ONLY <1>2, <1>5, <2>4 DEF Dialogue
<1>6. Typed' /\ Heard' /\ Dialogue' /\ Polled
  BY ONLY <1>4, <1>5
<1>7. Link'
  BY ONLY <1>2, <1>3 DEF Reading, Link
<1>8. out' = "error" => ~Sound \/ cut
  BY ONLY <1>2, <1>6 DEF Polled, Silent, More, Over, Broke
<1>9. kind' \in Tunnels /\ peer' \in Peers(kind') /\ (out' = "error" => ~Sound' \/ cut')
  BY ONLY <1>2, <1>3, <1>8, StreamInv DEF StreamInv, Sound
<1> QED
  BY ONLY <1>2, <1>3, <1>6, <1>7, <1>9 DEF StreamInv, Reading

LEMMA InitReads ==
  ASSUME Init, kind \in Tunnels, StreamAssumption
  PROVE  StreamInv
<1>1. /\ flight = <<>> /\ wire = <<>> /\ fin = FALSE /\ cut = FALSE /\ closed = FALSE /\ sent = 0 /\ srv = 0
      /\ got = <<>> /\ out = "open"
  BY DEF Init, Server, Tunnels, HttpKinds
<1>2. CASE kind \in Uploads /\ peer = "yes" /\ rd = None
  <2>1. kind = "httpobfs"
    BY <1>2 DEF Tunnels, HttpKinds, Uploads
  <2>2. peer \in Peers(kind)
    BY <1>2, <2>1 DEF Peers
  <2> QED
    BY <1>1, <1>2, <2>2 DEF StreamInv
<1>3. CASE peer \in Peers(kind) /\ rd = Reader(kind)
  <2>1. kind \in {"httpobfs", "upgrade", "http", "socks"}
    BY DEF Tunnels, HttpKinds
  <2>2. rd = IF kind = "httpobfs" THEN HoReader ELSE IF kind = "upgrade" THEN UpReader
             ELSE IF kind = "http" THEN HcReader ELSE SoReader
    BY <1>3, <2>1 DEF Reader
  <2>3. {"st", "buf"} \subseteq DOMAIN rd /\ rd.buf = <<>> /\ (kind # "socks" => rd.st = First)
    BY <2>1, <2>2 DEF HoReader, UpReader, HcReader, SoReader, First
  <2>4. kind = "socks" => {"st", "buf", "asked", "rest"} \subseteq DOMAIN rd /\ rd.st = "select" /\ rd.asked = 1
    BY <2>2 DEF SoReader
  <2>5. Typed /\ Link /\ Heard
    BY <1>1, <2>3 DEF Typed, Link, Heard, StreamAssumption
  <2>6. \E h : h = <<>> /\ h \in Seq(Tokens) /\ Len(h) = 0
    BY EmptySeq
  <2>6a. PICK h : h = <<>> /\ h \in Seq(Tokens) /\ Len(h) = 0
    BY ONLY <2>6
  <2>7. Ahead = 0
    BY <1>1, <2>3 DEF Ahead
  <2>8. Along(h, 0)
    BY ONLY <1>1, <2>6a, <2>7 DEF Along
  <2>9. First \notin {"transfer", "open"}
    BY DEF First
  <2>10. kind # "socks" => HttpInv
    <3>1. HttpSaid(h)
      BY ONLY <1>1, <2>6a DEF HttpSaid
    <3>2. kind # "socks" => HttpAt(h, 0)
      BY <1>1, <2>3, <2>9 DEF HttpAt
    <3> QED
      BY ONLY <2>8, <3>1, <3>2 DEF HttpInv
  <2>11. kind = "socks" => SocksInv
    <3>1. SocksSaid(h)
      BY ONLY <1>1, <2>6a DEF SocksSaid
    <3>2. kind = "socks" => SocksAt(h, 0)
      BY <1>1, <2>3, <2>4 DEF SocksAt
    <3> QED
      BY ONLY <2>8, <3>1, <3>2 DEF SocksInv
  <2> QED
    BY <1>1, <1>3, <2>5, <2>10, <2>11 DEF StreamInv, Reading, Dialogue
<1> QED
  BY <1>2, <1>3 DEF Init

LEMMA NextKeeps ==
  ASSUME StreamInv, [Next]_vars, StreamAssumption
  PROVE  StreamInv'
<1>1. CASE Serve
  BY ONLY <1>1, ServeKeeps, StreamInv, StreamAssumption
<1>2. CASE Arrive
  BY ONLY <1>2, ArriveKeeps, StreamInv
<1>3. CASE Ends
  BY ONLY <1>3, EndsKeeps, StreamInv, StreamAssumption
<1>4. CASE Read
  BY ONLY <1>4, ReadKeeps, StreamInv, StreamAssumption
<1>5. CASE Write \/ UNCHANGED vars
  <2>1. UNCHANGED <<kind, peer, flight, fin, cut, closed, sent, srv, wire, rd, got, out>>
    BY <1>5 DEF Write, vars, netVars, readVars
  <2> QED
    BY ONLY <2>1, InvStays, StreamInv
<1> QED
  BY <1>1, <1>2, <1>3, <1>4, <1>5 DEF Next

\* StreamInv holds in every state: the reader of socks.rs, http_connect.rs,
\* HttpObfsStream or PrefixedStream is always at the token the server will say next.
THEOREM TunnelsRead ==
  kind \in Tunnels /\ Spec => []StreamInv
<1>1. kind \in Tunnels /\ Init => StreamInv
  BY InitReads, StreamAssumption
<1>2. StreamInv /\ [Next]_vars => StreamInv'
  BY NextKeeps, StreamAssumption
<1> QED
  BY <1>1, <1>2, PTL DEF Spec

\* ErrorHasCause for these streams: however the answers are cut into segments, a
\* handshake with a sound server over a connection that is not cut does not fail
\* (obfs.rs, transport.rs, socks.rs, http_connect.rs).
THEOREM TunnelErrorHasCause ==
  kind \in Tunnels /\ Spec => []ErrorHasCause
<1>1. StreamInv => ErrorHasCause
  BY DEF StreamInv, ErrorHasCause
<1> QED
  BY <1>1, TunnelsRead, PTL

\* A step that the pipe sees.
PipeStep == [Pipe!Next]_(Pipe!vars)

\* What was heard, as the pipe writes it.
LEMMA CountedBytes ==
  ASSUME NEW g \in Seq(Tokens), \A i \in 1 .. Len(g) : g[i] = <<"b", i>>
  PROVE  g = [i \in 1 .. Len(g) |-> <<"b", i>>] /\ Len(g) \in Nat
<1>1. Len(g) \in Nat /\ g \in [1 .. Len(g) -> Tokens]
  BY LenProperties
<1> HIDE DEF Tokens
<1>2. DOMAIN g = 1 .. Len(g) /\ g = [i \in DOMAIN g |-> g[i]]
  BY <1>1
<1> QED
  BY <1>1, <1>2

\* These streams take the end of the connection for the end of the file.
LEMMA SameEnds ==
  ASSUME StreamInv
  PROVE  kind # "vision" /\ peer # "forges" /\ Blind
<1>1. kind \in {"httpobfs", "upgrade", "http", "socks"} /\ peer \in Peers(kind)
  BY DEF StreamInv, Tunnels, HttpKinds
<1>2. peer # "forges"
  BY <1>1 DEF Peers
<1> QED
  BY <1>1, <1>2 DEF Blind

\* Every step is one of the pipe, or none.
LEMMA StepMaps ==
  ASSUME StreamInv, StreamInv', [Next]_vars, StreamAssumption
  PROVE  PipeStep
<1>1. kind # "vision" /\ peer # "forges" /\ Blind /\ kind' # "vision" /\ peer' # "forges" /\ Blind'
  BY SameEnds, StreamInv, StreamInv' DEF StreamInv, Blind, Tunnels, HttpKinds, Peers
<1>2. CASE Serve
  <2>1. Served /\ UNCHANGED <<kind, peer, got, out, cut>>
    BY ONLY <1>2, ServeKeeps, StreamInv, StreamAssumption
  <2>2. Trusted' = Trusted
    BY ONLY <2>1 DEF Trusted
  <2>3. CASE sent' = sent /\ closed' = closed
    BY ONLY <1>1, <2>1, <2>2, <2>3 DEF PipeStep, Pipe!vars
  <2>4. CASE sent' \in (sent + 1) .. MaxBytes /\ closed' = closed
    BY ONLY <1>1, <2>1, <2>2, <2>4 DEF PipeStep, Pipe!Next, Pipe!Send, Served
  <2>5. CASE sent' = sent /\ closed'
    BY ONLY <1>1, <2>1, <2>2, <2>5 DEF PipeStep, Pipe!Next, Pipe!End, Served
  <2> QED
    BY ONLY <2>1, <2>3, <2>4, <2>5 DEF Served
<1>3. CASE Arrive
  <2>1. UNCHANGED <<kind, peer, sent, closed, cut, got, out>>
    BY ONLY <1>3, ArriveKeeps, StreamInv
  <2> QED
    BY ONLY <2>1 DEF PipeStep, Pipe!vars, Trusted, Blind
<1>4. CASE Ends
  <2>1. ~cut /\ UNCHANGED <<kind, peer, sent, closed, got, out>> /\ (cut' \/ (~cut' /\ closed))
    BY ONLY <1>4, EndsKeeps, StreamInv, StreamAssumption
  <2>2. Trusted' = Trusted
    BY ONLY <2>1 DEF Trusted
  <2>3. CASE cut'
    BY ONLY <1>1, <2>1, <2>2, <2>3 DEF PipeStep, Pipe!Next, Pipe!End
  <2>4. CASE ~cut'
    BY ONLY <1>1, <2>1, <2>2, <2>4 DEF PipeStep, Pipe!vars
  <2> QED
    BY ONLY <2>3, <2>4
<1>5. CASE Read
  <2>1. Heard' /\ Polled /\ out = "open" /\ UNCHANGED <<kind, peer, sent, closed, cut>>
    BY ONLY <1>5, ReadKeeps, StreamInv, StreamAssumption
  <2>2. Trusted' = Trusted
    BY ONLY <2>1 DEF Trusted
  <2>3. CASE Silent
    BY ONLY <1>1, <2>1, <2>2, <2>3 DEF PipeStep, Pipe!vars, Silent
  <2>4. CASE More
    <3>1. got' = [i \in 1 .. Len(got') |-> <<"b", i>>] /\ Len(got') \in Nat
      <4>1. got' \in Seq(Tokens) /\ \A i \in 1 .. Len(got') : got'[i] = <<"b", i>>
        BY ONLY <2>1 DEF Heard, Byte
      <4> QED
        BY ONLY <4>1, CountedBytes
    <3>2. Len(got) \in Nat /\ sent \in Nat
      <4>1. Reading
        BY <2>1, <1>5 DEF Read, StreamInv
      <4>2. got \in Seq(Tokens) /\ sent \in 0 .. MaxBytes /\ MaxBytes \in Nat
        BY <4>1 DEF Reading, Heard, Link, StreamAssumption
      <4> QED
        BY ONLY <4>2
    <3>3. PICK n : n = Len(got')
      OBVIOUS
    <3>4. n \in (Len(got) + 1) .. sent /\ got' = [i \in 1 .. n |-> Pipe!Byte(i)]
      BY ONLY <2>4, <3>1, <3>2, <3>3 DEF Pipe!Byte, More
    <3>5. \E m \in (Len(got) + 1) .. sent : got' = [i \in 1 .. m |-> Pipe!Byte(i)]
      BY ONLY <3>4
    <3>6. Pipe!Read
      BY ONLY <1>1, <2>1, <2>2, <2>4, <3>5 DEF Pipe!Read, More
    <3> QED
      BY ONLY <3>6 DEF PipeStep, Pipe!Next
  <2>5. CASE Over
    BY ONLY <1>1, <2>1, <2>2, <2>5 DEF PipeStep, Pipe!Next, Pipe!Eof, Over
  <2>6. CASE Broke
    BY ONLY <1>1, <2>1, <2>2, <2>6 DEF PipeStep, Pipe!Next, Pipe!Fail, Broke
  <2> QED
    BY ONLY <2>1, <2>3, <2>4, <2>5, <2>6 DEF Polled
<1>6. CASE Write \/ UNCHANGED vars
  <2>1. UNCHANGED <<kind, peer, sent, closed, cut, got, out>>
    BY <1>6 DEF Write, vars, netVars, readVars
  <2> QED
    BY ONLY <2>1 DEF PipeStep, Pipe!vars, Trusted, Blind
<1> QED
  BY ONLY <1>2, <1>3, <1>4, <1>5, <1>6, [Next]_vars DEF Next

\* RefinesPipe for these streams: the application reads the bytes of the server's
\* application, in order, none lost, none twice, nothing of a handshake among them,
\* and none from a server that failed it; it is told of the end only at the end, or
\* at a cut.
THEOREM TunnelsRefinePipe ==
  kind \in Tunnels /\ Spec => RefinesPipe
<1>1. kind \in Tunnels /\ Init => Pipe!Init
  BY DEF Init, Pipe!Init, Trusted, Blind
<1>2. StreamInv /\ StreamInv' /\ [Next]_vars => [Pipe!Next]_(Pipe!vars)
  BY StepMaps, StreamAssumption DEF PipeStep
<1> QED
  BY <1>1, <1>2, TunnelsRead, PTL DEF Spec, RefinesPipe, Pipe!Spec
=============================================================================
