---------------------------- MODULE TunStackProofs ----------------------------
(***************************************************************************)
(* Proofs about the TUN stack, in three parts: the NAT table is a          *)
(* bijection between the sources it knows and the ports it has given out;  *)
(* the fake-IP pool's maps and its LRU list agree; and the stack composed  *)
(* of both relays a connection to the host its client asked for.  All of   *)
(* it for every set of clients and hosts, every port and address range and *)
(* every length of the two allocation loops.                               *)
(***************************************************************************)
EXTENDS TunStack, FiniteSetTheorems, TLAPS

-------------------------------------------------------------------------------
(* The NAT table (nat.rs).                                                     *)

\* The allocation loop only ever looks at NAT ports (nat.rs:59-66): the wrap
\* of the u16 counter does not lead out of PortLo..PortHi.
LEMMA ProbeInRange ==
  ASSUME TypeOK, NEW k \in 0..(Tries - 1)
  PROVE  Probe(k) \in Ports /\ IndexAfter(Probe(k)) \in Ports \cup {0}
  BY NatAssumption DEF TypeOK, Probe, IndexAfter, Ports, NumPorts

\* Every method keeps the table well typed (nat.rs:36-112).
LEMMA TypeStep ==
  ASSUME TypeOK, [Next]_vars
  PROVE  TypeOK'
<1> USE DEF TypeOK, TcpSession, Fresh, InUse
<1>1. ASSUME NEW s \in Sources, NEW d \in Dests, LookupKnown(s, d)
      PROVE  TypeOK'
  BY <1>1 DEF LookupKnown
<1>2. ASSUME NEW s \in Sources, NEW d \in Dests, LookupNew(s, d)
      PROVE  TypeOK'
  <2>1. PICK k \in 0..(Tries - 1) :
          /\ addrMap' = [t \in DOMAIN addrMap \cup {s} |->
                           IF t = s THEN Probe(k) ELSE addrMap[t]]
          /\ portMap' = [p \in DOMAIN portMap \cup {Probe(k)} |->
                           IF p = Probe(k) THEN Fresh(s, d) ELSE portMap[p]]
          /\ portIndex' = IndexAfter(Probe(k))
          /\ ret' = Probe(k)
    BY <1>2 DEF LookupNew
  <2>2. Probe(k) \in Ports /\ IndexAfter(Probe(k)) \in Ports \cup {0}
    BY ProbeInRange
  <2> QED
    BY <2>1, <2>2
<1>3. ASSUME NEW s \in Sources, LookupFull(s)
      PROVE  TypeOK'
  <2>1. Tries - 1 \in 0..(Tries - 1)
    BY NatAssumption
  <2>2. IndexAfter(Probe(Tries - 1)) \in Ports \cup {0}
    BY <2>1, ProbeInRange
  <2> QED
    BY <1>3, <2>2 DEF LookupFull
<1>4. ASSUME NEW p \in Ports, LookupBack(p)
      PROVE  TypeOK'
  BY <1>4 DEF LookupBack
<1>5. ASSUME NEW p \in Ports, GoIdle(p)
      PROVE  TypeOK'
  BY <1>5 DEF GoIdle
<1>6. ASSUME Sweep
      PROVE  TypeOK'
  BY <1>6 DEF Sweep
<1>7. CASE UNCHANGED vars
  BY <1>7 DEF vars
<1> QED
  BY <1>1, <1>2, <1>3, <1>4, <1>5, <1>6, <1>7 DEF Next

\* Every reachable table is well typed (nat.rs:18-22).
THEOREM TypeCorrect == Spec => []TypeOK
<1>1. Init => TypeOK
  BY NatAssumption DEF Init, TypeOK, Ports, NoPort, TcpSession
<1> QED
  BY <1>1, TypeStep, PTL DEF Spec

\* No step breaks the bijection: each lookup touches one source and one port
\* that is free or already that source's, and sweep drops both halves.
LEMMA InverseStep ==
  ASSUME TypeOK, MapsInverse, [Next]_vars
  PROVE  MapsInverse'
<1> USE DEF TypeOK, MapsInverse, TcpSession, Fresh, InUse
<1>1. ASSUME NEW s \in Sources, NEW d \in Dests, LookupKnown(s, d)
      PROVE  MapsInverse'
  BY <1>1 DEF LookupKnown
<1>2. ASSUME NEW s \in Sources, NEW d \in Dests, LookupNew(s, d)
      PROVE  MapsInverse'
  <2>1. PICK k \in 0..(Tries - 1) :
          /\ Probe(k) \notin DOMAIN portMap
          /\ addrMap' = [t \in DOMAIN addrMap \cup {s} |->
                           IF t = s THEN Probe(k) ELSE addrMap[t]]
          /\ portMap' = [p \in DOMAIN portMap \cup {Probe(k)} |->
                           IF p = Probe(k) THEN Fresh(s, d) ELSE portMap[p]]
    BY <1>2 DEF LookupNew
  <2> QED
    BY <1>2, <2>1 DEF LookupNew
<1>3. ASSUME NEW s \in Sources, LookupFull(s)
      PROVE  MapsInverse'
  BY <1>3 DEF LookupFull
<1>4. ASSUME NEW p \in Ports, LookupBack(p)
      PROVE  MapsInverse'
  BY <1>4 DEF LookupBack
<1>5. ASSUME NEW p \in Ports, GoIdle(p)
      PROVE  MapsInverse'
  BY <1>5 DEF GoIdle
<1>6. ASSUME Sweep
      PROVE  MapsInverse'
  BY <1>6 DEF Sweep
<1>7. CASE UNCHANGED vars
  BY <1>7 DEF vars
<1> QED
  BY <1>1, <1>2, <1>3, <1>4, <1>5, <1>6, <1>7 DEF Next

\* addr_map and port_map are inverse to one another in every reachable table:
\* a segment that comes back is rewritten to the client it belongs to.
THEOREM NatBijection == Spec => []MapsInverse
<1>1. Init => MapsInverse
  BY DEF Init, MapsInverse, InUse
<1> QED
  BY <1>1, TypeCorrect, InverseStep, PTL DEF Spec

\* A flow keeps its port until it has gone idle, whoever else looks up what
\* (nat.rs:36-84, 98-112).
THEOREM NatPortsStable == Spec => PortsStable
<1>1. ASSUME TypeOK, MapsInverse, Next
      PROVE  /\ \A s \in DOMAIN addrMap :
                  \/ s \in DOMAIN addrMap' /\ addrMap'[s] = addrMap[s]
                  \/ portMap[addrMap[s]].idle
             /\ \A p \in DOMAIN portMap \cap DOMAIN portMap' :
                  portMap'[p].source = portMap[p].source
  <2> USE DEF TypeOK, MapsInverse, TcpSession, Fresh, InUse
  <2>1. CASE \E s \in Sources, d \in Dests : LookupKnown(s, d)
    BY <1>1, <2>1 DEF LookupKnown
  <2>2. CASE \E s \in Sources, d \in Dests : LookupNew(s, d)
    BY <1>1, <2>2 DEF LookupNew
  <2>3. CASE \E s \in Sources : LookupFull(s)
    BY <1>1, <2>3 DEF LookupFull
  <2>4. CASE \E p \in Ports : LookupBack(p) \/ GoIdle(p)
    BY <1>1, <2>4 DEF LookupBack, GoIdle
  <2>5. CASE Sweep
    BY <1>1, <2>5 DEF Sweep
  <2> QED
    BY <1>1, <2>1, <2>2, <2>3, <2>4, <2>5 DEF Next
<1> QED
  BY <1>1, TypeCorrect, NatBijection, PTL DEF Spec, PortsStable

\* The iterations of the allocation loop look at different ports, across the
\* wrap too (nat.rs:58-70).
LEMMA ProbesDiffer ==
  ASSUME TypeOK, NEW i \in 0..(Tries - 1), NEW j \in 0..(Tries - 1), Probe(i) = Probe(j)
  PROVE  i = j
  BY NatAssumption DEF TypeOK, Probe, Ports, NumPorts

\* When every iteration met a port in use, as many ports are in use as there are
\* iterations.
LEMMA LoopCounts ==
  ASSUME TypeOK, \A j \in 0..(Tries - 1) : InUse(Probe(j))
  PROVE  Cardinality(Ports \ DOMAIN portMap) <= NumPorts - Tries
<1> DEFINE U == Ports \cap DOMAIN portMap
           I == 0..(Tries - 1)
           f == [j \in I |-> Probe(j)]
<1>1. IsFiniteSet(Ports) /\ Cardinality(Ports) = NumPorts
  BY FS_Interval, NatAssumption DEF Ports, NumPorts
<1>2. IsFiniteSet(U)
  BY <1>1, FS_Subset
<1>3. Cardinality(I) = Tries
  BY FS_Interval, NatAssumption
<1>4. f \in Injection(I, U)
  <2>1. f \in [I -> U]
    BY ProbeInRange DEF InUse
  <2>2. \A i, j \in I : f[i] = f[j] => i = j
    BY ProbesDiffer
  <2> QED
    BY <2>1, <2>2 DEF Injection, IsInjective
<1>5. Tries <= Cardinality(U)
  <2> HIDE DEF f, U, I
  <2> QED
    BY <1>2, <1>3, <1>4, FS_Injection
<1>6. Cardinality(Ports \ DOMAIN portMap) = Cardinality(Ports) - Cardinality(U)
  BY <1>1, FS_Difference
<1>7. Cardinality(U) \in Nat
  BY <1>2, FS_CardinalityType
<1> QED
  BY <1>1, <1>5, <1>6, <1>7, NatAssumption DEF NumPorts

\* A lookup returns None only when no more than NumPorts - Tries ports are free:
\* the loop skips no port, wherever port_index stands (nat.rs:57-74).
THEOREM NatNoneOnlyWhenFull == Spec => NoneOnlyWhenFull
<1>1. ASSUME TypeOK, Next, ret' = NoPort, portIndex' # portIndex
      PROVE  Cardinality(Ports \ DOMAIN portMap) <= NumPorts - Tries
  <2>1. ASSUME NEW s \in Sources, NEW d \in Dests, LookupNew(s, d) PROVE FALSE
    <3>1. PICK k \in 0..(Tries - 1) : ret' = Probe(k)
      BY <2>1 DEF LookupNew
    <3> QED
      BY <1>1, <3>1, ProbeInRange, NatAssumption DEF Ports, NoPort
  <2>2. ASSUME NEW s \in Sources, LookupFull(s)
        PROVE  Cardinality(Ports \ DOMAIN portMap) <= NumPorts - Tries
    BY <1>1, <2>2, LoopCounts DEF LookupFull
  <2> QED
    BY <1>1, <2>1, <2>2 DEF Next, LookupKnown, LookupBack, GoIdle, Sweep
<1> QED
  BY <1>1, TypeCorrect, PTL DEF Spec, NoneOnlyWhenFull

-------------------------------------------------------------------------------
(* The fake-IP pool (dns.rs).                                                  *)

PoolTypeOK ==
  /\ DOMAIN hostToIp \in SUBSET Hosts /\ hostToIp \in [DOMAIN hostToIp -> Ips]
  /\ DOMAIN ipToHost \in SUBSET Ips /\ ipToHost \in [DOMAIN ipToHost -> Hosts]
  /\ lru \in Seq(Hosts)
  /\ next \in Ips /\ given \in Ips

PoolInv == PoolTypeOK /\ PoolExact

\* PoolExact of two maps and a list: the maps are inverse, the list holds each
\* mapped host once.
Inverses(H, I) ==
  /\ \A h \in DOMAIN H : H[h] \in DOMAIN I \ Skipped /\ I[H[h]] = h
  /\ \A i \in DOMAIN I : I[i] \in DOMAIN H /\ H[I[i]] = i

Lists(L, H) ==
  /\ \A i \in 1..Len(L) : L[i] \in DOMAIN H
  /\ \A h \in DOMAIN H : \E i \in 1..Len(L) : L[i] = h
  /\ \A i, j \in 1..Len(L) : i # j => L[i] # L[j]

LEMMA ExactParts == PoolExact <=> Inverses(hostToIp, ipToHost) /\ Lists(lru, hostToIp) /\ Len(lru) <= Max
<1>1. {lru[i] : i \in 1..Len(lru)} = DOMAIN hostToIp
        <=> /\ \A i \in 1..Len(lru) : lru[i] \in DOMAIN hostToIp
            /\ \A h \in DOMAIN hostToIp : \E i \in 1..Len(lru) : lru[i] = h
  OBVIOUS
<1> QED
  BY <1>1 DEF PoolExact, Inverses, Lists

\* The loop looks at pool addresses only, and leaves `next` at one (dns.rs:61-70).
LEMMA CandidateInRange ==
  ASSUME next \in Ips, NEW k \in 0..(Loops - 1)
  PROVE  Candidate(k) \in Ips /\ NextAfter(k + 1) \in Ips
  BY PoolAssumption DEF Candidate, NextAfter, Ips, NumIps

\* The maps have as many entries as the list.
LEMMA FullByLength ==
  ASSUME PoolInv
  PROVE  Full <=> Len(lru) >= Max
<1> DEFINE f == [i \in 1..Len(lru) |-> lru[i]]
<1>1. Lists(lru, hostToIp) /\ Len(lru) \in Nat
  BY ExactParts DEF PoolInv, PoolTypeOK
<1>2. f \in Bijection(1..Len(lru), DOMAIN hostToIp)
  BY <1>1 DEF Lists, Bijection, Injection, Surjection, IsInjective
<1>3. Cardinality(DOMAIN hostToIp) = Len(lru)
  BY <1>1, <1>2, FS_CountingElements DEF ExistsBijection
<1> QED
  BY <1>3 DEF Full

\* evict leaves the pool exact and with room for one more host (dns.rs:58, 96-102).
LEMMA EvictMakesRoom ==
  ASSUME PoolInv
  PROVE  /\ DOMAIN KeptHosts \in SUBSET Hosts /\ KeptHosts \in [DOMAIN KeptHosts -> Ips]
         /\ DOMAIN KeptIps \in SUBSET DOMAIN ipToHost
         /\ \A ip \in DOMAIN KeptIps : KeptIps[ip] = ipToHost[ip]
         /\ KeptIps \in [DOMAIN KeptIps -> Hosts]
         /\ KeptLru \in Seq(Hosts)
         /\ DOMAIN KeptHosts \in SUBSET DOMAIN hostToIp
         /\ Inverses(KeptHosts, KeptIps) /\ Lists(KeptLru, KeptHosts)
         /\ Len(KeptLru) < Max
<1> USE PoolAssumption
<1>0. /\ Inverses(hostToIp, ipToHost) /\ Lists(lru, hostToIp) /\ Len(lru) \in Nat /\ Len(lru) <= Max
      /\ lru \in Seq(Hosts)
  BY ExactParts DEF PoolInv, PoolTypeOK
<1>1. CASE ~Full
  BY <1>0, <1>1, FullByLength DEF PoolInv, PoolTypeOK, KeptHosts, KeptIps, KeptLru
<1>2. CASE Full
  <2> DEFINE n == Len(lru)
  <2>1. n >= 1 /\ n = Max /\ Victim = lru[n]
    BY <1>0, <1>2, FullByLength DEF Victim
  <2>2. /\ KeptLru \in Seq(Hosts) /\ Len(KeptLru) = n - 1
        /\ \A i \in 1..(n - 1) : KeptLru[i] = lru[i]
    BY <1>0, <1>2, <2>1 DEF KeptLru
  <2>3. Victim \in DOMAIN hostToIp
    BY <1>0, <2>1 DEF Lists
  <2>4. /\ DOMAIN KeptHosts = DOMAIN hostToIp \ {Victim}
        /\ \A h \in DOMAIN KeptHosts : KeptHosts[h] = hostToIp[h]
        /\ KeptHosts \in [DOMAIN KeptHosts -> Ips]
    BY <1>2 DEF KeptHosts, Without, PoolInv, PoolTypeOK
  <2>5. /\ DOMAIN KeptIps = DOMAIN ipToHost \ {hostToIp[Victim]}
        /\ \A i \in DOMAIN KeptIps : KeptIps[i] = ipToHost[i]
        /\ KeptIps \in [DOMAIN KeptIps -> Hosts]
    BY <1>2 DEF KeptIps, Without, PoolInv, PoolTypeOK
  <2>6. Inverses(KeptHosts, KeptIps)
    BY <1>0, <2>3, <2>4, <2>5 DEF Inverses
  <2>7. Lists(KeptLru, KeptHosts)
    <3>1. \A i \in 1..(n - 1) : lru[i] \in DOMAIN hostToIp /\ lru[i] # lru[n]
      BY <1>0, <2>1 DEF Lists
    <3>2. \A h \in DOMAIN KeptHosts : \E i \in 1..(n - 1) : lru[i] = h
      BY <1>0, <2>1, <2>4 DEF Lists
    <3>3. \A i, j \in 1..(n - 1) : i # j => lru[i] # lru[j]
      BY <1>0 DEF Lists
    <3> QED
      BY <2>1, <2>2, <2>4, <3>1, <3>2, <3>3 DEF Lists
  <2> QED
    BY <2>1, <2>2, <2>4, <2>5, <2>6, <2>7 DEF PoolInv, PoolTypeOK
<1> QED
  BY <1>1, <1>2

\* touch reorders the list and no more (dns.rs:89-94).
LEMMA TouchReorders ==
  ASSUME PoolInv, NEW h \in Hosts, Touch(h)
  PROVE  lru' \in Seq(Hosts) /\ Len(lru') = Len(lru) /\ Lists(lru', hostToIp)
<1>0. lru \in Seq(Hosts) /\ Len(lru) \in Nat /\ Lists(lru, hostToIp)
  BY ExactParts DEF PoolInv, PoolTypeOK
<1>1. CASE ~\E i \in 1..Len(lru) : lru[i] = h
  BY <1>0, <1>1 DEF Touch
<1>2. CASE \E i \in 1..Len(lru) : lru[i] = h
  <2> DEFINE n == Position(h)
             F == ToFront(n)
  <2>1. PICK p \in 1..Len(lru) : lru[p] = h
    BY <1>2
  <2>2. lru[p] = h /\ \A j \in 1..(p - 1) : lru[j] # h
    BY <1>0, <2>1 DEF Lists
  <2>3. n \in 1..Len(lru)
    BY <2>2 DEF Position
  <2> HIDE DEF n
  <2>4. F \in Seq(Hosts) /\ Len(F) = Len(lru)
    BY <1>0, <2>3 DEF ToFront
  <2> DEFINE src == [j \in 1..Len(lru) |-> IF j = 1 THEN n ELSE IF j <= n THEN j - 1 ELSE j]
  <2>5. \A j \in 1..Len(lru) : src[j] \in 1..Len(lru) /\ F[j] = lru[src[j]]
    BY <1>0, <2>3 DEF ToFront
  <2>6. \A i, j \in 1..Len(lru) : i # j => src[i] # src[j]
    BY <1>0, <2>3
  <2>7. \A i \in 1..Len(lru) : \E j \in 1..Len(lru) : src[j] = i
    <3> TAKE i \in 1..Len(lru)
    <3>1. CASE i = n
      <4>1. 1 \in 1..Len(lru) /\ src[1] = i
        BY <1>0, <2>3, <3>1
      <4> QED
        BY <4>1
    <3>2. CASE i < n
      <4>1. i + 1 \in 1..Len(lru) /\ src[i + 1] = i
        BY <1>0, <2>3, <3>2
      <4> QED
        BY <4>1
    <3>3. CASE i > n
      <4>1. i \in 1..Len(lru) /\ src[i] = i
        BY <1>0, <2>3, <3>3
      <4> QED
        BY <4>1
    <3> QED
      BY <1>0, <2>3, <3>1, <3>2, <3>3
  <2> HIDE DEF F, src
  <2>8. Lists(F, hostToIp)
    <3>0. /\ \A i \in 1..Len(lru) : lru[i] \in DOMAIN hostToIp
          /\ \A g \in DOMAIN hostToIp : \E i \in 1..Len(lru) : lru[i] = g
      BY <1>0 DEF Lists
    <3>1. \A j \in 1..Len(lru) : F[j] \in DOMAIN hostToIp
      BY <2>5, <3>0, Zenon
    <3>2. \A g \in DOMAIN hostToIp : \E j \in 1..Len(lru) : F[j] = g
      <4> TAKE g \in DOMAIN hostToIp
      <4>1. PICK i \in 1..Len(lru) : lru[i] = g
        BY <3>0
      <4>2. PICK j \in 1..Len(lru) : src[j] = i
        BY <2>7
      <4>3. F[j] = lru[i]
        BY <2>5, <4>2
      <4> QED
        BY <4>1, <4>3
    <3>3. \A i, j \in 1..Len(lru) : i # j => F[i] # F[j]
      <4> TAKE i, j \in 1..Len(lru)
      <4>1. F[i] = lru[src[i]] /\ src[i] \in 1..Len(lru)
        BY <2>5
      <4>2. F[j] = lru[src[j]] /\ src[j] \in 1..Len(lru)
        BY <2>5
      <4>3. i # j => lru[src[i]] # lru[src[j]]
        BY <1>0, <2>6, <4>1, <4>2 DEF Lists
      <4> QED
        BY <4>1, <4>2, <4>3
    <3> QED
      BY <2>4, <3>1, <3>2, <3>3 DEF Lists
  <2>9. lru' = F
    BY <1>2 DEF Touch, F, n
  <2> QED
    BY <2>4, <2>8, <2>9
<1> QED
  BY <1>1, <1>2

\* A method of the pool keeps it exact, whatever the callback answers
\* (dns.rs:49-102).
LEMMA PoolStep ==
  ASSUME PoolInv,
         \/ \E h \in Hosts, U \in SUBSET Ips : LookupAvoiding(h, U)
         \/ \E ip \in Ips : Lookback(ip)
         \/ UNCHANGED pool
  PROVE  PoolInv'
<1>0. Inverses(hostToIp, ipToHost)
  BY ExactParts DEF PoolInv
<1>1. ASSUME NEW h \in Hosts, Touch(h), UNCHANGED <<hostToIp, ipToHost, next>>, given' \in Ips
      PROVE  PoolInv'
  <2>1. lru' \in Seq(Hosts) /\ Len(lru') = Len(lru) /\ Lists(lru', hostToIp)
    BY <1>1, TouchReorders
  <2>2. PoolTypeOK'
    BY <1>1, <2>1 DEF PoolInv, PoolTypeOK
  <2>3. PoolExact'
    <3>1. Len(lru) <= Max
      BY DEF PoolInv, PoolExact
    <3>2. {lru'[i] : i \in 1..Len(lru')} = DOMAIN hostToIp'
      BY <1>1, <2>1 DEF Lists
    <3> QED
      BY <1>0, <1>1, <2>1, <3>1, <3>2 DEF PoolExact, Inverses, Lists
  <2> QED
    BY <2>2, <2>3 DEF PoolInv
<1>2. ASSUME NEW h \in Hosts, HostKnown(h) PROVE PoolInv'
  BY <1>1, <1>2 DEF HostKnown, PoolInv, PoolTypeOK
<1>3. ASSUME NEW ip \in Ips, Lookback(ip) PROVE PoolInv'
  <2>1. ipToHost[ip] \in Hosts
    BY <1>3 DEF Lookback, PoolInv, PoolTypeOK
  <2> QED
    BY <1>1, <1>3, <2>1 DEF Lookback, PoolInv, PoolTypeOK
<1>4. ASSUME NEW h \in Hosts, NEW U \in SUBSET Ips, HostNew(h, U) PROVE PoolInv'
  <2>1. PICK k \in 0..(Loops - 1) :
          /\ Free(Candidate(k), U)
          /\ hostToIp' = Put(KeptHosts, h, Candidate(k))
          /\ ipToHost' = Put(KeptIps, Candidate(k), h)
          /\ lru' = <<h>> \o KeptLru
          /\ next' = NextAfter(k + 1)
          /\ given' = Candidate(k)
    BY <1>4 DEF HostNew
  <2> DEFINE ip == Candidate(k)
  <2>2. ip \in Ips /\ NextAfter(k + 1) \in Ips
    BY CandidateInRange DEF PoolInv, PoolTypeOK
  <2>3. ip \notin Skipped /\ ip \notin DOMAIN KeptIps
    BY <2>1 DEF Free
  <2>4. h \notin DOMAIN KeptHosts
    BY <1>4, EvictMakesRoom DEF HostNew
  <2> HIDE DEF ip
  <2>5. PoolTypeOK'
    <3>1. /\ DOMAIN hostToIp' = DOMAIN KeptHosts \cup {h}
          /\ hostToIp' \in [DOMAIN hostToIp' -> Ips]
      BY <2>1, <2>2, EvictMakesRoom DEF Put, ip
    <3>2. /\ DOMAIN ipToHost' = DOMAIN KeptIps \cup {ip}
          /\ ipToHost' \in [DOMAIN ipToHost' -> Hosts]
      BY <2>1, EvictMakesRoom DEF Put, ip
    <3>3. lru' \in Seq(Hosts)
      BY <2>1, EvictMakesRoom
    <3> QED
      BY <2>1, <2>2, <3>1, <3>2, <3>3, EvictMakesRoom DEF PoolInv, PoolTypeOK, ip
  <2>6. Inverses(hostToIp', ipToHost')
    <3>1. /\ DOMAIN hostToIp' = DOMAIN KeptHosts \cup {h} /\ hostToIp'[h] = ip
          /\ \A g \in DOMAIN KeptHosts : hostToIp'[g] = KeptHosts[g]
      BY <2>1, <2>4 DEF Put, ip
    <3>2. /\ DOMAIN ipToHost' = DOMAIN KeptIps \cup {ip} /\ ipToHost'[ip] = h
          /\ \A i \in DOMAIN KeptIps : ipToHost'[i] = KeptIps[i]
      BY <2>1, <2>3 DEF Put, ip
    <3>3. Inverses(KeptHosts, KeptIps)
      BY EvictMakesRoom
    <3> QED
      BY <2>3, <2>4, <3>1, <3>2, <3>3 DEF Inverses
  <2>7. Lists(lru', hostToIp') /\ Len(lru') <= Max
    <3> DEFINE n == Len(KeptLru)
    <3>1. /\ KeptLru \in Seq(Hosts) /\ n \in Nat /\ n < Max /\ Max \in Nat
          /\ Lists(KeptLru, KeptHosts)
      BY EvictMakesRoom, PoolAssumption
    <3>2. /\ Len(lru') = n + 1 /\ lru'[1] = h
          /\ \A i \in 1..n : lru'[i + 1] = KeptLru[i]
      BY <2>1, <3>1
    <3>3. DOMAIN hostToIp' = DOMAIN KeptHosts \cup {h}
      BY <2>1 DEF Put
    <3> HIDE DEF n
    <3>4. \A i \in 1..(n + 1) : i = 1 \/ (i - 1 \in 1..n /\ lru'[i] = KeptLru[i - 1])
      BY <3>1, <3>2
    <3>5. \A i \in 1..n : KeptLru[i] \in DOMAIN KeptHosts
      BY <3>1 DEF Lists, n
    <3>6. \A i, j \in 1..n : i # j => KeptLru[i] # KeptLru[j]
      BY <3>1 DEF Lists, n
    <3>7. \A i \in 1..(n + 1) : lru'[i] \in DOMAIN hostToIp'
      BY <3>1, <3>2, <3>3, <3>4, <3>5
    <3>8. \A g \in DOMAIN hostToIp' : \E i \in 1..(n + 1) : lru'[i] = g
      <4> TAKE g \in DOMAIN hostToIp'
      <4>1. CASE g = h
        BY <3>1, <3>2, <4>1
      <4>2. CASE g \in DOMAIN KeptHosts
        <5>1. PICK i \in 1..n : KeptLru[i] = g
          BY <3>1, <4>2 DEF Lists, n
        <5>2. i + 1 \in 1..(n + 1) /\ lru'[i + 1] = g
          BY <3>1, <3>2, <5>1
        <5> QED
          BY <5>2
      <4> QED
        BY <3>3, <4>1, <4>2
    <3>9. \A i, j \in 1..(n + 1) : i # j => lru'[i] # lru'[j]
      <4> TAKE i, j \in 1..(n + 1)
      <4>1. CASE i = 1 \/ j = 1
        BY <2>4, <3>1, <3>2, <3>4, <3>5, <4>1
      <4>2. CASE i # 1 /\ j # 1
        <5>1. i - 1 \in 1..n /\ j - 1 \in 1..n /\ lru'[i] = KeptLru[i - 1] /\ lru'[j] = KeptLru[j - 1]
          BY <3>4, <4>2
        <5>2. i # j => i - 1 # j - 1
          BY <3>1
        <5> QED
          BY <3>6, <5>1, <5>2
      <4> QED
        BY <4>1, <4>2
    <3>10. Len(lru') <= Max
      BY <3>1, <3>2
    <3> QED
      BY <3>2, <3>7, <3>8, <3>9, <3>10 DEF Lists
  <2>8. PoolExact'
    <3>1. {lru'[i] : i \in 1..Len(lru')} = DOMAIN hostToIp'
      BY <2>7 DEF Lists
    <3> QED
      BY <2>6, <2>7, <3>1 DEF PoolExact, Inverses, Lists
  <2> QED
    BY <2>5, <2>8 DEF PoolInv
<1>5. ASSUME NEW h \in Hosts, NEW U \in SUBSET Ips, HostExhausted(h, U) PROVE PoolInv'
  <2>1. /\ hostToIp' = KeptHosts /\ ipToHost' = KeptIps /\ lru' = KeptLru
        /\ next' = NextAfter(Loops) /\ given' = First
    BY <1>5 DEF HostExhausted
  <2>2. next' \in Ips /\ given' \in Ips
    BY <2>1, PoolAssumption DEF NextAfter, Ips, NumIps, PoolInv, PoolTypeOK
  <2>3. PoolTypeOK'
    BY <2>1, <2>2, EvictMakesRoom DEF PoolInv, PoolTypeOK
  <2>4. PoolExact'
    <3>1. Lists(lru', hostToIp') /\ Inverses(hostToIp', ipToHost') /\ Len(lru') <= Max
      BY <2>1, EvictMakesRoom, PoolAssumption
    <3>2. {lru'[i] : i \in 1..Len(lru')} = DOMAIN hostToIp'
      BY <3>1 DEF Lists
    <3> QED
      BY <3>1, <3>2 DEF PoolExact, Inverses, Lists
  <2> QED
    BY <2>3, <2>4 DEF PoolInv
<1>6. CASE UNCHANGED pool
  BY <1>6 DEF pool, PoolInv, PoolTypeOK, PoolExact
<1> QED
  BY <1>2, <1>3, <1>4, <1>5, <1>6 DEF LookupAvoiding

-------------------------------------------------------------------------------
(* The stack (stack.rs).                                                       *)

Connection ==
  [at : {"closed", "resolved", "syn", "accepted", "relay"},
   host : Hosts \cup {NoHost}, ip : Ips \cup {0}, port : Ports \cup {NoPort},
   dest : Dests \cup {0}, served : Hosts \cup {NoHost}, true : BOOLEAN]

ConnTypeOK == conn \in [Sources -> Connection]

\* A client that does anything has an address.
HasAddress == \A s \in Sources : conn[s].at # "closed" => conn[s].ip \in Ips

\* The two locks are taken one after the other, and in between the entries may
\* change.  What holds across it, while a connection has its session: the session
\* still goes to the client's address, the address leads to the client's host or
\* to none, and what the accept side has read so far is of that address.
Tracks ==
  \A s \in Sources :
    conn[s].true =>
      /\ conn[s].at \in {"syn", "accepted", "relay"}
      /\ s \in DOMAIN addrMap /\ addrMap[s] = conn[s].port
      /\ portMap[conn[s].port].destination = conn[s].ip
      /\ conn[s].ip \in DOMAIN ipToHost => ipToHost[conn[s].ip] = conn[s].host
      /\ conn[s].at = "accepted" => conn[s].dest = conn[s].ip
      /\ conn[s].at = "relay" => conn[s].served = conn[s].host

StackInv == TypeOK /\ MapsInverse /\ PoolInv /\ ConnTypeOK /\ HasAddress /\ Tracks

\* A lookup gives the source a port that goes to its destination and leaves the
\* other sources' sessions alone (nat.rs:36-84).
LEMMA LookupEffect ==
  ASSUME TypeOK, MapsInverse, NEW s \in Sources, NEW d \in Dests, Lookup(s, d)
  PROVE  /\ ret' \in Ports
         /\ s \in DOMAIN addrMap' /\ addrMap'[s] = ret'
         /\ portMap'[ret'].destination = d
         /\ s \in DOMAIN addrMap => ret' = addrMap[s]
         /\ \A t \in DOMAIN addrMap :
              t # s => /\ t \in DOMAIN addrMap' /\ addrMap'[t] = addrMap[t]
                       /\ portMap'[addrMap[t]].destination = portMap[addrMap[t]].destination
<1> USE DEF TypeOK, MapsInverse, TcpSession, Fresh, InUse
<1>1. CASE LookupKnown(s, d)
  BY <1>1 DEF LookupKnown
<1>2. CASE LookupNew(s, d)
  <2>1. PICK k \in 0..(Tries - 1) :
          /\ s \notin DOMAIN addrMap
          /\ ~InUse(Probe(k))
          /\ addrMap' = [t \in DOMAIN addrMap \cup {s} |->
                           IF t = s THEN Probe(k) ELSE addrMap[t]]
          /\ portMap' = [p \in DOMAIN portMap \cup {Probe(k)} |->
                           IF p = Probe(k) THEN Fresh(s, d) ELSE portMap[p]]
          /\ ret' = Probe(k)
    BY <1>2 DEF LookupNew
  <2>2. Probe(k) \in Ports
    BY ProbeInRange
  <2> QED
    BY <2>1, <2>2
<1> QED
  BY <1>1, <1>2 DEF Lookup

\* An address the callback reports in use is not given to another host: it leads
\* where it did, or nowhere (dns.rs:49-74).
LEMMA InUseKept ==
  ASSUME PoolInv, NEW h \in Hosts, NEW U \in SUBSET Ips, LookupAvoiding(h, U), NEW ip \in U
  PROVE  ip \in DOMAIN ipToHost' => ip \in DOMAIN ipToHost /\ ipToHost'[ip] = ipToHost[ip]
<1>1. CASE HostKnown(h)
  BY <1>1 DEF HostKnown
<1>2. CASE HostNew(h, U)
  <2>1. PICK k \in 0..(Loops - 1) :
          /\ Free(Candidate(k), U)
          /\ ipToHost' = Put(KeptIps, Candidate(k), h)
    BY <1>2 DEF HostNew
  <2>2. ip # Candidate(k)
    BY <2>1 DEF Free
  <2> QED
    BY <2>1, <2>2, EvictMakesRoom DEF Put
<1>3. CASE HostExhausted(h, U)
  BY <1>3, EvictMakesRoom DEF HostExhausted
<1> QED
  BY <1>1, <1>2, <1>3 DEF LookupAvoiding

\* Every step of the stack is a step of the NAT table or leaves it alone.
LEMMA StackStepsNat ==
  ASSUME StackInv, [StackNext]_stack
  PROVE  [Next]_vars
<1> USE DEF StackInv, ConnTypeOK, HasAddress, vars
<1>1. ASSUME NEW s \in Sources, conn[s].at # "closed", Lookup(s, conn[s].ip) PROVE Next
  BY <1>1, StackAssumption DEF Lookup, Next
<1>2. ASSUME NEW s \in Sources, NEW h \in Hosts, HandleDns(s, h) PROVE UNCHANGED vars
  BY <1>2 DEF HandleDns
<1>3. ASSUME NEW s \in Sources, Syn(s) \/ Segment(s) PROVE Next
  BY <1>1, <1>3 DEF Syn, Segment
<1>4. ASSUME NEW s \in Sources, Dropped(s) PROVE Next
  BY <1>4 DEF Dropped, Next
<1>5. ASSUME NEW s \in Sources, Reply(s) \/ AcceptBack(s) PROVE Next \/ UNCHANGED vars
  <2>1. ASSUME LookupBack(conn[s].port) PROVE conn[s].port \in Ports
    BY <2>1 DEF LookupBack, InUse, TypeOK
  <2> QED
    BY <1>5, <2>1 DEF Reply, AcceptBack, Next
<1>6. ASSUME NEW s \in Sources, AcceptHost(s) \/ Close(s) PROVE UNCHANGED vars
  BY <1>6 DEF AcceptHost, Close
<1>7. ASSUME NEW p \in Ports, Idle(p) PROVE Next
  BY <1>7 DEF Idle, Next
<1>8. ASSUME SweepSessions PROVE Next
  BY <1>8 DEF SweepSessions, Next
<1>9. CASE UNCHANGED stack
  BY <1>9 DEF stack
<1> QED
  BY <1>2, <1>3, <1>4, <1>5, <1>6, <1>7, <1>8, <1>9 DEF StackNext

\* Every step of the stack is a call of the pool or leaves it alone.
LEMMA StackStepsPool ==
  ASSUME StackInv, [StackNext]_stack
  PROVE  \/ \E h \in Hosts, U \in SUBSET Ips : LookupAvoiding(h, U)
         \/ \E ip \in Ips : Lookback(ip)
         \/ UNCHANGED pool
<1>1. ASSUME NEW s \in Sources, NEW h \in Hosts, HandleDns(s, h)
      PROVE  \E U \in SUBSET Ips : LookupAvoiding(h, U)
  BY <1>1 DEF HandleDns
<1>2. ASSUME NEW s \in Sources, AcceptHost(s)
      PROVE  (\E ip \in Ips : Lookback(ip)) \/ UNCHANGED pool
  BY <1>2 DEF AcceptHost, StackInv, PoolInv, PoolTypeOK
<1>3. ASSUME NEW s \in Sources,
             Syn(s) \/ Dropped(s) \/ Segment(s) \/ Reply(s) \/ AcceptBack(s) \/ Close(s)
      PROVE  UNCHANGED pool
  BY <1>3 DEF Syn, Dropped, Segment, Reply, AcceptBack, Close
<1>4. ASSUME (\E p \in Ports : Idle(p)) \/ SweepSessions PROVE UNCHANGED pool
  BY <1>4 DEF Idle, SweepSessions
<1>5. CASE UNCHANGED stack
  BY <1>5 DEF stack, pool
<1> QED
  BY <1>1, <1>2, <1>3, <1>4, <1>5 DEF StackNext

\* A closed connection claims nothing.
LEMMA ClosedType ==
  /\ Closed \in Connection
  /\ Closed.at = "closed" /\ ~Closed.true
  BY DEF Closed, Connection

\* What the actions do to a connection record.
LEMMA ConnUpdates ==
  ASSUME NEW c \in Connection
  PROVE  /\ \A p \in Ports, b \in BOOLEAN : [c EXCEPT !.at = "syn", !.port = p, !.true = b] \in Connection
         /\ \A d \in Dests : [c EXCEPT !.at = "accepted", !.dest = d] \in Connection
         /\ \A g \in Hosts : [c EXCEPT !.at = "relay", !.served = g] \in Connection
         /\ \A b \in BOOLEAN : [c EXCEPT !.true = b] \in Connection
  BY DEF Connection

\* No step loses track of a connection: neither an eviction or a new host between
\* SYN, accept and relay, nor another client's lookup, nor the sweeper.
LEMMA TracksStep ==
  ASSUME StackInv, StackNext
  PROVE  (ConnTypeOK /\ HasAddress /\ Tracks)'
<1> USE StackAssumption DEF ConnTypeOK, HasAddress, Connection
<1>0. TypeOK /\ MapsInverse /\ PoolInv /\ PoolTypeOK /\ ConnTypeOK /\ HasAddress /\ Tracks
  BY DEF StackInv, PoolInv
<1>1. ASSUME NEW s \in Sources, NEW h \in Hosts, HandleDns(s, h)
      PROVE  (ConnTypeOK /\ HasAddress /\ Tracks)'
  <2> DEFINE U == {ip \in Ips : HasDestination({ip})}
  <2>1. /\ LookupAvoiding(h, U) /\ UNCHANGED vars
        /\ conn' = [conn EXCEPT ![s] = [Closed EXCEPT !.at = "resolved", !.host = h, !.ip = given']]
    BY <1>1 DEF HandleDns
  <2>2. given' \in Ips
    BY <1>0, <2>1, PoolStep DEF PoolInv, PoolTypeOK
  <2>3. ConnTypeOK' /\ HasAddress' /\ ~conn'[s].true
    BY <1>0, <2>1, <2>2, ClosedType DEF Closed
  <2>4. ASSUME NEW t \in Sources, t # s, conn[t].true
        PROVE  conn[t].ip \in DOMAIN ipToHost' => ipToHost'[conn[t].ip] = conn[t].host
    <3>1. /\ conn[t].ip \in Ips /\ addrMap[t] \in DOMAIN portMap
          /\ portMap[addrMap[t]].destination = conn[t].ip
      BY <1>0, <2>4 DEF Tracks, MapsInverse, InUse
    <3>2. conn[t].ip \in U
      BY <3>1 DEF HasDestination
    <3> HIDE DEF U
    <3>3. U \in SUBSET Ips
      BY DEF U
    <3> QED
      BY <1>0, <2>1, <2>4, <3>2, <3>3, InUseKept DEF Tracks
  <2>5. \A t \in Sources : t # s => conn'[t] = conn[t]
    BY <1>0, <2>1
  <2> QED
    BY <1>0, <2>1, <2>3, <2>4, <2>5 DEF Tracks, vars
<1>2. ASSUME NEW s \in Sources, Syn(s)
      PROVE  (ConnTypeOK /\ HasAddress /\ Tracks)'
  <2>1. conn[s].ip \in Ips /\ Lookup(s, conn[s].ip) /\ UNCHANGED pool
    BY <1>0, <1>2 DEF Syn
  <2>2. /\ ret' \in Ports
        /\ s \in DOMAIN addrMap' /\ addrMap'[s] = ret' /\ portMap'[ret'].destination = conn[s].ip
        /\ \A t \in DOMAIN addrMap :
             t # s => /\ t \in DOMAIN addrMap' /\ addrMap'[t] = addrMap[t]
                      /\ portMap'[addrMap[t]].destination = portMap[addrMap[t]].destination
    BY <1>0, <2>1, LookupEffect
  <2> DEFINE tr == HostAt(conn[s].ip) = conn[s].host
  <2>3. /\ conn' \in [Sources -> {conn'[t] : t \in Sources}]
        /\ conn'[s] = [conn[s] EXCEPT !.at = "syn", !.port = ret', !.true = tr]
        /\ \A t \in Sources : t # s => conn'[t] \in {conn[t], Closed}
    BY <1>2 DEF Syn
  <2>4. tr \in BOOLEAN /\ (tr /\ conn[s].ip \in DOMAIN ipToHost => ipToHost[conn[s].ip] = conn[s].host)
    BY DEF HostAt
  <2> HIDE DEF tr
  <2>5. /\ conn'[s].at = "syn" /\ conn'[s].ip = conn[s].ip /\ conn'[s].host = conn[s].host
        /\ conn'[s].port = ret' /\ conn'[s].true = tr
    BY <1>0, <2>3
  <2>6. ConnTypeOK' /\ HasAddress'
    <3>1. \A t \in Sources : conn'[t] \in Connection
      <4> HIDE DEF Connection
      <4>0. conn[s] \in Connection
        BY <1>0
      <4>1. conn'[s] \in Connection
        <5>1. \A p \in Ports, b \in BOOLEAN :
                [conn[s] EXCEPT !.at = "syn", !.port = p, !.true = b] \in Connection
          BY <4>0, ConnUpdates
        <5>2. ret' \in Ports /\ tr \in BOOLEAN
          BY <2>2, <2>4
        <5>3. [conn[s] EXCEPT !.at = "syn", !.port = ret', !.true = tr] \in Connection
          BY <5>1, <5>2
        <5> QED
          BY <2>3, <5>3
      <4> QED
        BY <1>0, <2>3, <4>1, ClosedType
    <3>2. \A t \in Sources : t # s => (conn'[t].at # "closed" => conn'[t].ip \in Ips)
      BY <1>0, <2>3, ClosedType
    <3>3. HasAddress'
      BY <2>1, <2>5, <3>2
    <3> QED
      BY <2>3, <3>1, <3>3
  <2>7. ASSUME NEW t \in Sources, t # s, conn'[t].true
        PROVE  conn'[t] = conn[t]
    BY <2>3, <2>7, ClosedType
  <2> QED
    BY <1>0, <2>1, <2>2, <2>4, <2>5, <2>6, <2>7 DEF Tracks, pool
<1>3. ASSUME NEW s \in Sources, Segment(s)
      PROVE  (ConnTypeOK /\ HasAddress /\ Tracks)'
  <2>1. conn[s].ip \in Ips /\ Lookup(s, conn[s].ip) /\ UNCHANGED pool
    BY <1>0, <1>3 DEF Segment
  <2>2. /\ ret' \in Ports
        /\ s \in DOMAIN addrMap' /\ addrMap'[s] = ret' /\ portMap'[ret'].destination = conn[s].ip
        /\ s \in DOMAIN addrMap => ret' = addrMap[s]
        /\ \A t \in DOMAIN addrMap :
             t # s => /\ t \in DOMAIN addrMap' /\ addrMap'[t] = addrMap[t]
                      /\ portMap'[addrMap[t]].destination = portMap[addrMap[t]].destination
    BY <1>0, <2>1, LookupEffect
  <2>3. conn' = conn \/ conn' = [conn EXCEPT ![s] = Closed]
    BY <1>3 DEF Segment
  <2>4. ConnTypeOK' /\ HasAddress'
    BY <1>0, <2>3, ClosedType
  <2>5. \A t \in Sources : conn'[t] = conn[t] \/ ~conn'[t].true
    BY <1>0, <2>3, ClosedType
  <2> QED
    BY <1>0, <2>1, <2>2, <2>4, <2>5 DEF Tracks, pool
<1>4. ASSUME NEW s \in Sources, Dropped(s)
      PROVE  (ConnTypeOK /\ HasAddress /\ Tracks)'
  BY <1>0, <1>4 DEF Dropped, LookupFull, Tracks, pool
<1>5. ASSUME NEW p \in Ports, LookupBack(p) \/ GoIdle(p)
      PROVE  /\ UNCHANGED addrMap /\ DOMAIN portMap' = DOMAIN portMap
             /\ \A q \in DOMAIN portMap : portMap'[q].destination = portMap[q].destination
  BY <1>0, <1>5 DEF LookupBack, GoIdle, TypeOK, TcpSession, Fresh
<1>6. ASSUME UNCHANGED <<pool, conn, addrMap>>,
             \A q \in DOMAIN portMap : portMap'[q].destination = portMap[q].destination
      PROVE  (ConnTypeOK /\ HasAddress /\ Tracks)'
  BY <1>0, <1>6 DEF Tracks, pool, MapsInverse, InUse
<1>7. ASSUME NEW s \in Sources, Reply(s)
      PROVE  (ConnTypeOK /\ HasAddress /\ Tracks)'
  BY <1>0, <1>5, <1>6, <1>7 DEF Reply
<1>8. ASSUME NEW s \in Sources, AcceptBack(s)
      PROVE  (ConnTypeOK /\ HasAddress /\ Tracks)'
  <2>1. CASE InUse(conn[s].port)
    <3> DEFINE d == portMap[conn[s].port].destination
    <3>1. /\ LookupBack(conn[s].port) /\ UNCHANGED pool /\ conn[s].at = "syn"
          /\ conn' = [conn EXCEPT ![s].at = "accepted", ![s].dest = d]
      BY <1>8, <2>1 DEF AcceptBack
    <3>2. d \in Dests /\ conn[s].port \in Ports
      BY <1>0, <2>1 DEF InUse, TypeOK, TcpSession
    <3>3. /\ UNCHANGED addrMap /\ DOMAIN portMap' = DOMAIN portMap
          /\ \A q \in DOMAIN portMap : portMap'[q].destination = portMap[q].destination
      BY <1>5, <3>1, <3>2
    <3> HIDE DEF d
    <3>4. ConnTypeOK'
      <4> HIDE DEF Connection
      <4>1. conn' = [conn EXCEPT ![s] = [conn[s] EXCEPT !.at = "accepted", !.dest = d]]
        BY <3>1
      <4>2. [conn[s] EXCEPT !.at = "accepted", !.dest = d] \in Connection
        BY <1>0, <3>2, ConnUpdates
      <4> QED
        BY <1>0, <4>1, <4>2
    <3>5. /\ \A t \in Sources : t # s => conn'[t] = conn[t]
          /\ conn'[s].at = "accepted" /\ conn'[s].dest = d /\ conn'[s].ip = conn[s].ip
          /\ conn'[s].port = conn[s].port /\ conn'[s].host = conn[s].host /\ conn'[s].true = conn[s].true
      BY <1>0, <3>1
    <3>6. conn[s].true => d = conn[s].ip
      BY <1>0 DEF Tracks, d
    <3>7. HasAddress'
      BY <1>0, <3>1, <3>5
    <3>8. Tracks'
      BY <1>0, <3>1, <3>3, <3>5, <3>6 DEF Tracks, pool, MapsInverse, InUse
    <3> QED
      BY <3>4, <3>7, <3>8
  <2>2. CASE ~InUse(conn[s].port)
    <3>1. UNCHANGED <<vars, pool>> /\ conn' = [conn EXCEPT ![s] = Closed]
      BY <1>8, <2>2 DEF AcceptBack
    <3> QED
      BY <1>0, <3>1, ClosedType DEF Tracks, vars, pool
  <2> QED
    BY <2>1, <2>2
<1>9. ASSUME NEW s \in Sources, AcceptHost(s)
      PROVE  (ConnTypeOK /\ HasAddress /\ Tracks)'
  <2>1. CASE conn[s].dest \in DOMAIN ipToHost
    <3> DEFINE g == ipToHost[conn[s].dest]
    <3>1. /\ UNCHANGED <<vars, ipToHost>> /\ conn[s].at = "accepted"
          /\ conn' = [conn EXCEPT ![s].at = "relay", ![s].served = g]
      BY <1>9, <2>1 DEF AcceptHost, Lookback
    <3>2. g \in Hosts
      BY <1>0, <2>1 DEF PoolTypeOK
    <3>3. conn[s].true => g = conn[s].host
      BY <1>0, <2>1, <3>1 DEF Tracks
    <3> HIDE DEF g
    <3>4. ConnTypeOK'
      <4> HIDE DEF Connection
      <4>1. conn' = [conn EXCEPT ![s] = [conn[s] EXCEPT !.at = "relay", !.served = g]]
        BY <3>1
      <4>2. [conn[s] EXCEPT !.at = "relay", !.served = g] \in Connection
        BY <1>0, <3>2, ConnUpdates
      <4> QED
        BY <1>0, <4>1, <4>2
    <3>5. /\ \A t \in Sources : t # s => conn'[t] = conn[t]
          /\ conn'[s].at = "relay" /\ conn'[s].served = g /\ conn'[s].ip = conn[s].ip
          /\ conn'[s].port = conn[s].port /\ conn'[s].host = conn[s].host /\ conn'[s].true = conn[s].true
      BY <1>0, <3>1
    <3>6. HasAddress'
      BY <1>0, <3>1, <3>5
    <3>7. Tracks'
      BY <1>0, <3>1, <3>3, <3>5 DEF Tracks, vars
    <3> QED
      BY <3>4, <3>6, <3>7
  <2>2. CASE conn[s].dest \notin DOMAIN ipToHost
    <3>1. UNCHANGED <<vars, pool>> /\ conn' = [conn EXCEPT ![s] = Closed]
      BY <1>9, <2>2 DEF AcceptHost
    <3> QED
      BY <1>0, <3>1, ClosedType DEF Tracks, vars, pool
  <2> QED
    BY <2>1, <2>2
<1>10. ASSUME NEW s \in Sources, Close(s)
       PROVE  (ConnTypeOK /\ HasAddress /\ Tracks)'
  BY <1>0, <1>10, ClosedType DEF Close, Tracks, vars, pool
<1>11. ASSUME NEW p \in Ports, Idle(p)
       PROVE  (ConnTypeOK /\ HasAddress /\ Tracks)'
  BY <1>5, <1>6, <1>11 DEF Idle
<1>12. ASSUME SweepSessions
       PROVE  (ConnTypeOK /\ HasAddress /\ Tracks)'
  <2>1. /\ UNCHANGED pool
        /\ conn' = [s \in Sources |-> [conn[s] EXCEPT !.true = @ /\ s \in DOMAIN addrMap']]
    BY <1>12 DEF SweepSessions
  <2>2. ASSUME NEW s \in Sources, NEW b \in BOOLEAN, conn'[s] = [conn[s] EXCEPT !.true = b]
        PROVE  /\ conn'[s] \in
                    Connection
               /\ conn'[s].at = conn[s].at /\ conn'[s].dest = conn[s].dest /\ conn'[s].ip = conn[s].ip
               /\ conn'[s].port = conn[s].port /\ conn'[s].host = conn[s].host
               /\ conn'[s].served = conn[s].served /\ conn'[s].true = b
    BY <1>0, <2>2
  <2>3. \A s \in DOMAIN addrMap' :
          /\ s \in DOMAIN addrMap /\ addrMap'[s] = addrMap[s]
          /\ portMap'[addrMap[s]] = portMap[addrMap[s]]
    BY <1>0, <1>12 DEF SweepSessions, Sweep, MapsInverse, InUse
  <2>4. ASSUME NEW s \in Sources PROVE conn'[s].true => conn[s].true /\ s \in DOMAIN addrMap'
    <3>1. conn'[s] = [conn[s] EXCEPT !.true = conn[s].true /\ s \in DOMAIN addrMap']
      BY <2>1
    <3> QED
      BY <2>2, <3>1
  <2>5. ASSUME NEW s \in Sources
        PROVE  /\ conn'[s] \in Connection
               /\ conn'[s].at = conn[s].at /\ conn'[s].dest = conn[s].dest /\ conn'[s].ip = conn[s].ip
               /\ conn'[s].port = conn[s].port /\ conn'[s].host = conn[s].host
               /\ conn'[s].served = conn[s].served
    <3> DEFINE b == conn[s].true /\ s \in DOMAIN addrMap'
    <3>1. b \in BOOLEAN /\ conn'[s] = [conn[s] EXCEPT !.true = b]
      BY <2>1
    <3> HIDE DEF b, Connection
    <3> QED
      BY <2>2, <3>1
  <2>6. ConnTypeOK' /\ HasAddress'
    <3> HIDE DEF Connection
    <3>1. ConnTypeOK'
      BY <2>1, <2>5
    <3>2. HasAddress'
      BY <1>0, <2>5
    <3> QED
      BY <3>1, <3>2
  <2>7. Tracks'
    <3> HIDE DEF Connection
    <3> QED
      BY <1>0, <2>1, <2>3, <2>4, <2>5 DEF Tracks, pool
  <2> QED
    BY <2>6, <2>7
<1> QED
  BY <1>1, <1>2, <1>3, <1>4, <1>7, <1>8, <1>9, <1>10, <1>11, <1>12 DEF StackNext

LEMMA StackStart == StackInit => StackInv
<1> SUFFICES ASSUME StackInit PROVE StackInv
  OBVIOUS
<1>1. TypeOK /\ MapsInverse
  BY NatAssumption DEF StackInit, Init, TypeOK, MapsInverse, Ports, NoPort, TcpSession, InUse
<1>2. PoolInv
  BY PoolAssumption DEF StackInit, PoolInit, PoolInv, PoolTypeOK, PoolExact, Ips
<1>3. \A s \in Sources : conn[s] = Closed
  BY DEF StackInit
<1>4. ConnTypeOK /\ HasAddress /\ Tracks
  BY <1>3, ClosedType DEF StackInit, ConnTypeOK, HasAddress, Tracks
<1> QED
  BY <1>1, <1>2, <1>4 DEF StackInv

\* One step of the packet loop, the accept side, the sweeper or time.
LEMMA StackStep ==
  ASSUME StackInv, [StackNext]_stack
  PROVE  StackInv'
<1>1. TypeOK' /\ MapsInverse'
  BY StackStepsNat, TypeStep, InverseStep DEF StackInv
<1>2. PoolInv'
  BY StackStepsPool, PoolStep DEF StackInv
<1>3. CASE StackNext
  BY <1>1, <1>2, <1>3, TracksStep DEF StackInv
<1>4. CASE UNCHANGED stack
  BY <1>1, <1>2, <1>4 DEF StackInv, stack, ConnTypeOK, HasAddress, Tracks
<1> QED
  BY <1>3, <1>4

\* The inductive invariant of the stack holds.
THEOREM StackInvariant == StackSpec => []StackInv
  BY StackStart, StackStep, PTL DEF StackSpec

\* The NAT table inside the stack does what the table promises on its own: the
\* packet loop, the accept side and the sweeper make no change to it that is not
\* one of its methods (stack.rs, nat.rs:24-112).
THEOREM StackImplementsNat == StackSpec => Spec
<1>1. StackInit => Init
  BY DEF StackInit
<1> QED
  BY <1>1, StackInvariant, StackStepsNat, PTL DEF StackSpec, Spec

\* So in the stack, too, a port leads back to the client it was given to, a flow
\* keeps its port, and None means that no port is left.
THEOREM StackTable == StackSpec => []MapsInverse /\ PortsStable /\ NoneOnlyWhenFull
  BY StackImplementsNat, NatBijection, NatPortsStable, NatNoneOnlyWhenFull, PTL

\* The fake-IP pool stays exact however queries, accepts and evictions interleave:
\* evict always finds a host and makes room, no address leads to two hosts and no
\* reserved address is given out (dns.rs:49-102).
THEOREM StackPoolExact == StackSpec => []PoolExact
<1>1. StackInv => PoolExact
  BY DEF StackInv, PoolInv
<1> QED
  BY <1>1, StackInvariant, PTL

\* A connection whose address led to its host when its SYN went through is relayed
\* to that host, though the destination and the host are read under different locks
\* and later (stack.rs:317).
THEOREM StackRightHost == StackSpec => []RightHost
<1>1. StackInv => RightHost
  BY DEF StackInv, Tracks, RightHost
<1> QED
  BY <1>1, StackInvariant, PTL

\* While it has its session its address is not given to another host (dns.rs:72).
THEOREM StackAddressKept == StackSpec => []AddressKept
<1>1. StackInv => AddressKept
  BY DEF StackInv, Tracks, AddressKept, HostAt
<1> QED
  BY <1>1, StackInvariant, PTL

===============================================================================
