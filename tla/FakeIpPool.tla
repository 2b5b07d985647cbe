----------------------------- MODULE FakeIpPool -----------------------------
(***************************************************************************)
(* The fake-IP pool of the TUN's DNS (crates/clash-core/src/dns.rs,        *)
(* FakeIpPool): every host name gets an address of 198.18.0.0/16, and the  *)
(* address of an intercepted connection leads back to its name.  The pool  *)
(* is behind one mutex, so every method is one action.                     *)
(*                                                                         *)
(* Addresses are their 16 low bits.  inUse is what the callback of         *)
(* lookup_avoiding answers: the addresses live NAT sessions go to.         *)
(***************************************************************************)
EXTENDS Naturals, Sequences, FiniteSets

CONSTANTS
  Hosts,   \* host names, after domain_to_ascii
  First,   \* FIRST, 4 in the code
  Last,    \* LAST, 0xFFFE in the code
  Max,     \* MAX, 8192 in the code: mapped hosts
  Loops,   \* 65530 in the code: iterations of the allocation loop
  Skipped  \* the addresses that end in .0 or .255

ASSUME PoolAssumption ==
  /\ First \in Nat /\ Last \in Nat /\ First <= Last
  /\ Max \in Nat \ {0}
  /\ Loops \in Nat \ {0} /\ Loops <= Last - First + 1
  /\ Skipped \subseteq First..Last

Ips    == First..Last
NumIps == Last - First + 1

VARIABLES
  hostToIp,  \* host_to_ip
  ipToHost,  \* ip_to_host
  lru,       \* lru, most recently used first
  next,      \* next
  given      \* the address the last lookup returned

pool == <<hostToIp, ipToHost, lru, next, given>>

-------------------------------------------------------------------------------
\* f with k mapped to v, and f without k (HashMap insert and remove).
Put(f, k, v)  == [x \in DOMAIN f \cup {k} |-> IF x = k THEN v ELSE f[x]]
Without(f, k) == [x \in DOMAIN f \ {k} |-> f[x]]

\* touch(host): the host is removed at its position and pushed to the front; a
\* host that is not in the LRU list is not put there.
Position(h) == CHOOSE i \in 1..Len(lru) : lru[i] = h /\ \A j \in 1..(i - 1) : lru[j] # h
ToFront(n)  == [j \in 1..Len(lru) |-> IF j = 1 THEN lru[n] ELSE IF j <= n THEN lru[j - 1] ELSE lru[j]]
Touch(h) ==
  lru' = IF \E i \in 1..Len(lru) : lru[i] = h THEN ToFront(Position(h)) ELSE lru

\* The address the loop looks at in iteration i, counted from 0, and `next`
\* after n iterations.
Candidate(i) ==
  LET p == next + i IN IF p > Last THEN p - NumIps ELSE p

NextAfter(n) ==
  LET p == next + n IN IF p > Last THEN p - NumIps ELSE p

\* evict(): forget the least recently used host, whether or not connections to
\* its address are alive.  Full says when lookup_avoiding calls it.
Full   == Cardinality(DOMAIN hostToIp) >= Max
Victim == lru[Len(lru)]
KeptHosts == IF Full THEN Without(hostToIp, Victim) ELSE hostToIp
KeptIps   == IF Full THEN Without(ipToHost, hostToIp[Victim]) ELSE ipToHost
KeptLru   == IF Full THEN SubSeq(lru, 1, Len(lru) - 1) ELSE lru

\* Mutant: only mapped addresses are avoided, not those of live connections.
FreeOfHosts(ip, inUse) == ip \notin Skipped /\ ip \notin DOMAIN KeptIps

Free(ip, inUse) == ip \notin Skipped /\ ip \notin DOMAIN KeptIps /\ ip \notin inUse

-------------------------------------------------------------------------------
PoolInit ==
  /\ hostToIp = [h \in {} |-> First]
  /\ ipToHost = [i \in {} |-> i]
  /\ lru = <<>>
  /\ next = First
  /\ given = First

\* lookup_avoiding of a host that has an address.
HostKnown(h) ==
  /\ h \in DOMAIN hostToIp
  /\ Touch(h)
  /\ given' = hostToIp[h]
  /\ UNCHANGED <<hostToIp, ipToHost, next>>

\* Mutant: an evicted host's address keeps leading to it.
HostNewKeepsIp(h, inUse) ==
  /\ h \notin DOMAIN hostToIp
  /\ \E k \in 0..(Loops - 1) :
       LET ip == Candidate(k)
       IN  /\ Free(ip, inUse) /\ \A j \in 0..(k - 1) : ~Free(Candidate(j), inUse)
           /\ hostToIp' = Put(KeptHosts, h, ip)
           /\ ipToHost' = Put(ipToHost, ip, h)
           /\ lru' = <<h>> \o KeptLru
           /\ next' = NextAfter(k + 1)
           /\ given' = ip

\* lookup_avoiding of a new host: evict when full, then the first address of the
\* loop that is neither skipped nor mapped nor in use.
HostNew(h, inUse) ==
  /\ h \notin DOMAIN hostToIp
  /\ \E k \in 0..(Loops - 1) :
       LET ip == Candidate(k)
       IN  /\ Free(ip, inUse) /\ \A j \in 0..(k - 1) : ~Free(Candidate(j), inUse)
           /\ hostToIp' = Put(KeptHosts, h, ip)
           /\ ipToHost' = Put(KeptIps, ip, h)
           /\ lru' = <<h>> \o KeptLru
           /\ next' = NextAfter(k + 1)
           /\ given' = ip

\* The loop met no free address: 198.18.0.4 is returned and nothing is mapped.
HostExhausted(h, inUse) ==
  /\ h \notin DOMAIN hostToIp
  /\ \A j \in 0..(Loops - 1) : ~Free(Candidate(j), inUse)
  /\ hostToIp' = KeptHosts /\ ipToHost' = KeptIps /\ lru' = KeptLru
  /\ next' = NextAfter(Loops)
  /\ given' = First

LookupAvoiding(h, inUse) ==
  HostKnown(h) \/ HostNew(h, inUse) \/ HostExhausted(h, inUse)

\* lookback of a mapped address; of another one it returns None and changes
\* nothing.
Lookback(ip) ==
  /\ ip \in DOMAIN ipToHost
  /\ Touch(ipToHost[ip])
  /\ UNCHANGED <<hostToIp, ipToHost, next, given>>

-------------------------------------------------------------------------------
\* Through evictions and an exhausted pool too, the two maps stay inverse (an
\* address leads back to the one host it was given to, and no reserved address is
\* given out), and the LRU list holds exactly the mapped hosts, each once and never
\* more than MAX, so that evict always finds a host and always makes room.
PoolExact ==
  /\ \A h \in DOMAIN hostToIp :
       hostToIp[h] \in DOMAIN ipToHost \ Skipped /\ ipToHost[hostToIp[h]] = h
  /\ \A i \in DOMAIN ipToHost :
       ipToHost[i] \in DOMAIN hostToIp /\ hostToIp[ipToHost[i]] = i
  /\ {lru[i] : i \in 1..Len(lru)} = DOMAIN hostToIp
  /\ \A i, j \in 1..Len(lru) : i # j => lru[i] # lru[j]
  /\ Len(lru) <= Max

===============================================================================
