------------------------------ MODULE TunStack ------------------------------
(***************************************************************************)
(* The TUN stack (crates/clash-tun/src/stack.rs): the packet loop, which   *)
(* answers DNS queries from the fake-IP pool and translates TCP segments   *)
(* with the NAT table, and the accept side, which leads an accepted        *)
(* connection back to the host name it is meant for.  Pool and table have  *)
(* a lock each; what happens under one lock is one action.                 *)
(*                                                                         *)
(* A client socket (a source) has one connection at a time, and its DNS    *)
(* answer may be old when it connects.                                     *)
(***************************************************************************)
EXTENDS TcpNat, FakeIpPool

CONSTANT NoHost

\* Connections may go to every address the pool gives out.
ASSUME StackAssumption == Ips \subseteq Dests /\ NoHost \notin Hosts

VARIABLE
  conn   \* the connection of a source: [at, host, ip, port, dest, served, true]

stack == <<addrMap, portMap, portIndex, ret, hostToIp, ipToHost, lru, next, given, conn>>

\* at: "closed", "resolved" (the client has an address for host), "syn" (its SYN
\* went through the table), "accepted" (the destination was looked up), "relay".
\* true is a ghost: the address led to the host when the SYN went through, and
\* since then the session was not swept.
Closed == [at |-> "closed", host |-> NoHost, ip |-> 0, port |-> NoPort, dest |-> 0, served |-> NoHost, true |-> FALSE]

StackInit ==
  /\ Init /\ PoolInit
  /\ conn = [s \in Sources |-> Closed]

-----------------------------------------------------------------------------
\* handle_dns and handle_dns_tcp: addresses live sessions go to are not given
\* to a new host.
HandleDns(s, h) ==
  /\ conn[s].at = "closed"
  /\ LookupAvoiding(h, {ip \in Ips : HasDestination({ip})})
  /\ conn' = [conn EXCEPT ![s] = [Closed EXCEPT !.at = "resolved", !.host = h, !.ip = given']]
  /\ UNCHANGED vars

Lookup(s, d) == LookupKnown(s, d) \/ LookupNew(s, d)

HostAt(ip) == IF ip \in DOMAIN ipToHost THEN ipToHost[ip] ELSE NoHost

\* process_packet for the first segment of a connection.  A connection that still
\* has the port, having lost its session, is reset by it.
Syn(s) ==
  /\ conn[s].at = "resolved"
  /\ Lookup(s, conn[s].ip)
  /\ conn' = [t \in Sources |->
               CASE t = s -> [conn[s] EXCEPT !.at = "syn", !.port = ret', !.true = HostAt(conn[s].ip) = conn[s].host]
                 [] t # s /\ conn[t].port = ret' -> Closed
                 [] OTHER -> conn[t]]
  /\ UNCHANGED pool

\* No port is left: a segment of a source without a session is dropped.
Dropped(s) ==
  /\ conn[s].at # "closed"
  /\ LookupFull(s)
  /\ UNCHANGED <<pool, conn>>

\* A segment of a connection.  A session that was swept gets another port: the
\* listener does not know the connection and resets it.
Segment(s) ==
  /\ conn[s].at \in {"syn", "accepted", "relay"}
  /\ Lookup(s, conn[s].ip)
  /\ conn' = IF ret' = conn[s].port THEN conn ELSE [conn EXCEPT ![s] = Closed]
  /\ UNCHANGED pool

\* process_packet for a segment of the listener: back to the client.
Reply(s) ==
  /\ conn[s].at # "closed" /\ conn[s].port # NoPort
  /\ LookupBack(conn[s].port)
  /\ UNCHANGED <<pool, conn>>

-----------------------------------------------------------------------------
\* handle_accepted: first the destination of the session of the peer's port ...
AcceptBack(s) ==
  /\ conn[s].at = "syn"
  /\ IF InUse(conn[s].port)
     THEN /\ LookupBack(conn[s].port)
          /\ conn' = [conn EXCEPT ![s].at = "accepted", ![s].dest = portMap[conn[s].port].destination]
     ELSE /\ conn' = [conn EXCEPT ![s] = Closed]
          /\ UNCHANGED vars
  /\ UNCHANGED pool

\* ... then its host.  A fake address that leads nowhere is refused.
AcceptHost(s) ==
  /\ conn[s].at = "accepted"
  /\ IF conn[s].dest \in DOMAIN ipToHost
     THEN /\ Lookback(conn[s].dest)
          /\ conn' = [conn EXCEPT ![s].at = "relay", ![s].served = ipToHost[conn[s].dest]]
     ELSE /\ conn' = [conn EXCEPT ![s] = Closed]
          /\ UNCHANGED pool
  /\ UNCHANGED vars

\* The connection ends, or the client gives up its address.
Close(s) ==
  /\ conn[s].at # "closed"
  /\ conn' = [conn EXCEPT ![s] = Closed]
  /\ UNCHANGED <<vars, pool>>

\* Time passes for a session; a connection is accepted in less than 300 s.
Idle(p) ==
  /\ \A s \in Sources : conn[s].at \in {"syn", "accepted"} => conn[s].port # p
  /\ GoIdle(p)
  /\ UNCHANGED <<pool, conn>>

\* The sweeper, every 30 s.
SweepSessions ==
  /\ Sweep
  /\ conn' = [s \in Sources |-> [conn[s] EXCEPT !.true = @ /\ s \in DOMAIN addrMap']]
  /\ UNCHANGED pool

StackNext ==
  \/ \E s \in Sources, h \in Hosts : HandleDns(s, h)
  \/ \E s \in Sources :
       \/ Syn(s) \/ Dropped(s) \/ Segment(s) \/ Reply(s)
       \/ AcceptBack(s) \/ AcceptHost(s) \/ Close(s)
  \/ \E p \in Ports : Idle(p)
  \/ SweepSessions

StackSpec == StackInit /\ [][StackNext]_stack

-----------------------------------------------------------------------------
\* A connection is relayed to the host its client asked for: looked up only when
\* the connection is accepted, in two steps, the address still leads to the host
\* it led to when the SYN went through (stack.rs:317).  (A client whose address
\* had been taken away before the SYN is not covered, nor a late segment of the
\* source's previous connection, which would set the destination of the session,
\* nat.rs:50.)
RightHost == \A s \in Sources : conn[s].at = "relay" /\ conn[s].true => conn[s].served = conn[s].host

\* An address is not given to another host while a connection to it has its
\* session: evictions may take it from its host, and the next host may not get it
\* (dns.rs:72, has_destination).  (A connection that was quiet for 300 s has lost
\* its session, though its relay lives 600 s, nat.rs:104.)
AddressKept ==
  \A s \in Sources :
    conn[s].at = "relay" /\ conn[s].true => HostAt(conn[s].ip) \in {conn[s].host, NoHost}
=============================================================================
