----------------------------- MODULE DohResolver -----------------------------
(***************************************************************************)
(* The single-flight DNS resolver (crates/clash-core/src/dns.rs,           *)
(* DohResolver) over its TTL cache (utils.rs, TtlLru).                     *)
(*                                                                         *)
(* Callers are futures that run resolve(host).  The first to miss the      *)
(* cache leads: it asks the network, fills the cache, and hands its answer *)
(* to the callers that subscribed meanwhile.  Each access to the cache or  *)
(* to the inflight map is under a mutex and is one step.  A future may be  *)
(* dropped at its await points (select! with an abort token, the health    *)
(* check's 3 s timeout): a dropped leader leaves its entry in `inflight`.  *)
(*                                                                         *)
(* IP literals and empty names, which never reach the cache, are left out. *)
(* recv() fails only if the sender is dropped without sending, which no    *)
(* step does: the `continue` for it is left out too.                       *)
(***************************************************************************)
EXTENDS Naturals, FiniteSets

CONSTANTS
  Callers,        \* futures
  Hosts,          \* host names, after domain_to_ascii
  Answers,        \* non-empty address lists
  Negative,       \* a failed lookup, cached for 30 s
  Absent,         \* no cache entry, no answer, an empty channel
  NoOne,          \* no inflight entry
  NoHost          \* a future that has not called yet

ASSUME DohAssumption ==
  /\ Negative \notin Answers /\ Absent \notin Answers \cup {Negative}
  /\ NoOne \notin Callers /\ NoHost \notin Hosts

DohResults == Answers \cup {Negative}

VARIABLES
  cache,     \* TtlLru: host -> unexpired value
  inflight,  \* inflight: host -> the caller that inserted the sender
  stage, host, \* each caller's position in resolve, and its argument
  inbox,     \* what a waiter's broadcast receiver holds
  result,    \* a leader's `result`, and what resolve returned
  network    \* ghost: answers resolve_uncached has got for a host

dohVars == <<cache, inflight, stage, host, inbox, result, network>>

Leading == {"lead", "store", "publish"}
PCs     == {"idle", "check", "role", "wait", "done", "dropped"} \cup Leading

DohGoto(c, p) == stage' = [stage EXCEPT ![c] = p]

Return(c, r) == DohGoto(c, "done") /\ result' = [result EXCEPT ![c] = r]

-------------------------------------------------------------------------------
DohInit ==
  /\ cache = [h \in Hosts |-> Absent]
  /\ inflight = [h \in Hosts |-> NoOne]
  /\ stage = [c \in Callers |-> "idle"]
  /\ host = [c \in Callers |-> NoHost]
  /\ inbox = [c \in Callers |-> Absent]
  /\ result = [c \in Callers |-> Absent]
  /\ network = [h \in Hosts |-> {}]

\* resolve(h) is called.
Call(c, h) ==
  /\ stage[c] \in {"idle", "done"}
  /\ DohGoto(c, "check")
  /\ host' = [host EXCEPT ![c] = h]
  /\ inbox' = [inbox EXCEPT ![c] = Absent]
  /\ result' = [result EXCEPT ![c] = Absent]
  /\ UNCHANGED <<cache, inflight, network>>

\* The look at the cache at the top of the loop.
Check(c) ==
  /\ stage[c] = "check"
  /\ \/ cache[host[c]] # Absent /\ Return(c, cache[host[c]])
     \/ cache[host[c]] = Absent /\ DohGoto(c, "role") /\ UNCHANGED result
  /\ UNCHANGED <<cache, inflight, host, inbox, network>>

\* Mutant: a waiter registers without looking whether anybody leads.
RoleAlwaysLeads(c) ==
  /\ stage[c] = "role"
  /\ inflight' = [inflight EXCEPT ![host[c]] = c]
  /\ DohGoto(c, "lead")
  /\ UNCHANGED <<cache, host, inbox, result, network>>

\* Under the inflight mutex: the cache once more, then subscribe or lead.
Role(c) ==
  /\ stage[c] = "role"
  /\ \/ cache[host[c]] # Absent /\ Return(c, cache[host[c]]) /\ UNCHANGED inflight
     \/ /\ cache[host[c]] = Absent /\ inflight[host[c]] # NoOne
        /\ DohGoto(c, "wait") /\ UNCHANGED <<inflight, result>>
     \/ /\ cache[host[c]] = Absent /\ inflight[host[c]] = NoOne
        /\ inflight' = [inflight EXCEPT ![host[c]] = c]
        /\ DohGoto(c, "lead") /\ UNCHANGED result
  /\ UNCHANGED <<cache, host, inbox, network>>

\* resolve_uncached comes back: system resolver, the two UDP servers, the two
\* DoH servers; what it got, or Negative for an error or an empty answer.
Resolved(c) ==
  /\ stage[c] = "lead"
  /\ \E r \in DohResults :
       /\ result' = [result EXCEPT ![c] = r]
       /\ network' = [network EXCEPT ![host[c]] = @ \cup {r}]
  /\ DohGoto(c, "store")
  /\ UNCHANGED <<cache, inflight, host, inbox>>

\* cache.set, for 300 s or, negative, for 30 s.
Store(c) ==
  /\ stage[c] = "store"
  /\ cache' = [cache EXCEPT ![host[c]] = result[c]]
  /\ DohGoto(c, "publish")
  /\ UNCHANGED <<inflight, host, inbox, result, network>>

\* Mutant: the answer is sent before the entry is removed, and the entry stays.
PublishKeepsEntry(c) ==
  /\ stage[c] = "publish"
  /\ inbox' = [w \in Callers |->
       IF stage[w] = "wait" /\ host[w] = host[c] THEN result[c] ELSE inbox[w]]
  /\ DohGoto(c, "done")
  /\ UNCHANGED <<cache, inflight, host, result, network>>

\* Mutant: every waiter gets the answer, whatever host it waits for.
PublishToAll(c) ==
  /\ stage[c] = "publish"
  /\ inflight' = [inflight EXCEPT ![host[c]] = NoOne]
  /\ inbox' = [w \in Callers |-> IF stage[w] = "wait" THEN result[c] ELSE inbox[w]]
  /\ DohGoto(c, "done")
  /\ UNCHANGED <<cache, host, result, network>>

\* Under the inflight mutex: remove the entry and send to its subscribers.
Publish(c) ==
  /\ stage[c] = "publish"
  /\ inflight' = [inflight EXCEPT ![host[c]] = NoOne]
  /\ inbox' = [w \in Callers |->
       IF stage[w] = "wait" /\ host[w] = host[c] /\ inbox[w] = Absent
       THEN result[c] ELSE inbox[w]]
  /\ DohGoto(c, "done")
  /\ UNCHANGED <<cache, host, result, network>>

\* rx.recv() yields the leader's answer.
DohReceive(c) ==
  /\ stage[c] = "wait" /\ inbox[c] # Absent
  /\ Return(c, inbox[c])
  /\ UNCHANGED <<cache, inflight, host, inbox, network>>

\* The future is dropped at an await.
DohDrop(c) ==
  /\ stage[c] \in {"lead", "wait"}
  /\ DohGoto(c, "dropped")
  /\ UNCHANGED <<cache, inflight, host, inbox, result, network>>

\* An entry expires, or set() evicts it because the cache is over capacity.
Expire(h) ==
  /\ cache[h] # Absent
  /\ cache' = [cache EXCEPT ![h] = Absent]
  /\ UNCHANGED <<inflight, stage, host, inbox, result, network>>

DohStep(c) ==
  Check(c) \/ Role(c) \/ Resolved(c) \/ Store(c) \/ Publish(c) \/ DohReceive(c)

DohNext ==
  \/ \E c \in Callers : DohStep(c) \/ DohDrop(c) \/ \E h \in Hosts : Call(c, h)
  \/ \E h \in Hosts : Expire(h)

DohSpec == DohInit /\ [][DohNext]_dohVars

\* tokio polls every future that is ready, and every lookup of the network has a
\* timeout (800 ms, 900 ms, and those of lookup_a).
DohFairSpec == DohSpec /\ \A c \in Callers : WF_dohVars(DohStep(c))

-------------------------------------------------------------------------------
\* Types; a caller past its lookup has a result (dns.rs:204).
DohTypeOK ==
  /\ cache \in [Hosts -> DohResults \cup {Absent}]
  /\ inflight \in [Hosts -> Callers \cup {NoOne}]
  /\ stage \in [Callers -> PCs]
  /\ host \in [Callers -> Hosts \cup {NoHost}]
  /\ inbox \in [Callers -> DohResults \cup {Absent}]
  /\ result \in [Callers -> DohResults \cup {Absent}]
  /\ network \in [Hosts -> SUBSET DohResults]
  /\ \A c \in Callers : /\ stage[c] # "idle" => host[c] \in Hosts
                        /\ stage[c] \in {"store", "publish", "done"} => result[c] \in DohResults

\* Single flight: a caller that leads for a host is the one the inflight map
\* names, so no two lead for the same host (dns.rs:189).
SingleFlight ==
  \A c \in Callers : stage[c] \in Leading => inflight[host[c]] = c

\* Nobody waits for an answer that was already given: a waiter without one has a
\* leader for its host, unless that leader was dropped at its await.
WaiterHasLeader ==
  \A c \in Callers : stage[c] = "wait" /\ inbox[c] = Absent =>
    LET l == inflight[host[c]]
    IN  /\ l \in Callers /\ host[l] = host[c]
        /\ stage[l] \in Leading \cup {"dropped"}

\* Whatever way an answer took (network, cache, channel), it is one the network
\* gave for the host that was asked for.
AnswerForHost ==
  \A c \in Callers : stage[c] = "done" => result[c] \in network[host[c]]

\* The leader for c's host was dropped at its await; its entry stays in `inflight`.
Abandoned(c) ==
  \E l \in Callers : /\ stage[l] = "dropped"
                     /\ host[c] \in Hosts /\ inflight[host[c]] = l

\* A caller that asked is answered, if it is not dropped and the leader of its host
\* is not: however callers, leaders and expiry interleave, nobody waits for ever for
\* an answer that was already sent (dns.rs:217).
AnsweredOrAbandoned ==
  \A c \in Callers : []<>(stage[c] \in {"idle", "done", "dropped"} \/ Abandoned(c))

-------------------------------------------------------------------------------
\* resolve comes back: a caller that asked is answered, if it is not dropped.
Answered ==
  \A c \in Callers : stage[c] = "check" ~> stage[c] \in {"done", "dropped"}

===============================================================================
