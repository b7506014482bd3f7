------------------------------ MODULE Resolver ------------------------------
(***************************************************************************)
(* The client's DNS resolver (common/dns: resolver.go, dns_upstream.go)    *)
(* over its cache (common/cache).  Callers that miss the cache share one   *)
(* upstream query per name: the first one asks, under its own context, and *)
(* the others wait for its answer or for their own context to end.  The    *)
(* upstream may be replaced at any time, which clears the cache.           *)
(***************************************************************************)
EXTENDS Naturals, FiniteSets

CONSTANTS
  Callers, Names,   \* goroutines that resolve, and domain names
  Bypassed,         \* names BypassFunc sends to the system's resolver
  Kinds,            \* upstreams: "doh", "dot", "doq", "tcp", "udp", "system"
  MaxCalls, MaxSwitches

None == [name |-> "none", via |-> "none"]
Failed == [name |-> "none", via |-> "failed"]

VARIABLES
  cache,      \* answer kept for a name, or None
  inflight,   \* name -> the caller that asks for it, or "none"
  upstream, switches,
  rpc, name, asked,  \* a caller: where it is, its name, the upstream it read
  leader,            \* whose pending it waits on
  answer,            \* its own answer; for one that asks, p.ips and p.err
  done,              \* its pending is closed
  expired,           \* its context is over
  calls

rsVars == <<cache, inflight, upstream, switches, rpc, name, asked, leader, answer, done, expired, calls>>

Init ==
  /\ cache = [n \in Names |-> None] /\ inflight = [n \in Names |-> "none"]
  /\ upstream \in Kinds /\ switches = 0
  /\ rpc = [c \in Callers |-> "idle"] /\ name = [c \in Callers |-> "none"]
  /\ asked = name /\ leader = name
  /\ answer = [c \in Callers |-> None]
  /\ done = [c \in Callers |-> FALSE] /\ expired = done
  /\ calls = 0

At(c, l) == rpc' = [rpc EXCEPT ![c] = l]

-----------------------------------------------------------------------------
(* Resolve and ResolveUpstream.                                            *)

\* The system's resolver answers for a bypassed name, and nothing is kept.
Resolve(c, n) ==
  /\ rpc[c] = "idle" /\ calls < MaxCalls
  /\ calls' = calls + 1
  /\ name' = [name EXCEPT ![c] = n]
  /\ expired' = [expired EXCEPT ![c] = FALSE] /\ done' = [done EXCEPT ![c] = FALSE]
  /\ At(c, IF n \in Bypassed THEN "bypass" ELSE "look")
  /\ UNCHANGED <<cache, inflight, upstream, switches, asked, leader, answer>>

Bypass(c, ok) ==
  /\ rpc[c] = "bypass" /\ (ok => ~expired[c])
  /\ answer' = [answer EXCEPT ![c] = IF ok THEN [name |-> name[c], via |-> "system"] ELSE Failed]
  /\ At(c, "answered")
  /\ UNCHANGED <<cache, inflight, upstream, switches, name, asked, leader, done, expired, calls>>

Look(c) ==
  /\ rpc[c] = "look"
  /\ IF cache[name[c]] # None
       THEN answer' = [answer EXCEPT ![c] = cache[name[c]]] /\ At(c, "answered")
       ELSE At(c, "share") /\ UNCHANGED answer
  /\ UNCHANGED <<cache, inflight, upstream, switches, name, asked, leader, done, expired, calls>>

\* Mutant of Share: whoever misses asks.
Share_NotAtAll(c) ==
  /\ rpc[c] = "share"
  /\ inflight' = [inflight EXCEPT ![name[c]] = c] /\ At(c, "ask") /\ UNCHANGED leader
  /\ UNCHANGED <<cache, upstream, switches, name, asked, answer, done, expired, calls>>

\* resolveShared, under inflightMu.
Share(c) ==
  /\ rpc[c] = "share"
  /\ IF inflight[name[c]] # "none"
       THEN leader' = [leader EXCEPT ![c] = inflight[name[c]]] /\ At(c, "wait") /\ UNCHANGED inflight
       ELSE inflight' = [inflight EXCEPT ![name[c]] = c] /\ At(c, "ask") /\ UNCHANGED leader
  /\ UNCHANGED <<cache, upstream, switches, name, asked, answer, done, expired, calls>>

\* resolveUpstream reads the upstream, once.
Ask(c) ==
  /\ rpc[c] = "ask"
  /\ asked' = [asked EXCEPT ![c] = upstream]
  /\ At(c, "query")
  /\ UNCHANGED <<cache, inflight, upstream, switches, name, leader, answer, done, expired, calls>>

\* Addresses of both families are asked for; one answer is enough.
mergeDualStack(v4, v6) == v4 \/ v6

\* All kinds but DoH and the system's fall back to DoH.
FallsBack(kind) == kind \notin {"doh", "system"}

Query(c, ok) ==
  /\ rpc[c] = "query" /\ (ok => ~expired[c])
  /\ At(c, IF ~ok /\ FallsBack(asked[c]) THEN "fallback" ELSE "store")
  /\ answer' = [answer EXCEPT ![c] = IF ok THEN [name |-> name[c], via |-> asked[c]] ELSE Failed]
  /\ UNCHANGED <<cache, inflight, upstream, switches, name, asked, leader, done, expired, calls>>

\* A fallback that fails as well leaves the first error.
Fallback(c, ok) ==
  /\ rpc[c] = "fallback" /\ (ok => ~expired[c])
  /\ At(c, "store")
  /\ answer' = [answer EXCEPT ![c] = IF ok THEN [name |-> name[c], via |-> "doh"] ELSE Failed]
  /\ UNCHANGED <<cache, inflight, upstream, switches, name, asked, leader, done, expired, calls>>

\* The answer is kept, then the query is no longer in flight, then those
\* who wait are told.
Store(c) ==
  /\ rpc[c] = "store"
  /\ cache' = IF answer[c] = Failed THEN cache ELSE [cache EXCEPT ![name[c]] = answer[c]]
  /\ At(c, "remove")
  /\ UNCHANGED <<inflight, upstream, switches, name, asked, leader, answer, done, expired, calls>>

Remove(c) ==
  /\ rpc[c] = "remove"
  /\ inflight' = [inflight EXCEPT ![name[c]] = "none"]
  /\ At(c, "close")
  /\ UNCHANGED <<cache, upstream, switches, name, asked, leader, answer, done, expired, calls>>

CloseDone(c) ==
  /\ rpc[c] = "close"
  /\ done' = [done EXCEPT ![c] = TRUE]
  /\ At(c, "answered")
  /\ UNCHANGED <<cache, inflight, upstream, switches, name, asked, leader, answer, expired, calls>>

Told(c) ==
  /\ rpc[c] = "wait" /\ done[leader[c]]
  /\ answer' = [answer EXCEPT ![c] = answer[leader[c]]]
  /\ At(c, "answered")
  /\ UNCHANGED <<cache, inflight, upstream, switches, name, asked, leader, done, expired, calls>>

GivesUp(c) ==
  /\ rpc[c] = "wait" /\ expired[c]
  /\ answer' = [answer EXCEPT ![c] = Failed]
  /\ At(c, "answered")
  /\ UNCHANGED <<cache, inflight, upstream, switches, name, asked, leader, done, expired, calls>>

\* The caller has its answer; one that was asked for stays until all who
\* wait for it have read it (they hold its pending).
Return(c) ==
  /\ rpc[c] = "answered" /\ \A d \in Callers : ~(rpc[d] = "wait" /\ leader[d] = c)
  /\ rpc' = [rpc EXCEPT ![c] = "idle"]
  /\ answer' = [answer EXCEPT ![c] = None] /\ leader' = [leader EXCEPT ![c] = "none"]
  /\ name' = [name EXCEPT ![c] = "none"] /\ asked' = [asked EXCEPT ![c] = "none"]
  /\ done' = [done EXCEPT ![c] = FALSE] /\ expired' = [expired EXCEPT ![c] = FALSE]
  /\ UNCHANGED <<cache, inflight, upstream, switches, calls>>

-----------------------------------------------------------------------------
(* The environment.                                                        *)

Expire(c) ==
  /\ rpc[c] # "idle" /\ ~expired[c]
  /\ expired' = [expired EXCEPT ![c] = TRUE]
  /\ UNCHANGED <<cache, inflight, upstream, switches, rpc, name, asked, leader, answer, done, calls>>

\* The entry's time is up, or the LRU list is full.
Evict(n) ==
  /\ cache[n] # None /\ cache' = [cache EXCEPT ![n] = None]
  /\ UNCHANGED <<inflight, upstream, switches, rpc, name, asked, leader, answer, done, expired, calls>>

SetUpstream(u) ==
  /\ switches < MaxSwitches /\ switches' = switches + 1
  /\ upstream' = u /\ cache' = [n \in Names |-> None]
  /\ UNCHANGED <<inflight, rpc, name, asked, leader, answer, done, expired, calls>>

Next ==
  \/ \E c \in Callers :
       \/ \E n \in Names : Resolve(c, n)
       \/ \E v4, v6 \in BOOLEAN : Query(c, mergeDualStack(v4, v6)) \/ Fallback(c, mergeDualStack(v4, v6))
       \/ \E ok \in BOOLEAN : Bypass(c, ok)
       \/ Look(c) \/ Share(c) \/ Ask(c) \/ Store(c) \/ Remove(c) \/ CloseDone(c)
       \/ Told(c) \/ GivesUp(c) \/ Return(c) \/ Expire(c)
  \/ \E n \in Names : Evict(n)
  \/ \E u \in Kinds : SetUpstream(u)

Spec == Init /\ [][Next]_rsVars

-----------------------------------------------------------------------------
(* Properties.                                                             *)

Asking(n) == {c \in Callers : name[c] = n /\ rpc[c] \in {"ask", "query", "fallback", "store", "remove"}}

\* One query is under way for a name at a time, and it is the one later
\* callers find (resolveShared).
OneQuery == \A n \in Names : Asking(n) = {inflight[n]} \ {"none"}

\* Whoever waits, waits for a caller that asks for the same name and has its
\* closing still to come, or has closed with the answer that will be read.
NobodyWaitsInVain ==
  \A c \in Callers : rpc[c] = "wait" =>
    /\ name[leader[c]] = name[c]
    /\ done[leader[c]] \/ rpc[leader[c]] \in {"ask", "query", "fallback", "store", "remove", "close"}

\* What is kept, and what a caller is given, is an answer for its name, and
\* a bypassed name is never answered by the upstream nor kept.
AnswersFit ==
  /\ \A n \in Names : cache[n] \in {None} \cup [name : {n}, via : Kinds \cup {"doh"}]
  /\ \A n \in Names \cap Bypassed : cache[n] = None
  /\ \A c \in Callers : rpc[c] = "answered" => answer[c] = Failed \/ answer[c].name = name[c]
  /\ \A c \in Callers : rpc[c] = "answered" /\ name[c] \in Bypassed => answer[c].via \in {"system", "failed"}

\* The three together.
LookupsAreShared == OneQuery /\ NobodyWaitsInVain /\ AnswersFit
=============================================================================
