------------------------------ MODULE IdleSet ------------------------------
(***************************************************************************)
(* The client's pool of parked connections: idleSet in                     *)
(* core/tunnel/keepalive.go, with the streams that take from it and give   *)
(* back to it (openStreamPerFlow and connectPerFlow in                     *)
(* core/tunnel/datapath.go, keepAliveStream.Close, Manager.Disconnect).    *)
(*                                                                         *)
(* While a connection is parked a watcher goroutine holds a blocking read  *)
(* on it.  take() pops a connection, interrupts that read with a deadline  *)
(* in the past and waits, for a bounded time, for the watcher's verdict.   *)
(*                                                                         *)
(* A thread is one goroutine at a time of the tunnel: it opens a stream,   *)
(* uses it, closes it, drains it and parks the connection; or it connects  *)
(* the tunnel and parks the probe.  Everything under s.mu is one step.     *)
(* Abstracted: the bytes of streams, all durations (a wait may expire at   *)
(* any time), and what makes a dial, a write or a drain fail.              *)
(***************************************************************************)
EXTENDS Integers, Sequences, FiniteSets, TLC

CONSTANTS
  Conns,    \* connections that can be dialled
  Threads,  \* goroutines that open streams or connect the tunnel
  Deaf,     \* those whose transport ignores read deadlines (grpc, yadisk)
  IdleMax,  \* idleMax
  NoConn

ASSUME IdleAssumption ==
  /\ IsFiniteSet(Conns)
  /\ Deaf \subseteq Conns
  /\ IdleMax \in Nat \ {0}
  /\ NoConn \notin Conns

VARIABLES
  conns,    \* s.conns
  closed,   \* s.closed
  filling,  \* s.filling
  loop,     \* the filler goroutine
  filled,   \* parked connections that were sent filler since they were parked
  sock,     \* each connection: not dialled, open, or closed by this side
  ended,    \* connections the server has closed
  past,     \* connections whose read deadline lies in the past
  watch,    \* each connection's watcher goroutine
  alive,    \* each parked connection's alive channel, of capacity one
  doomed,   \* connections removed from the set by someone about to close them
  pc, mine  \* where each thread is, and the connection it holds

setVars  == <<conns, closed>>
fillVars == <<filling, loop, filled>>
netVars  == <<ended, past>>
vars == <<setVars, fillVars, netVars, sock, watch, alive, doomed, pc, mine>>

Parked == {conns[i] : i \in 1..Len(conns)}

\* slices.Index and slices.Delete: the first place that holds c goes.
Remove(s, c) ==
  IF \A i \in 1..Len(s) : s[i] # c THEN s
  ELSE LET i == CHOOSE j \in 1..Len(s) : s[j] = c /\ \A k \in 1..(j - 1) : s[k] # c
       IN  SubSeq(s, 1, i - 1) \o SubSeq(s, i + 1, Len(s))

Init ==
  /\ conns = <<>> /\ closed = FALSE
  /\ filling = FALSE /\ loop = "off" /\ filled = {}
  /\ sock = [c \in Conns |-> "none"]
  /\ ended = {} /\ past = {}
  /\ watch = [c \in Conns |-> "none"]
  /\ alive = [c \in Conns |-> "empty"]
  /\ doomed = {}
  /\ pc = [t \in Threads |-> "idle"]
  /\ mine = [t \in Threads |-> NoConn]

Goto(t, label) == pc' = [pc EXCEPT ![t] = label]

\* t closes the connection it holds and goes on to label.
CloseMine(t, label) ==
  /\ sock' = [sock EXCEPT ![mine[t]] = "closed"]
  /\ mine' = [mine EXCEPT ![t] = NoConn]
  /\ Goto(t, label)

-----------------------------------------------------------------------------
(* Opening a stream: take, or dial.                                        *)

\* take: pop the connection parked last, or find none and dial.
Take(t) ==
  /\ pc[t] \in {"idle", "take"}
  /\ IF conns = <<>>
       THEN /\ Goto(t, "dial")
            /\ UNCHANGED <<conns, mine>>
       ELSE /\ mine' = [mine EXCEPT ![t] = conns[Len(conns)]]
            /\ conns' = SubSeq(conns, 1, Len(conns) - 1)
            /\ Goto(t, "reclaim")
  /\ UNCHANGED <<closed, fillVars, netVars, sock, watch, alive, doomed>>

\* reclaim: interrupt the watcher's read ...
ReclaimArm(t) ==
  /\ pc[t] = "reclaim"
  /\ past' = past \cup {mine[t]}
  /\ Goto(t, "await")
  /\ UNCHANGED <<setVars, fillVars, ended, sock, watch, alive, doomed, mine>>

\* ... and take its verdict, clearing the deadline if it is good.
ReclaimAlive(t) ==
  /\ pc[t] = "await"
  /\ alive[mine[t]] = "alive"
  /\ past' = past \ {mine[t]}
  /\ alive' = [alive EXCEPT ![mine[t]] = "empty"]
  /\ Goto(t, "pooled")
  /\ UNCHANGED <<setVars, fillVars, ended, sock, watch, doomed, mine>>

\* Mutant of ReclaimDead: no bound on the wait for the verdict.
ReclaimDead_NoTimeout(t) ==
  /\ pc[t] = "await"
  /\ alive[mine[t]] = "dead"
  /\ CloseMine(t, "take")
  /\ UNCHANGED <<setVars, fillVars, netVars, watch, alive, doomed>>

\* A deadline that cannot be set, a bad verdict, or none within reclaimWait:
\* close, and try the next one.
ReclaimDead(t) ==
  /\ pc[t] \in {"reclaim", "await"}
  /\ CloseMine(t, "take")
  /\ UNCHANGED <<setVars, fillVars, netVars, watch, alive, doomed>>

Dial(t, c) ==
  /\ pc[t] = "dial"
  /\ sock[c] = "none"
  /\ sock' = [sock EXCEPT ![c] = "open"]
  /\ mine' = [mine EXCEPT ![t] = c]
  /\ Goto(t, "using")
  /\ UNCHANGED <<setVars, fillVars, netVars, watch, alive, doomed>>

DialFails(t) ==
  /\ pc[t] = "dial"
  /\ Goto(t, "idle")
  /\ UNCHANGED <<setVars, fillVars, netVars, sock, watch, alive, doomed, mine>>

\* The stream's header goes out on a pooled connection ...
SendHeader(t) ==
  /\ pc[t] = "pooled"
  /\ Goto(t, "using")
  /\ UNCHANGED <<setVars, fillVars, netVars, sock, watch, alive, doomed, mine>>

\* ... or fails, and one fresh connection is dialled for it.
HeaderFails(t) ==
  /\ pc[t] = "pooled"
  /\ CloseMine(t, "dial")
  /\ UNCHANGED <<setVars, fillVars, netVars, watch, alive, doomed>>

-----------------------------------------------------------------------------
(* Closing a stream: drain, then park.                                     *)

\* keepAliveStream.Close: the end marker cannot be written, or the drain
\* does not reach the server's end marker.  Or the header of a stream on a
\* fresh connection could not be written.
Discard(t) ==
  /\ pc[t] = "using"
  /\ CloseMine(t, "idle")
  /\ UNCHANGED <<setVars, fillVars, netVars, watch, alive, doomed>>

Drained(t) ==
  /\ pc[t] = "using"
  /\ Goto(t, "put")
  /\ UNCHANGED <<setVars, fillVars, netVars, sock, watch, alive, doomed, mine>>

\* put: start the filler unless the flag says one runs ...
PutStart(t) ==
  /\ pc[t] = "put"
  /\ filling' = TRUE
  /\ loop' = IF filling THEN loop
             ELSE IF loop = "off" THEN "asleep" ELSE "two"
  /\ Goto(t, "park")
  /\ UNCHANGED <<setVars, filled, netVars, sock, watch, alive, doomed, mine>>

\* ... then, under s.mu, append and take the overflow off the front; the
\* watcher is started, the overflow closed, after the lock is dropped.
Park(t) ==
  /\ pc[t] = "park"
  /\ IF closed
       THEN /\ sock' = [sock EXCEPT ![mine[t]] = "closed"]
            /\ UNCHANGED <<conns, filled, watch, alive, doomed>>
       ELSE LET all  == Append(conns, mine[t])
                over == IF Len(all) > IdleMax THEN Len(all) - IdleMax ELSE 0
            IN  /\ conns' = SubSeq(all, over + 1, Len(all))
                /\ doomed' = doomed \cup {all[i] : i \in 1..over}
                /\ filled' = filled \ {mine[t]}
                /\ watch' = [watch EXCEPT ![mine[t]] = "reading"]
                /\ alive' = [alive EXCEPT ![mine[t]] = "empty"]
                /\ UNCHANGED sock
  /\ mine' = [mine EXCEPT ![t] = NoConn]
  /\ Goto(t, "idle")
  /\ UNCHANGED <<closed, filling, loop, netVars>>

-----------------------------------------------------------------------------
(* Connecting and disconnecting the tunnel.                                *)

\* connectPerFlow: dial a probe, reopen the set, park the probe.
Probe(t, c) ==
  /\ pc[t] = "idle"
  /\ sock[c] = "none"
  /\ sock' = [sock EXCEPT ![c] = "open"]
  /\ mine' = [mine EXCEPT ![t] = c]
  /\ Goto(t, "reopen")
  /\ UNCHANGED <<setVars, fillVars, netVars, watch, alive, doomed>>

Reopen(t) ==
  /\ pc[t] = "reopen"
  /\ closed' = FALSE
  /\ Goto(t, "put")
  /\ UNCHANGED <<conns, fillVars, netVars, sock, watch, alive, doomed, mine>>

\* Disconnect: closeAll empties and shuts the set, then closes what was in it.
CloseAll ==
  /\ conns' = <<>>
  /\ closed' = TRUE
  /\ doomed' = doomed \cup Parked
  /\ UNCHANGED <<fillVars, netVars, sock, watch, alive, pc, mine>>

\* A connection someone took off the set is closed by that goroutine.
CloseDoomed(c) ==
  /\ c \in doomed
  /\ doomed' = doomed \ {c}
  /\ sock' = [sock EXCEPT ![c] = "closed"]
  /\ UNCHANGED <<setVars, fillVars, netVars, watch, alive, pc, mine>>

-----------------------------------------------------------------------------
(* The watcher of a parked connection.                                     *)

\* Its read returns: with the deadline error (alive), or because the server
\* closed or this side did (not alive).
WatchAlive(c) ==
  /\ watch[c] = "reading"
  /\ c \in past /\ c \notin Deaf
  /\ sock[c] = "open"
  /\ alive' = [alive EXCEPT ![c] = "alive"]
  /\ watch' = [watch EXCEPT ![c] = "none"]
  /\ UNCHANGED <<setVars, fillVars, netVars, sock, doomed, pc, mine>>

WatchDead(c) ==
  /\ watch[c] = "reading"
  /\ c \in ended \/ sock[c] = "closed"
  /\ alive' = [alive EXCEPT ![c] = "dead"]
  /\ watch' = [watch EXCEPT ![c] = "remove"]
  /\ UNCHANGED <<setVars, fillVars, netVars, sock, doomed, pc, mine>>

\* Mutant of WatchRemove: closes without asking whether it was still parked.
WatchRemove_Unasked(c) ==
  /\ watch[c] = "remove"
  /\ watch' = [watch EXCEPT ![c] = "none"]
  /\ conns' = Remove(conns, c)
  /\ doomed' = doomed \cup {c}
  /\ UNCHANGED <<closed, fillVars, netVars, sock, alive, pc, mine>>

\* A dead connection still parked is removed, and closed by the watcher.
WatchRemove(c) ==
  /\ watch[c] = "remove"
  /\ watch' = [watch EXCEPT ![c] = "none"]
  /\ conns' = Remove(conns, c)
  /\ doomed' = IF c \in Parked THEN doomed \cup {c} ELSE doomed
  /\ UNCHANGED <<closed, fillVars, netVars, sock, alive, pc, mine>>

\* The server closes a connection, parked or not.
ServerEnds(c) ==
  /\ sock[c] = "open" /\ c \notin ended
  /\ ended' = ended \cup {c}
  /\ UNCHANGED <<setVars, fillVars, past, sock, watch, alive, doomed, pc, mine>>

-----------------------------------------------------------------------------
(* The filler goroutine.                                                   *)

\* It wakes: a shut set ends it, otherwise it writes to every parked one.
FillWake ==
  /\ loop = "asleep"
  /\ IF closed THEN loop' = "leaving" /\ UNCHANGED filled
               ELSE filled' = filled \cup Parked /\ UNCHANGED loop
  /\ UNCHANGED <<setVars, filling, netVars, sock, watch, alive, doomed, pc, mine>>

\* Its deferred filling.Store(false), outside s.mu.
FillLeave ==
  /\ loop = "leaving"
  /\ loop' = "off"
  /\ filling' = FALSE
  /\ UNCHANGED <<setVars, filled, netVars, sock, watch, alive, doomed, pc, mine>>

-----------------------------------------------------------------------------
ThreadStep(t) ==
  \/ Take(t) \/ ReclaimArm(t) \/ ReclaimAlive(t) \/ ReclaimDead(t)
  \/ \E c \in Conns : Dial(t, c) \/ Probe(t, c)
  \/ DialFails(t) \/ SendHeader(t) \/ HeaderFails(t)
  \/ Discard(t) \/ Drained(t) \/ PutStart(t) \/ Park(t) \/ Reopen(t)

WatchStep(c) == WatchAlive(c) \/ WatchDead(c) \/ WatchRemove(c)

Next ==
  \/ \E t \in Threads : ThreadStep(t)
  \/ \E c \in Conns : WatchStep(c) \/ CloseDoomed(c) \/ ServerEnds(c)
  \/ CloseAll
  \/ FillWake \/ FillLeave

Spec == Init /\ [][Next]_vars

-----------------------------------------------------------------------------
(* Properties.                                                             *)

Holding == {"reclaim", "await", "pooled", "using", "put", "park", "reopen"}

\* The type invariant; a thread holds a connection exactly at the places
\* where the code has one in hand, and there is never a second filler loop.
TypeOK ==
  /\ conns \in Seq(Conns)
  /\ closed \in BOOLEAN /\ filling \in BOOLEAN
  /\ loop \in {"off", "asleep", "leaving"}
  /\ filled \subseteq Conns /\ ended \subseteq Conns /\ past \subseteq Conns
  /\ sock \in [Conns -> {"none", "open", "closed"}]
  /\ watch \in [Conns -> {"none", "reading", "remove"}]
  /\ alive \in [Conns -> {"empty", "alive", "dead"}]
  /\ doomed \subseteq Conns
  /\ pc \in [Threads -> Holding \cup {"idle", "take", "dial"}]
  /\ mine \in [Threads -> Conns \cup {NoConn}]
  /\ \A t \in Threads : mine[t] # NoConn <=> pc[t] \in Holding

\* A connection has one owner: it is parked once, or in one thread's hands,
\* or about to be closed, never two of these, and it is closed by nobody
\* while it is in use.
OneOwner ==
  /\ \A i, j \in 1..Len(conns) : conns[i] = conns[j] => i = j
  /\ Parked \cap doomed = {}
  /\ \A t \in Threads : mine[t] # NoConn =>
       /\ mine[t] \notin Parked \cup doomed
       /\ sock[mine[t]] = "open"
       /\ \A u \in Threads : mine[u] = mine[t] => u = t

\* A stream never shares its connection with the watcher: the liveness check
\* cannot eat the stream's bytes.
NoSharedReader ==
  \A t \in Threads : pc[t] \in {"pooled", "using", "put", "park", "reopen"} =>
    watch[mine[t]] = "none"

\* A connection handed out by take carries no expired deadline.
HandedOutUsable == \A t \in Threads : pc[t] \in {"pooled", "using"} => mine[t] \notin past

\* The set never holds more than idleMax connections.
Capped == Len(conns) <= IdleMax

\* An open connection is parked, in a thread's hands or about to be closed:
\* whatever closeAll, eviction and the watcher do, none is leaked.
NothingLeaks ==
  \A c \in Conns : sock[c] = "open" =>
    c \in Parked \cup doomed \cup {mine[t] : t \in Threads}

\* A shut set is empty: Disconnect leaves no connection parked behind.
ShutIsEmpty == closed => conns = <<>>

\* Every open connection has exactly one owner who will use or close it, and
\* the set keeps to its cap and is empty once shut, whatever take, put, the
\* watchers, eviction and closeAll do at the same time.
Ownership == TypeOK /\ OneOwner /\ NothingLeaks /\ Capped /\ ShutIsEmpty

\* A connection goes from its watcher to a stream without either reading what
\* is the other's, and without the deadline that interrupted the watcher.
HandOver == NoSharedReader /\ HandedOutUsable

\* A connection is in one place at a time and is read by one goroutine: it is
\* in the set, with a stream, or on its way to be closed; and no stream gets
\* the deadline that interrupted its watcher (take, watch, reclaim, put,
\* closeAll).
OwnedOnce == Ownership /\ HandOver

\* A connection the server has closed does not stay in the set: the watcher
\* takes it out, if no stream does.
DeadOnesLeave ==
  \A c \in Conns : (c \in Parked /\ c \in ended) ~> (c \notin Parked)

\* take returns, whatever the watchers do: with a connection or to dial.
TakeReturns ==
  \A t \in Threads : (pc[t] = "await") ~> (pc[t] \in {"pooled", "dial"})

\* Neither a dead connection nor a taker is stuck in the set.
SetMovesOn == DeadOnesLeave /\ TakeReturns

\* A connection that stays parked gets filler
\* (TestParkedConnectionGetsFiller: "no filler on a parked connection").
ParkedGetsFiller ==
  \A c \in Conns : (c \in Parked) ~> (c \in filled \/ c \notin Parked)

\* For TLC: connections are alike, and so are threads.
Symmetric == Permutations(Conns) \cup Permutations(Threads)
=============================================================================
