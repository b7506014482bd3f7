-------------------------- MODULE DatagramSessions --------------------------
(***************************************************************************)
(* The server's end of the datagram lane (core/protocol/quic/datagram.go): *)
(* the registry of sessions (RegisterDatagramConn) and, per session, the   *)
(* UDP sockets it opens for its targets.                                   *)
(*                                                                         *)
(* receiveLoop and sweepLoop both call handlePayload, which looks a target *)
(* up, dials outside the lock and looks again; every socket has a pump     *)
(* that takes it out when it has been silent for udpTargetIdle.  Sessions  *)
(* and sockets are numbered in the order they are made.                    *)
(***************************************************************************)
EXTENDS Integers, FiniteSets

CONSTANTS
  Ids,       \* session ids
  Keys,      \* targets
  MaxSess,   \* sessions registered in all
  MaxSock    \* sockets dialled in all

Sess == 1..MaxSess
Socks == 1..MaxSock
Loops == {"receive", "sweep"}

VARIABLES
  reg,       \* sessions: id -> session or 0
  made,      \* sessions made
  idOf,      \* the id of each
  conn,      \* its QUIC connection: "up", "down", or "seen" once the watcher has run
  toClose,   \* sessions replaced in the registry whose Close is still to come
  closed,    \* sessions on which Close has been called
  targets,   \* session -> key -> socket or 0
  at,        \* session -> loop -> [pc, key, sock]
  socks,     \* sockets made: session, key, open or not
  pump       \* "none", "read", "leave", "close"

vars == <<reg, made, idOf, conn, toClose, closed, targets, at, socks, pump>>

Idle == [pc |-> "idle", key |-> CHOOSE k \in Keys : TRUE, sock |-> 0]
AtPc(p, k, c) == [pc |-> p, key |-> k, sock |-> c]

Init ==
  /\ reg = [i \in Ids |-> 0] /\ made = 0
  /\ idOf = <<>> /\ conn = <<>> /\ toClose = {} /\ closed = {}
  /\ targets = [s \in Sess |-> [k \in Keys |-> 0]]
  /\ at = [s \in Sess |-> [l \in Loops |-> Idle]]
  /\ socks = <<>> /\ pump = [c \in Socks |-> "none"]

With(f, i, v) == [x \in DOMAIN f \cup {i} |-> IF x = i THEN v ELSE f[x]]
NextSock == Cardinality(DOMAIN socks) + 1

-----------------------------------------------------------------------------
(* The registry.                                                           *)

\* RegisterDatagramConn, under sessionsMu; an older session is closed after.
Register(i) ==
  /\ made < MaxSess /\ made' = made + 1
  /\ reg' = [reg EXCEPT ![i] = made']
  /\ idOf' = With(idOf, made', i) /\ conn' = With(conn, made', "up")
  /\ toClose' = toClose \cup ({reg[i]} \ {0})
  /\ UNCHANGED <<closed, targets, at, socks, pump>>

\* Close: the sockets registered now are closed; their pumps will see it.
Shut(s) ==
  [c \in DOMAIN socks |-> IF \E k \in Keys : targets[s][k] = c
                          THEN [socks[c] EXCEPT !.open = FALSE] ELSE socks[c]]

CloseOld(s) ==
  /\ s \in toClose /\ toClose' = toClose \ {s}
  /\ closed' = closed \cup {s} /\ socks' = Shut(s)
  /\ UNCHANGED <<reg, made, idOf, conn, targets, at, pump>>

ConnDies(s) ==
  /\ s \in 1..made /\ conn[s] = "up"
  /\ conn' = [conn EXCEPT ![s] = "down"]
  /\ UNCHANGED <<reg, made, idOf, toClose, closed, targets, at, socks, pump>>

\* The watcher of the connection: the entry goes if it is the session's own,
\* and the session is closed after.
ConnGone(s) ==
  /\ s \in 1..made /\ conn[s] = "down"
  /\ conn' = [conn EXCEPT ![s] = "seen"]
  /\ reg' = [reg EXCEPT ![idOf[s]] = IF @ = s THEN 0 ELSE @]
  /\ toClose' = toClose \cup {s}
  /\ UNCHANGED <<made, idOf, closed, targets, at, socks, pump>>

-----------------------------------------------------------------------------
(* handlePayload, by either loop of a session.  A loop ends when Close has *)
(* cancelled it or the connection is down, but finishes what it is at.     *)

Put(s, l, v) == at' = [at EXCEPT ![s][l] = v]

Lookup(s, l, k) ==
  /\ s \in 1..made /\ at[s][l].pc = "idle" /\ s \notin closed
  /\ IF targets[s][k] # 0 THEN Put(s, l, AtPc("write", k, targets[s][k]))
     ELSE Put(s, l, AtPc("dial", k, 0))
  /\ UNCHANGED <<reg, made, idOf, conn, toClose, closed, targets, socks, pump>>

DialTarget(s, l, ok) ==
  /\ at[s][l].pc = "dial"
  /\ IF ok
     THEN /\ NextSock <= MaxSock
          /\ socks' = With(socks, NextSock, [s |-> s, key |-> at[s][l].key, open |-> TRUE])
          /\ Put(s, l, AtPc("publish", at[s][l].key, NextSock))
     ELSE /\ Put(s, l, Idle) /\ UNCHANGED socks
  /\ UNCHANGED <<reg, made, idOf, conn, toClose, closed, targets, pump>>

\* Mutant of Publish: no second look before the socket is stored.
Publish_Blind(s, l) ==
  /\ at[s][l].pc = "publish"
  /\ LET k == at[s][l].key
         c == at[s][l].sock
     IN  /\ targets' = [targets EXCEPT ![s][k] = c]
         /\ pump' = [pump EXCEPT ![c] = "read"]
         /\ Put(s, l, AtPc("write", k, c))
  /\ UNCHANGED <<reg, made, idOf, conn, toClose, closed, socks>>

\* Under the lock again: the other loop may have been faster.
Publish(s, l) ==
  /\ at[s][l].pc = "publish"
  /\ LET k == at[s][l].key
         c == at[s][l].sock
     IN  IF targets[s][k] # 0
         THEN /\ Put(s, l, AtPc("write", k, targets[s][k]))
              /\ socks' = [socks EXCEPT ![c].open = FALSE]
              /\ UNCHANGED <<targets, pump>>
         ELSE /\ targets' = [targets EXCEPT ![s][k] = c]
              /\ pump' = [pump EXCEPT ![c] = "read"]
              /\ Put(s, l, AtPc("write", k, c))
              /\ UNCHANGED socks
  /\ UNCHANGED <<reg, made, idOf, conn, toClose, closed>>

\* The write's result is not looked at.
WriteTarget(s, l) ==
  /\ at[s][l].pc = "write" /\ Put(s, l, Idle)
  /\ UNCHANGED <<reg, made, idOf, conn, toClose, closed, targets, socks, pump>>

-----------------------------------------------------------------------------
(* pumpTargetResponses.                                                    *)

\* Mutant of PumpEnds: the reads have no deadline.
PumpEnds_NoDeadline(c) ==
  /\ pump[c] = "read" /\ ~socks[c].open /\ pump' = [pump EXCEPT ![c] = "leave"]
  /\ UNCHANGED <<reg, made, idOf, conn, toClose, closed, targets, at, socks>>

\* A read fails: the socket is closed, or has been silent long enough.
PumpEnds(c) ==
  /\ pump[c] = "read" /\ pump' = [pump EXCEPT ![c] = "leave"]
  /\ UNCHANGED <<reg, made, idOf, conn, toClose, closed, targets, at, socks>>

\* Its deferred calls: the key is deleted, then the socket is closed.
PumpLeaves(c) ==
  /\ pump[c] = "leave" /\ pump' = [pump EXCEPT ![c] = "close"]
  /\ targets' = [targets EXCEPT ![socks[c].s][socks[c].key] = 0]
  /\ UNCHANGED <<reg, made, idOf, conn, toClose, closed, at, socks>>

PumpCloses(c) ==
  /\ pump[c] = "close" /\ pump' = [pump EXCEPT ![c] = "none"]
  /\ socks' = [socks EXCEPT ![c].open = FALSE]
  /\ UNCHANGED <<reg, made, idOf, conn, toClose, closed, targets, at>>

-----------------------------------------------------------------------------

Loop(s, l) == \/ \E k \in Keys : Lookup(s, l, k)
              \/ \E ok \in BOOLEAN : DialTarget(s, l, ok)
              \/ Publish(s, l) \/ WriteTarget(s, l)

Pump(c) == PumpEnds(c) \/ PumpLeaves(c) \/ PumpCloses(c)

Next == \/ \E i \in Ids : Register(i)
        \/ \E s \in Sess : CloseOld(s) \/ ConnDies(s) \/ ConnGone(s)
        \/ \E s \in Sess, l \in Loops : Loop(s, l)
        \/ \E c \in Socks : Pump(c)

Spec == Init /\ [][Next]_vars

-----------------------------------------------------------------------------
(* Properties.                                                             *)

\* The type invariant of the registry, the sessions and their sockets.
TypeOK ==
  /\ \A i \in Ids : reg[i] \in 0..made
  /\ made \in 0..MaxSess /\ toClose \subseteq 1..made /\ closed \subseteq 1..made
  /\ \A s \in Sess, k \in Keys : targets[s][k] \in {0} \cup DOMAIN socks
  /\ \A s \in Sess, l \in Loops :
       /\ at[s][l].pc \in {"idle", "dial", "publish", "write"}
       /\ at[s][l].pc \in {"publish", "write"} => at[s][l].sock \in DOMAIN socks
  /\ \A c \in Socks : pump[c] \in {"none", "read", "leave", "close"}

\* Replies of a target come back through one socket: the session's entry and
\* the running pump of the key are the same socket.  So the pump's delete,
\* which goes by the key alone, never takes away another socket's entry.
PumpOwnsEntry ==
  \A c \in DOMAIN socks :
    pump[c] \in {"read", "leave"} <=> targets[socks[c].s][socks[c].key] = c

\* No socket is lost: an open one is being dialled by a loop, or has a pump
\* that will close it.
NoLostSocket ==
  \A c \in DOMAIN socks :
    socks[c].open => \/ pump[c] # "none"
                     \/ \E s \in Sess, l \in Loops : at[s][l].pc = "publish" /\ at[s][l].sock = c

\* The registry has the newest session of an id for as long as its
\* connection lasts, however the old session's end is timed.
NewestIsRegistered ==
  \A s \in 1..made :
    /\ conn[s] # "seen"
    /\ \A t \in (s + 1)..made : idOf[t] # idOf[s]
    => reg[idOf[s]] = s

\* A session that is no longer registered has been closed or is about to be.
UnregisteredIsClosed ==
  \A s \in 1..made : reg[idOf[s]] # s => s \in closed \cup toClose

\* No session or socket is lost when two loops dial one target, or when a
\* client comes back under its old id.
NothingLost ==
  TypeOK /\ PumpOwnsEntry /\ NoLostSocket /\ NewestIsRegistered /\ UnregisteredIsClosed

\* Once a session is closed all its sockets get closed, also one that was
\* being dialled when Close went through the targets.
SocketsGo ==
  \A s \in Sess : (s \in closed) ~> (\A c \in DOMAIN socks : socks[c].s = s => ~socks[c].open)
=============================================================================
