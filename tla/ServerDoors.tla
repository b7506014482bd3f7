----------------------------- MODULE ServerDoors -----------------------------
(***************************************************************************)
(* The server's plain doors (app/server/inbound.go, transport.go,          *)
(* conn_limiter.go; core/transport/tcp, core/transport/grpc): conns come   *)
(* in over gRPC through a queue, over the tracked TCP transport, or over a *)
(* configured port; one loop per door takes them, a limit per address that *)
(* all doors share admits them, and a goroutine each serves them until it  *)
(* closes them.  The transports may stop while all of this goes on.        *)
(*                                                                         *)
(* What a served conn does is in StreamPipes and Listener; here it ends at *)
(* some time, as does one that fails verifyAltTransportAuth.               *)
(***************************************************************************)
EXTENDS Integers, FiniteSets, Sequences

CONSTANTS
  Conns, DoorOf, IpOf,  \* conns, their doors ("grpc", "tcp", "port") and addresses
  MaxPerIP,    \* maxTCPConnsPerIP
  MaxConns,    \* of the TCP transport
  QueueLen     \* of the gRPC transport's acceptChan

Transports == {"grpc", "tcp"}
Doors == Transports \cup {"port"}
IPs == {IpOf[c] : c \in Conns}
NoConn == "none"

VARIABLES
  st,        \* conn -> where it is
  left,      \* conns whose peer has gone away
  open,      \* conns taken in and not closed
  active,    \* activeConns of a transport; the configured ports keep none
  tracked,   \* connections of the TCP transport
  queue,     \* acceptChan
  hand,      \* door -> conn its loop has just taken
  loop,      \* door -> "top", "accept" or "ended"
  perIP,     \* connLimiterPerIP
  grpcIs, tcpIs,   \* the transports: "up", "stopping", "stopped"
  ctxDone

sdVars == <<st, left, open, active, tracked, queue, hand, loop, perIP, grpcIs, tcpIs, ctxDone>>

Init ==
  /\ st = [c \in Conns |-> "new"] /\ left = {} /\ open = {}
  /\ active = [d \in Transports |-> 0] /\ tracked = {} /\ queue = <<>>
  /\ hand = [d \in Doors |-> NoConn] /\ loop = [d \in Doors |-> "top"]
  /\ perIP = [i \in IPs |-> 0]
  /\ grpcIs = "up" /\ tcpIs = "up" /\ ctxDone = FALSE

Is(c, s) == st' = [st EXCEPT ![c] = s]

\* The conn is there, and counts if a transport wraps it.
Wrap(c) ==
  /\ open' = open \cup {c}
  /\ active' = [d \in Transports |-> active[d] + Cardinality({b \in {c} : DoorOf[b] = d})]

\* Mutant of CloseAll: no compare-and-swap, so a second Close counts again.
CloseAll_Always(S) ==
  /\ open' = open \ S /\ tracked' = tracked \ S
  /\ active' = [d \in Transports |-> active[d] - Cardinality({c \in S : DoorOf[c] = d})]

\* Close of several conns; only the first Close of a conn has an effect.
CloseAll(S) ==
  /\ open' = open \ S /\ tracked' = tracked \ S
  /\ active' = [d \in Transports |-> active[d] - Cardinality({c \in S \cap open : DoorOf[c] = d})]

-----------------------------------------------------------------------------
(* gRPC.                                                                   *)

Call(c) ==
  /\ DoorOf[c] = "grpc" /\ st[c] = "new" /\ grpcIs = "up" /\ Is(c, "called")
  /\ UNCHANGED <<left, open, active, tracked, queue, hand, loop, perIP, grpcIs, tcpIs, ctxDone>>

\* The handler: into the queue, or back when it is full or the transport has
\* stopped; the count goes up and down again.
Tunnel(c) ==
  /\ st[c] = "called"
  /\ \/ /\ Len(queue) < QueueLen /\ queue' = Append(queue, c) /\ Is(c, "queued") /\ Wrap(c)
     \/ /\ Len(queue) = QueueLen \/ grpcIs = "stopped"
        /\ Is(c, "ended") /\ UNCHANGED <<queue, open, active>>
  /\ UNCHANGED <<left, tracked, hand, loop, perIP, grpcIs, tcpIs, ctxDone>>

PeerLeaves(c) ==
  /\ DoorOf[c] = "grpc" /\ st[c] \notin {"new", "ended"} /\ c \notin left /\ left' = left \cup {c}
  /\ UNCHANGED <<st, open, active, tracked, queue, hand, loop, perIP, grpcIs, tcpIs, ctxDone>>

\* GracefulStop takes no more calls and waits for the conns to the peers.
GrpcStop ==
  /\ \/ grpcIs = "up" /\ grpcIs' = "stopping"
     \/ /\ grpcIs = "stopping"
        /\ \A c \in Conns \ left : DoorOf[c] = "grpc" => st[c] # "called" /\ c \notin open
        /\ grpcIs' = "stopped"
  /\ UNCHANGED <<st, left, open, active, tracked, queue, hand, loop, perIP, tcpIs, ctxDone>>

AcceptGrpc ==
  /\ loop["grpc"] = "accept" /\ hand["grpc"] = NoConn
  /\ queue # <<>> /\ queue' = Tail(queue)
  /\ hand' = [hand EXCEPT !["grpc"] = Head(queue)] /\ Is(Head(queue), "taken")
  /\ UNCHANGED <<left, open, active, tracked, loop, perIP, grpcIs, tcpIs, ctxDone>>

\* Accept fails once the transport has stopped; then, or between two conns,
\* the loop sees that the context is done.
LoopTurns ==
  /\ \/ loop["grpc"] = "top" /\ loop' = [loop EXCEPT !["grpc"] = IF ctxDone THEN "ended" ELSE "accept"]
     \/ /\ loop["grpc"] = "accept" /\ hand["grpc"] = NoConn /\ grpcIs = "stopped"
        /\ loop' = [loop EXCEPT !["grpc"] = IF ctxDone THEN "ended" ELSE "top"]
  /\ UNCHANGED <<st, left, open, active, tracked, queue, hand, perIP, grpcIs, tcpIs, ctxDone>>

-----------------------------------------------------------------------------
(* TCP: the tracked transport and the configured ports.                    *)

\* The listener hands over a conn.
TakeTCP(c) ==
  LET d == DoorOf[c] IN
  /\ d # "grpc" /\ st[c] = "new" /\ hand[d] = NoConn /\ (d = "tcp" => tcpIs = "up")
  /\ Is(c, IF d = "tcp" THEN "got" ELSE "taken") /\ hand' = [hand EXCEPT ![d] = c]
  /\ IF d = "tcp" THEN UNCHANGED <<open, active>> ELSE Wrap(c)
  /\ UNCHANGED <<left, tracked, queue, loop, perIP, grpcIs, tcpIs, ctxDone>>

\* The rest of Accept: refused at the limit, else counted and tracked.
AcceptTCP(c) ==
  /\ st[c] = "got"
  /\ IF active["tcp"] >= MaxConns
       THEN Is(c, "ended") /\ hand' = [hand EXCEPT !["tcp"] = NoConn] /\ UNCHANGED <<open, active, tracked>>
       ELSE Is(c, "taken") /\ Wrap(c) /\ tracked' = tracked \cup {c} /\ UNCHANGED hand
  /\ UNCHANGED <<left, queue, loop, perIP, grpcIs, tcpIs, ctxDone>>

\* The listener first, then every tracked conn.
TcpStop ==
  /\ \/ tcpIs = "up" /\ tcpIs' = "stopping" /\ UNCHANGED <<open, active, tracked>>
     \/ tcpIs = "stopping" /\ tcpIs' = "stopped" /\ CloseAll(tracked)
  /\ UNCHANGED <<st, left, queue, hand, loop, perIP, grpcIs, ctxDone>>

-----------------------------------------------------------------------------
(* The limit per address, serving.                                         *)

Admits(c) == perIP[IpOf[c]] < MaxPerIP

\* A conn that gets a slot is served by a goroutine; another one is closed.
acquireConnSlot(c) ==
  LET d == DoorOf[c] IN
  /\ st[c] = "taken"
  /\ IF Admits(c)
       THEN Is(c, "served") /\ perIP' = [perIP EXCEPT ![IpOf[c]] = @ + 1] /\ UNCHANGED <<open, active, tracked>>
       ELSE Is(c, "ended") /\ CloseAll({c}) /\ UNCHANGED perIP
  /\ hand' = [hand EXCEPT ![d] = NoConn]
  /\ loop' = [loop EXCEPT ![d] = "top"]
  /\ UNCHANGED <<left, queue, grpcIs, tcpIs, ctxDone>>

\* Failed authentication, or the relay is done with it.
Served(c) ==
  /\ st[c] = "served" /\ Is(c, "closed") /\ CloseAll({c})
  /\ UNCHANGED <<left, queue, hand, loop, perIP, grpcIs, tcpIs, ctxDone>>

release(c) ==
  /\ st[c] = "closed" /\ Is(c, "ended") /\ perIP' = [perIP EXCEPT ![IpOf[c]] = @ - 1]
  /\ UNCHANGED <<left, open, active, tracked, queue, hand, loop, grpcIs, tcpIs, ctxDone>>

Cancel ==
  /\ ~ctxDone /\ ctxDone' = TRUE
  /\ UNCHANGED <<st, left, open, active, tracked, queue, hand, loop, perIP, grpcIs, tcpIs>>

Next ==
  \/ \E c \in Conns : \/ Call(c) \/ Tunnel(c) \/ PeerLeaves(c) \/ TakeTCP(c) \/ AcceptTCP(c)
                      \/ acquireConnSlot(c) \/ Served(c) \/ release(c)
  \/ GrpcStop \/ AcceptGrpc \/ LoopTurns \/ TcpStop \/ Cancel

Spec == Init /\ [][Next]_sdVars

-----------------------------------------------------------------------------
(* Properties.                                                             *)

Holds(i) == {c \in Conns : st[c] \in {"served", "closed"} /\ IpOf[c] = i}

\* The counts are those of the conns there are, whoever closes them first and
\* whenever the transports stop: the slots of an address are held by conns
\* being served and stay within the limit, a transport's count is that of its
\* open conns, the tracked conns are the open ones of the TCP transport; and
\* every open conn is where something will close it - queued, in a loop's
\* hand or being served (Tunnel, Accept, Stop, acquireConnSlot, Close).
DoorsAccount ==
  /\ \A i \in IPs : perIP[i] = Cardinality(Holds(i)) /\ perIP[i] <= MaxPerIP
  /\ \A d \in Transports : active[d] = Cardinality({c \in open : DoorOf[c] = d})
  /\ tracked = {c \in open : DoorOf[c] = "tcp"} /\ active["tcp"] <= MaxConns
  /\ \A c \in open : st[c] \in {"queued", "taken", "served"}
=============================================================================
