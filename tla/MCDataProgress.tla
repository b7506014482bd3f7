--------------------------- MODULE MCDataProgress ---------------------------
(***************************************************************************)
(* What must happen in the end to the connections, streams and datagrams   *)
(* that carry data, for TLC.  part says which component runs; the others   *)
(* stay as they start, and fairness is assumed of the one that runs.       *)
(***************************************************************************)
EXTENDS Integers

CONSTANTS Conns, Threads, IdleMax, NoConn                          \* IdleSet
CONSTANTS MaxStream, MaxData, MaxFill, Kinds, Busy, Lookalike      \* StreamReuse
CONSTANTS K, M, SeqMod, MaxSend, MaxRaw, MaxDup, Garbage           \* DatagramFEC
CONSTANTS Relays, Keys, MaxLane, MaxChan                           \* UdpRelay
CONSTANTS Ids, MaxSess, MaxSock                                    \* DatagramSessions

VARIABLE part

VARIABLES conns, shut, filling, loop, filled, sock, gone, past, watch, alive, doomed, pc, mine
VARIABLES up, down, cl, cs, kind, cDone, cRaw, sv, ss, upCopy, dnCopy, sDone, ended,
          switched, sentUp, sentDn, gotUp, gotDn, fills, bad
VARIABLES blockStart, cnt, blocks, sent, raws, net, dups, received, firstAt, pending, buf,
          ing, pkt, sw, due, left, recovered, delivered, arrived, solvable, settled
VARIABLES quicGD, dialing, lanes, laneUp, refused, laneTargets, chans, streams, strm, rt,
          rlane, fwd, streamPump
VARIABLES reg, made, idOf, conn, toClose, closed, targets, at, socks, pump

idleVars == <<conns, shut, filling, loop, filled, sock, gone, past, watch, alive, doomed, pc, mine>>
reuseVars == <<up, down, cl, cs, kind, cDone, cRaw, sv, ss, upCopy, dnCopy, sDone, ended,
               switched, sentUp, sentDn, gotUp, gotDn, fills, bad>>
fecVars == <<blockStart, cnt, blocks, sent, raws, net, dups, received, firstAt, pending, buf,
             ing, pkt, sw, due, left, recovered, delivered, arrived, solvable, settled>>
relayVars == <<quicGD, dialing, lanes, laneUp, refused, laneTargets, chans, streams, strm, rt,
               rlane, fwd, streamPump>>
sessVars == <<reg, made, idOf, conn, toClose, closed, targets, at, socks, pump>>

\* Over a transport that heeds read deadlines, and over one that ignores them.
Idle  == INSTANCE IdleSet WITH closed <- shut, ended <- gone, Deaf <- {}
Deaf  == INSTANCE IdleSet WITH closed <- shut, ended <- gone, Deaf <- Conns
Reuse == INSTANCE StreamReuse
FEC   == INSTANCE DatagramFEC
Relay == INSTANCE UdpRelay WITH targets <- laneTargets, pump <- streamPump
Sess  == INSTANCE DatagramSessions

IdleParts == {"idle", "deaf"}

MCInit ==
  /\ part \in {"idle", "deaf", "reuse", "fec", "relay", "sessions"}
  /\ Idle!Init /\ Reuse!Init /\ FEC!Init /\ Relay!Init /\ Sess!Init

MCNext ==
  /\ UNCHANGED part
  /\ \/ /\ \/ part = "idle" /\ Idle!Next
           \/ part = "deaf" /\ Deaf!Next
        /\ UNCHANGED <<reuseVars, fecVars, relayVars, sessVars>>
     \/ /\ part = "reuse" /\ Reuse!Next
        /\ UNCHANGED <<idleVars, fecVars, relayVars, sessVars>>
     \/ /\ part = "fec" /\ FEC!Next
        /\ UNCHANGED <<idleVars, reuseVars, relayVars, sessVars>>
     \/ /\ part = "relay" /\ Relay!Next
        /\ UNCHANGED <<idleVars, reuseVars, fecVars, sessVars>>
     \/ /\ part = "sessions" /\ Sess!Next
        /\ UNCHANGED <<idleVars, reuseVars, fecVars, relayVars>>

-----------------------------------------------------------------------------
(* Fairness.                                                               *)

\* Goroutines that have work run: watchers whose read returned, closers, a
\* thread inside take or put, and the filler's timer.
IdleFairness ==
  /\ \A c \in Conns : WF_idleVars(\/ part = "idle" /\ Idle!WatchStep(c)
                                  \/ part = "deaf" /\ Deaf!WatchStep(c))
  /\ \A c \in Conns : WF_idleVars(part \in IdleParts /\ Idle!CloseDoomed(c))
  /\ \A t \in Threads :
       WF_idleVars(/\ part \in IdleParts
                   /\ \/ pc[t] = "take" /\ Idle!Take(t)
                      \/ Idle!ReclaimArm(t) \/ Idle!ReclaimAlive(t) \/ Idle!ReclaimDead(t)
                      \/ Idle!PutStart(t) \/ Idle!Park(t))
  /\ WF_idleVars(part \in IdleParts /\ (Idle!FillWake \/ Idle!FillLeave))

\* Both ends read what arrives; the drain and the server's own steps end; a
\* target that was half-closed, or closed by a failed up copy, ends the down
\* copy within targetDrainWait.
ReuseFairness ==
  /\ WF_reuseVars(part = "reuse" /\ Reuse!ClientRead)
  /\ WF_reuseVars(part = "reuse" /\ (Reuse!Drain \/ Reuse!DrainGivesUp \/ Reuse!ParkConn))
  /\ WF_reuseVars(part = "reuse" /\ Reuse!ReadHeader)
  /\ WF_reuseVars(part = "reuse" /\ (Reuse!DialTarget \/ Reuse!DialRefused))
  /\ WF_reuseVars(part = "reuse" /\ Reuse!CopyUp)
  /\ WF_reuseVars(part = "reuse" /\ Reuse!Finish)
  /\ WF_reuseVars(/\ part = "reuse" /\ upCopy # "run"
                  /\ Reuse!CopyDownEnds \/ Reuse!CopyDownFails)

\* Both goroutines run; a block's wait is over some time, so a sweep that
\* finds a block again and again takes it out.
FECFairness ==
  /\ WF_fecVars(part = "fec" /\ (FEC!Signal \/ FEC!DecodeFEC))
  /\ WF_fecVars(part = "fec" /\ FEC!Sweeper)
  /\ \A i \in 0..((MaxSend - 1) \div K) :
       SF_fecVars(part = "fec" /\ FEC!Sweep /\ (K + M) * i \in due')

\* The pumps run, and so does a forward that has begun.
RelayFairness ==
  /\ \A s \in 1..MaxStream : WF_relayVars(part = "relay" /\ Relay!Pump(s))
  /\ \A r \in Relays :
       WF_relayVars(part = "relay" /\ (Relay!DropStream(r) \/ Relay!CloseStream(r)))

\* Every goroutine that can go on does; a silent socket's deadline passes.
SessFairness ==
  /\ \A s \in 1..MaxSess :
       /\ WF_sessVars(part = "sessions" /\ Sess!CloseOld(s))
       /\ WF_sessVars(part = "sessions" /\ Sess!ConnGone(s))
       /\ \A l \in {"receive", "sweep"} :
            WF_sessVars(part = "sessions" /\ (\/ Sess!DialTarget(s, l, FALSE)
                                             \/ Sess!Publish(s, l) \/ Sess!WriteTarget(s, l)))
  /\ \A c \in 1..MaxSock : WF_sessVars(part = "sessions" /\ Sess!Pump(c))

MCSpec ==
  /\ MCInit
  /\ [][MCNext]_<<part, idleVars, reuseVars, fecVars, relayVars, sessVars>>
  /\ IdleFairness /\ ReuseFairness /\ FECFairness /\ RelayFairness /\ SessFairness

-----------------------------------------------------------------------------

\* A connection the server has closed leaves the idle set, by its watcher or
\* by a stream, and take returns, with a connection or to dial (watch,
\* reclaim).
SetMovesOn == Idle!SetMovesOn

\* The server does not stay on a connection its client has closed
\* (runSession), and the end of the answer reaches an application that waits
\* for it (relayTCP: "down reports the end of the answer as soon as the origin
\* has finished").
StreamsEnd == Reuse!ServerLetsGo /\ Reuse!AnswerEndReported

\* A payload that arrived in a packet of its own is handed over, whether or
\* not its block is ever completed (sweepLoop).
ArrivedIsDelivered == FEC!ArrivedIsDelivered

\* A stream the far end has closed does not stay in a UDP association: its
\* pump gives it up, and the next datagram opens another.
EndedStreamGoes == Relay!EndedStreamGoes

\* The sockets of a session whose connection is gone are closed
\* (serverSession.Close, pumpTargetResponses).
SocketsGo == Sess!SocketsGo
=============================================================================
