---------------------------- MODULE MCTransport ----------------------------
(***************************************************************************)
(* What travels beside the streams, for TLC, one component at a time: the  *)
(* server's datagram sessions, the two ends of the parity code, the        *)
(* client's relay, a session over files on a disk, and what is learned of  *)
(* the dials.  part says which one runs; the others stay as they start.    *)
(***************************************************************************)
EXTENDS DatagramSessions

CONSTANTS K, M, SeqMod, MaxSend, MaxRaw, MaxDup, Garbage           \* DatagramFEC
CONSTANTS Relays, MaxLane, MaxStream, MaxChan                      \* UdpRelay
CONSTANTS MaxBytes, MaxChunk, QueueLen, MaxLate                    \* YaDisk
CONSTANTS d1, d2, k1, k2, Arms                                     \* DialVerdicts

VARIABLE part

VARIABLES blockStart, cnt, blocks, sent, raws, net, dups, received, firstAt, pending, buf,
          ing, pkt, sw, due, left, recovered, delivered, arrived, solvable, settled

VARIABLES quicGD, dialing, lanes, laneUp, refused, laneTargets, chans, streams, strm, rt,
          rlane, fwd, streamPump

VARIABLES written, dataOut, writeSeq, putting, putSeq, disk, late, deletes,
          readSeq, taken, dataIn, readBuf, got, stopped, gone, faults

VARIABLES joint, fragmented, sum, obs, surv, seen, current, dpc, arm, fragArm, live, npc, clpc,
          shapeArm, good, bad, hsSaid, liveSaid, endSaid

fecVars == <<blockStart, cnt, blocks, sent, raws, net, dups, received, firstAt, pending, buf,
             ing, pkt, sw, due, left, recovered, delivered, arrived, solvable, settled>>
relayVars == <<quicGD, dialing, lanes, laneUp, refused, laneTargets, chans, streams, strm, rt,
               rlane, fwd, streamPump>>
diskVars == <<written, dataOut, writeSeq, putting, putSeq, disk, late, deletes,
              readSeq, taken, dataIn, readBuf, got, stopped, gone, faults>>
dialVars == <<joint, fragmented, sum, obs, surv, seen, current, dpc, arm, fragArm, live, npc,
              clpc, shapeArm, good, bad, hsSaid, liveSaid, endSaid>>

FEC == INSTANCE DatagramFEC
Relay == INSTANCE UdpRelay WITH targets <- laneTargets, pump <- streamPump
Disk == INSTANCE YaDisk WITH buf <- readBuf

\* Two dials with one closer each, and one dial with two.
TwoDials == INSTANCE DialVerdicts WITH cnt <- obs, Dials <- {d1, d2}, Closers <- {k1}
TwoClosers == INSTANCE DialVerdicts WITH cnt <- obs, Dials <- {d1}, Closers <- {k1, k2}

MCInit ==
  /\ part \in {"sessions", "fec", "relay", "disk", "dials", "closers"}
  /\ Init /\ FEC!Init /\ Relay!Init /\ Disk!Init
  /\ IF part = "dials" THEN TwoDials!Init ELSE TwoClosers!Init
  /\ part \notin {"dials", "closers"} => joint /\ fragmented

MCNext ==
  /\ UNCHANGED part
  /\ IF part = "sessions" THEN Next ELSE UNCHANGED vars
  /\ IF part = "fec" THEN FEC!Next ELSE UNCHANGED fecVars
  /\ IF part = "relay" THEN Relay!Next ELSE UNCHANGED relayVars
  /\ IF part = "disk" THEN Disk!Next ELSE UNCHANGED diskVars
  /\ CASE part = "dials" -> TwoDials!Next
       [] part = "closers" -> TwoClosers!Next
       [] OTHER -> UNCHANGED dialVars

MCSpec == MCInit /\ [][MCNext]_<<part, vars, fecVars, relayVars, diskVars, dialVars>>

-----------------------------------------------------------------------------

\* What the receiver delivers to its handler was sent, whatever packets are
\* lost, duplicated or reordered; a block that waits has a sweeper that will
\* wake up; and a block with enough shards is recovered (ingest, sweepLoop,
\* deliverBlock).
SoundDelivery == part = "fec" => FEC!SoundDelivery /\ FEC!InTolerance

\* Replies find the association that asked, over one route, on an open channel
\* of the lane it sends on, and not after its end (RegisterTarget, deliver,
\* switchLane, openTarget, closeAll).
RepliesFindHome == part = "relay" => Relay!RepliesFindHome

\* What Read returns is what Write was given, in order and without gaps,
\* whatever requests fail or take effect late (sendLoop, recvLoop).
DiskInOrder == part = "disk" => Disk!DiskInOrder

\* Every dial and every connection is judged at most once and on what became
\* of it, and each verdict goes to the arm that was drawn for it
\* (dialTransport, livenessConn, HandshakeStrategy.Report).
VerdictsAreRight ==
  /\ part = "dials" => TwoDials!VerdictsAreRight
  /\ part = "closers" => TwoClosers!VerdictsAreRight
=============================================================================
