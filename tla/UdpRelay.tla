------------------------------ MODULE UdpRelay ------------------------------
(***************************************************************************)
(* The client's UDP associations (udpRelay in core/socks5/module.go), the  *)
(* datagram lane they share (datagramLane in core/tunnel/selector.go) and  *)
(* the reply channels registered with it (DatagramClient in                *)
(* core/protocol/quic/datagram.go).                                        *)
(*                                                                         *)
(* Each association has one goroutine that forwards datagrams and one pump *)
(* per stream or channel it has opened.  A target is reached over the lane *)
(* when there is one and over a stream of its own otherwise.  Lanes,       *)
(* streams and channels are numbered in the order they are made.  Payloads *)
(* are left out; a reply that finds its channel full is dropped.           *)
(***************************************************************************)
EXTENDS Integers, FiniteSets

CONSTANTS
  Relays,     \* UDP associations
  Keys,       \* targets
  MaxLane,    \* lanes dialled in all
  MaxStream,  \* streams opened in all
  MaxChan     \* channels registered in all

LaneIds == 1..MaxLane
Sids == 1..MaxStream
Cids == 1..MaxChan

VARIABLES
  quicGD, dialing,  \* datagramLane: the current lane or 0; "no", "dial", "adopted"
  lanes, laneUp,    \* lanes dialled; the ones whose connection is alive
  refused,          \* the lanes whose registration failed
  targets,          \* DatagramClient.targets of every lane: key -> channel or 0
  chans,            \* the channels made: who registered it, where, open or not
  streams,          \* the streams made: association, target, and whether it is
                    \* "open", "ended" (by the peer) or "closed"
  strm, rt, rlane,  \* udpRelay: streams, rtTargets, lane
  fwd,              \* forward: where it is, its target, and the stream, channel
                    \* and lane it read under RLock
  pump              \* the pump of every stream: "none", "read", "drop", "close"

laneVars == <<quicGD, dialing, lanes, laneUp, refused>>
relVars  == <<strm, rt, rlane>>
vars     == <<laneVars, targets, chans, streams, relVars, fwd, pump>>

\* The record of a forward; At(p) for one that is not in progress.
Fwd(p, k, s, c, l) == [at |-> p, key |-> k, s |-> s, c |-> c, l |-> l]
At(p) == Fwd(p, CHOOSE k \in Keys : TRUE, 0, 0, 0)

Init ==
  /\ quicGD = 0 /\ dialing = "no" /\ lanes = 0 /\ laneUp = {} /\ refused = {}
  /\ targets = [l \in LaneIds |-> [k \in Keys |-> 0]]
  /\ chans = <<>> /\ streams = <<>>
  /\ strm = [r \in Relays |-> [k \in Keys |-> 0]]
  /\ rt = [r \in Relays |-> [k \in Keys |-> 0]]
  /\ rlane = [r \in Relays |-> 0]
  /\ fwd = [r \in Relays |-> At("idle")]
  /\ pump = [s \in Sids |-> "none"]

Made(f) == Cardinality(DOMAIN f)
With(f, i, v) == [x \in DOMAIN f \cup {i} |-> IF x = i THEN v ELSE f[x]]

-----------------------------------------------------------------------------
(* The lane (selector.go, and the QUIC dial it hands its callback to).     *)

otherVars == <<targets, chans, streams, relVars, fwd, pump>>

\* startDatagramLane: one dial at a time, and none while there is a lane.
StartLane ==
  /\ quicGD = 0 /\ dialing = "no" /\ lanes < MaxLane
  /\ dialing' = "dial"
  /\ UNCHANGED <<quicGD, lanes, laneUp, refused, otherVars>>

\* adoptDatagramConn, called as soon as the QUIC connection is up.
Adopt ==
  /\ dialing = "dial" /\ dialing' = "adopted"
  /\ lanes' = lanes + 1 /\ laneUp' = laneUp \cup {lanes + 1}
  /\ quicGD' = lanes + 1
  /\ UNCHANGED <<refused, otherVars>>

\* The registration request is answered and the dial is over.
DialOk ==
  /\ dialing = "adopted" /\ dialing' = "no"
  /\ UNCHANGED <<quicGD, lanes, laneUp, refused, otherVars>>

\* The connection, or the registration over it, failed.
DialFails ==
  /\ dialing # "no" /\ dialing' = "no"
  /\ refused' = IF dialing = "adopted" THEN refused \cup {lanes} ELSE refused
  /\ UNCHANGED <<quicGD, lanes, laneUp, otherVars>>

\* The lane's connection ends, for any reason.
LaneDies(l) ==
  /\ l \in laneUp /\ laneUp' = laneUp \ {l}
  /\ UNCHANGED <<quicGD, dialing, lanes, refused, otherVars>>

\* The goroutine that waits for it forgets the lane if it is still current.
LaneForgotten(l) ==
  /\ l \in (1..lanes) \ laneUp
  /\ quicGD = l /\ quicGD' = 0
  /\ UNCHANGED <<dialing, lanes, laneUp, refused, otherVars>>

-----------------------------------------------------------------------------
(* The channels of a lane (datagram.go).                                   *)

\* The channel is what its lane has for its target.
Holds(c) == targets[chans[c].lane][chans[c].key] = c

\* Mutant of Dropped: whatever is registered for the target goes.
Dropped_Any(C) == C

\* unregister: a channel nobody has replaced is taken out and closed; one
\* that has been replaced is left as it is.
Dropped(C) == {c \in C : Holds(c)}

AfterTargets(C) ==
  [l \in LaneIds |-> [k \in Keys |->
     IF \E c \in Dropped(C) : chans[c].lane = l /\ chans[c].key = k THEN 0
     ELSE targets[l][k]]]

AfterChans(C) ==
  [c \in DOMAIN chans |-> [chans[c] EXCEPT !.open = @ /\ c \notin Dropped(C)]]

-----------------------------------------------------------------------------
(* forward, one goroutine per association.                                 *)

Goto(r, p) == fwd' = [fwd EXCEPT ![r] = IF p \in {"idle", "ended"} THEN At(p)
                                        ELSE [@ EXCEPT !.at = p]]

\* A datagram for k: under RLock, where the target goes and over which lane.
Forward(r, k) ==
  /\ fwd[r].at = "idle"
  /\ fwd' = [fwd EXCEPT ![r] = Fwd("lane", k, strm[r][k], rt[r][k], rlane[r])]
  /\ UNCHANGED <<laneVars, targets, chans, streams, relVars, pump>>

\* DatagramClient: is the lane still the one the association uses?
CheckLane(r) ==
  /\ fwd[r].at = "lane"
  /\ Goto(r, IF quicGD # fwd[r].l THEN "open"
             ELSE IF fwd[r].s # 0 THEN "stream"
             ELSE IF fwd[r].c # 0 THEN "idle"  \* sendDatagram
             ELSE "open")
  /\ UNCHANGED <<laneVars, targets, chans, streams, relVars, pump>>

Mine(r) == {rt[r][k] : k \in Keys} \ {0}

\* switchLane: the channels to unregister because the lane is another one.
Stale(r) == IF quicGD = rlane[r] THEN {} ELSE Mine(r)

\* openTarget, after switchLane: what becomes of the datagram's target.
Route(r) ==
  LET k == fwd[r].key
  IN  IF strm[r][k] # 0 THEN "stream"
      ELSE IF rt[r][k] # 0 /\ Stale(r) = {} THEN "rt"
      ELSE IF quicGD # 0 THEN "register" ELSE "dial"

\* openTarget's third result, for a stream.
Usable(way, up) == way = "stream" \/ (way = "dial" /\ up)

\* switchLane and openTarget, under r.mu.  up: the tunnel is connected and,
\* if a stream is needed, it opens.
Open(r, up) ==
  /\ fwd[r].at = "open"
  /\ LET k    == fwd[r].key
         C    == Stale(r)
         way  == Route(r)
         c    == Made(chans) + 1
         s    == Made(streams) + 1
         base == IF C = {} THEN rt[r] ELSE [j \in Keys |-> 0]
     IN  /\ way = "register" => c <= MaxChan
         /\ way = "dial" => s <= MaxStream
         /\ rlane' = [rlane EXCEPT ![r] = quicGD]
         /\ rt' = [rt EXCEPT ![r] = IF way = "register" /\ up THEN [base EXCEPT ![k] = c] ELSE base]
         /\ targets' = IF way = "register" /\ up
                       THEN [AfterTargets(C) EXCEPT ![quicGD][k] = c] ELSE AfterTargets(C)
         /\ chans' = IF way = "register" /\ up
                     THEN With(AfterChans(C), c, [lane |-> quicGD, key |-> k, open |-> TRUE])
                     ELSE AfterChans(C)
         /\ strm' = [strm EXCEPT ![r][k] = IF way = "dial" /\ up THEN s ELSE @]
         /\ streams' = IF way = "dial" /\ up THEN With(streams, s, [rel |-> r, key |-> k, st |-> "open"]) ELSE streams
         /\ pump' = IF way = "dial" /\ up THEN [pump EXCEPT ![s] = "read"] ELSE pump
         /\ fwd' = [fwd EXCEPT ![r] = IF Usable(way, up)
                                      THEN Fwd("stream", k, strm'[r][k], 0, 0)
                                      ELSE At("idle")]
  /\ UNCHANGED laneVars

\* sendStream: a write that fails takes the stream away.
SendStream(r, ok) ==
  /\ fwd[r].at = "stream"
  /\ ok => streams[fwd[r].s].st # "closed"
  /\ Goto(r, IF ok THEN "idle" ELSE "drop")
  /\ UNCHANGED <<laneVars, targets, chans, streams, relVars, pump>>

\* dropStream: the entry goes, then the stream is closed.
DropStream(r) ==
  /\ fwd[r].at = "drop"
  /\ strm' = [strm EXCEPT ![r][fwd[r].key] = 0]
  /\ Goto(r, "close")
  /\ UNCHANGED <<laneVars, targets, chans, streams, rt, rlane, pump>>

CloseStream(r) ==
  /\ fwd[r].at = "close"
  /\ streams' = [streams EXCEPT ![fwd[r].s].st = "closed"]
  /\ Goto(r, "idle")
  /\ UNCHANGED <<laneVars, targets, chans, relVars, pump>>

\* The association ends: closeAll, under r.mu.  The maps stay as they are.
CloseAll(r) ==
  /\ fwd[r].at = "idle" /\ Goto(r, "ended")
  /\ streams' = [s \in DOMAIN streams |->
       IF \E k \in Keys : strm[r][k] = s THEN [streams[s] EXCEPT !.st = "closed"]
       ELSE streams[s]]
  /\ targets' = AfterTargets(Mine(r)) /\ chans' = AfterChans(Mine(r))
  /\ UNCHANGED <<laneVars, relVars, pump>>

-----------------------------------------------------------------------------
(* The stream's pump, and the stream's other end.                          *)

PeerEnds(s) ==
  /\ s \in DOMAIN streams /\ streams[s].st = "open"
  /\ streams' = [streams EXCEPT ![s].st = "ended"]
  /\ UNCHANGED <<laneVars, targets, chans, relVars, fwd, pump>>

\* Mutant of PumpEnds: the pump returns without its cleanup.
PumpEnds_Silent(s) ==
  /\ pump[s] = "read" /\ streams[s].st # "open"
  /\ pump' = [pump EXCEPT ![s] = "none"]
  /\ UNCHANGED <<laneVars, targets, chans, streams, relVars, fwd>>

\* pumpUDPStreamReplies: a read fails because the stream is over.
PumpEnds(s) ==
  /\ pump[s] = "read" /\ streams[s].st # "open"
  /\ pump' = [pump EXCEPT ![s] = "drop"]
  /\ UNCHANGED <<laneVars, targets, chans, streams, relVars, fwd>>

\* Its cleanup, dropStream: whatever the target's entry holds goes.
PumpDrops(s) ==
  /\ pump[s] = "drop"
  /\ strm' = [strm EXCEPT ![streams[s].rel][streams[s].key] = 0]
  /\ pump' = [pump EXCEPT ![s] = "close"]
  /\ UNCHANGED <<laneVars, targets, chans, streams, rt, rlane, fwd>>

PumpCloses(s) ==
  /\ pump[s] = "close"
  /\ streams' = [streams EXCEPT ![s].st = "closed"]
  /\ pump' = [pump EXCEPT ![s] = "none"]
  /\ UNCHANGED <<laneVars, targets, chans, relVars, fwd>>

-----------------------------------------------------------------------------

Lane == \/ StartLane \/ Adopt \/ DialOk \/ DialFails
        \/ \E l \in LaneIds : LaneDies(l) \/ LaneForgotten(l)

Relay(r) == \/ \E k \in Keys : Forward(r, k)
            \/ CheckLane(r)
            \/ \E b \in BOOLEAN : Open(r, b) \/ SendStream(r, b)
            \/ DropStream(r) \/ CloseStream(r)
            \/ CloseAll(r)

Pump(s) == PumpEnds(s) \/ PumpDrops(s) \/ PumpCloses(s)

Next == \/ Lane
        \/ \E r \in Relays : Relay(r)
        \/ \E s \in Sids : PeerEnds(s) \/ Pump(s)

Spec == Init /\ [][Next]_vars

-----------------------------------------------------------------------------
(* Properties.                                                             *)

\* The type invariant of the lane, the associations and their streams.
TypeOK ==
  /\ quicGD \in 0..lanes /\ lanes \in 0..MaxLane /\ dialing \in {"no", "dial", "adopted"}
  /\ laneUp \subseteq 1..lanes /\ refused \subseteq 1..lanes
  /\ DOMAIN chans \subseteq Cids /\ DOMAIN streams \subseteq Sids
  /\ \A l \in LaneIds, k \in Keys : targets[l][k] \in {0} \cup DOMAIN chans
  /\ \A r \in Relays, k \in Keys :
       /\ strm[r][k] \in {0} \cup DOMAIN streams
       /\ rt[r][k] \in {0} \cup DOMAIN chans
  /\ \A r \in Relays : fwd[r].at \in {"idle", "lane", "open", "stream", "drop", "close", "ended"}
  /\ \A r \in Relays : fwd[r].at \in {"stream", "drop", "close"} => fwd[r].s \in DOMAIN streams
  /\ \A s \in Sids : pump[s] \in {"none", "read", "drop", "close"}

\* deliver sends under the lane's lock on whatever channel it finds: that
\* channel is never a closed one, on which the send would panic.
NoSendOnClosed ==
  \A l \in LaneIds, k \in Keys : targets[l][k] # 0 => chans[targets[l][k]].open

\* The association that registered a target last keeps getting its replies
\* until it lets go, whatever the others unregister.
RegistrationKept ==
  \A r \in Relays, k \in Keys :
    LET c == rt[r][k]
    IN  /\ c # 0 /\ fwd[r].at # "ended"
        /\ \A d \in DOMAIN chans : d > c => chans[d].lane # chans[c].lane \/ chans[d].key # k
        => Holds(c)

\* An association's channels all belong to the lane it sends on.
ChannelsFollowLane ==
  \A r \in Relays, k \in Keys :
    rt[r][k] # 0 => chans[rt[r][k]].lane = rlane[r] /\ chans[rt[r][k]].key = k

\* A target of an association goes over a stream or over the lane, not both:
\* replies would come twice, in two orders.
OneRoute == \A r \in Relays, k \in Keys : strm[r][k] = 0 \/ rt[r][k] = 0

\* When an association has ended, its targets get no replies over the lane.
EndedIsSilent ==
  \A r \in Relays : fwd[r].at = "ended" => \A k \in Keys : rt[r][k] # 0 => ~Holds(rt[r][k])

\* Replies find the association that asked: over one route, the lane it sends
\* on, a channel that is open, and not after its end, whatever the lanes and
\* the other associations do.
RepliesFindHome ==
  /\ TypeOK /\ NoSendOnClosed /\ RegistrationKept
  /\ ChannelsFollowLane /\ OneRoute /\ EndedIsSilent

\* A stream the far end has closed does not stay: its pump gives it up, and
\* the next datagram for the target opens another.
EndedStreamGoes ==
  \A s \in Sids :
    /\ (s \in DOMAIN streams /\ streams[s].st = "ended")
         ~> (s \in DOMAIN streams /\ streams[s].st = "closed")
    /\ (s \in DOMAIN streams /\ streams[s].st = "closed")
         ~> (\A r \in Relays, k \in Keys : strm[r][k] = s => fwd[r].at = "ended")

\* Once registering a lane has failed, no target is moved to it ("datagram
\* lane unavailable, UDP stays on the tunnel", selector.go).
StaysOnTunnel ==
  [][\A c \in DOMAIN chans' \ DOMAIN chans : chans'[c].lane \notin refused]_vars
=============================================================================
