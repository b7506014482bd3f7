---------------------------- MODULE StreamReuse ----------------------------
(***************************************************************************)
(* One tunnel connection carrying stream after stream: the client's        *)
(* keepAliveStream (core/tunnel/keepalive.go, datapath.go), the framing    *)
(* both ends use (core/protocol/framed.go) and the server's session loop   *)
(* (runSession, handleProxyStream, relayTCP, relayUDP, spliceFrom in       *)
(* core/relay/relay.go).                                                   *)
(*                                                                         *)
(* A wire is the sequence of records in flight in one direction; "fin" is  *)
(* the end of the connection.  Records are whole: FramedConn writes each   *)
(* with one Write under its lock.  A spliced stream's answer travels on    *)
(* the raw socket under TLS; both ends agree on that in the header, so it  *)
(* is the same ordered wire here.  After the server's switch marker the    *)
(* answer is bare bytes ("raw").                                           *)
(*                                                                         *)
(* Abstracted: lengths, padding, what the targets are, durations (a        *)
(* timeout may fire whenever its wait is pending), and what makes a dial   *)
(* or a target fail.  Parking and taking are IdleSet's; here they are the  *)
(* client state "parked" and the watcher's reaction to anything arriving.  *)
(***************************************************************************)
EXTENDS Integers, Sequences

CONSTANTS
  MaxStream,  \* streams opened on the connection
  MaxData,    \* data records per stream and direction
  MaxFill,    \* filler records per direction
  Kinds,      \* the streams clients open: "tcp", "splice", "udp"
  Busy,       \* whether the server may be short of CPU (cpuBusy)
  Lookalike   \* whether bare payload bytes may happen to read as an end record

Streams == 1..MaxStream

VARIABLES
  up, down,        \* the wires
  cl,              \* client: "parked", "open", "drain", "closed"
  cs,              \* the client's current stream
  kind,            \* each stream's kind, as its header says
  cDone,           \* down.done: the reader has met the end marker
  cRaw,            \* the reader has met the switch marker
  sv,              \* server: "header", "dial", "relay", "closed"
  ss,              \* the stream the server is serving
  upCopy, dnCopy,  \* the two copies: "run", "ok", "err"
  sDone,           \* framed.done: the client's end marker was read
  ended, switched, \* downFramed.ended, downFramed.switched
  sentUp, sentDn,  \* records each stream's ends have put in
  gotUp, gotDn,    \* what each stream's ends have got out
  fills,           \* filler records written so far
  bad              \* the server found something else where a header belongs

clVars == <<cl, cs, kind, cDone, cRaw>>
svVars == <<sv, ss, upCopy, dnCopy, sDone, ended, switched>>
ioVars == <<sentUp, sentDn, gotUp, gotDn>>
vars == <<up, down, clVars, svVars, ioVars, fills, bad>>

Hdr(s)     == [k |-> "hdr", s |-> s, i |-> 0]
Data(s, i) == [k |-> "data", s |-> s, i |-> i]
Mark(m)    == [k |-> m, s |-> 0, i |-> 0]

Init ==
  /\ up = <<>> /\ down = <<>>
  /\ cl = "parked" /\ cs = 0 /\ cDone = FALSE /\ cRaw = FALSE
  /\ kind = [s \in Streams |-> "tcp"]
  /\ sv = "header" /\ ss = 0 /\ upCopy = "run" /\ dnCopy = "run"
  /\ sDone = FALSE /\ ended = FALSE /\ switched = FALSE
  /\ sentUp = [s \in Streams |-> 0] /\ sentDn = [s \in Streams |-> 0]
  /\ gotUp = [s \in Streams |-> <<>>] /\ gotDn = [s \in Streams |-> <<>>]
  /\ fills = 0 /\ bad = FALSE

-----------------------------------------------------------------------------
(* The client.                                                             *)

\* openStreamPerFlow on a pooled connection: the header, unframed.
OpenStream(k) ==
  /\ cl = "parked" /\ cs < MaxStream
  /\ cl' = "open" /\ cs' = cs + 1 /\ kind' = [kind EXCEPT ![cs + 1] = k]
  /\ cDone' = FALSE /\ cRaw' = FALSE
  /\ up' = Append(up, Hdr(cs + 1))
  /\ UNCHANGED <<down, svVars, ioVars, fills, bad>>

ClientWrite ==
  /\ cl = "open" /\ sentUp[cs] < MaxData
  /\ sentUp' = [sentUp EXCEPT ![cs] = @ + 1]
  /\ up' = Append(up, Data(cs, sentUp[cs] + 1))
  /\ UNCHANGED <<down, clVars, svVars, sentDn, gotUp, gotDn, fills, bad>>

\* SpliceTo / Read: data goes to the application, filler is skipped, the end
\* marker is EOF, after the switch marker bare bytes are copied.
ClientRead ==
  /\ cl = "open" /\ ~cDone
  /\ down # <<>> /\ Head(down).k # "fin"
  /\ down' = Tail(down)
  /\ LET r == Head(down)
     IN  /\ gotDn' = IF r.k \in {"data", "raw"}
                       THEN [gotDn EXCEPT ![cs] = Append(@, <<r.s, r.i>>)]
                       ELSE gotDn
         /\ cDone' = (r.k = "end")
         /\ cRaw' = (cRaw \/ r.k = "switch")
  /\ UNCHANGED <<up, cl, cs, kind, svVars, sentUp, sentDn, gotUp, fills, bad>>

\* keepAliveStream.Close: the application is finished, or gave up.
ClientClose ==
  /\ cl = "open"
  /\ cl' = "drain"
  /\ up' = Append(up, Mark("end"))
  /\ UNCHANGED <<down, cs, kind, cDone, cRaw, svVars, ioVars, fills, bad>>

\* Closing the connection outright.
Hangup ==
  /\ cl' = "closed"
  /\ up' = Append(up, Mark("fin"))
  /\ UNCHANGED <<cs, kind, cDone, cRaw>>

\* Mutant of Drain: an exhausted wire counts as the end of the stream.
Drain_Hasty ==
  /\ cl = "drain" /\ ~cDone
  /\ cDone' = TRUE
  /\ UNCHANGED <<up, down, cl, cs, kind, cRaw, svVars, ioVars, fills, bad>>

\* What readRecord accepts.  Bare bytes may be records of another protocol:
\* a TLS 1.2 record whose nonce starts with two zero bytes reads as an end.
Parses == {"data", "fill", "end"} \cup (IF Lookalike THEN {"raw"} ELSE {})

\* drainToEnd: discard what is left, up to the server's end marker.  Bare
\* bytes are taken for records: they fail to parse, or pass for one.
Drain ==
  /\ cl = "drain" /\ ~cDone /\ down # <<>>
  /\ LET r == Head(down)
     IN  \/ /\ r.k \in Parses
            /\ down' = Tail(down)
            /\ cDone' = (r.k \in {"end", "raw"})
            /\ UNCHANGED <<up, cl, cs, kind, cRaw>>
         \/ /\ r.k \in {"switch", "raw", "fin"}
            /\ Hangup
            /\ UNCHANGED down
  /\ UNCHANGED <<svVars, ioVars, fills, bad>>

\* drainWait or drainLimit is used up.
DrainGivesUp ==
  /\ cl = "drain" /\ ~cDone
  /\ Hangup
  /\ UNCHANGED <<down, svVars, ioVars, fills, bad>>

ParkConn ==
  /\ cl = "drain" /\ cDone
  /\ cl' = "parked"
  /\ UNCHANGED <<up, down, cs, kind, cDone, cRaw, svVars, ioVars, fills, bad>>

\* The watcher of a parked connection gets something, or the set is shut.
Unpark ==
  /\ cl = "parked"
  /\ Hangup
  /\ UNCHANGED <<down, svVars, ioVars, fills, bad>>

\* idleSet.fillLoop on a parked connection, FramedConn.fillLoop on a stream.
ClientFill ==
  /\ cl \in {"parked", "open"} /\ fills < MaxFill
  /\ up' = Append(up, Mark("fill"))
  /\ fills' = fills + 1
  /\ UNCHANGED <<down, clVars, svVars, ioVars, bad>>

-----------------------------------------------------------------------------
(* The server.                                                             *)

ServerClose ==
  /\ sv' = "closed"
  /\ down' = Append(down, Mark("fin"))

\* readProxyStreamHeader: filler is skipped; anything else closes.
ReadHeader ==
  /\ sv = "header" /\ up # <<>>
  /\ up' = Tail(up)
  /\ LET r == Head(up)
     IN  \/ /\ r.k = "hdr"
            /\ sv' = "dial" /\ ss' = r.s
            /\ UNCHANGED <<down, bad>>
         \/ /\ r.k = "fill"
            /\ UNCHANGED <<down, sv, ss, bad>>
         \/ /\ r.k \notin {"hdr", "fill"}
            /\ ServerClose
            /\ bad' = (bad \/ r.k # "fin")
            /\ UNCHANGED ss
  /\ UNCHANGED <<clVars, upCopy, dnCopy, sDone, ended, switched, ioVars, fills>>

\* proxyHeaderWait, on a new connection only.
HeaderTimeout ==
  /\ sv = "header" /\ ss = 0
  /\ ServerClose
  /\ UNCHANGED <<up, clVars, ss, upCopy, dnCopy, sDone, ended, switched, ioVars,
                 fills, bad>>

\* Route, dial and frame the stream, or refuse it.
DialTarget ==
  /\ sv = "dial"
  /\ sv' = "relay"
  /\ upCopy' = "run" /\ dnCopy' = "run"
  /\ sDone' = FALSE /\ ended' = FALSE /\ switched' = FALSE
  /\ UNCHANGED <<up, down, clVars, ss, ioVars, fills, bad>>

DialRefused ==
  /\ sv = "dial"
  /\ ServerClose
  /\ UNCHANGED <<up, clVars, ss, upCopy, dnCopy, sDone, ended, switched, ioVars,
                 fills, bad>>

\* The up copy: one record to the target, or the end of the stream, or the
\* end of the connection.  relayUDP's copy always ends with an error.
CopyUp ==
  /\ sv = "relay" /\ upCopy = "run" /\ up # <<>>
  /\ up' = Tail(up)
  /\ LET r == Head(up)
     IN  /\ gotUp' = IF r.k = "data" THEN [gotUp EXCEPT ![ss] = Append(@, <<r.s, r.i>>)]
                                     ELSE gotUp
         /\ sDone' = (r.k = "end")
         /\ upCopy' = CASE r.k \in {"data", "fill"} -> "run"
                       [] r.k \in {"end", "fin"} /\ kind[ss] # "udp" -> "ok"
                       [] OTHER -> "err"
         /\ bad' = (bad \/ r.k = "hdr")
  /\ UNCHANGED <<down, clVars, sv, ss, dnCopy, ended, switched, sentUp, sentDn,
                 gotDn, fills>>

\* The target stops accepting.
CopyUpFails ==
  /\ sv = "relay" /\ upCopy = "run"
  /\ upCopy' = "err"
  /\ UNCHANGED <<up, down, clVars, sv, ss, dnCopy, sDone, ended, switched, ioVars,
                 fills, bad>>

\* The down copy: one piece of the answer, framed or bare.
CopyDown ==
  /\ sv = "relay" /\ dnCopy = "run" /\ sentDn[ss] < MaxData
  /\ sentDn' = [sentDn EXCEPT ![ss] = @ + 1]
  /\ down' = Append(down, [Data(ss, sentDn[ss] + 1)
                             EXCEPT !.k = IF switched THEN "raw" ELSE "data"])
  /\ UNCHANGED <<up, clVars, svVars, sentUp, gotUp, gotDn, fills, bad>>

\* spliceFrom on a busy server, after spliceAfterBytes.
SwitchRaw ==
  /\ sv = "relay" /\ dnCopy = "run" /\ kind[ss] = "splice"
  /\ Busy /\ ~ended /\ sentDn[ss] > 0
  /\ ended' = TRUE /\ switched' = TRUE
  /\ down' = Append(down, Mark("switch"))
  /\ UNCHANGED <<up, clVars, sv, ss, upCopy, dnCopy, sDone, ioVars, fills, bad>>

\* EndStream writes the marker once, and not after a switch.
EndStream ==
  /\ ended' = TRUE
  /\ down' = IF ended THEN down ELSE Append(down, Mark("end"))

\* The target has finished: relayTCP's downDone reports it on the wire.
CopyDownEnds ==
  /\ sv = "relay" /\ dnCopy = "run" /\ upCopy # "err" /\ kind[ss] # "udp"
  /\ dnCopy' = "ok"
  /\ EndStream
  /\ UNCHANGED <<up, clVars, sv, ss, upCopy, sDone, switched, ioVars, fills, bad>>

\* Mutant of CopyDownFails: downDone is called whatever ended the copy.
CopyDownFails_Ends ==
  /\ sv = "relay" /\ dnCopy = "run"
  /\ dnCopy' = "err"
  /\ EndStream
  /\ UNCHANGED <<up, clVars, sv, ss, upCopy, sDone, switched, ioVars, fills, bad>>

\* The target failed, or did not finish within targetDrainWait of the
\* client's end.  relayUDP closes its framed stream nevertheless.
CopyDownFails ==
  /\ sv = "relay" /\ dnCopy = "run"
  /\ dnCopy' = "err"
  /\ IF kind[ss] = "udp" THEN EndStream ELSE UNCHANGED <<ended, down>>
  /\ UNCHANGED <<up, clVars, sv, ss, upCopy, sDone, switched, ioVars, fills, bad>>

\* Mutant of Finish: a stream without the client's end marker is waited for.
Finish_Waits ==
  /\ sv = "relay" /\ upCopy # "run" /\ dnCopy # "run"
  /\ sDone /\ ~switched
  /\ sv' = "header"
  /\ EndStream
  /\ UNCHANGED <<up, clVars, ss, upCopy, dnCopy, sDone, switched, ioVars, fills, bad>>

\* Both copies are over: keep the connection or close it.
Finish ==
  /\ sv = "relay" /\ upCopy # "run" /\ dnCopy # "run"
  /\ IF sDone /\ ~switched
       THEN /\ sv' = "header"
            /\ EndStream
       ELSE /\ ServerClose
            /\ UNCHANGED ended
  /\ UNCHANGED <<up, clVars, ss, upCopy, dnCopy, sDone, switched, ioVars, fills, bad>>

ServerFill ==
  /\ sv = "relay" /\ ~ended /\ fills < MaxFill
  /\ down' = Append(down, Mark("fill"))
  /\ fills' = fills + 1
  /\ UNCHANGED <<up, clVars, svVars, ioVars, bad>>

-----------------------------------------------------------------------------
Client ==
  \/ \E k \in Kinds : OpenStream(k)
  \/ ClientWrite \/ ClientRead \/ ClientClose
  \/ Drain \/ DrainGivesUp \/ ParkConn \/ Unpark \/ ClientFill

Server ==
  \/ ReadHeader \/ HeaderTimeout \/ DialTarget \/ DialRefused
  \/ CopyUp \/ CopyUpFails \/ CopyDown \/ SwitchRaw
  \/ CopyDownEnds \/ CopyDownFails \/ Finish \/ ServerFill

Next == Client \/ Server

Spec == Init /\ [][Next]_vars

-----------------------------------------------------------------------------
(* Properties.                                                             *)

Rec == [k : {"hdr", "data", "raw", "end", "switch", "fill", "fin"},
        s : 0..MaxStream, i : 0..MaxData]

\* The type invariant of the two ends and the two wires; a server that dials
\* or relays serves a stream the client has opened.
TypeOK ==
  /\ up \in Seq(Rec) /\ down \in Seq(Rec)
  /\ cl \in {"parked", "open", "drain", "closed"}
  /\ cs \in 0..MaxStream /\ ss \in 0..cs
  /\ sv \in {"dial", "relay"} => ss > 0
  /\ kind \in [Streams -> {"tcp", "splice", "udp"}]
  /\ sv \in {"header", "dial", "relay", "closed"}
  /\ upCopy \in {"run", "ok", "err"} /\ dnCopy \in {"run", "ok", "err"}
  /\ {cDone, cRaw, sDone, ended, switched, bad} \subseteq BOOLEAN
  /\ \A s \in Streams : sentUp[s] \in 0..MaxData /\ sentDn[s] \in 0..MaxData
  /\ fills \in 0..MaxFill

\* Where the server expects a header it never finds a record of an earlier
\* stream, and no stream swallows the header of the next: reuse leaves
\* nothing behind on the up wire.
NoLeftovers == ~bad

\* A connection goes back to the pool only when nothing of its last stream is
\* left in flight towards the client ("an unfinished stream must end up
\* closed, never in the set where the next user would read someone else's
\* tail", manager_test.go).
CleanWhenParked ==
  cl = "parked" => \A j \in 1..Len(down) : down[j].k = "fin"

\* Nothing of a stream is left behind for the connection's next one, on the
\* wire to the server or on the wire to the client.
NothingStays == TypeOK /\ NoLeftovers /\ CleanWhenParked

\* An end marker read by an application that has not closed its stream means
\* the whole answer: the target finished by itself and every record of it
\* was delivered.
EndMeansComplete ==
  cl = "open" /\ cDone /\ kind[cs] # "udp" =>
    /\ Len(gotDn[cs]) = sentDn[cs]
    /\ ss = cs /\ dnCopy = "ok"

AllPipes == Streams \X {"up", "down"}

Tagged(s, d, seq) == [j \in 1..Len(seq) |-> <<<<seq[j][1], d>>, seq[j][2]>>]

Abstract == INSTANCE StreamPipes WITH
  Pipes <- AllPipes,
  sent <- [p \in AllPipes |->
             LET n == IF p[2] = "up" THEN sentUp[p[1]] ELSE sentDn[p[1]]
             IN  [j \in 1..n |-> <<p, j>>]],
  got <- [p \in AllPipes |->
            Tagged(p[1], p[2], IF p[2] = "up" THEN gotUp[p[1]] ELSE gotDn[p[1]])]

\* Streams that share a connection are as good as streams that do not: each
\* end of each stream gets a prefix of what its own other end sent, in order.
OwnPipes == Abstract!Spec

\* The server does not stay on a connection its client has closed.
ServerLetsGo == (cl = "closed") ~> (sv = "closed")

\* The end of the answer reaches an application that waits for it
\* (relayTCP: "down reports the end of the answer as soon as the origin has
\* finished, so the caller can say so on the wire").
AnswerEndReported ==
  (sv = "relay" /\ ss = cs /\ cl = "open" /\ dnCopy = "ok")
    ~> (cDone \/ cl # "open" \/ \E j \in 1..Len(down) : down[j].k = "fin")

\* A stream one of whose copies failed costs its connection (relayTCP: "a
\* stream whose copy ended in an error is never handed back to the pool").
FailedNeverReused ==
  [][sv = "relay" /\ sv' = "header" /\ kind[ss] # "udp"
       => upCopy = "ok" /\ dnCopy = "ok"]_vars
=============================================================================
