------------------------------ MODULE Listener ------------------------------
(***************************************************************************)
(* The server's TCP front (core/protocol): the camouflage listener, which  *)
(* reads a connection's ClientHello and hands it on or relays it to the    *)
(* decoy site (camouflage.go); the per-flow multiplexer behind it, which   *)
(* tells tunnel flows from web requests by their first byte; the preamble  *)
(* of a flow; and the HTTP server that takes the rest (listener.go).       *)
(*                                                                         *)
(* Connections are handed over unbuffered channels, so the giver waits for *)
(* the taker, and each layer has a closed channel of its own.  What a      *)
(* client sends (the hello, the first byte, the preamble) is chosen freely *)
(* when it is read.                                                        *)
(***************************************************************************)
EXTENDS FiniteSets

CONSTANT Conns   \* connections that arrive

VARIABLES
  stage,      \* connection -> where it is
  hello,      \* connection -> what its hello proved: "user", "marker", "stranger"
  open,       \* connections whose socket is open
  accepting,  \* acceptLoop runs
  lclosed,    \* camouflageListener.closed is closed
  running,    \* perflowMux.run runs
  httpClosed, \* perflowMux.httpCh is closed
  mclosed,    \* perflowMux.closed is closed
  serving,    \* http.Server.Serve runs
  ctxDone     \* the server has been told to stop

layers == <<accepting, lclosed, running, httpClosed, mclosed, serving, ctxDone>>
vars == <<stage, hello, open, layers>>

Stages == {"none", "hello", "relay", "handover", "classify", "tohttp",
           "preamble", "token", "http", "tunnel", "gone"}

\* A connection in one of these is in the hands of a goroutine of the front.
Pipeline == {"hello", "handover", "classify", "tohttp", "preamble", "token"}

Init ==
  /\ stage = [c \in Conns |-> "none"] /\ hello = [c \in Conns |-> "none"]
  /\ open = {}
  /\ accepting = TRUE /\ running = TRUE /\ serving = TRUE
  /\ lclosed = FALSE /\ httpClosed = FALSE /\ mclosed = FALSE /\ ctxDone = FALSE

Go(c, s) == stage' = [stage EXCEPT ![c] = s] /\ UNCHANGED open
Drop(c) == stage' = [stage EXCEPT ![c] = "gone"] /\ open' = open \ {c}

-----------------------------------------------------------------------------
(* camouflageListener.                                                     *)

Arrive(c) ==
  /\ accepting /\ ~lclosed /\ stage[c] = "none"
  /\ stage' = [stage EXCEPT ![c] = "hello"] /\ open' = open \cup {c}
  /\ UNCHANGED <<hello, layers>>

\* Any error of Accept ends acceptLoop, a passing one like the listener's end.
AcceptFails ==
  /\ accepting /\ accepting' = FALSE /\ lclosed' = TRUE
  /\ UNCHANGED <<stage, hello, open, running, httpClosed, mclosed, serving, ctxDone>>

Judged(c, h) == hello' = [hello EXCEPT ![c] = h]

\* handle: the selector names the user, or some key's marker matches.
Recognized(c) ==
  /\ stage[c] = "hello"
  /\ \E h \in {"user", "marker"} : Judged(c, h)
  /\ Go(c, "handover") /\ UNCHANGED layers

\* handle: no hello, a partial one, or the address is throttled.
Refused(c) ==
  /\ stage[c] = "hello" /\ Judged(c, "stranger") /\ Drop(c)
  /\ UNCHANGED layers

\* handle: relayToOrigin reaches the decoy site, or it cannot and the
\* connection goes on, marked as a decoy's.
Relayed(c) ==
  /\ stage[c] = "hello" /\ Judged(c, "stranger")
  /\ Go(c, "relay") \/ Go(c, "handover")
  /\ UNCHANGED layers

RelayEnds(c) ==
  /\ stage[c] = "relay" /\ Drop(c)
  /\ UNCHANGED <<hello, layers>>

\* handOver: the multiplexer's Accept takes the connection.
HandOver(c) ==
  /\ stage[c] = "handover" /\ running /\ Go(c, "classify")
  /\ UNCHANGED <<hello, layers>>

\* Mutant of HandOverClosed: the giver does not look at closed.
HandOverClosed_Waits(c) ==
  /\ stage[c] = "handover" /\ lclosed /\ running /\ Drop(c)
  /\ UNCHANGED <<hello, layers>>

HandOverClosed(c) ==
  /\ stage[c] = "handover" /\ lclosed /\ Drop(c)
  /\ UNCHANGED <<hello, layers>>

-----------------------------------------------------------------------------
(* perflowMux.                                                             *)

RunEnds ==
  /\ running /\ lclosed
  /\ running' = FALSE /\ httpClosed' = TRUE
  /\ UNCHANGED <<stage, hello, open, accepting, lclosed, mclosed, serving, ctxDone>>

\* Mutant of Classify: what the camouflage layer decided is not looked at.
Classify_Sniff(c) ==
  /\ stage[c] = "classify"
  /\ Drop(c) \/ Go(c, "preamble") \/ Go(c, "tohttp")
  /\ UNCHANGED <<hello, layers>>

\* A decoy's connection goes to the HTTP server untouched; of another the
\* first byte is read: an error, the magic byte, or something else.
Classify(c) ==
  /\ stage[c] = "classify"
  /\ IF hello[c] = "stranger" THEN Go(c, "tohttp")
     ELSE Drop(c) \/ Go(c, "preamble") \/ Go(c, "tohttp")
  /\ UNCHANGED <<hello, layers>>

\* The HTTP server's Accept takes the connection.
ToHttp(c) ==
  /\ stage[c] = "tohttp" /\ serving /\ ~httpClosed /\ Go(c, "http")
  /\ UNCHANGED <<hello, layers>>

\* m.closed is seen; or httpCh is closed, the send panics and is recovered.
ToHttpClosed(c) ==
  /\ stage[c] = "tohttp" /\ (mclosed \/ httpClosed) /\ Drop(c)
  /\ UNCHANGED <<hello, layers>>

\* handlePerflowConn: the preamble is read in time, and its token verified.
Preamble(c) ==
  /\ stage[c] = "preamble"
  /\ Drop(c) \/ Go(c, "token")
  /\ UNCHANGED <<hello, layers>>

\* consumeToken, and OnConn if the token is new.
Consume(c) ==
  /\ stage[c] = "token"
  /\ Drop(c) \/ Go(c, "tunnel")
  /\ UNCHANGED <<hello, layers>>

-----------------------------------------------------------------------------
(* http.Server (external) and the end of ListenAndServe.                   *)

\* Serve returns once its listener fails, and closes it on the way out.
ServeEnds ==
  /\ serving /\ (httpClosed \/ mclosed)
  /\ serving' = FALSE /\ mclosed' = TRUE /\ lclosed' = TRUE
  /\ UNCHANGED <<stage, hello, open, accepting, running, httpClosed, ctxDone>>

HttpDone(c) ==
  /\ stage[c] = "http" /\ Drop(c)
  /\ UNCHANGED <<hello, layers>>

\* srv.Close once the context is done: m.closed first, then the listener.
Stop ==
  /\ ~ctxDone /\ ctxDone' = TRUE /\ mclosed' = TRUE
  /\ UNCHANGED <<stage, hello, open, accepting, lclosed, running, httpClosed, serving>>

StopListener ==
  /\ ctxDone /\ ~lclosed /\ lclosed' = TRUE
  /\ UNCHANGED <<stage, hello, open, accepting, running, httpClosed, mclosed, serving, ctxDone>>

-----------------------------------------------------------------------------

Handle(c) == Recognized(c) \/ Refused(c) \/ Relayed(c) \/ HandOver(c) \/ HandOverClosed(c)
Mux(c) == Classify(c) \/ ToHttp(c) \/ ToHttpClosed(c) \/ Preamble(c) \/ Consume(c)

Next == \/ \E c \in Conns : Arrive(c) \/ Handle(c) \/ RelayEnds(c) \/ Mux(c) \/ HttpDone(c)
        \/ AcceptFails \/ RunEnds \/ ServeEnds \/ Stop \/ StopListener

Spec == Init /\ [][Next]_vars

-----------------------------------------------------------------------------
(* Properties.                                                             *)

\* The type invariant of the front.
TypeOK ==
  /\ stage \in [Conns -> Stages]
  /\ hello \in [Conns -> {"none", "user", "marker", "stranger"}]
  /\ \A c \in Conns : c \in open <=> stage[c] \notin {"none", "gone"}
  /\ httpClosed <=> ~running

\* A connection becomes a tunnel only if its hello was recognized: one the
\* camouflage layer took for a stranger's, and could not relay, is served as
\* a web request whatever it sends.
OnlyRecognizedTunnel ==
  \A c \in Conns : stage[c] \in {"preamble", "token", "tunnel"} => hello[c] \in {"user", "marker"}

\* A closed layer is closed all the way down in the end.
ClosesThrough == (mclosed \/ lclosed) ~> (lclosed /\ mclosed /\ ~accepting /\ ~running /\ ~serving)

\* No connection waits for ever in the front: it is relayed, served, made a
\* tunnel or closed, also when a layer closes while it is handed over.
Decided == \A c \in Conns : (stage[c] \in Pipeline) ~> (stage[c] \notin Pipeline)

\* The front settles: what was closed in one layer closes in all, and no
\* connection is left between two of them.
FrontSettles == ClosesThrough /\ Decided
=============================================================================
