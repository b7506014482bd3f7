------------------------------- MODULE ApiDoor -------------------------------
(***************************************************************************)
(* The way of a request through the server's HTTP API (core/apiserver:     *)
(* middleware.go, api.go): the limit of conns per address, the count of    *)
(* requests in flight, the check of the origin, the answer to preflights,  *)
(* the rate bucket per address and path, the token, and the handler, which *)
(* may panic; Stop meanwhile waits for the requests to end.                *)
(*                                                                         *)
(* Time counts in steps in which a bucket regains one token.  The server   *)
(* runs without a certificate, so there is no HTTP/3 listener.             *)
(***************************************************************************)
EXTENDS Naturals, FiniteSets, FiniteSetsExt

CONSTANTS
  Requests,
  Kind,          \* requests' kinds: records of ip, path, token, origin, preflight
  MaxConnsPerIP,
  Burst,         \* tokens of a full bucket
  CleanEvery, CleanAge,  \* buckets are swept this often, and dropped at this age
  MaxTime

VARIABLES
  at,          \* request -> how far in it is
  answer,      \* request -> the answer it got
  activeConns, inflight,
  bucket,      \* key -> tokens and time of the last request, for known keys
  clean,       \* apiRateClean
  now,
  allowed,     \* key -> requests let through
  server       \* "up", "stopping", "waiting", "stopped" or "timedOut"

adVars == <<at, answer, activeConns, inflight, bucket, clean, now, allowed, server>>

Key(q) == <<Kind[q].ip, Kind[q].path>>
Keys == {Key(q) : q \in Requests}
IPs == {Kind[q].ip : q \in Requests}
Api(q) == Kind[q].path # "sub"          \* under /api/
publicAPIPaths == {"health"}

Init ==
  /\ at = [q \in Requests |-> "new"] /\ answer = [q \in Requests |-> "none"]
  /\ activeConns = [i \in IPs |-> 0] /\ inflight = 0
  /\ bucket = [k \in {} |-> 0] /\ clean = 0 /\ now = 0
  /\ allowed = [k \in Keys |-> 0] /\ server = "up"

Goes(q, to) == at' = [at EXCEPT ![q] = to] /\ UNCHANGED answer
\* The request turns back with an answer; the deferred calls follow.
Back(q, a) == at' = [at EXCEPT ![q] = "done"] /\ answer' = [answer EXCEPT ![q] = a]

\* Mutant of connLimitMiddleware: a request that is refused stays counted.
connLimitMiddleware_CountsFirst(q) ==
  /\ at[q] = "new" /\ server = "up"
  /\ IF activeConns[Kind[q].ip] >= MaxConnsPerIP
       THEN at' = [at EXCEPT ![q] = "ended"] /\ answer' = [answer EXCEPT ![q] = "429"]
       ELSE Goes(q, "log")
  /\ activeConns' = [activeConns EXCEPT ![Kind[q].ip] = @ + 1]
  /\ UNCHANGED <<inflight, bucket, clean, now, allowed, server>>

connLimitMiddleware(q) ==
  /\ at[q] = "new" /\ server = "up"
  /\ IF activeConns[Kind[q].ip] >= MaxConnsPerIP
       THEN /\ at' = [at EXCEPT ![q] = "ended"] /\ answer' = [answer EXCEPT ![q] = "429"]
            /\ UNCHANGED activeConns
       ELSE Goes(q, "log") /\ activeConns' = [activeConns EXCEPT ![Kind[q].ip] = @ + 1]
  /\ UNCHANGED <<inflight, bucket, clean, now, allowed, server>>

loggingMiddleware(q) ==
  /\ at[q] = "log" /\ Goes(q, "origin") /\ inflight' = inflight + 1
  /\ UNCHANGED <<activeConns, bucket, clean, now, allowed, server>>

\* A change must come from an allowed origin; a preflight ends here.
securityHeadersMiddleware(q) ==
  /\ at[q] = "origin"
  /\ IF Kind[q].preflight THEN Back(q, "204")
     ELSE IF Api(q) /\ ~Kind[q].origin THEN Back(q, "403")
     ELSE Goes(q, "rate")
  /\ UNCHANGED <<activeConns, inflight, bucket, clean, now, allowed, server>>

\* The sweep that a request may run into.
Swept ==
  IF now - clean > CleanEvery
    THEN [k \in {j \in DOMAIN bucket : now - bucket[j].last <= CleanAge} |-> bucket[k]]
    ELSE bucket

\* Refill for the time since the last request, then take one token.
apiRateMiddleware(q) ==
  /\ at[q] = "rate"
  /\ IF ~Api(q) THEN Goes(q, "auth") /\ UNCHANGED <<bucket, clean, allowed>>
     ELSE LET k == Key(q)
              b == IF k \in DOMAIN Swept THEN Swept[k] ELSE [tokens |-> Burst, last |-> now]
              tokens == Min({Burst, b.tokens + (now - b.last)})
              ok == tokens >= 1
          IN /\ bucket' = [j \in DOMAIN Swept \cup {k} |->
                             IF j = k THEN [tokens |-> IF ok THEN tokens - 1 ELSE tokens, last |-> now]
                             ELSE Swept[j]]
             /\ clean' = IF now - clean > CleanEvery THEN now ELSE clean
             /\ IF ok THEN Goes(q, "auth") /\ allowed' = [allowed EXCEPT ![k] = @ + 1]
                ELSE Back(q, "429") /\ UNCHANGED allowed
  /\ UNCHANGED <<activeConns, inflight, now, server>>

authMiddleware(q) ==
  /\ at[q] = "auth"
  /\ IF Api(q) /\ Kind[q].path \notin publicAPIPaths /\ ~Kind[q].token
       THEN Back(q, "401") ELSE Goes(q, "handler")
  /\ UNCHANGED <<activeConns, inflight, bucket, clean, now, allowed, server>>

\* The handler answers, or panics and the recovery answers.
Handler(q) ==
  /\ at[q] = "handler" /\ (Back(q, "200") \/ Back(q, "500"))
  /\ UNCHANGED <<activeConns, inflight, bucket, clean, now, allowed, server>>

\* On the way out, panicking or not: first the count in flight, then the
\* conn of the address.
Deferred(q) ==
  \/ /\ at[q] = "done" /\ Goes(q, "logged") /\ inflight' = inflight - 1 /\ UNCHANGED activeConns
     /\ UNCHANGED <<bucket, clean, now, allowed, server>>
  \/ /\ at[q] = "logged" /\ Goes(q, "ended")
     /\ activeConns' = [activeConns EXCEPT ![Kind[q].ip] = @ - 1] /\ UNCHANGED inflight
     /\ UNCHANGED <<bucket, clean, now, allowed, server>>

Inside == {q \in Requests : at[q] \notin {"new", "ended"}}

\* Shutdown refuses new requests and waits for those there are; then Stop
\* waits for the count.  Both give up at the deadline.
Stop ==
  /\ \/ server = "up" /\ server' = "stopping"
     \/ server = "stopping" /\ Inside = {} /\ server' = "waiting"
     \/ server = "waiting" /\ inflight = 0 /\ server' = "stopped"
     \/ server \in {"stopping", "waiting"} /\ server' = "timedOut"
  /\ UNCHANGED <<at, answer, activeConns, inflight, bucket, clean, now, allowed>>

Tick ==
  /\ now < MaxTime /\ now' = now + 1
  /\ UNCHANGED <<at, answer, activeConns, inflight, bucket, clean, allowed, server>>

Next ==
  \/ \E q \in Requests :
       \/ connLimitMiddleware(q) \/ loggingMiddleware(q) \/ securityHeadersMiddleware(q)
       \/ apiRateMiddleware(q) \/ authMiddleware(q) \/ Handler(q) \/ Deferred(q)
  \/ Stop \/ Tick

Spec == Init /\ [][Next]_adVars

-----------------------------------------------------------------------------
(* Properties.                                                             *)

\* The counts are those of the requests inside, also after panics; a handler
\* runs only for requests that may ask; in any time no more requests of one
\* address and path pass than a full bucket and its refill allow, sweeps of
\* the buckets included; and once Stop has returned before its deadline no
\* request is inside (connLimitMiddleware, loggingMiddleware,
\* apiRateMiddleware, authMiddleware, Stop).
ApiDoorIsSound ==
  /\ \A i \in IPs : /\ activeConns[i] = Cardinality({q \in Inside : Kind[q].ip = i})
                    /\ activeConns[i] <= MaxConnsPerIP
  /\ inflight = Cardinality({q \in Inside : at[q] \notin {"log", "logged"}})
  /\ \A q \in Requests : at[q] = "handler" \/ answer[q] \in {"200", "500"} =>
       ~Kind[q].preflight /\ (Api(q) => Kind[q].origin /\ (Kind[q].token \/ Kind[q].path \in publicAPIPaths))
  /\ \A k \in Keys : allowed[k] <= Burst + now
  /\ server = "stopped" => Inside = {}
=============================================================================
