------------------------------- MODULE Socks5 -------------------------------
(***************************************************************************)
(* The client's SOCKS5 door (core/socks5: server.go, module.go) and the    *)
(* relay behind it (common/buf).  The module's goroutine listens until it  *)
(* is stopped.  A connection negotiates, asks, and is refused, sent        *)
(* straight to its target or over the tunnel; what was read to find out    *)
(* what it carries is replayed before the rest.                            *)
(*                                                                         *)
(* UDP associations go on in UdpRelay, the wait for the tunnel in          *)
(* TunnelManager: here it is ready or the deadline passes.                 *)
(***************************************************************************)
EXTENDS Naturals, Sequences

CONSTANTS
  Conns,          \* connections of local applications
  IPs, HomeIPs,   \* addresses, and those BypassAddrDirect calls direct
  MaxSent, Need   \* bytes a client sends, and bytes a sniff asks for

NoIP == "none"
ByName == "by name"

VARIABLES
  running, closed, listener,  \* Module.running; SOCKS5Server.closed, .listener
  sock, lpc, spc,             \* the open socket, the serving goroutine, Stop
  pc,                         \* where a connection is
  why, ip, dialled,           \* bypassRoute's reason and address, what was dialled
  resolveCache,               \* the one host's entry
  sent, eof, taken,           \* the client: bytes sent, write side ended, bytes read
  replay, inHand, got,        \* read ahead; in the pump; at the far end
  upEnd, downEnd, shut        \* how the pumps ended; both connections closed

skServer == <<running, closed, listener, sock, lpc, spc>>
skRoute  == <<why, ip, dialled, resolveCache>>
skBytes  == <<sent, eof, taken, replay, inHand, got, upEnd, downEnd, shut>>
skVars   == <<skServer, pc, skRoute, skBytes>>

Init ==
  /\ running = TRUE /\ closed = FALSE /\ listener = FALSE
  /\ sock = "none" /\ lpc = "top" /\ spc = "idle"
  /\ pc = [c \in Conns |-> "none"]
  /\ why = [c \in Conns |-> "none"]
  /\ ip = [c \in Conns |-> NoIP] /\ dialled = ip
  /\ resolveCache = NoIP
  /\ sent = [c \in Conns |-> 0] /\ taken = sent
  /\ eof = [c \in Conns |-> FALSE] /\ shut = eof
  /\ replay = [c \in Conns |-> <<>>] /\ inHand = replay /\ got = replay
  /\ upEnd = [c \in Conns |-> "no"] /\ downEnd = upEnd

-----------------------------------------------------------------------------
(* Listening.                                                              *)

LoopTop ==
  /\ lpc = "top"
  /\ lpc' = IF running THEN "listen" ELSE "done"
  /\ UNCHANGED <<running, closed, listener, sock, spc, pc, skRoute, skBytes>>

\* The address may be taken: the loop sleeps and tries again.
Listen(ok) ==
  /\ lpc = "listen"
  /\ IF ok THEN sock' = "open" /\ lpc' = "register" ELSE lpc' = "top" /\ UNCHANGED sock
  /\ UNCHANGED <<running, closed, listener, spc, pc, skRoute, skBytes>>

Register ==
  /\ lpc = "register"
  /\ IF closed THEN sock' = "shut" /\ lpc' = "top" /\ UNCHANGED listener
               ELSE listener' = TRUE /\ lpc' = "accept" /\ UNCHANGED sock
  /\ UNCHANGED <<running, closed, spc, pc, skRoute, skBytes>>

Accept(c) ==
  /\ lpc = "accept" /\ sock = "open" /\ pc[c] = "none"
  /\ pc' = [pc EXCEPT ![c] = "greet"]
  /\ UNCHANGED <<skServer, skRoute, skBytes>>

\* Accept fails on the closed socket; ListenAndServe tidies up and returns.
AcceptFails ==
  /\ lpc = "accept" /\ sock = "shut" /\ closed
  /\ lpc' = "top" /\ listener' = FALSE
  /\ UNCHANGED <<running, closed, sock, spc, pc, skRoute, skBytes>>

StopMarks ==
  /\ spc = "idle" /\ running' = FALSE /\ spc' = "marked"
  /\ UNCHANGED <<closed, listener, sock, lpc, pc, skRoute, skBytes>>

StopCloses ==
  /\ spc = "marked" /\ spc' = "done"
  /\ closed' = TRUE /\ listener' = FALSE
  /\ sock' = IF listener THEN "shut" ELSE sock
  /\ UNCHANGED <<running, lpc, pc, skRoute, skBytes>>

-----------------------------------------------------------------------------
(* Negotiation and request.                                                *)

Go(c, to) == pc' = [pc EXCEPT ![c] = to]

\* The method is by password when the server has one and the client offers
\* it, and none when the client offers that.
Handshake(c, password, offers) ==
  /\ pc[c] = "greet"
  /\ Go(c, CASE password /\ "password" \in offers -> "auth"
             [] "none" \in offers -> "request"
             [] OTHER -> "end")
  /\ UNCHANGED <<skServer, skRoute, skBytes>>

Authenticate(c, right) ==
  /\ pc[c] = "auth"
  /\ Go(c, IF right THEN "request" ELSE "end")
  /\ UNCHANGED <<skServer, skRoute, skBytes>>

\* CONNECT is answered before anything is dialled; BIND, and an address of
\* an unknown type, are refused.
Request(c, cmd) ==
  /\ pc[c] = "request"
  /\ Go(c, CASE cmd = "connect" -> "route" [] cmd = "udp" -> "udp" [] OTHER -> "end")
  /\ UNCHANGED <<skServer, skRoute, skBytes>>

\* The 30 s deadline, a read or a write that fails, or the end of the
\* association's connection.
Gives(c) ==
  /\ pc[c] \in {"greet", "auth", "request", "udp"}
  /\ Go(c, "end")
  /\ UNCHANGED <<skServer, skRoute, skBytes>>

-----------------------------------------------------------------------------
(* Routing.                                                                *)

\* route and bypassRoute up to the resolution of a name judged by country.
Decide(c, decision) ==
  /\ pc[c] = "route"
  /\ why' = [why EXCEPT ![c] = decision]
  /\ Go(c, CASE decision = "blocked" -> "end" [] decision = "tunnel" -> "wait"
             [] decision = "list" -> "direct" [] decision = "country" -> "judge")
  /\ UNCHANGED <<skServer, ip, dialled, resolveCache, skBytes>>

\* directIP: the cache, or what a resolver answers now, which is kept.
DirectIP(answer, result) ==
  IF resolveCache # NoIP
    THEN result = resolveCache /\ UNCHANGED resolveCache
    ELSE result = answer /\ resolveCache' = answer

\* Mutant of Judge: the address that was judged is not handed on.
Judge_Forgets(c, answer) ==
  /\ pc[c] = "judge"
  /\ \E a \in IPs \cup {NoIP} :
       /\ DirectIP(answer, a)
       /\ Go(c, IF a \in HomeIPs THEN "direct" ELSE "wait")
  /\ UNCHANGED <<skServer, why, dialled, ip, skBytes>>

\* bypassRoute: the name's address is judged, and handed on when direct.
Judge(c, answer) ==
  /\ pc[c] = "judge"
  /\ \E a \in IPs \cup {NoIP} :
       /\ DirectIP(answer, a)
       /\ ip' = [ip EXCEPT ![c] = IF a \in HomeIPs THEN a ELSE NoIP]
       /\ Go(c, IF a \in HomeIPs THEN "direct" ELSE "wait")
  /\ UNCHANGED <<skServer, why, dialled, skBytes>>

\* dialDirect: the address handed on, or one found now, or the name.
DialDirect(c, answer, ok) ==
  /\ pc[c] = "direct"
  /\ IF ip[c] # NoIP
       THEN dialled' = [dialled EXCEPT ![c] = ip[c]] /\ UNCHANGED resolveCache
       ELSE \E a \in IPs \cup {NoIP} :
              /\ DirectIP(answer, a)
              /\ dialled' = [dialled EXCEPT ![c] = IF a = NoIP THEN ByName ELSE a]
  /\ Go(c, IF ok THEN "relay" ELSE "end")
  /\ UNCHANGED <<skServer, why, ip, skBytes>>

CacheExpires ==
  /\ resolveCache # NoIP /\ resolveCache' = NoIP
  /\ UNCHANGED <<skServer, pc, why, ip, dialled, skBytes>>

\* The tunnel is there in time or is not.
Wait(c, ready) ==
  /\ pc[c] = "wait"
  /\ Go(c, IF ready THEN "sniff" ELSE "end")
  /\ UNCHANGED <<skServer, skRoute, skBytes>>

Bytes(a, b) == [i \in 1..(b - a) |-> a + i]

\* Port 443 waits for the first bytes of a hello however long it takes, and
\* gives up on a client that ends before; other ports but 80 wait 300 ms.
Sniff(c, kind, n) ==
  /\ pc[c] = "sniff" /\ n <= sent[c] /\ n <= Need
  /\ kind = "tls" => n = Need \/ (eof[c] /\ n = sent[c])
  /\ kind = "web" => n = 0
  /\ taken' = [taken EXCEPT ![c] = n]
  /\ replay' = [replay EXCEPT ![c] = Bytes(0, n)]
  /\ Go(c, IF kind = "tls" /\ n < Need THEN "end" ELSE "open")
  /\ UNCHANGED <<skServer, skRoute, sent, eof, inHand, got, upEnd, downEnd, shut>>

OpenStream(c, ok) ==
  /\ pc[c] = "open"
  /\ Go(c, IF ok THEN "relay" ELSE "end")
  /\ UNCHANGED <<skServer, skRoute, skBytes>>

-----------------------------------------------------------------------------
(* buf.Relay: a pump each way; the first to finish closes both ends.       *)

ClientSends(c) ==
  /\ pc[c] \in {"direct", "wait", "sniff", "open", "relay"} /\ ~eof[c] /\ sent[c] < MaxSent
  /\ sent' = [sent EXCEPT ![c] = @ + 1]
  /\ UNCHANGED <<skServer, pc, skRoute, eof, taken, replay, inHand, got, upEnd, downEnd, shut>>

ClientEnds(c) ==
  /\ pc[c] \in {"direct", "wait", "sniff", "open", "relay"} /\ ~eof[c]
  /\ eof' = [eof EXCEPT ![c] = TRUE]
  /\ UNCHANGED <<skServer, pc, skRoute, sent, taken, replay, inHand, got, upEnd, downEnd, shut>>

\* ReadMultiBuffer on the replayed bytes, then on the connection.
UpRead(c) ==
  /\ pc[c] = "relay" /\ upEnd[c] = "no" /\ inHand[c] = <<>>
  /\ CASE replay[c] # <<>> ->
            /\ inHand' = [inHand EXCEPT ![c] = replay[c]] /\ replay' = [replay EXCEPT ![c] = <<>>]
            /\ UNCHANGED <<taken, upEnd>>
       [] replay[c] = <<>> /\ shut[c] ->
            upEnd' = [upEnd EXCEPT ![c] = "error"] /\ UNCHANGED <<inHand, replay, taken>>
       [] replay[c] = <<>> /\ ~shut[c] /\ taken[c] < sent[c] ->
            /\ inHand' = [inHand EXCEPT ![c] = Bytes(taken[c], sent[c])]
            /\ taken' = [taken EXCEPT ![c] = sent[c]]
            /\ UNCHANGED <<replay, upEnd>>
       [] OTHER -> /\ eof[c] /\ upEnd' = [upEnd EXCEPT ![c] = "eof"]
                   /\ UNCHANGED <<inHand, replay, taken>>
  /\ UNCHANGED <<skServer, pc, skRoute, sent, eof, got, downEnd, shut>>

UpWrite(c, ok) ==
  /\ inHand[c] # <<>>
  /\ ok => ~shut[c]
  /\ inHand' = [inHand EXCEPT ![c] = <<>>]
  /\ IF ok THEN got' = [got EXCEPT ![c] = @ \o inHand[c]] /\ UNCHANGED upEnd
           ELSE upEnd' = [upEnd EXCEPT ![c] = "error"] /\ UNCHANGED got
  /\ UNCHANGED <<skServer, pc, skRoute, sent, eof, taken, replay, downEnd, shut>>

\* The pump towards the client ends, when the far end does or has been shut.
DownEnds(c) ==
  /\ pc[c] = "relay" /\ downEnd[c] = "no"
  /\ downEnd' = [downEnd EXCEPT ![c] = "eof"]
  /\ UNCHANGED <<skServer, pc, skRoute, sent, eof, taken, replay, inHand, got, upEnd, shut>>

\* The first pump is done, or a direct relay has been idle for 120 s.
Shuts(c) ==
  /\ pc[c] = "relay" /\ ~shut[c]
  /\ upEnd[c] # "no" \/ downEnd[c] # "no" \/ dialled[c] # NoIP
  /\ shut' = [shut EXCEPT ![c] = TRUE]
  /\ UNCHANGED <<skServer, pc, skRoute, sent, eof, taken, replay, inHand, got, upEnd, downEnd>>

RelayEnds(c) ==
  /\ pc[c] = "relay" /\ shut[c] /\ upEnd[c] # "no" /\ downEnd[c] # "no"
  /\ Go(c, "end")
  /\ UNCHANGED <<skServer, skRoute, skBytes>>

Next ==
  \/ LoopTop \/ Register \/ AcceptFails \/ StopMarks \/ StopCloses \/ CacheExpires
  \/ \E ok \in BOOLEAN : Listen(ok)
  \/ \E c \in Conns :
       \/ Accept(c) \/ Gives(c) \/ ClientSends(c) \/ ClientEnds(c)
       \/ UpRead(c) \/ DownEnds(c) \/ Shuts(c) \/ RelayEnds(c)
       \/ \E offers \in SUBSET {"password", "none"}, p \in BOOLEAN : Handshake(c, p, offers)
       \/ \E ok \in BOOLEAN : Authenticate(c, ok) \/ Wait(c, ok) \/ OpenStream(c, ok) \/ UpWrite(c, ok)
       \/ \E cmd \in {"connect", "udp", "bind"} : Request(c, cmd)
       \/ \E d \in {"blocked", "tunnel", "list", "country"} : Decide(c, d)
       \/ \E a \in IPs \cup {NoIP}, ok \in BOOLEAN : Judge(c, a) \/ DialDirect(c, a, ok)
       \/ \E kind \in {"tls", "web", "other"}, n \in 0..Need : Sniff(c, kind, n)

Spec == Init /\ [][Next]_skVars

-----------------------------------------------------------------------------
(* Properties.                                                             *)

\* Once Stop has returned nobody is accepted, whatever the loop was doing,
\* and no socket outlives the loop (Module.Stop, ListenAndServe).
QuietAfterStop ==
  /\ spc = "done" /\ lpc = "accept" => sock = "shut"
  /\ lpc = "done" => sock # "open"

\* A connection let past the tunnel for the country of its address goes to
\* an address of that country, whatever the resolver says by the time it is
\* dialled (bypassRoute, dialDirect).
JudgedIsDialled ==
  \A c \in Conns : why[c] = "country" => dialled[c] \in HomeIPs \cup {NoIP}

\* The far end receives what the client sent, in order and from the first
\* byte, and all of it when the client's end is what ended the pump (route's
\* replay, Relay, Copy).
StreamIsTheClients ==
  \A c \in Conns :
    /\ got[c] = Bytes(0, Len(got[c]))
    /\ upEnd[c] = "eof" => Len(got[c]) = sent[c]

\* The three together.
DoorIsSound == QuietAfterStop /\ JudgedIsDialled /\ StreamIsTheClients
=============================================================================
