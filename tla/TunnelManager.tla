--------------------------- MODULE TunnelManager ---------------------------
(***************************************************************************)
(* The client's tunnel manager: the state machine with its ready channel   *)
(* (core/tunnel/state_machine.go), the circuit breaker (circuit_breaker.go)*)
(* and Connect, Disconnect, Reconnect and Stop (tunnel.go, datapath.go),   *)
(* run by goroutines that share one Manager: the loop that Start spawns,   *)
(* the Connect of whoever built the manager (outbound.go does both at      *)
(* once), a Stop, and SOCKS5 requests waiting for the tunnel               *)
(* (core/socks5/module.go).                                                *)
(*                                                                         *)
(* A step is what one lock or one atomic operation protects; only the      *)
(* breaker's count is taken together with the state change next to it, as  *)
(* nobody reads both.  Of the pool of parked connections only its closed   *)
(* flag is kept (IdleSet has the rest).  Abstracted: durations (a wait may *)
(* end at any time), the dial itself, and the branches no code reaches:    *)
(* rotation, and the first attempt with a remembered SNI, which nothing    *)
(* ever remembers.                                                         *)
(***************************************************************************)
EXTENDS Integers, FiniteSets

CONSTANTS
  Loops,          \* goroutines that call Reconnect
  Dialers,        \* goroutines that call Connect
  Stoppers,       \* goroutines that call Stop
  Waiters,        \* SOCKS5 requests
  MaxAttempts,    \* MaxReconnectAttempts; 0 means no limit
  FallbackAfter,  \* reconnectFallbackAfterAttempts
  Threshold,      \* cbThreshold
  Configured,     \* the transport in the configuration
  NoLoop          \* the channel reconnectDone starts with, closed

ASSUME ManagerAssumption ==
  /\ MaxAttempts \in Nat /\ FallbackAfter \in Nat /\ Threshold \in Nat \ {0}
  /\ NoLoop \notin Loops
  /\ Loops \cap (Dialers \cup Stoppers) = {}

Threads == Loops \cup Dialers \cup Stoppers

VARIABLES
  state,         \* sm.state
  ready,         \* sm.ready: which channel it is
  closedReady,   \* the ready channels closed so far
  shut,          \* idle.closed
  reconnecting,  \* the flag Reconnect swaps
  doneCh,        \* m.reconnectDone
  closedDone,    \* the done channels closed so far
  cb, failures,  \* the breaker: "closed", "open", "halfopen"; its count
  cooled,        \* cbResetTime has passed since the last failure
  cancelled,     \* the module's context
  transport,     \* config.Transport
  pc,            \* where each goroutine is
  attempts,      \* st.attempts
  fellBack,      \* st.fellBackToAuto
  joined,        \* the done channel a second Reconnect waits on
  wpc, held      \* each request, and the ready channel it waits on

smVars == <<state, ready, closedReady>>
cbVars == <<cb, failures, cooled>>
rcVars == <<reconnecting, doneCh, closedDone, attempts, fellBack, joined, transport>>
wVars  == <<wpc, held>>
vars   == <<smVars, cbVars, rcVars, wVars, shut, cancelled, pc>>

Up(s) == s = "connected"

Init ==
  /\ state = "disconnected" /\ ready = 0 /\ closedReady = {}
  /\ shut = FALSE /\ cancelled = FALSE
  /\ reconnecting = FALSE /\ doneCh = NoLoop /\ closedDone = {NoLoop}
  /\ cb = "closed" /\ failures = 0 /\ cooled = FALSE
  /\ transport = Configured
  /\ pc = [t \in Threads |-> "idle"]
  /\ attempts = [t \in Loops |-> 0] /\ fellBack = [t \in Loops |-> FALSE]
  /\ joined = [t \in Loops |-> NoLoop]
  /\ wpc = [w \in Waiters |-> "check"] /\ held = [w \in Waiters |-> 0]

Goto(t, l) == pc' = [pc EXCEPT ![t] = l]

-----------------------------------------------------------------------------
(* The state machine.                                                      *)

\* Mutant of SyncReady: a fresh channel for every state that is not up.
SyncReady_Fresh(s) ==
  /\ closedReady' = IF Up(s) THEN closedReady \cup {ready} ELSE closedReady
  /\ ready' = IF Up(s) THEN ready ELSE ready + 1

\* syncReady: close the channel when the tunnel comes up, replace it when it
\* goes down.
SyncReady(s) ==
  /\ ready' = IF ready \in closedReady /\ ~Up(s) THEN ready + 1 ELSE ready
  /\ closedReady' = IF Up(s) THEN closedReady \cup {ready} ELSE closedReady

Set(s) == state' = s /\ SyncReady(s)

SetError == state' = "error" /\ SyncReady("error")

-----------------------------------------------------------------------------
(* The circuit breaker.  The count matters up to the threshold only.       *)

Allows == cb = "open" => cooled

Allow ==
  /\ cb' = IF cb = "open" /\ cooled THEN "halfopen" ELSE cb
  /\ UNCHANGED <<failures, cooled>>

Fail ==
  /\ failures' = IF failures < Threshold THEN failures + 1 ELSE failures
  /\ cooled' = FALSE
  /\ cb' = IF cb = "halfopen" \/ failures' >= Threshold THEN "open" ELSE cb

Success == failures' = 0 /\ cb' = "closed" /\ UNCHANGED cooled

CoolDown ==
  /\ cb = "open" /\ ~cooled
  /\ cooled' = TRUE
  /\ UNCHANGED <<smVars, cb, failures, rcVars, wVars, shut, cancelled, pc>>

-----------------------------------------------------------------------------
(* Connect and Disconnect.  A goroutine enters at "cas" and comes back to  *)
(* its caller through ConnectOk or ConnectFailed.                          *)

\* The caller learns that Connect returned nil.
ConnectOk(t) ==
  /\ Goto(t, IF t \in Loops THEN "leave" ELSE "done")
  /\ IF t \in Loops THEN Success ELSE UNCHANGED cbVars

\* The caller learns that Connect returned an error.
ConnectFailed(t) ==
  /\ Goto(t, IF t \in Loops THEN "backoff" ELSE "done")
  /\ IF t \in Loops THEN Fail ELSE UNCHANGED cbVars

\* Connect's guard: an attempt under way, or a tunnel that is up, counts as
\* success.
ConnectCAS(t) ==
  /\ pc[t] = "cas"
  /\ \/ /\ state \in {"connecting", "connected"}
        /\ ConnectOk(t)
        /\ UNCHANGED smVars
     \/ /\ state \notin {"connecting", "connected"}
        /\ Set("connecting")
        /\ Goto(t, "cdisc")
        /\ UNCHANGED cbVars
  /\ UNCHANGED <<rcVars, wVars, shut, cancelled>>

\* Disconnect, in its two halves: the pool is closed, then the state is set.
\* Connect, prepareAttempt and Stop all run it.
ClosePool(t) ==
  /\ pc[t] \in {"cdisc", "pdisc", "sdisc"}
  /\ shut' = TRUE
  /\ Goto(t, CASE pc[t] = "cdisc" -> "cset"
               [] pc[t] = "pdisc" -> "pset"
               [] pc[t] = "sdisc" -> "sset")
  /\ UNCHANGED <<smVars, cbVars, rcVars, wVars, cancelled>>

SetDisconnected(t) ==
  /\ pc[t] \in {"cset", "pset", "sset"}
  /\ Set("disconnected")
  /\ Goto(t, CASE pc[t] = "cset" -> "cint"
               [] pc[t] = "pset" -> "cas"
               [] pc[t] = "sset" -> "scancel")
  /\ UNCHANGED <<cbVars, rcVars, wVars, shut, cancelled>>

\* connectInternal.
SetConnecting(t) ==
  /\ pc[t] = "cint"
  /\ Set("connecting")
  /\ Goto(t, "dial")
  /\ UNCHANGED <<cbVars, rcVars, wVars, shut, cancelled>>

DialFails(t) ==
  /\ pc[t] = "dial"
  /\ SetError
  /\ ConnectFailed(t)
  /\ UNCHANGED <<rcVars, wVars, shut, cancelled>>

\* The probe is up: the pool is reopened and takes it ...
DialOk(t) ==
  /\ pc[t] = "dial"
  /\ shut' = FALSE
  /\ Goto(t, "cup")
  /\ UNCHANGED <<smVars, cbVars, rcVars, wVars, cancelled>>

\* ... and then the state says so.
SetConnected(t) ==
  /\ pc[t] = "cup"
  /\ Set("connected")
  /\ ConnectOk(t)
  /\ UNCHANGED <<rcVars, wVars, shut, cancelled>>

-----------------------------------------------------------------------------
(* Reconnect.                                                              *)

\* One loop at a time; the others wait for its done channel.
ReconnectCAS(t) ==
  /\ pc[t] = "idle" /\ t \in Loops
  /\ reconnecting' = TRUE
  /\ Goto(t, IF reconnecting THEN "join" ELSE "begin")
  /\ UNCHANGED <<smVars, cbVars, doneCh, closedDone, attempts, fellBack, joined,
                 transport, wVars, shut, cancelled>>

\* waitForOngoingReconnect takes the channel there is, perhaps an old one ...
Join(t) ==
  /\ pc[t] = "join"
  /\ joined' = [joined EXCEPT ![t] = doneCh]
  /\ Goto(t, "wait")
  /\ UNCHANGED <<smVars, cbVars, reconnecting, doneCh, closedDone, attempts,
                 fellBack, transport, wVars, shut, cancelled>>

\* ... and waits until it is closed or the context ends.
Joined(t) ==
  /\ pc[t] = "wait"
  /\ joined[t] \in closedDone \/ cancelled
  /\ Goto(t, "done")
  /\ UNCHANGED <<smVars, cbVars, rcVars, wVars, shut, cancelled>>

BeginReconnect(t) ==
  /\ pc[t] = "begin"
  /\ doneCh' = t
  /\ Goto(t, "allow")
  /\ UNCHANGED <<smVars, cbVars, reconnecting, closedDone, attempts, fellBack,
                 joined, transport, wVars, shut, cancelled>>

BreakerAllow(t) ==
  /\ pc[t] = "allow"
  /\ Allow
  /\ Goto(t, IF Allows THEN "rset" ELSE "leave")
  /\ UNCHANGED <<smVars, rcVars, wVars, shut, cancelled>>

SetReconnecting(t) ==
  /\ pc[t] = "rset"
  /\ Set("reconnecting")
  /\ Goto(t, "head")
  /\ UNCHANGED <<cbVars, rcVars, wVars, shut, cancelled>>

\* Attempts are told apart up to the fallback and up to the limit.
AttemptCap == (IF FallbackAfter > MaxAttempts THEN FallbackAfter ELSE MaxAttempts) + 2

Exhausted(n) == MaxAttempts > 0 /\ n > MaxAttempts

\* The head of the loop: the context, the limit, and prepareAttempt's
\* fallback to "auto".
NextAttempt(t) ==
  /\ pc[t] = "head"
  /\ LET n == IF attempts[t] < AttemptCap THEN attempts[t] + 1 ELSE attempts[t]
         falls == /\ n = FallbackAfter + 1 /\ ~fellBack[t]
                  /\ Configured \notin {"", "auto"}
     IN  /\ attempts' = [attempts EXCEPT ![t] = n]
         /\ \/ /\ cancelled
               /\ Goto(t, "leave")
               /\ UNCHANGED <<smVars, cbVars, transport, fellBack>>
            \/ /\ ~cancelled /\ Exhausted(n)
               /\ Fail /\ SetError
               /\ Goto(t, "leave")
               /\ UNCHANGED <<transport, fellBack>>
            \/ /\ ~cancelled /\ ~Exhausted(n)
               /\ Goto(t, "pdisc")
               /\ transport' = IF falls THEN "auto" ELSE transport
               /\ fellBack' = [fellBack EXCEPT ![t] = @ \/ falls]
               /\ UNCHANGED <<smVars, cbVars>>
  /\ UNCHANGED <<reconnecting, doneCh, closedDone, joined, wVars, shut, cancelled>>

Backoff(t) ==
  /\ pc[t] = "backoff"
  /\ Goto(t, IF cancelled THEN "leave" ELSE "head")
  /\ UNCHANGED <<smVars, cbVars, rcVars, wVars, shut, cancelled>>

\* Mutant of Leave: the channel is closed only by a loop that has tried.
Leave_OpenChannel(t) ==
  /\ pc[t] = "leave"
  /\ transport' = IF fellBack[t] THEN Configured ELSE transport
  /\ closedDone' = IF attempts[t] > 1 THEN closedDone \cup {t} ELSE closedDone
  /\ Goto(t, "unlock")
  /\ UNCHANGED <<smVars, cbVars, reconnecting, doneCh, attempts, fellBack, joined,
                 wVars, shut, cancelled>>

\* The deferred function: restore the transport, release who waits ...
Leave(t) ==
  /\ pc[t] = "leave"
  /\ transport' = IF fellBack[t] THEN Configured ELSE transport
  /\ closedDone' = closedDone \cup {t}
  /\ Goto(t, "unlock")
  /\ UNCHANGED <<smVars, cbVars, reconnecting, doneCh, attempts, fellBack, joined,
                 wVars, shut, cancelled>>

\* ... and let the next loop in.
Unlock(t) ==
  /\ pc[t] = "unlock"
  /\ reconnecting' = FALSE
  /\ Goto(t, "done")
  /\ UNCHANGED <<smVars, cbVars, doneCh, closedDone, attempts, fellBack, joined,
                 transport, wVars, shut, cancelled>>

-----------------------------------------------------------------------------
(* Stop, and the requests that wait for the tunnel.                        *)

CallConnect(t) ==
  /\ t \in Dialers /\ pc[t] = "idle"
  /\ Goto(t, "cas")
  /\ UNCHANGED <<smVars, cbVars, rcVars, wVars, shut, cancelled>>

CallStop(t) ==
  /\ t \in Stoppers /\ pc[t] = "idle"
  /\ Goto(t, "sdisc")
  /\ UNCHANGED <<smVars, cbVars, rcVars, wVars, shut, cancelled>>

StopModule(t) ==
  /\ pc[t] = "scancel"
  /\ cancelled' = TRUE
  /\ Goto(t, "done")
  /\ UNCHANGED <<smVars, cbVars, rcVars, wVars, shut>>

\* route: go when the tunnel is up, else take its ready channel ...
Check(w) ==
  /\ wpc[w] = "check"
  /\ wpc' = [wpc EXCEPT ![w] = IF Up(state) THEN "go" ELSE "take"]
  /\ UNCHANGED <<smVars, cbVars, rcVars, held, shut, cancelled, pc>>

TakeReady(w) ==
  /\ wpc[w] = "take"
  /\ held' = [held EXCEPT ![w] = ready]
  /\ wpc' = [wpc EXCEPT ![w] = "hold"]
  /\ UNCHANGED <<smVars, cbVars, rcVars, shut, cancelled, pc>>

\* ... and look again once it is closed, until tunnelWait is over.
Wake(w) ==
  /\ wpc[w] = "hold" /\ held[w] \in closedReady
  /\ wpc' = [wpc EXCEPT ![w] = "check"]
  /\ UNCHANGED <<smVars, cbVars, rcVars, held, shut, cancelled, pc>>

Deadline(w) ==
  /\ wpc[w] = "hold"
  /\ wpc' = [wpc EXCEPT ![w] = "refused"]
  /\ UNCHANGED <<smVars, cbVars, rcVars, held, shut, cancelled, pc>>

-----------------------------------------------------------------------------

Connect(t) == \/ ConnectCAS(t) \/ ClosePool(t) \/ SetDisconnected(t) \/ SetConnecting(t)
              \/ DialFails(t) \/ DialOk(t) \/ SetConnected(t)

Reconnect(t) == \/ ReconnectCAS(t) \/ Join(t) \/ Joined(t) \/ BeginReconnect(t)
                \/ BreakerAllow(t) \/ SetReconnecting(t) \/ NextAttempt(t)
                \/ Backoff(t) \/ Leave(t) \/ Unlock(t)

Step(t) == Connect(t) \/ Reconnect(t) \/ CallConnect(t) \/ CallStop(t) \/ StopModule(t)

Request(w) == Check(w) \/ TakeReady(w) \/ Wake(w) \/ Deadline(w)

Next == (\E t \in Threads : Step(t)) \/ (\E w \in Waiters : Request(w)) \/ CoolDown

Spec == Init /\ [][Next]_vars

-----------------------------------------------------------------------------
(* Properties.                                                             *)

InLoop(t) == pc[t] \notin {"idle", "join", "wait", "done"}

Looping == {t \in Loops : InLoop(t)}

\* The type invariant of the manager, its breaker and its goroutines: the
\* reconnecting flag is up exactly while a goroutine is in the loop.
TypeOK ==
  /\ state \in {"disconnected", "connecting", "connected", "reconnecting", "error"}
  /\ ready \in Nat /\ closedReady \subseteq 0..ready
  /\ {shut, reconnecting, cooled, cancelled} \subseteq BOOLEAN
  /\ doneCh \in Loops \cup {NoLoop} /\ closedDone \subseteq Loops \cup {NoLoop}
  /\ cb \in {"closed", "open", "halfopen"} /\ failures \in 0..Threshold
  /\ transport \in {Configured, "auto"}
  /\ reconnecting <=> Looping # {}

\* Reconnect: at most one goroutine is in the loop, so a half-open breaker
\* admits one attempt and no two loops undo each other's connections.
OneLoop == Cardinality(Looping) <= 1

\* syncReady: the channel Ready returns is closed exactly while IsConnected
\* says so, through every sequence of Set, CompareAndSet and SetError.
ReadyMeansUp == (ready \in closedReady) <=> Up(state)

\* A request never waits on a channel nobody will close: the one it holds is
\* closed already or is still the one the next connection closes.
NobodyStranded ==
  \A w \in Waiters : wpc[w] = "hold" => held[w] \in closedReady \cup {ready}

\* Connect refuses to run while the state is "connecting": some goroutine is
\* then really connecting, or every later Connect would return nil for ever.
ConnectingIsOwned ==
  state = "connecting" => \E t \in Threads : pc[t] \in {"cdisc", "cset", "dial", "cup"}

\* One goroutine at a time reconnects, and whenever the state keeps others from
\* connecting there is one that is at it.
OneConnector == TypeOK /\ OneLoop /\ ConnectingIsOwned

\* Whoever waits for the ready channel waits for the truth: it is closed
\* exactly while the tunnel is up, and a channel that was replaced strands
\* nobody who still holds it.
ReadyIsTrue == ReadyMeansUp /\ NobodyStranded

\* The breaker counts: closed means fewer than cbThreshold failures in a row,
\* whichever mix of loops reported them.
BreakerCounts == cb = "closed" => failures < Threshold

\* A loop that fell back to "auto" puts the configured transport back before
\* anybody waiting for it goes on.
TransportRestored == Looping = {} => transport = Configured

\* What a loop leaves behind when it ends, however it ends: the transport that
\* was configured, and a breaker that is closed only below its threshold.
LoopCleansUp == BreakerCounts /\ TransportRestored

\* One goroutine at a time reconnects, and while the state keeps others from
\* connecting one is at it; the ready channel is closed exactly while the
\* tunnel is up; a loop leaves the configured transport and a breaker that
\* counts (Reconnect, Connect, syncReady).
ManagerIsSound == OneConnector /\ ReadyIsTrue /\ LoopCleansUp

\* A goroutine that joined the Reconnect of another is released.
JoinersReleased == \A t \in Loops : (pc[t] = "wait") ~> (pc[t] = "done")

\* After Stop the loop comes to an end, however its dials go.
StopEndsLoop == \A t \in Stoppers : (pc[t] = "done") ~> ~reconnecting

\* A request waiting for a tunnel that comes up and stays up goes on.
RequestsGoOn ==
  \A w \in Waiters : (<>[]Up(state)) => <>(wpc[w] \in {"go", "refused"})

\* Without a limit on attempts, and with nobody else connecting or stopping,
\* a loop the breaker has let in brings the tunnel up.
LoopConnects == \A t \in Loops : (pc[t] = "head") ~> Up(state)

\* A loop that is let in connects, and with it whoever joined it goes on.
LoopDelivers == LoopConnects /\ JoinersReleased

Quiet == \A t \in Threads : pc[t] \in {"idle", "done"}

\* When everyone is done and the tunnel is up, finished streams can park
\* their connections (manager_test.go: "without pooling the next stream pays
\* a full handshake").
UpMeansPooling == Quiet /\ Up(state) => ~shut
=============================================================================
