----------------------------- MODULE TunnelPool -----------------------------
(***************************************************************************)
(* The client's pool of transports (app/client/pool.go, state.go): streams *)
(* look for a live tunnel, and one of those that find none restarts the    *)
(* entries in turn while the others wait for it (revive).  The control API *)
(* may restart an entry at the same time (restartTransportEntry).          *)
(*                                                                         *)
(* Tunnel managers are numbered as they are made; what happens inside one  *)
(* is TunnelManager's matter: here it is new, up, down or stopped.  Time   *)
(* is counted in units; only the time since the last restart matters.      *)
(***************************************************************************)
EXTENDS Integers, FiniteSets

CONSTANTS
  Callers,     \* goroutines in OpenStream or DialStream
  Apis,        \* control API requests that restart an entry
  Entries,     \* enabled pool entries
  Primary,     \* the one connectPrimary connects at the start
  MaxMgr,      \* managers made in all
  MaxCalls,    \* streams opened by each caller
  MinInterval, \* reviveMinInterval
  BackoffStep, \* reviveBackoffStep
  MaxBackoff   \* reviveBackoffMax

Threads == Callers \cup Apis
Mgrs == 1..MaxMgr

VARIABLES
  prim,        \* connectPrimary: "connecting", "connected", "failed", "done"
  mgr,         \* entry -> its manager
  restarting,  \* entry -> the CAS flag
  status,      \* entry -> Status
  mstate,      \* manager -> "new", "up", "down", "stopped"
  made,        \* managers made
  inflight,    \* the attempt in flight, or 0
  attempts,    \* attempts begun, each with a done channel
  closed,      \* attempts whose channel is closed
  fails,       \* consecutive failed attempts
  since,       \* time since the last counted attempt ended, up to MaxBackoff
  calls,       \* streams opened so far, per caller
  th           \* thread -> [pc, e, todo, tried, got, wait]

poolVars == <<inflight, attempts, closed, fails, since>>
vars == <<prim, mgr, restarting, status, mstate, made, poolVars, calls, th>>

Rest == [pc |-> "idle", e |-> 0, todo |-> {}, tried |-> FALSE, got |-> 0, wait |-> 0]

\* The managers the entries are made with, by number.
FirstMgr == CHOOSE f \in [Entries -> 1..Cardinality(Entries)] :
              \A d, e \in Entries : f[d] = f[e] => d = e

Init ==
  /\ prim = "connecting"
  /\ mgr = FirstMgr
  /\ restarting = [e \in Entries |-> FALSE]
  /\ status = [e \in Entries |-> IF e = Primary THEN "connecting" ELSE "standby"]
  /\ mstate = [m \in Mgrs |-> "new"] /\ made = Cardinality(Entries)
  /\ inflight = 0 /\ attempts = 0 /\ closed = {} /\ fails = 0 /\ since = MaxBackoff
  /\ calls = [t \in Callers |-> 0]
  /\ th = [t \in Threads |-> Rest]

Up(e) == mstate[mgr[e]] = "up"
Lesser(a, b) == IF a < b THEN a ELSE b

Set(t, rec) == th' = [th EXCEPT ![t] = rec]
Goto(t, p) == Set(t, [th[t] EXCEPT !.pc = p])

-----------------------------------------------------------------------------
(* OpenStream, DialStream, revive.                                         *)

\* live() finds a manager and the stream opens on it, or it fails for a
\* reason other than the network, or nothing is live.  (A stream that opens,
\* and one that fails because the network is down, change nothing.)
Call(t) ==
  /\ th[t].pc = "idle" /\ calls[t] < MaxCalls
  /\ calls' = [calls EXCEPT ![t] = @ + 1]
  /\ Goto(t, "begin")
  /\ UNCHANGED <<prim, mgr, restarting, status, mstate, made, poolVars>>

reviveAllowed ==
  /\ since >= MinInterval
  /\ fails = 0 \/ since >= Lesser(fails * BackoffStep, MaxBackoff)

\* beginRevive, under p.mu: join the attempt, give up, or begin one.
beginRevive(t) ==
  /\ th[t].pc = "begin"
  /\ \/ /\ inflight # 0
        /\ Set(t, [th[t] EXCEPT !.pc = "wait", !.wait = inflight])
        /\ UNCHANGED <<inflight, attempts>>
     \/ /\ inflight = 0 /\ ~reviveAllowed
        /\ Set(t, Rest) /\ UNCHANGED <<inflight, attempts>>
     \/ /\ inflight = 0 /\ reviveAllowed
        /\ attempts' = attempts + 1 /\ inflight' = attempts + 1
        /\ Set(t, [th[t] EXCEPT !.pc = "list", !.todo = Entries, !.wait = attempts + 1])
  /\ UNCHANGED <<prim, mgr, restarting, status, mstate, made, closed, fails, since, calls>>

\* A joiner goes on when the attempt is over, or when its context is.
Joined(t, gaveUp) ==
  /\ th[t].pc = "wait"
  /\ gaveUp \/ th[t].wait \in closed
  /\ Set(t, Rest)
  /\ UNCHANGED <<prim, mgr, restarting, status, mstate, made, poolVars, calls>>

\* The next entry, in the map's order: live already, or to be restarted.
NextEntry(t, e) ==
  /\ th[t].pc = "list" /\ e \in th[t].todo
  /\ IF Up(e) THEN Set(t, [th[t] EXCEPT !.pc = "end", !.got = mgr[e]])
     ELSE Set(t, [th[t] EXCEPT !.pc = "cas", !.e = e, !.todo = @ \ {e}])
  /\ UNCHANGED <<prim, mgr, restarting, status, mstate, made, poolVars, calls>>

NoMoreEntries(t) ==
  /\ th[t].pc = "list" /\ th[t].todo = {}
  /\ Goto(t, "end")
  /\ UNCHANGED <<prim, mgr, restarting, status, mstate, made, poolVars, calls>>

\* The manager the entry has after the restart.
Look(t) ==
  /\ th[t].pc = "look"
  /\ Set(t, IF Up(th[t].e) THEN [th[t] EXCEPT !.pc = "end", !.tried = TRUE, !.got = mgr[th[t].e]]
            ELSE [th[t] EXCEPT !.pc = "list", !.tried = TRUE])
  /\ UNCHANGED <<prim, mgr, restarting, status, mstate, made, poolVars, calls>>

\* Mutant of endRevive: the channel is closed only after a success.
endRevive_KeepsWaiting(t) ==
  /\ th[t].pc = "end"
  /\ inflight' = 0 /\ closed' = IF th[t].got # 0 THEN closed \cup {th[t].wait} ELSE closed
  /\ IF th[t].tried
     THEN /\ since' = 0
          /\ fails' = IF th[t].got # 0 THEN 0 ELSE Lesser(fails + 1, MaxBackoff)
     ELSE UNCHANGED <<since, fails>>
  /\ Set(t, Rest)
  /\ UNCHANGED <<prim, mgr, restarting, status, mstate, made, attempts, calls>>

\* endRevive: the books under p.mu, then the channel.  The backoff grows no
\* more once fails * BackoffStep has reached MaxBackoff, so fails is cut there.
endRevive(t) ==
  /\ th[t].pc = "end"
  /\ inflight' = 0 /\ closed' = closed \cup {th[t].wait}
  /\ IF th[t].tried
     THEN /\ since' = 0
          /\ fails' = IF th[t].got # 0 THEN 0 ELSE Lesser(fails + 1, MaxBackoff)
     ELSE UNCHANGED <<since, fails>>
  /\ Set(t, Rest)
  /\ UNCHANGED <<prim, mgr, restarting, status, mstate, made, attempts, calls>>

Tick ==
  /\ since < MaxBackoff /\ since' = since + 1
  /\ UNCHANGED <<prim, mgr, restarting, status, mstate, made, inflight, attempts, closed, fails,
                 calls, th>>

-----------------------------------------------------------------------------
(* restartTransportEntry, by a reviving caller or an API request.          *)

ApiRestart(t, e) ==
  /\ th[t].pc = "idle" /\ t \in Apis
  /\ Set(t, [th[t] EXCEPT !.pc = "cas", !.e = e])
  /\ UNCHANGED <<prim, mgr, restarting, status, mstate, made, poolVars, calls>>

\* An API request is over; a caller goes on at p.
Back(t, p) == IF t \in Apis THEN Rest ELSE [th[t] EXCEPT !.pc = p]

RestartCAS(t) ==
  /\ th[t].pc = "cas"
  /\ IF restarting[th[t].e]
     THEN Set(t, Back(t, "list")) /\ UNCHANGED restarting
     ELSE Goto(t, "stop") /\ restarting' = [restarting EXCEPT ![th[t].e] = TRUE]
  /\ UNCHANGED <<prim, mgr, status, mstate, made, poolVars, calls>>

\* Mutant of StopOld: the old manager is left running.
StopOld_Forgets(t) ==
  /\ th[t].pc = "stop" /\ Goto(t, "install")
  /\ status' = [status EXCEPT ![th[t].e] = "connecting"]
  /\ UNCHANGED <<prim, mgr, restarting, mstate, made, poolVars, calls>>

\* The entry's context is cancelled, its status set, its manager stopped.
StopOld(t) ==
  /\ th[t].pc = "stop" /\ Goto(t, "install")
  /\ status' = [status EXCEPT ![th[t].e] = "connecting"]
  /\ mstate' = [m \in Mgrs |-> IF m = mgr[th[t].e] THEN "stopped" ELSE mstate[m]]
  /\ UNCHANGED <<prim, mgr, restarting, made, poolVars, calls>>

\* A new manager is made and becomes the entry's.
Install(t) ==
  /\ th[t].pc = "install" /\ made < MaxMgr
  /\ made' = made + 1
  /\ mgr' = [mgr EXCEPT ![th[t].e] = made + 1]
  /\ Goto(t, "connect")
  /\ UNCHANGED <<prim, restarting, status, mstate, poolVars, calls>>

\* Making or initialising it fails: the entry keeps the one it stopped.
InstallFails(t) ==
  /\ th[t].pc = "install"
  /\ status' = [status EXCEPT ![th[t].e] = "failed"]
  /\ Goto(t, "release")
  /\ UNCHANGED <<prim, mgr, restarting, mstate, made, poolVars, calls>>

Connect(t, ok) ==
  /\ th[t].pc = "connect"
  /\ mstate' = [mstate EXCEPT ![mgr[th[t].e]] = IF ok THEN "up" ELSE "stopped"]
  /\ status' = [status EXCEPT ![th[t].e] = IF ok THEN "connected" ELSE "failed"]
  /\ Goto(t, "release")
  /\ UNCHANGED <<prim, mgr, restarting, made, poolVars, calls>>

Release(t) ==
  /\ th[t].pc = "release"
  /\ restarting' = [restarting EXCEPT ![th[t].e] = FALSE]
  /\ Set(t, Back(t, "look"))
  /\ UNCHANGED <<prim, mgr, status, mstate, made, poolVars, calls>>

-----------------------------------------------------------------------------
(* connectPrimary, at the start, and the tunnels themselves.               *)

\* The manager the primary entry was made with, whatever it has by now.
First == FirstMgr[Primary]

ConnectPrimary(ok) ==
  /\ prim = "connecting"
  /\ ok => mstate[First] = "new"
  /\ prim' = IF ok THEN "connected" ELSE "failed"
  /\ mstate' = [mstate EXCEPT ![First] = IF ok THEN "up" ELSE @]
  /\ UNCHANGED <<mgr, restarting, status, made, poolVars, calls, th>>

\* setStatus, on the entry.
PrimaryStatus ==
  /\ prim \in {"connected", "failed"} /\ prim' = "done"
  /\ status' = [status EXCEPT ![Primary] = prim]
  /\ UNCHANGED <<mgr, restarting, mstate, made, poolVars, calls, th>>

\* A tunnel goes down by itself, and may come back by itself.
Drop(m) ==
  /\ mstate[m] = "up" /\ mstate' = [mstate EXCEPT ![m] = "down"]
  /\ UNCHANGED <<prim, mgr, restarting, status, made, poolVars, calls, th>>

Recover(m) ==
  /\ mstate[m] = "down" /\ mstate' = [mstate EXCEPT ![m] = "up"]
  /\ UNCHANGED <<prim, mgr, restarting, status, made, poolVars, calls, th>>

-----------------------------------------------------------------------------

Revive(t) == \/ beginRevive(t) \/ NoMoreEntries(t) \/ Look(t) \/ endRevive(t)
             \/ Joined(t, FALSE)
             \/ \E e \in Entries : NextEntry(t, e)

Restart(t) == \/ RestartCAS(t) \/ StopOld(t) \/ Install(t) \/ InstallFails(t)
              \/ \E ok \in BOOLEAN : Connect(t, ok)
              \/ Release(t)

Next == \/ \E t \in Callers : Call(t) \/ Revive(t) \/ Joined(t, TRUE)
        \/ \E t \in Apis, e \in Entries : ApiRestart(t, e)
        \/ \E t \in Threads : Restart(t)
        \/ \E m \in Mgrs : Drop(m) \/ Recover(m)
        \/ \E ok \in BOOLEAN : ConnectPrimary(ok)
        \/ PrimaryStatus
        \/ Tick

Spec == Init /\ [][Next]_vars

-----------------------------------------------------------------------------
(* Properties.                                                             *)

\* Program counters between the restart's CAS and the store that ends it.
Within == {"stop", "install", "connect", "release"}

\* The type invariant of the pool, its entries and its threads.
TypeOK ==
  /\ inflight \in 0..attempts /\ closed \subseteq 1..attempts
  /\ fails \in 0..MaxBackoff /\ since \in 0..MaxBackoff /\ made \in 0..MaxMgr
  /\ \A e \in Entries : mgr[e] \in 1..made
  /\ \A t \in Threads : th[t].pc \in
       Within \cup {"idle", "begin", "wait", "list", "cas", "look", "end"}
  /\ \A t \in Threads : th[t].pc = "wait" => th[t].wait \in 1..attempts
  /\ \A e \in Entries : restarting[e] => \E t \in Threads : th[t].pc \in Within /\ th[t].e = e

\* One caller at a time restarts entries, and it is the one whose channel
\* the others wait on (main_test.go: "a second caller must not start its own
\* restart").
OneReviver ==
  \A t \in Callers :
    th[t].pc \in Within \cup {"list", "cas", "look", "end"} => th[t].wait = inflight

\* One thread at a time restarts an entry.
OneRestart ==
  \A t, u \in Threads :
    t # u /\ th[t].pc \in Within /\ th[u].pc \in Within => th[t].e # th[u].e

\* A manager no entry has any more does not keep running.
NoOrphan ==
  \A m \in 1..made : mstate[m] \in {"up", "down"} => \E e \in Entries : mgr[e] = m

\* Callers and API requests restart an entry one at a time, and the manager a
\* restart replaces does not run on.
OneRestarter == TypeOK /\ OneReviver /\ OneRestart /\ NoOrphan

\* After a restart somebody attempted, by whatever caller and with whatever
\* result, the next one waits at least MinInterval ("every failing stream
\* would otherwise restart the tunnel again").
RestartsArePaced ==
  [][\A t \in Callers : th[t].pc = "cas" /\ th'[t].pc = "stop" => since >= MinInterval]_vars

\* The backoff grows only after a restart ("a restart nobody attempted must
\* not inflate the backoff").
OnlyRestartsCount ==
  [][fails' > fails => \E t \in Callers : th[t].pc = "end" /\ th[t].tried]_vars

\* Restarts are as far apart as the backoff says, and the backoff counts
\* restarts and nothing else.
Paced == RestartsArePaced /\ OnlyRestartsCount

\* Whoever waits for an attempt is released ("waiting callers must be
\* released when the attempt finishes").
WaitersReleased == \A t \in Callers : (th[t].pc = "wait") ~> (th[t].pc # "wait")

\* A restart that has begun ends and frees the entry for the next one.
EntryFreed == \A e \in Entries : restarting[e] ~> ~restarting[e]

\* Every restart ends: for the entry and for those who wait for it.
RestartsEnd == WaitersReleased /\ EntryFreed
=============================================================================
