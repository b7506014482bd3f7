--------------------------- MODULE MobileSession ---------------------------
(***************************************************************************)
(* The client as a library (app/client: mobile.go, RunMain): Start and     *)
(* Stop as the host application calls them from its threads, and the       *)
(* sessions they start, each a goroutine that runs RunMain.  The sessions  *)
(* share package variables: mobileRunning, pkgLC and the pool of tunnels.  *)
(*                                                                         *)
(* Manager k is the lifecycle manager made by the k-th Start; a session    *)
(* that finds pkgLC empty makes one of its own, numbered MaxSessions + k.  *)
(* The SOCKS address is free whenever nobody listens on it.                *)
(***************************************************************************)
EXTENDS Integers, FiniteSets

CONSTANTS
  Callers,      \* threads of the host application
  MaxSessions,  \* calls of Start
  MaxStops      \* calls of Stop

VARIABLES
  mobileRunning, pkgLC,  \* the package variables; 0 is nil
  cpc,         \* where each caller is
  cold,        \* the manager a caller is about to stop
  spc,         \* where each session's RunMain is
  slc,         \* the manager it uses
  mgrRunning,  \* Manager.running
  mgrDone,     \* the manager's context is cancelled
  poolOf,      \* sessions whose tunnel is in the pool and not stopped
  stopped,     \* sessions whose tunnel was stopped
  started, stops,
  expired      \* a Start waited three seconds in vain

msVars == <<mobileRunning, pkgLC, cpc, cold, spc, slc, mgrRunning, mgrDone, poolOf, stopped,
            started, stops, expired>>

Sessions == 1..MaxSessions
Managers == 1..(2 * MaxSessions)

Init ==
  /\ mobileRunning = FALSE /\ pkgLC = 0
  /\ cpc = [c \in Callers |-> "idle"] /\ cold = [c \in Callers |-> 0]
  /\ spc = [s \in Sessions |-> "none"] /\ slc = [s \in Sessions |-> 0]
  /\ mgrRunning = [m \in Managers |-> FALSE] /\ mgrDone = [m \in Managers |-> FALSE]
  /\ poolOf = {} /\ stopped = {} /\ started = 0 /\ stops = 0 /\ expired = FALSE

callVars == <<cpc, cold, started, stops, expired>>
sessVars == <<spc, slc, poolOf, stopped>>
mgrVars  == <<mgrRunning, mgrDone>>

-----------------------------------------------------------------------------
(* The entry points.                                                       *)

\* lifecycle.Manager.Stop: nothing unless the manager is running.
LcStop(m) ==
  IF m # 0 /\ mgrRunning[m]
    THEN /\ mgrRunning' = [mgrRunning EXCEPT ![m] = FALSE]
         /\ mgrDone' = [mgrDone EXCEPT ![m] = TRUE]
    ELSE UNCHANGED mgrVars

\* The rest of Start under mobileMu: a new manager, and a goroutine for RunMain.
Launch(c) ==
  /\ started < MaxSessions
  /\ started' = started + 1
  /\ mobileRunning' = TRUE /\ pkgLC' = started + 1
  /\ spc' = [spc EXCEPT ![started + 1] = "begin"]
  /\ cpc' = [cpc EXCEPT ![c] = "idle"]

Start(c) ==
  /\ cpc[c] = "idle" /\ started < MaxSessions
  /\ IF mobileRunning
       THEN /\ cold' = [cold EXCEPT ![c] = pkgLC]
            /\ cpc' = [cpc EXCEPT ![c] = "stopOld"]
            /\ UNCHANGED <<mobileRunning, pkgLC, spc, started>>
       ELSE Launch(c) /\ UNCHANGED cold
  /\ UNCHANGED <<slc, poolOf, stopped, mgrVars, stops, expired>>

StopOld(c) ==
  /\ cpc[c] = "stopOld"
  /\ LcStop(cold[c])
  /\ cpc' = [cpc EXCEPT ![c] = "wait"]
  /\ UNCHANGED <<mobileRunning, pkgLC, cold, sessVars, started, stops, expired>>

\* Mutant of Waited: the new session starts at once.
Waited_NoWait(c) ==
  /\ cpc[c] = "wait"
  /\ Launch(c)
  /\ UNCHANGED <<cold, slc, poolOf, stopped, mgrVars, stops, expired>>

\* The loop that polls mobileRunning ends: it is false, or the deadline passed.
Waited(c) ==
  /\ cpc[c] = "wait"
  /\ expired' = (expired \/ mobileRunning)
  /\ Launch(c)
  /\ UNCHANGED <<cold, slc, poolOf, stopped, mgrVars, stops>>

Stop(c) ==
  /\ cpc[c] = "idle" /\ stops < MaxStops
  /\ stops' = stops + 1
  /\ cold' = [cold EXCEPT ![c] = pkgLC] /\ pkgLC' = 0
  /\ cpc' = [cpc EXCEPT ![c] = "stopping"]
  /\ UNCHANGED <<mobileRunning, sessVars, mgrVars, started, expired>>

StopReturns(c) ==
  /\ cpc[c] = "stopping"
  /\ LcStop(cold[c])
  /\ cpc' = [cpc EXCEPT ![c] = "idle"]
  /\ UNCHANGED <<mobileRunning, pkgLC, cold, sessVars, started, stops, expired>>

-----------------------------------------------------------------------------
(* A session: RunMain.                                                     *)

NewLifecycle(s) ==
  /\ spc[s] = "begin"
  /\ slc' = [slc EXCEPT ![s] = IF pkgLC # 0 THEN pkgLC ELSE MaxSessions + s]
  /\ spc' = [spc EXCEPT ![s] = "setup"]
  /\ UNCHANGED <<mobileRunning, pkgLC, callVars, mgrVars, poolOf, stopped>>

Listening(s) == spc[s] \in {"listening", "up", "connected", "teardown"}

\* socksMod.Start, and the primary tunnel's entry in the pool; without the
\* address fatalf ends the goroutine, and what was deferred runs.
SetupNetworking(s) ==
  /\ spc[s] = "setup"
  /\ IF \E t \in Sessions : Listening(t)
       THEN spc' = [spc EXCEPT ![s] = "refused"] /\ UNCHANGED poolOf
       ELSE spc' = [spc EXCEPT ![s] = "listening"] /\ poolOf' = poolOf \cup {s}
  /\ UNCHANGED <<mobileRunning, pkgLC, callVars, mgrVars, slc, stopped>>

\* lc.Start: refused for a manager that another session has started.
LcStart(s) ==
  /\ spc[s] = "listening"
  /\ IF mgrRunning[slc[s]]
       THEN spc' = [spc EXCEPT ![s] = "teardown"] /\ UNCHANGED mgrRunning
       ELSE /\ spc' = [spc EXCEPT ![s] = "up"]
            /\ mgrRunning' = [mgrRunning EXCEPT ![slc[s]] = TRUE]
  /\ UNCHANGED <<mobileRunning, pkgLC, callVars, mgrDone, slc, poolOf, stopped>>

\* connectPrimary returns, connected or not.
ConnectPrimary(s) ==
  /\ spc[s] = "up"
  /\ spc' = [spc EXCEPT ![s] = "connected"]
  /\ UNCHANGED <<mobileRunning, pkgLC, callVars, mgrVars, slc, poolOf, stopped>>

WaitForShutdown(s) ==
  /\ spc[s] = "connected" /\ mgrDone[slc[s]]
  /\ spc' = [spc EXCEPT ![s] = "teardown"]
  /\ UNCHANGED <<mobileRunning, pkgLC, callVars, mgrVars, slc, poolOf, stopped>>

\* stopPool stops every tunnel in the pool, whoever put it there, and the
\* session's SOCKS listener.
StopPool(s) ==
  /\ spc[s] \in {"teardown", "refused"}
  /\ stopped' = stopped \cup poolOf /\ poolOf' = {}
  /\ spc' = [spc EXCEPT ![s] = "returned"]
  /\ UNCHANGED <<mobileRunning, pkgLC, callVars, mgrVars, slc>>

\* The deferred function of Start's goroutine.
SessionEnds(s) ==
  /\ spc[s] = "returned"
  /\ spc' = [spc EXCEPT ![s] = "gone"]
  /\ mobileRunning' = FALSE
  /\ UNCHANGED <<pkgLC, callVars, mgrVars, slc, poolOf, stopped>>

Session(s) ==
  \/ NewLifecycle(s) \/ SetupNetworking(s) \/ LcStart(s) \/ ConnectPrimary(s)
  \/ WaitForShutdown(s) \/ StopPool(s) \/ SessionEnds(s)

Caller(c) == Start(c) \/ StopOld(c) \/ Waited(c) \/ Stop(c) \/ StopReturns(c)

Next == (\E c \in Callers : Caller(c)) \/ (\E s \in Sessions : Session(s))

Spec == Init /\ [][Next]_msVars

-----------------------------------------------------------------------------
(* Properties.                                                             *)

Live == {s \in Sessions : spc[s] \notin {"none", "gone"}}

\* As long as no Start ran out of patience, there is one session at a time,
\* mobileRunning says whether there is one, and no session's tunnels are
\* stopped by another's teardown (Start, RunMain).
OneSession ==
  ~expired =>
    /\ Cardinality(Live) <= 1
    /\ mobileRunning = (Live # {})
    /\ \A s \in stopped : spc[s] \in {"returned", "gone"}
=============================================================================
