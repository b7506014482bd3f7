----------------------------- MODULE Lifecycle -----------------------------
(***************************************************************************)
(* The module runtime (common/runtime): the registry starts the modules in *)
(* the order of their dependencies and stops them in the reverse order,    *)
(* the manager does both under its mutex and runs the process until a      *)
(* signal, and the event bus carries what they announce in goroutines of   *)
(* their own.  A module's Init, Start or Stop may fail, and its Stop may   *)
(* never return.                                                           *)
(***************************************************************************)
EXTENDS Integers, Sequences, FiniteSets, SequencesExt

CONSTANTS
  Mods,     \* modules, as numbers: sort.Strings is the order of the numbers
  BusRoom   \* events a subscriber's channel holds

VARIABLES
  deps,        \* Dependencies() of every module
  registered,  \* the keys of registry.modules
  order,       \* registry.order
  mstate,      \* moduleEntry.state
  mctx,        \* base.Module's context
  lcPhase,     \* what the manager and Run are doing
  lcTodo,      \* modules StartAll or StopAll has still to visit
  lcRunning,   \* Manager.running
  lcErr,       \* why Start failed
  announced,   \* events whose PublishAsync goroutine has not finished
  busClosed,   \* eventBus.closed
  inbox        \* the channel of one subscriber, or "closed"

lcVars == <<deps, registered, order, mstate, mctx, lcPhase, lcTodo, lcRunning, lcErr,
            announced, busClosed, inbox>>

Init ==
  /\ deps \in [Mods -> SUBSET Mods]
  /\ registered = {} /\ order = <<>>
  /\ mstate = [m \in Mods |-> "uninitialized"] /\ mctx = [m \in Mods |-> "none"]
  /\ lcPhase = "new" /\ lcTodo = <<>> /\ lcRunning = FALSE /\ lcErr = "none"
  /\ announced = {} /\ busClosed = FALSE /\ inbox = <<>>

busVars == <<announced, busClosed, inbox>>

-----------------------------------------------------------------------------
(* The start order.                                                        *)

Sorted(S) == SetToSortSeq(S, <)

RECURSIVE Kahn(_, _, _)

\* The queue of modules without open dependencies, worked off in order.
Kahn(queue, inDegree, done) ==
  IF queue = <<>> THEN done
  ELSE LET name == Head(queue)
           dependents == {m \in registered : name \in deps[m]}
           left == [m \in registered |-> inDegree[m] - (IF m \in dependents THEN 1 ELSE 0)]
       IN  Kahn(Tail(queue) \o Sorted({m \in dependents : left[m] = 0}), left, Append(done, name))

\* Mutant of computeStartOrder: in the order of the names.
ComputeStartOrder_ByName == Sorted(registered)

\* The order, or one that is too short when the dependencies are circular.
ComputeStartOrder ==
  LET inDegree == [m \in registered |-> Cardinality(deps[m])]
  IN  Kahn(Sorted({m \in registered : inDegree[m] = 0}), inDegree, <<>>)

-----------------------------------------------------------------------------
(* Registration and start.                                                 *)

Register(m) ==
  /\ lcPhase = "new" /\ m \notin registered
  /\ registered' = registered \cup {m}
  /\ UNCHANGED <<deps, order, mstate, mctx, lcPhase, lcTodo, lcRunning, lcErr, busVars>>

\* Start, and in it the order that StartAll computes.
Start ==
  /\ lcPhase = "new"
  /\ IF \E m \in registered : ~(deps[m] \subseteq registered)
       THEN lcErr' = "unregistered" /\ lcPhase' = "exited" /\ UNCHANGED <<order, lcTodo>>
       ELSE IF Len(ComputeStartOrder) # Cardinality(registered)
       THEN lcErr' = "circular" /\ lcPhase' = "exited" /\ UNCHANGED <<order, lcTodo>>
       ELSE /\ order' = ComputeStartOrder /\ lcTodo' = ComputeStartOrder
            /\ lcPhase' = "starting" /\ UNCHANGED lcErr
  /\ UNCHANGED <<deps, registered, mstate, mctx, lcRunning, busVars>>

\* The base module's Init and Stop: its context.
BaseInit(m) == [mctx EXCEPT ![m] = "live"]
BaseStop(m) == [mctx EXCEPT ![m] = "done"]

\* The module's Init and the call of its Start.
StartModule(ok) ==
  /\ lcPhase = "starting" /\ lcTodo # <<>>
  /\ LET m == Head(lcTodo)
     IN  /\ mstate[m] = "uninitialized"
         /\ IF ok
              THEN /\ mstate' = [mstate EXCEPT ![m] = "starting"]
                   /\ mctx' = BaseInit(m)
                   /\ UNCHANGED <<lcPhase, lcErr>>
              ELSE /\ lcErr' = "init" /\ lcPhase' = "exited" /\ UNCHANGED <<mstate, mctx>>
  /\ UNCHANGED <<deps, registered, order, lcTodo, lcRunning, busVars>>

\* Start returns; StartAll goes on to the next module or gives up where it is.
ModuleStarted(ok) ==
  /\ lcPhase = "starting" /\ lcTodo # <<>>
  /\ LET m == Head(lcTodo)
     IN  /\ mstate[m] = "starting"
         /\ mstate' = [mstate EXCEPT ![m] = IF ok THEN "running" ELSE "error"]
         /\ announced' = announced \cup {<<IF ok THEN "started" ELSE "error", m>>}
  /\ lcTodo' = Tail(lcTodo)
  /\ IF ok THEN UNCHANGED <<lcPhase, lcErr>> ELSE lcPhase' = "exited" /\ lcErr' = "start"
  /\ UNCHANGED <<deps, registered, order, mctx, lcRunning, busClosed, inbox>>

Started ==
  /\ lcPhase = "starting" /\ lcTodo = <<>>
  /\ lcPhase' = "up" /\ lcRunning' = TRUE
  /\ UNCHANGED <<deps, registered, order, mstate, mctx, lcTodo, lcErr, busVars>>

-----------------------------------------------------------------------------
(* Stop.                                                                   *)

\* Run gets SIGTERM: Stop in a goroutine, StopAll in it.
Signal ==
  /\ lcPhase = "up"
  /\ lcPhase' = "stopping" /\ lcTodo' = Reverse(order)
  /\ UNCHANGED <<deps, registered, order, mstate, mctx, lcRunning, lcErr, busVars>>

StopModule ==
  /\ lcPhase = "stopping" /\ lcTodo # <<>>
  /\ mstate[Head(lcTodo)] = "running"
  /\ mstate' = [mstate EXCEPT ![Head(lcTodo)] = "stopping"]
  /\ UNCHANGED <<deps, registered, order, mctx, lcPhase, lcTodo, lcRunning, lcErr, busVars>>

\* The module's Stop returns; an error is kept and StopAll goes on.
ModuleStopped(ok) ==
  /\ lcPhase = "stopping" /\ lcTodo # <<>>
  /\ LET m == Head(lcTodo)
     IN  /\ mstate[m] = "stopping"
         /\ mstate' = [mstate EXCEPT ![m] = IF ok THEN "stopped" ELSE "error"]
         /\ mctx' = IF ok THEN BaseStop(m) ELSE mctx
         /\ announced' = IF ok THEN announced \cup {<<"stopped", m>>} ELSE announced
  /\ lcTodo' = Tail(lcTodo)
  /\ UNCHANGED <<deps, registered, order, lcPhase, lcRunning, lcErr, busClosed, inbox>>

\* m.cancel ends every module's context; the callbacks on shutdown have five
\* seconds each and change nothing here; Close marks the bus closed.
CancelAndCallbacks ==
  /\ lcPhase = "stopping" /\ lcTodo = <<>>
  /\ mctx' = [m \in Mods |-> IF mctx[m] = "none" THEN "none" ELSE "done"]
  /\ busClosed' = TRUE
  /\ lcPhase' = "closing"
  /\ UNCHANGED <<deps, registered, order, mstate, lcTodo, lcRunning, lcErr, announced, inbox>>

\* Close has waited for the publishers; Stop returns and so does Run.
CloseBus ==
  /\ lcPhase = "closing" /\ announced = {}
  /\ inbox' = "closed"
  /\ lcPhase' = "exited" /\ lcRunning' = FALSE
  /\ UNCHANGED <<deps, registered, order, mstate, mctx, lcTodo, lcErr, announced, busClosed>>

\* Stop takes longer than shutdownTimeout + 15s: os.Exit.
ExitAnyway ==
  /\ lcPhase \in {"stopping", "closing"}
  /\ lcPhase' = "killed"
  /\ UNCHANGED <<deps, registered, order, mstate, mctx, lcTodo, lcRunning, lcErr, busVars>>

\* Publish in the goroutine of PublishAsync: a full channel drops the event,
\* a closed bus refuses it.
Publish(e) ==
  /\ e \in announced
  /\ inbox' = IF ~busClosed /\ Len(inbox) < BusRoom THEN Append(inbox, e) ELSE inbox
  /\ announced' = announced \ {e}
  /\ UNCHANGED <<deps, registered, order, mstate, mctx, lcPhase, lcTodo, lcRunning, lcErr, busClosed>>

Next ==
  \/ \E m \in Mods : Register(m)
  \/ Start \/ Started \/ Signal \/ StopModule \/ CancelAndCallbacks \/ CloseBus \/ ExitAnyway
  \/ \E ok \in BOOLEAN : StartModule(ok) \/ ModuleStarted(ok) \/ ModuleStopped(ok)
  \/ \E e \in announced : Publish(e)

Spec == Init /\ [][Next]_lcVars

-----------------------------------------------------------------------------
(* Properties.                                                             *)

\* A module is started, runs and is stopped only while everything it depends
\* on is running (StartAll, StopAll).
DepsAreUp ==
  \A m \in Mods : mstate[m] \in {"starting", "running", "stopping"} =>
    \A d \in deps[m] : mstate[d] = "running"

\* Start refuses exactly the tables that no order can serve: a dependency
\* nobody registered, or a circle (computeStartOrder).
RefusesRightly ==
  /\ lcErr = "unregistered" <=> (lcPhase = "exited" /\ ~(UNION {deps[m] : m \in registered} \subseteq registered))
  /\ lcErr = "circular" =>
       \E S \in SUBSET registered : S # {} /\ \A m \in S : deps[m] \cap S # {}

\* When Run returns after a signal nothing runs, no context is live, and no
\* goroutine of the bus is left behind (Stop, Close).
StopIsComplete ==
  lcPhase = "exited" /\ lcErr = "none" =>
    /\ \A m \in registered : mstate[m] \in {"stopped", "error"} /\ mctx[m] = "done"
    /\ announced = {}

\* The runtime's promises together.
RuntimeInOrder == DepsAreUp /\ RefusesRightly /\ StopIsComplete
=============================================================================
