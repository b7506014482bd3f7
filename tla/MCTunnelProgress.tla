-------------------------- MODULE MCTunnelProgress --------------------------
(***************************************************************************)
(* What must happen in the end to the client's tunnels, for TLC.  part     *)
(* says which component runs; the other stays as it starts, and fairness   *)
(* is assumed of the one that runs.  The tunnel manager runs in two        *)
(* settings: with a goroutine that stops it and a server that may never    *)
(* answer, and with nobody stopping it and a server that answers some time.*)
(***************************************************************************)
EXTENDS Integers

CONSTANTS Loops, Stoppers, Waiters, Configured, NoLoop                 \* TunnelManager
CONSTANTS Callers, Apis, Entries, Primary, MaxMgr, MaxCalls,
          MinInterval, BackoffStep, MaxBackoff                         \* TunnelPool

VARIABLE part

VARIABLES state, ready, closedReady, shut, reconnecting, doneCh, closedDone, cb, failures,
          cooled, cancelled, transport, pc, attempts, fellBack, joined, wpc, held
VARIABLES prim, mgr, restarting, status, mstate, made, inflight, revivals, closed, fails,
          since, calls, th

tmVars == <<state, ready, closedReady, shut, reconnecting, doneCh, closedDone, cb, failures,
            cooled, cancelled, transport, pc, attempts, fellBack, joined, wpc, held>>
poolVars == <<prim, mgr, restarting, status, mstate, made, inflight, revivals, closed, fails,
              since, calls, th>>

TM == INSTANCE TunnelManager WITH
  Dialers <- {}, MaxAttempts <- 0, FallbackAfter <- 0, Threshold <- 1
TMUp == INSTANCE TunnelManager WITH
  Dialers <- {}, MaxAttempts <- 0, FallbackAfter <- 1, Threshold <- 2
Pool == INSTANCE TunnelPool WITH attempts <- revivals

MCInit ==
  /\ part \in {"stop", "connect", "pool"} /\ TM!Init /\ Pool!Init

TMStep == \/ part = "stop" /\ TM!Next
          \/ part = "connect" /\ TMUp!Next /\ \A t \in Stoppers : pc'[t] = pc[t]

MCNext ==
  /\ UNCHANGED part
  /\ \/ TMStep /\ UNCHANGED poolVars
     \/ part = "pool" /\ Pool!Next /\ UNCHANGED tmVars

-----------------------------------------------------------------------------
(* Fairness.                                                               *)

\* Every goroutine that can run does, whoever is to reconnect starts, and the
\* breaker cools down.  Nobody has to call Stop, and no deadline has to pass.
StopFairness ==
  /\ \A t \in Loops : WF_tmVars(part = "stop" /\ (TM!Connect(t) \/ TM!Reconnect(t)))
  /\ \A t \in Stoppers : WF_tmVars(part = "stop" /\ (TM!Connect(t) \/ TM!StopModule(t)))
  /\ \A w \in Waiters :
       WF_tmVars(part = "stop" /\ (TM!Check(w) \/ TM!TakeReady(w) \/ TM!Wake(w)))
  /\ WF_tmVars(part = "stop" /\ TM!CoolDown)

\* The same, and a server that is dialled again and again answers once.
ConnectFairness ==
  /\ \A t \in Loops : WF_tmVars(part = "connect" /\ (TMUp!Connect(t) \/ TMUp!Reconnect(t)))
  /\ WF_tmVars(part = "connect" /\ TMUp!CoolDown)
  /\ SF_tmVars(part = "connect" /\ \E t \in Loops : TMUp!DialOk(t))

\* Goroutines run; every step of a restart has a time limit of its own.
PoolFairness ==
  \A t \in Callers \cup Apis :
    WF_poolVars(part = "pool" /\ (Pool!Restart(t) \/ (t \in Callers /\ Pool!Revive(t))))

MCSpec ==
  /\ MCInit /\ [][MCNext]_<<part, tmVars, poolVars>>
  /\ StopFairness /\ ConnectFairness /\ PoolFairness

-----------------------------------------------------------------------------

\* After Stop the reconnect loop comes to an end, however its dials go, and a
\* request waiting for a tunnel that comes up and stays up goes on (Ready,
\* syncReady); with nobody stopping it, a loop the breaker has let in brings
\* the tunnel up and releases the goroutines that joined it
\* (waitForOngoingReconnect).
LoopsDeliver ==
  /\ TM!StopEndsLoop
  /\ part = "stop" => TM!RequestsGoOn
  /\ part = "connect" => TMUp!LoopDelivers

\* A restart that has begun ends: it frees the entry, and whoever waits for it
\* is released ("waiting callers must be released when the attempt finishes").
RestartsEnd == Pool!RestartsEnd
=============================================================================
