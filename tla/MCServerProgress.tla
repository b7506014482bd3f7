-------------------------- MODULE MCServerProgress --------------------------
(***************************************************************************)
(* What must happen in the end in the server's front and on its books, for *)
(* TLC.  part says which component runs; the others stay as they start,    *)
(* and fairness is assumed of the one that runs.                           *)
(***************************************************************************)
EXTENDS Integers

CONSTANTS Users, Tools, Handlers, MaxSaves                             \* UserStore
CONSTANTS Sockets                                                      \* Listener
CONSTANTS Flows, Key, IP, NoLimits                                     \* KeyLimits

VARIABLE part

VARIABLES file, tool, loader, store, modTime, gen, version, index, hs
VARIABLES stage, hello, open, accepting, lclosed, running, httpClosed, mclosed, serving, ctxDone
VARIABLES defaults, keyLimits, sessions, burst, oldBurst, total, closers, clock, flowPc, ev, gc

userVars == <<file, tool, loader, store, modTime, gen, version, index, hs>>
listenerVars == <<stage, hello, open, accepting, lclosed, running, httpClosed, mclosed,
                  serving, ctxDone>>
limitVars == <<defaults, keyLimits, sessions, burst, oldBurst, total, closers, clock, flowPc,
               ev, gc>>

U == INSTANCE UserStore
L == INSTANCE Listener WITH Conns <- Sockets
Lim == INSTANCE KeyLimits WITH
  Keys <- {Key}, Sids <- Flows, IPs <- {IP}, KeyOf <- [f \in Flows |-> Key],
  SidOf <- [f \in Flows |-> f], IPOf <- [f \in Flows |-> IP],
  LimitChoices <- {[max |-> 3, global |-> 3, ips |-> 0, burst |-> 0]},
  CapBound <- 3, EvictSizes <- {1}, Reconfigure <- FALSE, pc <- flowPc

MCInit ==
  /\ part \in {"users", "listener", "limits"}
  /\ U!Init /\ L!Init /\ Lim!Init
  /\ part # "users" => store = {}

MCNext ==
  /\ UNCHANGED part
  /\ \/ part = "users" /\ U!Next
        /\ UNCHANGED <<listenerVars, limitVars>>
     \/ part = "listener" /\ L!Next
        /\ UNCHANGED <<userVars, limitVars>>
     \/ part = "limits" /\ Lim!Next
        /\ UNCHANGED <<userVars, listenerVars>>

-----------------------------------------------------------------------------
(* Fairness.                                                               *)

\* The watcher ticks, a reload and a handshake once begun go on.  Nobody has
\* to write the file.
UserFairness ==
  /\ WF_userVars(part = "users" /\ (U!WatchStat \/ U!WatchCompare))
  /\ \A l \in U!Loaders : WF_userVars(part = "users" /\ U!Load(l))
  /\ \A h \in Handlers : WF_userVars(part = "users" /\ U!Handshake(h))

\* Reads have deadlines, so every handler goes on; the loops run; a listener
\* that was closed makes Accept fail.
ListenerFairness ==
  /\ \A c \in Sockets :
       /\ WF_listenerVars(part = "listener" /\ L!Handle(c))
       /\ WF_listenerVars(part = "listener" /\ L!Mux(c))
  /\ WF_listenerVars(part = "listener" /\ L!RunEnds)
  /\ WF_listenerVars(part = "listener" /\ L!ServeEnds)
  /\ WF_listenerVars(part = "listener" /\ L!StopListener)
  /\ WF_listenerVars(part = "listener" /\ lclosed /\ L!AcceptFails)

\* Goroutines run on: a removal that has begun is finished, and a flow whose
\* closer was called returns.
LimitFairness ==
  /\ \A f \in Flows : WF_limitVars(part = "limits" /\ (Lim!ReleaseCount(f) \/ Lim!ReleaseCloser(f)))
  /\ WF_limitVars(part = "limits" /\ (Lim!EvictDelete \/ Lim!EvictCount \/ Lim!EvictClose))
  /\ WF_limitVars(part = "limits" /\ (Lim!GCCount \/ Lim!GCClose))

MCSpec ==
  /\ MCInit
  /\ [][MCNext]_<<part, userVars, listenerVars, limitVars>>
  /\ UserFairness /\ ListenerFairness /\ LimitFairness

-----------------------------------------------------------------------------

\* Once the users' file is left alone and can be parsed, its users are the
\* ones every handshake works with, without a restart.
Served == U!Served

\* A listener closed in one layer is closed in all, and no connection waits
\* for ever in the front, also when a layer closes while it is handed over.
FrontSettles == L!FrontSettles

\* When all flows have ended the session counter returns to zero and no
\* closer is left, whoever removed the sessions.
DrainsToZero == Lim!DrainsToZero
=============================================================================
