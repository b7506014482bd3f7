------------------------ MODULE TunnelManagerProofs ------------------------
(***************************************************************************)
(* For any number of loops, dialers, stoppers and requests, any limit on   *)
(* attempts and any breaker threshold: the tunnel manager is sound         *)
(* (ManagerIsSound).  The invariant falls into four parts that different   *)
(* variables carry, and each is preserved on its own: the ready channel,   *)
(* the breaker, the loop with its flag and its transport, and the state    *)
(* that keeps others from connecting.                                      *)
(***************************************************************************)
EXTENDS TunnelManager, FiniteSetTheorems, TLAPS

States == {"disconnected", "connecting", "connected", "reconnecting", "error"}
Outside == {"idle", "join", "wait", "done"}
Connecting == {"cas", "cdisc", "cset", "cint", "dial", "cup"}
LoopLabels == Outside \cup Connecting \cup
  {"begin", "allow", "rset", "head", "pdisc", "pset", "backoff", "leave", "unlock"}
CallLabels == Connecting \cup {"idle", "done", "sdisc", "sset", "scancel"}

\* The ready channel: the state and the channel agree, and nobody is stranded.
ReadyInv ==
  /\ state \in States
  /\ ready \in Nat /\ closedReady \subseteq 0..ready
  /\ held \in [Waiters -> Nat]
  /\ wpc \in [Waiters -> {"check", "take", "hold", "go", "refused"}]
  /\ ReadyMeansUp /\ NobodyStranded

\* The breaker and its count.
BreakerInv ==
  /\ cb \in {"closed", "open", "halfopen"} /\ failures \in 0..Threshold
  /\ BreakerCounts

\* Where the goroutines are, and the flag: up for the one in the loop.
PlaceInv ==
  /\ pc \in [Threads -> LoopLabels \cup CallLabels]
  /\ \A t \in Loops : pc[t] \in LoopLabels
  /\ \A t \in Threads : t \notin Loops => pc[t] \in CallLabels
  /\ reconnecting \in BOOLEAN
  /\ \A t \in Loops : pc[t] \notin Outside =>
       reconnecting = TRUE /\ \A u \in Loops : pc[u] \notin Outside => u = t
  /\ reconnecting = TRUE => \E t \in Loops : pc[t] \notin Outside

\* What the loop owns: a transport other than the configured one is the doing
\* of the goroutine that will put it back.
LoopInv ==
  /\ doneCh \in Loops \cup {NoLoop} /\ closedDone \subseteq Loops \cup {NoLoop}
  /\ fellBack \in [Loops -> BOOLEAN]
  /\ transport \in {Configured, "auto"}
  /\ transport # Configured =>
       \E t \in Loops : fellBack[t] = TRUE /\ pc[t] \notin Outside \cup {"unlock"}

IInv ==
  /\ ReadyInv /\ BreakerInv /\ PlaceInv /\ LoopInv /\ ConnectingIsOwned
  /\ shut \in BOOLEAN /\ cancelled \in BOOLEAN /\ cooled \in BOOLEAN

\* The inductive invariant is strong enough: a set with no two members has at
\* most one.
LEMMA Implies == IInv => ManagerIsSound
<1> SUFFICES ASSUME IInv PROVE ManagerIsSound
  OBVIOUS
<1>1. Looping = {t \in Loops : pc[t] \notin Outside}
  BY DEF Looping, InLoop, Outside
<1>2. OneLoop
  <2>1. CASE Looping = {}
    BY <2>1, FS_EmptySet DEF OneLoop
  <2>2. CASE Looping # {}
    <3>1. PICK t : t \in Looping
      BY <2>2
    <3>2. Looping = {t}
      BY <1>1, <3>1 DEF IInv, PlaceInv
    <3> QED
      <4>1. Cardinality(Looping) = 1
        BY <3>2, FS_Singleton
      <4> QED
        BY <4>1 DEF OneLoop
  <2> QED
    BY <2>1, <2>2
<1>3. TypeOK
  <2>1. reconnecting <=> Looping # {}
    <3>1. (reconnecting = TRUE) <=> (Looping # {})
      BY <1>1 DEF IInv, PlaceInv
    <3>2. reconnecting \in BOOLEAN
      BY DEF IInv, PlaceInv
    <3> QED
      BY <3>1, <3>2, Zenon
  <2>2. {shut, reconnecting, cooled, cancelled} \subseteq BOOLEAN
    BY DEF IInv, PlaceInv, BreakerInv
  <2> QED
    BY <2>1, <2>2 DEF TypeOK, IInv, ReadyInv, BreakerInv, LoopInv, States
<1>4. TransportRestored
  BY <1>1 DEF TransportRestored, IInv, LoopInv
<1> QED
  BY <1>2, <1>3, <1>4 DEF ManagerIsSound, OneConnector, ReadyIsTrue, LoopCleansUp, IInv,
     ReadyInv, BreakerInv

\* Nobody is in the loop, the breaker is closed, the channel is open.
LEMMA Initially == Init => IInv
<1> SUFFICES ASSUME Init PROVE IInv
  OBVIOUS
<1>1. ReadyInv
  BY DEF Init, ReadyInv, States, ReadyMeansUp, NobodyStranded, Up
<1>2. BreakerInv
  <2>1. Threshold \in Nat /\ 0 < Threshold
    BY ManagerAssumption
  <2>2. cb = "closed" /\ failures = 0
    BY DEF Init
  <2> QED
    BY <2>1, <2>2 DEF BreakerInv, BreakerCounts
<1>3. PlaceInv
  <2>1. \A t \in Threads : pc[t] = "idle"
    BY DEF Init
  <2>2. pc \in [Threads -> LoopLabels \cup CallLabels]
    BY DEF Init, CallLabels
  <2> QED
    BY <2>1, <2>2 DEF Init, PlaceInv, Threads, LoopLabels, CallLabels, Outside
<1>4. LoopInv
  BY DEF Init, LoopInv
<1> QED
  BY <1>1, <1>2, <1>3, <1>4 DEF Init, IInv, ConnectingIsOwned

-----------------------------------------------------------------------------
(* The ready channel.                                                      *)

\* syncReady, whatever the new state.
LEMMA SetReady ==
  ASSUME ReadyInv, NEW s \in States, Set(s), UNCHANGED wVars
  PROVE  ReadyInv'
<1>1. /\ state' = s /\ wpc' = wpc /\ held' = held
      /\ ready' = IF ready \in closedReady /\ s # "connected" THEN ready + 1 ELSE ready
      /\ closedReady' = IF s = "connected" THEN closedReady \cup {ready} ELSE closedReady
  BY DEF Set, SyncReady, Up, wVars
<1>2. ready' \in Nat /\ closedReady' \subseteq 0..ready'
  BY <1>1 DEF ReadyInv
<1>3. ReadyMeansUp'
  BY <1>1 DEF ReadyInv, ReadyMeansUp, Up
<1>4. NobodyStranded'
  BY <1>1 DEF ReadyInv, NobodyStranded
<1> QED
  BY <1>1, <1>2, <1>3, <1>4 DEF ReadyInv

\* A request reads the state or the channel, or waits on the one it took.
LEMMA RequestReady ==
  ASSUME ReadyInv, NEW w \in Waiters, Request(w)
  PROVE  ReadyInv'
<1>1. UNCHANGED smVars
  BY DEF Request, Check, TakeReady, Wake, Deadline
<1>2. /\ held' \in [Waiters -> Nat]
      /\ wpc' \in [Waiters -> {"check", "take", "hold", "go", "refused"}]
  BY DEF Request, Check, TakeReady, Wake, Deadline, ReadyInv
<1>3. NobodyStranded'
  BY <1>1 DEF Request, Check, TakeReady, Wake, Deadline, ReadyInv, NobodyStranded, smVars
<1> QED
  BY <1>1, <1>2, <1>3 DEF ReadyInv, ReadyMeansUp, smVars

\* What leaves the state and the requests alone leaves this part alone.
LEMMA KeepReady ==
  ASSUME ReadyInv, UNCHANGED <<smVars, wVars>>
  PROVE  ReadyInv'
BY DEF ReadyInv, ReadyMeansUp, NobodyStranded, smVars, wVars

-----------------------------------------------------------------------------
(* The breaker.                                                            *)

\* Allow, Fail and Success keep the count below the threshold while closed.
LEMMA BreakerStep ==
  ASSUME BreakerInv, Allow \/ Fail \/ Success \/ CoolDown \/ UNCHANGED cbVars
  PROVE  BreakerInv'
<1>0. Threshold \in Nat /\ 0 < Threshold
  BY ManagerAssumption
<1>1. CASE Allow
  BY <1>0, <1>1 DEF Allow, BreakerInv, BreakerCounts
<1>2. CASE Fail
  BY <1>0, <1>2 DEF Fail, BreakerInv, BreakerCounts
<1>3. CASE Success
  BY <1>0, <1>3 DEF Success, BreakerInv, BreakerCounts
<1>4. CASE CoolDown
  BY <1>0, <1>4 DEF CoolDown, BreakerInv, BreakerCounts
<1>5. CASE UNCHANGED cbVars
  BY <1>5 DEF cbVars, BreakerInv, BreakerCounts
<1> QED
  BY <1>1, <1>2, <1>3, <1>4, <1>5

-----------------------------------------------------------------------------
(* The loop.                                                               *)

\* A goroutine moves on and stays on its side of the loop's door.
LEMMA Moves ==
  ASSUME PlaceInv, LoopInv, NEW t \in Threads, NEW l \in LoopLabels \cup CallLabels, Goto(t, l),
         t \in Loops => /\ l \in LoopLabels \ {"unlock"}
                        /\ pc[t] \in Outside <=> l \in Outside,
         t \notin Loops => l \in CallLabels,
         UNCHANGED <<reconnecting, fellBack, transport>>,
         doneCh' \in Loops \cup {NoLoop}, closedDone' \subseteq Loops \cup {NoLoop}
  PROVE  PlaceInv' /\ LoopInv'
<1>1. /\ pc' = [pc EXCEPT ![t] = l]
      /\ \A u \in Loops : pc'[u] \in Outside <=> pc[u] \in Outside
      /\ Loops \subseteq Threads
  BY DEF Goto, PlaceInv, Threads
<1>2. PlaceInv'
  BY <1>1 DEF PlaceInv
<1>3. LoopInv'
  BY <1>1 DEF LoopInv, PlaceInv
<1> QED
  BY <1>2, <1>3

\* What leaves the goroutines and the loop's variables alone.
LEMMA KeepLoop ==
  ASSUME PlaceInv, LoopInv, UNCHANGED <<rcVars, pc>>
  PROVE  PlaceInv' /\ LoopInv'
BY DEF PlaceInv, LoopInv, rcVars

-----------------------------------------------------------------------------
(* Who is connecting.                                                      *)

AtIt == {"cdisc", "cset", "dial", "cup"}

\* A step leaves the state "connecting" only with someone at it.
LEMMA Owned ==
  ASSUME PlaceInv, ConnectingIsOwned, NEW t \in Threads, NEW l, Goto(t, l),
         \/ state' # "connecting" \/ l \in AtIt
         \/ state' = state /\ pc[t] \notin AtIt
  PROVE  ConnectingIsOwned'
BY DEF PlaceInv, ConnectingIsOwned, Goto, AtIt

\* The labels a goroutine can be at inside Connect, whoever called it.
LEMMA ConnectLabels ==
  ASSUME PlaceInv, NEW t \in Threads
  PROVE  /\ t \in Loops => pc[t] \notin {"sdisc", "sset", "scancel"}
         /\ t \notin Loops => pc[t] \notin {"pdisc", "pset", "join", "wait", "begin", "allow",
                                           "rset", "head", "backoff", "leave", "unlock"}
BY DEF PlaceInv, LoopLabels, CallLabels, Outside, Connecting

\* Connect's steps, for whichever goroutine runs them.
LEMMA ConnectStep ==
  ASSUME IInv, NEW t \in Threads, Connect(t)
  PROVE  IInv'
<1> USE DEF IInv
<1>0. UNCHANGED <<rcVars, wVars, cancelled>> /\ shut' \in BOOLEAN
  BY DEF Connect, ConnectCAS, ClosePool, SetDisconnected, SetConnecting, DialFails, DialOk,
         SetConnected
<1>1. /\ t \in Loops => pc[t] \notin {"sdisc", "sset", "scancel"}
      /\ t \notin Loops => pc[t] \notin {"pdisc", "pset"}
  BY ConnectLabels
<1>2. ReadyInv'
  BY <1>0, SetReady, KeepReady
     DEF Connect, ConnectCAS, ClosePool, SetDisconnected, SetConnecting, DialFails, DialOk,
         SetConnected, States, SetError, Set
<1>3. BreakerInv' /\ cooled' \in BOOLEAN
  <2>1. Fail \/ Success \/ UNCHANGED cbVars
    BY DEF Connect, ConnectCAS, ClosePool, SetDisconnected, SetConnecting, DialFails, DialOk,
           SetConnected, ConnectOk, ConnectFailed
  <2>2. cooled' \in BOOLEAN
    BY <2>1 DEF Fail, Success, cbVars
  <2> QED
    BY <2>1, <2>2, BreakerStep
<1>4. PICK l \in LoopLabels \cup CallLabels :
        /\ Goto(t, l)
        /\ t \in Loops => /\ l \in LoopLabels \ {"unlock"}
                          /\ pc[t] \notin Outside /\ l \notin Outside
        /\ t \notin Loops => l \in CallLabels
        /\ \/ state' # "connecting" \/ l \in AtIt
           \/ state' = state /\ pc[t] \notin AtIt
  <2> USE DEF LoopLabels, CallLabels, Outside, Connecting, AtIt
  <2>1. CASE ConnectCAS(t)
    <3>1. CASE state \in {"connecting", "connected"}
      <4>1. Goto(t, IF t \in Loops THEN "leave" ELSE "done") /\ state' = state /\ pc[t] = "cas"
        BY <2>1, <3>1 DEF ConnectCAS, ConnectOk, smVars
      <4> QED
        BY <4>1
    <3>2. CASE state \notin {"connecting", "connected"}
      <4>1. Goto(t, "cdisc") /\ pc[t] = "cas"
        BY <2>1, <3>2 DEF ConnectCAS
      <4> QED
        BY <4>1
    <3> QED
      BY <3>1, <3>2
  <2>2. CASE ClosePool(t)
    <3>1. /\ state' = state
          /\ \/ pc[t] = "cdisc" /\ Goto(t, "cset")
             \/ pc[t] = "pdisc" /\ Goto(t, "pset")
             \/ pc[t] = "sdisc" /\ Goto(t, "sset")
      BY <2>2 DEF ClosePool, smVars
    <3> QED
      BY <1>1, <3>1
  <2>3. CASE SetDisconnected(t)
    <3>1. /\ state' = "disconnected"
          /\ \/ pc[t] = "cset" /\ Goto(t, "cint")
             \/ pc[t] = "pset" /\ Goto(t, "cas")
             \/ pc[t] = "sset" /\ Goto(t, "scancel")
      BY <2>3 DEF SetDisconnected, Set
    <3> QED
      BY <1>1, <3>1
  <2>4. CASE SetConnecting(t)
    BY <2>4 DEF SetConnecting
  <2>5. CASE DialFails(t)
    <3>1. /\ Goto(t, IF t \in Loops THEN "backoff" ELSE "done") /\ state' = "error"
          /\ pc[t] = "dial"
      BY <2>5 DEF DialFails, ConnectFailed, SetError
    <3> QED
      BY <3>1
  <2>6. CASE DialOk(t)
    BY <2>6 DEF DialOk
  <2>7. CASE SetConnected(t)
    <3>1. /\ Goto(t, IF t \in Loops THEN "leave" ELSE "done") /\ state' = "connected"
          /\ pc[t] = "cup"
      BY <2>7 DEF SetConnected, ConnectOk, Set
    <3> QED
      BY <3>1
  <2> QED
    BY <2>1, <2>2, <2>3, <2>4, <2>5, <2>6, <2>7 DEF Connect
<1>5. PlaceInv' /\ LoopInv'
  BY <1>0, <1>4, Moves DEF rcVars, LoopInv
<1>6. ConnectingIsOwned'
  BY <1>4, Owned
<1> QED
  BY <1>0, <1>2, <1>3, <1>5, <1>6

\* Reconnect's steps that keep a goroutine on its side of the loop's door.
LEMMA LoopStep ==
  ASSUME IInv, NEW t \in Threads,
         \/ Join(t) \/ Joined(t) \/ BeginReconnect(t) \/ BreakerAllow(t)
         \/ SetReconnecting(t) \/ Backoff(t)
  PROVE  IInv'
<1> USE DEF IInv
<1>0. UNCHANGED <<wVars, cancelled, shut, reconnecting, fellBack, transport>>
  BY DEF Join, Joined, BeginReconnect, BreakerAllow, SetReconnecting, Backoff, rcVars
<1>1. t \in Loops
  BY ConnectLabels DEF Join, Joined, BeginReconnect, BreakerAllow, SetReconnecting, Backoff
<1>2. ReadyInv'
  BY <1>0, SetReady, KeepReady
     DEF Join, Joined, BeginReconnect, BreakerAllow, SetReconnecting, Backoff, States
<1>3. BreakerInv' /\ cooled' \in BOOLEAN
  <2>1. Allow \/ UNCHANGED cbVars
    BY DEF Join, Joined, BeginReconnect, BreakerAllow, SetReconnecting, Backoff
  <2>2. cooled' \in BOOLEAN
    BY <2>1 DEF Allow, cbVars
  <2> QED
    BY <2>1, <2>2, BreakerStep
<1>4. PICK l \in LoopLabels \cup CallLabels :
        /\ Goto(t, l) /\ l \in LoopLabels \ {"unlock"}
        /\ pc[t] \in Outside <=> l \in Outside
        /\ pc[t] \notin AtIt
        /\ state' # "connecting" \/ state' = state
  <2> USE DEF LoopLabels, Outside, AtIt
  <2>1. CASE Join(t)
    BY <2>1 DEF Join, smVars
  <2>2. CASE Joined(t)
    BY <2>2 DEF Joined, smVars
  <2>3. CASE BeginReconnect(t)
    BY <2>3 DEF BeginReconnect, smVars
  <2>4. CASE BreakerAllow(t)
    <3>1. Goto(t, "rset") \/ Goto(t, "leave")
      BY <2>4 DEF BreakerAllow
    <3> QED
      BY <2>4, <3>1 DEF BreakerAllow, smVars
  <2>5. CASE SetReconnecting(t)
    BY <2>5 DEF SetReconnecting, Set
  <2>6. CASE Backoff(t)
    <3>1. Goto(t, "leave") \/ Goto(t, "head")
      BY <2>6 DEF Backoff
    <3> QED
      BY <2>6, <3>1 DEF Backoff, smVars
  <2> QED
    BY <2>1, <2>2, <2>3, <2>4, <2>5, <2>6
<1>5. PlaceInv' /\ LoopInv'
  <2>1. doneCh' \in Loops \cup {NoLoop} /\ closedDone' = closedDone
    BY <1>1 DEF Join, Joined, BeginReconnect, BreakerAllow, SetReconnecting, Backoff, rcVars,
                LoopInv
  <2> QED
    BY <1>0, <1>1, <1>4, <2>1, Moves DEF LoopInv
<1>6. ConnectingIsOwned'
  BY <1>4, Owned
<1> QED
  BY <1>0, <1>2, <1>3, <1>5, <1>6

\* The door of the loop: the flag lets one goroutine in and Unlock drops it.
LEMMA DoorStep ==
  ASSUME IInv, NEW t \in Threads, ReconnectCAS(t) \/ Unlock(t)
  PROVE  IInv'
<1> USE DEF IInv
<1>0. /\ UNCHANGED <<smVars, cbVars, wVars, cancelled, shut>>
      /\ UNCHANGED <<doneCh, closedDone, fellBack, transport>>
      /\ t \in Loops /\ Loops \subseteq Threads
  BY ConnectLabels DEF ReconnectCAS, Unlock, Threads
<1>1. PlaceInv' /\ LoopInv' /\ ConnectingIsOwned'
  <2> USE DEF LoopLabels, Outside, AtIt
  <2>1. CASE ReconnectCAS(t) /\ reconnecting = TRUE
    <3>1. Goto(t, "join") /\ reconnecting' = TRUE /\ pc[t] = "idle"
      BY <2>1 DEF ReconnectCAS
    <3> QED
      BY <1>0, <2>1, <3>1, Moves, Owned DEF LoopInv, smVars
  <2>2. CASE ReconnectCAS(t) /\ reconnecting = FALSE
    <3>1. Goto(t, "begin") /\ reconnecting' = TRUE /\ pc[t] = "idle"
      BY <2>2 DEF ReconnectCAS
    <3>2. \A u \in Loops : pc[u] \in Outside
      BY <2>2 DEF PlaceInv
    <3>3. pc' = [pc EXCEPT ![t] = "begin"]
      BY <3>1 DEF Goto
    <3>4. PlaceInv'
      BY <1>0, <3>1, <3>2, <3>3 DEF PlaceInv
    <3>5. LoopInv'
      BY <1>0, <3>2 DEF LoopInv
    <3> QED
      BY <1>0, <3>1, <3>4, <3>5, Owned DEF smVars
  <2>3. CASE Unlock(t)
    <3>1. pc' = [pc EXCEPT ![t] = "done"] /\ reconnecting' = FALSE /\ pc[t] = "unlock"
      BY <2>3 DEF Unlock, Goto
    <3>2. \A u \in Loops : pc'[u] \in Outside
      BY <1>0, <3>1 DEF PlaceInv
    <3>3. PlaceInv'
      <4>1. /\ pc' \in [Threads -> LoopLabels \cup CallLabels]
            /\ \A u \in Loops : pc'[u] \in LoopLabels
            /\ \A u \in Threads : u \notin Loops => pc'[u] \in CallLabels
        BY <1>0, <3>1 DEF PlaceInv
      <4>2. reconnecting' \in BOOLEAN /\ ~(reconnecting' = TRUE)
        BY <3>1
      <4> QED
        BY <3>2, <4>1, <4>2 DEF PlaceInv
    <3>4. transport = Configured
      BY <1>0, <3>1 DEF LoopInv, PlaceInv
    <3>5. LoopInv'
      BY <1>0, <3>4 DEF LoopInv
    <3> QED
      BY <1>0, <2>3, <3>1, <3>3, <3>5, Owned DEF smVars, Unlock
  <2> QED
    BY <2>1, <2>2, <2>3 DEF PlaceInv
<1>2. ReadyInv' /\ BreakerInv'
  BY <1>0, KeepReady, BreakerStep
<1>3. shut' \in BOOLEAN /\ cancelled' \in BOOLEAN /\ cooled' \in BOOLEAN
  BY <1>0 DEF cbVars
<1> QED
  BY <1>1, <1>2, <1>3

\* The head of the loop, and its deferred end, which puts the transport back.
LEMMA AttemptStep ==
  ASSUME IInv, NEW t \in Threads, NextAttempt(t)
  PROVE  IInv'
<1> USE DEF IInv
<1>0. /\ UNCHANGED <<wVars, cancelled, shut, reconnecting, doneCh, closedDone>>
      /\ t \in Loops /\ Loops \subseteq Threads /\ pc[t] = "head"
  BY ConnectLabels DEF NextAttempt, Threads
<1>1. \/ /\ Goto(t, "leave") /\ UNCHANGED <<transport, fellBack>>
         /\ UNCHANGED smVars \/ SetError
         /\ UNCHANGED cbVars \/ Fail
      \/ /\ Goto(t, "pdisc") /\ UNCHANGED <<smVars, cbVars>>
         /\ \E falls \in BOOLEAN : /\ transport' = IF falls THEN "auto" ELSE transport
                                  /\ fellBack' = [fellBack EXCEPT ![t] = @ \/ falls]
  BY DEF NextAttempt
<1>2. ReadyInv'
  BY <1>0, <1>1, SetReady, KeepReady DEF SetError, Set, States
<1>3. BreakerInv' /\ cooled' \in BOOLEAN
  <2>1. Fail \/ UNCHANGED cbVars
    BY <1>1
  <2>2. cooled' \in BOOLEAN
    BY <2>1 DEF Fail, cbVars
  <2> QED
    BY <2>1, <2>2, BreakerStep
<1>4. ConnectingIsOwned'
  <2>1. Goto(t, "leave") \/ Goto(t, "pdisc")
    BY <1>1
  <2>2. state' # "connecting" \/ state' = state
    BY <1>1 DEF SetError, smVars
  <2> QED
    BY <1>0, <2>1, <2>2, Owned DEF AtIt
<1>5. PlaceInv' /\ LoopInv'
  <2> USE DEF LoopLabels, Outside
  <2>1. CASE Goto(t, "leave") /\ UNCHANGED <<transport, fellBack>>
    BY <1>0, <2>1, Moves DEF LoopInv
  <2>2. CASE /\ Goto(t, "pdisc")
             /\ \E falls \in BOOLEAN : /\ transport' = IF falls THEN "auto" ELSE transport
                                      /\ fellBack' = [fellBack EXCEPT ![t] = @ \/ falls]
    <3>1. pc' = [pc EXCEPT ![t] = "pdisc"]
      BY <2>2 DEF Goto
    <3>2. PlaceInv'
      BY <1>0, <3>1 DEF PlaceInv
    <3>3. PICK falls \in BOOLEAN : /\ transport' = IF falls THEN "auto" ELSE transport
                                   /\ fellBack' = [fellBack EXCEPT ![t] = @ \/ falls]
      BY <2>2
    <3>4. CASE falls = TRUE
      <4>1. fellBack' \in [Loops -> BOOLEAN] /\ fellBack'[t] = TRUE /\ transport' = "auto"
        BY <1>0, <3>3, <3>4 DEF LoopInv
      <4>2. pc'[t] = "pdisc"
        BY <1>0, <3>1 DEF PlaceInv
      <4> QED
        BY <1>0, <3>2, <4>1, <4>2 DEF LoopInv
    <3>5. CASE falls = FALSE
      <4>1. fellBack' = fellBack /\ transport' = transport
        BY <1>0, <3>3, <3>5 DEF LoopInv
      <4> QED
        BY <1>0, <2>2, <4>1, Moves DEF LoopInv
    <3> QED
      BY <3>4, <3>5
  <2> QED
    BY <1>1, <2>1, <2>2
<1> QED
  BY <1>0, <1>2, <1>3, <1>4, <1>5

\* Leave restores the transport if this loop changed it, and no other has.
LEMMA LeaveStep ==
  ASSUME IInv, NEW t \in Threads, Leave(t)
  PROVE  IInv'
<1> USE DEF IInv
<1>0. /\ UNCHANGED <<smVars, cbVars, wVars, cancelled, shut, reconnecting, doneCh, fellBack>>
      /\ t \in Loops /\ Loops \subseteq Threads /\ pc[t] = "leave"
      /\ pc' = [pc EXCEPT ![t] = "unlock"] /\ closedDone' = closedDone \cup {t}
      /\ transport' = IF fellBack[t] THEN Configured ELSE transport
  BY ConnectLabels DEF Leave, Threads, Goto
<1>1. PlaceInv'
  BY <1>0 DEF PlaceInv, LoopLabels, Outside
<1>2. transport' = Configured
  <2>1. CASE fellBack[t] = TRUE
    BY <1>0, <2>1
  <2>2. CASE fellBack[t] = FALSE
    <3>1. transport' = transport
      BY <1>0, <2>2
    <3>2. \A u \in Loops : pc[u] \notin Outside => u = t
      BY <1>0 DEF PlaceInv, Outside
    <3> QED
      BY <2>2, <3>1, <3>2 DEF LoopInv
  <2> QED
    BY <1>0, <2>1, <2>2 DEF LoopInv
<1>3. LoopInv'
  BY <1>0, <1>2 DEF LoopInv
<1>4. ConnectingIsOwned'
  BY <1>0, Owned DEF Goto, smVars, AtIt
<1>5. ReadyInv' /\ BreakerInv'
  BY <1>0, KeepReady, BreakerStep
<1>6. shut' \in BOOLEAN /\ cancelled' \in BOOLEAN /\ cooled' \in BOOLEAN
  BY <1>0 DEF cbVars
<1> QED
  BY <1>1, <1>3, <1>4, <1>5, <1>6

\* The callers of Connect and Stop are no loops.
LEMMA CallStep ==
  ASSUME IInv, NEW t \in Threads, CallConnect(t) \/ CallStop(t) \/ StopModule(t)
  PROVE  IInv'
<1> USE DEF IInv
<1>0. /\ UNCHANGED <<smVars, cbVars, wVars, rcVars, shut>>
      /\ t \notin Loops /\ pc[t] \in {"idle", "scancel"}
      /\ Goto(t, "cas") \/ Goto(t, "sdisc") \/ Goto(t, "done")
  BY ConnectLabels, ManagerAssumption DEF CallConnect, CallStop, StopModule
<1>1. PlaceInv' /\ LoopInv'
  BY <1>0, Moves DEF CallLabels, Connecting, rcVars, LoopInv
<1>2. ConnectingIsOwned'
  BY <1>0, Owned DEF smVars, AtIt
<1>3. ReadyInv' /\ BreakerInv'
  BY <1>0, KeepReady, BreakerStep
<1>4. shut' \in BOOLEAN /\ cancelled' \in BOOLEAN /\ cooled' \in BOOLEAN
  BY <1>0 DEF cbVars, CallConnect, CallStop, StopModule
<1> QED
  BY <1>1, <1>2, <1>3, <1>4

\* The manager is sound in every reachable state: one goroutine at a time
\* reconnects, the state "connecting" has an owner, the ready channel is closed
\* exactly while the tunnel is up and strands nobody, the transport is put back
\* and a closed breaker is below its threshold.
THEOREM ManagerHolds == Spec => []ManagerIsSound
<1>1. IInv /\ [Next]_vars => IInv'
  <2> SUFFICES ASSUME IInv, [Next]_vars PROVE IInv'
    OBVIOUS
  <2>1. ASSUME NEW t \in Threads, Step(t) PROVE IInv'
    BY <2>1, ConnectStep, LoopStep, DoorStep, AttemptStep, LeaveStep, CallStep
       DEF Step, Reconnect
  <2>2. CASE (\E w \in Waiters : Request(w)) \/ CoolDown \/ UNCHANGED vars
    <3>1. /\ UNCHANGED <<rcVars, shut, cancelled, pc>> /\ state' = state
          /\ CoolDown \/ UNCHANGED cbVars
      BY <2>2 DEF Request, Check, TakeReady, Wake, Deadline, CoolDown, vars, smVars
    <3>2. ReadyInv'
      BY <2>2, RequestReady, KeepReady DEF CoolDown, vars, IInv
    <3>3. BreakerInv' /\ PlaceInv' /\ LoopInv'
      BY <3>1, BreakerStep, KeepLoop DEF IInv
    <3>4. ConnectingIsOwned'
      BY <3>1 DEF IInv, ConnectingIsOwned
    <3>5. shut' \in BOOLEAN /\ cancelled' \in BOOLEAN /\ cooled' \in BOOLEAN
      BY <3>1 DEF IInv, CoolDown, cbVars
    <3> QED
      BY <3>2, <3>3, <3>4, <3>5 DEF IInv
  <2> QED
    BY <2>1, <2>2 DEF Next
<1> QED
  BY <1>1, Initially, Implies, PTL DEF Spec
=============================================================================
