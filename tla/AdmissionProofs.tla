-------------------------- MODULE AdmissionProofs --------------------------
(***************************************************************************)
(* Whom the server lets in, for any number of connections, tokens, users   *)
(* and handshakes.  A token is accepted once, for every window length,     *)
(* tolerance and shard count for which Skew + Delay <= T * W (TokenSet);   *)
(* only what was recognized becomes a tunnel (Listener); and a handshake   *)
(* is checked against users that are not stale (UserStore).                *)
(***************************************************************************)
EXTENDS TokenSet, TLAPS

CONSTANTS Sockets                            \* Listener
CONSTANTS Users, Tools, Handlers, MaxSaves   \* UserStore

VARIABLES stage, hello, open, accepting, lclosed, running, httpClosed, mclosed, serving, ctxDone
VARIABLES file, tool, loader, store, modTime, gen, version, index, hs

L == INSTANCE Listener WITH Conns <- Sockets
U == INSTANCE UserStore

-----------------------------------------------------------------------------
(* The tokens.                                                             *)

\* The clock readings at which a token can be verified: from Earliest(t), and
\* before Deadline(t).
Earliest(t) == W * Window[t] - Skew
Deadline(t) == W * (Window[t] + T + 1)

\* A connection holds its token for at most Delay, after a verification the
\* token's window allows.
InTime ==
  \A p \in Conns :
    conn[p].at # "idle" =>
      /\ Earliest(conn[p].tok) <= conn[p].v /\ conn[p].v < Deadline(conn[p].tok)
      /\ now <= conn[p].v + Delay
      /\ conn[p].at = "clocked" => conn[p].v <= conn[p].c

\* A token that was accepted is remembered, or can no longer be verified.
Remembered ==
  \A t \in Tokens :
    accepted[t] # 0 => \/ seen[t] # None /\ seen[t] >= Earliest(t)
                       \/ now >= Earliest(t) + ReplayWindow

Inv == TypeOK /\ InTime /\ Remembered /\ NoReplay

-----------------------------------------------------------------------------

\* The bounds are integers, and what is left of a token's life once it has
\* been used is shorter than replayWindowSeconds.
LEMMA Slack ==
  ASSUME NEW t \in Tokens
  PROVE  /\ Earliest(t) \in Int /\ Deadline(t) \in Int /\ ReplayWindow \in Int
         /\ Deadline(t) + Delay <= Earliest(t) + ReplayWindow
<1> DEFINE w == Window[t]
<1>1. w \in Int /\ W \in Int /\ T \in Int /\ Skew \in Int /\ Delay \in Int
  BY TokenAssumption
<1>2. W * w \in Int /\ W * (w + T + 1) \in Int /\ (2 * T + 1) * W \in Int /\ T * W \in Int
  BY <1>1
<1>3. W * (w + T + 1) = W * w + T * W + W
  BY <1>1
<1>4. (2 * T + 1) * W = T * W + T * W + W
  BY <1>1
<1>5. Skew + Delay <= T * W
  BY SlackAssumption
<1> HIDE DEF w
<1>6. W * (w + T + 1) + Delay <= W * w - Skew + (2 * T + 1) * W
  BY <1>1, <1>2, <1>3, <1>4, <1>5
<1>7. /\ W * w - Skew \in Int /\ W * (w + T + 1) \in Int
      /\ (2 * T + 1) * W \in Int
  BY <1>1, <1>2
<1> QED BY <1>6, <1>7 DEF Earliest, Deadline, ReplayWindow, w

\* A reading that accepts a window is before the window's deadline.
LEMMA VerifyBound ==
  ASSUME NEW t \in Tokens, NEW clock \in Nat, Accepts(clock, Window[t])
  PROVE  clock < Deadline(t)
<1> DEFINE q == clock \div W
           w == Window[t]
<1>1. w \in Int /\ W \in Int /\ W > 0 /\ T \in Int
  BY TokenAssumption
<1>2. q \in Int /\ clock < W * (q + 1)
  BY <1>1
<1>3. q <= w + T
  BY <1>1, <1>2 DEF Accepts
<1> HIDE DEF q, w
<1>4. W * (q + 1) <= W * (w + T + 1)
  BY <1>1, <1>2, <1>3
<1>5. W * (q + 1) \in Int /\ W * (w + T + 1) \in Int
  BY <1>1, <1>2
<1>6. clock < W * (w + T + 1)
  BY <1>2, <1>4, <1>5
<1> QED BY <1>6 DEF Deadline, w

\* Pruning a shard with a clock the server has shown keeps what matters.
LEMMA PruneKeeps ==
  ASSUME NEW s \in [Tokens -> Int], NEW clock \in 0..now, NEW shard, NEW acc, now \in Nat,
         \A t \in Tokens : s[t] \in {None} \cup 0..now,
         \A t \in Tokens : acc[t] # 0 => \/ s[t] # None /\ s[t] >= Earliest(t)
                                         \/ now >= Earliest(t) + ReplayWindow
  PROVE  LET r == Prune(s, shard, clock)
         IN  /\ r \in [Tokens -> Int]
             /\ \A t \in Tokens : r[t] \in {None} \cup 0..now
             /\ \A t \in Tokens : acc[t] # 0 => \/ r[t] # None /\ r[t] >= Earliest(t)
                                                \/ now >= Earliest(t) + ReplayWindow
<1> DEFINE r == Prune(s, shard, clock)
<1>1. r \in [Tokens -> Int] /\ \A t \in Tokens : r[t] \in {None} \cup 0..now
  BY DEF Prune, None
<1>2. ASSUME NEW t \in Tokens, acc[t] # 0
      PROVE  \/ r[t] # None /\ r[t] >= Earliest(t)
             \/ now >= Earliest(t) + ReplayWindow
  <2>1. CASE r[t] = s[t]
    BY <1>2, <2>1
  <2>2. CASE r[t] # s[t]
    <3>1. s[t] # None /\ clock - s[t] >= ReplayWindow
      BY <2>2 DEF Prune, Expired
    <3>2. CASE s[t] >= Earliest(t)
      BY <3>1, <3>2, Slack
    <3>3. CASE ~(s[t] >= Earliest(t))
      BY <1>2, <3>3
    <3> QED BY <3>2, <3>3
  <2> QED BY <2>1, <2>2
<1> QED BY <1>1, <1>2

\* The books start in order: no token is accepted and no connection is at work.
LEMMA InitInv == Init => Inv
<1> SUFFICES ASSUME Init PROVE Inv
  OBVIOUS
<1>1. (CHOOSE t \in Tokens : TRUE) \in Tokens
  BY TokenAssumption
<1>2. 0 \in 0..now /\ now \in Nat /\ 0 \in 0..Shards
  BY TokenAssumption DEF Init
<1>3. TypeOK
  BY <1>1, <1>2 DEF Init, TypeOK, None, Idle
<1>4. InTime /\ Remembered /\ NoReplay
  BY DEF Init, InTime, Remembered, NoReplay, Idle
<1> QED BY <1>3, <1>4 DEF Inv

\* Every step keeps the books: the argument is in Consume, where a token that
\* was accepted before is either still remembered, and then refused, or could
\* not have been verified within Delay.
LEMMA StepInv == Inv /\ [Next]_vars => Inv'
<1> SUFFICES ASSUME Inv, [Next]_vars PROVE Inv'
  OBVIOUS
<1> USE DEF Inv
<1>0. now \in Nat /\ None \in Int
  BY DEF TypeOK, None
<1>1. CASE UNCHANGED vars
  BY <1>1 DEF vars, TypeOK, InTime, Remembered, NoReplay
<1>2. CASE Tick
  <2>1. now' = now + 1 /\ now' \in Nat /\ 0..now \subseteq 0..now'
    BY <1>0, <1>2 DEF Tick
  <2>2. UNCHANGED <<seen, conn, sweep, accepted>>
    BY <1>2 DEF Tick
  <2>3. TypeOK'
    <3>1. conn' \in [Conns -> [at : {"idle", "verified", "clocked"}, tok : Tokens, v : 0..now', c : 0..now']]
      BY <2>1, <2>2 DEF TypeOK
    <3>2. sweep' \in [shard : 0..Shards, clock : 0..now']
      BY <2>1, <2>2 DEF TypeOK
    <3> QED BY <2>1, <2>2, <3>1, <3>2 DEF TypeOK
  <2>4. InTime'
    BY <1>2, <2>2 DEF Tick, InTime, Earliest, Deadline
  <2>5. Remembered'
    <3> SUFFICES ASSUME NEW t \in Tokens, accepted'[t] # 0
                 PROVE  \/ seen'[t] # None /\ seen'[t] >= Earliest(t)
                        \/ now' >= Earliest(t) + ReplayWindow
      BY DEF Remembered, Earliest, ReplayWindow
    <3>1. \/ seen[t] # None /\ seen[t] >= Earliest(t)
          \/ now >= Earliest(t) + ReplayWindow
      BY <2>2 DEF Remembered
    <3>2. Earliest(t) + ReplayWindow \in Int
      BY Slack
    <3> QED BY <1>0, <2>1, <2>2, <3>1, <3>2
  <2> QED BY <2>2, <2>3, <2>4, <2>5 DEF NoReplay
<1>3. ASSUME NEW p \in Conns, NEW t \in Tokens, Verify(p, t) PROVE Inv'
  <2>1. UNCHANGED <<now, seen, sweep, accepted>>
    BY <1>3 DEF Verify
  <2>2. conn' = [conn EXCEPT ![p] = [at |-> "verified", tok |-> t, v |-> now, c |-> 0]]
    BY <1>3 DEF Verify
  <2>3. now \in 0..now /\ 0 \in 0..now
    BY <1>0
  <2>4. TypeOK'
    BY <2>1, <2>2, <2>3 DEF TypeOK
  <2>5. Earliest(t) <= now /\ now < Deadline(t)
    <3>1. now >= W * Window[t] - Skew /\ Accepts(now, Window[t])
      BY <1>3 DEF Verify
    <3>2. W * Window[t] - Skew \in Int
      BY Slack DEF Earliest
    <3> QED BY <1>0, <3>1, <3>2, VerifyBound DEF Earliest
  <2>6. now <= now + Delay
    BY <1>0, TokenAssumption
  <2>7. InTime'
    BY <2>1, <2>2, <2>5, <2>6 DEF InTime, TypeOK, Earliest, Deadline
  <2> QED BY <2>1, <2>4, <2>7 DEF Remembered, NoReplay, Earliest, ReplayWindow
<1>4. ASSUME NEW p \in Conns, ReadClock(p) PROVE Inv'
  <2>1. UNCHANGED <<now, seen, sweep, accepted>> /\ conn[p].at = "verified"
    BY <1>4 DEF ReadClock
  <2>2. conn' = [conn EXCEPT ![p].at = "clocked", ![p].c = now]
    BY <1>4 DEF ReadClock
  <2>3. now \in 0..now
    BY <1>0
  <2>4. TypeOK'
    <3> DEFINE R == [at : {"idle", "verified", "clocked"}, tok : Tokens, v : 0..now, c : 0..now]
    <3>1. conn \in [Conns -> R]
      BY DEF TypeOK
    <3>2. [conn[p] EXCEPT !.at = "clocked", !.c = now] \in R
      BY <2>3, <3>1
    <3>3. conn' = [conn EXCEPT ![p] = [conn[p] EXCEPT !.at = "clocked", !.c = now]]
      BY <2>2, <3>1
    <3>4. conn' \in [Conns -> R]
      BY <3>1, <3>2, <3>3
    <3> QED
      BY <2>1, <3>4 DEF TypeOK
  <2>5. conn[p].v \in 0..now
    BY DEF TypeOK
  <2>6. InTime'
    BY <1>0, <2>1, <2>2, <2>5 DEF InTime, TypeOK, Earliest, Deadline
  <2> QED BY <2>1, <2>4, <2>6 DEF Remembered, NoReplay, Earliest, ReplayWindow
<1>5. ASSUME NEW p \in Conns, Consume(p) PROVE Inv'
  <2> DEFINE t == conn[p].tok
             c == conn[p].c
             v == conn[p].v
             stored == [seen EXCEPT ![t] = c]
  <2>1. /\ conn[p].at = "clocked" /\ UNCHANGED <<now, sweep>>
        /\ conn' = [conn EXCEPT ![p] = Idle]
    BY <1>5 DEF Consume
  <2>2. t \in Tokens /\ c \in 0..now /\ v \in 0..now
    BY DEF TypeOK
  <2>3. Earliest(t) <= v /\ v < Deadline(t) /\ now <= v + Delay /\ v <= c
    BY <2>1 DEF InTime
  <2>4. Idle \in [at : {"idle", "verified", "clocked"}, tok : Tokens, v : 0..now, c : 0..now]
    <3>1. 0 \in 0..now /\ (CHOOSE x \in Tokens : TRUE) \in Tokens
      BY <1>0, TokenAssumption
    <3> QED BY <3>1 DEF Idle
  <2>5. conn' \in [Conns -> [at : {"idle", "verified", "clocked"}, tok : Tokens, v : 0..now', c : 0..now']]
    BY <2>1, <2>4 DEF TypeOK
  <2>6. InTime'
    BY <2>1 DEF InTime, TypeOK, Idle, Earliest, Deadline
  <2>7. CASE seen[t] # None /\ ~Expired(seen, t, c)
    <3>1. UNCHANGED <<seen, accepted>>
      BY <1>5, <2>7 DEF Consume
    <3> QED BY <2>1, <2>5, <2>6, <3>1 DEF TypeOK, Remembered, NoReplay, Earliest, ReplayWindow
  <2>8. CASE ~(seen[t] # None /\ ~Expired(seen, t, c))
    <3>1. accepted' = [accepted EXCEPT ![t] = @ + 1]
      BY <1>5, <2>8 DEF Consume
    <3>2. seen' = stored \/ seen' = Prune(stored, ShardOf[t], c)
      BY <1>5, <2>8 DEF Consume
    <3>3. v + Delay < Earliest(t) + ReplayWindow
      BY <2>2, <2>3, Slack, TokenAssumption
    <3>4. accepted[t] = 0
      <4> SUFFICES ASSUME accepted[t] # 0 PROVE FALSE
        OBVIOUS
      <4>1. Earliest(t) \in Int /\ ReplayWindow \in Int /\ Delay \in Int
        BY <2>2, Slack, TokenAssumption
      <4>2. now < Earliest(t) + ReplayWindow
        BY <1>0, <2>2, <2>3, <3>3, <4>1
      <4>3. seen[t] # None /\ seen[t] >= Earliest(t)
        BY <1>0, <2>2, <4>1, <4>2 DEF Remembered
      <4>4. seen[t] \in Int
        BY <2>2 DEF TypeOK
      <4>5. c - seen[t] < ReplayWindow
        BY <1>0, <2>2, <4>1, <4>2, <4>3, <4>4
      <4> QED BY <1>0, <2>2, <2>8, <4>1, <4>3, <4>4, <4>5 DEF Expired
    <3>5. accepted' \in [Tokens -> Nat] /\ NoReplay'
      BY <2>2, <3>1, <3>4 DEF TypeOK, NoReplay
    <3>6. c >= Earliest(t)
      BY <2>2, <2>3, Slack
    <3>7. c # None
      BY <1>0, <2>2 DEF None
    <3>8. /\ stored \in [Tokens -> Int]
          /\ \A x \in Tokens : stored[x] \in {None} \cup 0..now
          /\ \A x \in Tokens : accepted'[x] # 0 => \/ stored[x] # None /\ stored[x] >= Earliest(x)
                                                  \/ now >= Earliest(x) + ReplayWindow
      BY <1>0, <2>2, <3>1, <3>6, <3>7 DEF TypeOK, Remembered
    <3>9. /\ seen' \in [Tokens -> Int]
          /\ \A x \in Tokens : seen'[x] \in {None} \cup 0..now
          /\ \A x \in Tokens : accepted'[x] # 0 => \/ seen'[x] # None /\ seen'[x] >= Earliest(x)
                                                  \/ now >= Earliest(x) + ReplayWindow
      <4>1. CASE seen' = stored
        BY <3>8, <4>1
      <4>2. CASE seen' = Prune(stored, ShardOf[t], c)
        BY <1>0, <2>2, <3>8, <4>2, PruneKeeps
      <4> QED BY <3>2, <4>1, <4>2
    <3>10. TypeOK'
      BY <2>1, <2>5, <3>5, <3>9 DEF TypeOK
    <3> QED BY <2>1, <2>6, <3>5, <3>9, <3>10 DEF Remembered, Earliest, ReplayWindow
  <2> QED BY <2>7, <2>8
<1>6. CASE SweepBegin
  <2>1. UNCHANGED <<now, seen, conn, accepted>> /\ sweep' = [shard |-> 1, clock |-> now]
    BY <1>6 DEF SweepBegin
  <2>2. now \in 0..now
    BY <1>0
  <2>3. 1 \in 0..Shards
    BY TokenAssumption
  <2>4. TypeOK'
    BY <2>1, <2>2, <2>3 DEF TypeOK
  <2> QED BY <2>1, <2>4 DEF InTime, Remembered, NoReplay, Earliest, Deadline, ReplayWindow
<1>7. CASE SweepShard
  <2>1. UNCHANGED <<now, conn, accepted>> /\ seen' = Prune(seen, sweep.shard, sweep.clock)
    BY <1>7 DEF SweepShard
  <2>2. sweep.clock \in 0..now /\ sweep.shard \in 0..Shards
    BY DEF TypeOK
  <2>3. /\ seen' \in [Tokens -> Int]
        /\ \A t \in Tokens : seen'[t] \in {None} \cup 0..now
        /\ \A t \in Tokens : accepted[t] # 0 => \/ seen'[t] # None /\ seen'[t] >= Earliest(t)
                                               \/ now >= Earliest(t) + ReplayWindow
    BY <1>0, <2>1, <2>2, PruneKeeps DEF TypeOK, Remembered
  <2>4. sweep' \in [shard : 0..Shards, clock : 0..now]
    <3>1. sweep.shard < Shards => sweep.shard + 1 \in 0..Shards
      BY <2>2, TokenAssumption
    <3>2. 0 \in 0..Shards /\ 0 \in 0..now
      BY <1>0, TokenAssumption
    <3> QED BY <1>7, <2>2, <3>1, <3>2 DEF SweepShard, TypeOK
  <2>5. TypeOK'
    BY <2>1, <2>3, <2>4 DEF TypeOK
  <2> QED BY <2>1, <2>3, <2>5 DEF InTime, Remembered, NoReplay, Earliest, Deadline, ReplayWindow
<1> QED BY <1>1, <1>2, <1>3, <1>4, <1>5, <1>6, <1>7 DEF Next

-----------------------------------------------------------------------------

\* The books are kept in every reachable state.
THEOREM BooksAreKept == Spec => []Inv
BY InitInv, StepInv, PTL DEF Spec

\* VerifyAuthTokenRaw and consume: a token is accepted once, for every window
\* length and tolerance, however many connections present it, and however
\* their steps, the clean-up and the sweeper interleave.
THEOREM OncePerToken == Spec => []NoReplay
<1>1. Inv => NoReplay
  BY DEF Inv
<1> QED BY <1>1, BooksAreKept, PTL

\* The times in the set, in the handlers and in the sweeper are readings the
\* clock has shown.
THEOREM TypeCorrect == Spec => []TypeOK
<1>1. Inv => TypeOK
  BY DEF Inv
<1> QED BY <1>1, BooksAreKept, PTL

-----------------------------------------------------------------------------
(* The listener.                                                           *)

\* A connection that is past the hello has one; the marker and the users'
\* hellos are the ones that lead on.
LInv ==
  /\ L!OnlyRecognizedTunnel
  /\ stage \in [Sockets -> L!Stages]
  /\ hello \in [Sockets -> {"none", "user", "marker", "stranger"}]
  /\ \A c \in Sockets : stage[c] \in {"classify", "handover"} => hello[c] # "none"

\* A connection becomes a tunnel only if its hello was recognized (handle,
\* classify, handlePerflowConn), for any number of connections and whenever
\* the layers stop.
THEOREM TunnelsAreRecognized == L!Spec => []L!OnlyRecognizedTunnel
<1>1. L!Init => LInv
  BY DEF L!Init, LInv, L!OnlyRecognizedTunnel, L!Stages
<1>2. LInv /\ [L!Next]_(L!vars) => LInv'
  <2> SUFFICES ASSUME LInv, [L!Next]_(L!vars) PROVE LInv'
    OBVIOUS
  <2> USE DEF LInv, L!OnlyRecognizedTunnel, L!Stages, L!layers, L!vars
  <2>1. ASSUME NEW c \in Sockets, L!Arrive(c) PROVE LInv'
    BY <2>1 DEF L!Arrive
  <2>2. ASSUME NEW c \in Sockets, L!Handle(c) PROVE LInv'
    BY <2>2 DEF L!Handle, L!Recognized, L!Refused, L!Relayed, L!HandOver, L!HandOverClosed,
                L!Go, L!Drop, L!Judged
  <2>3. ASSUME NEW c \in Sockets, L!RelayEnds(c) \/ L!Mux(c) \/ L!HttpDone(c) PROVE LInv'
    BY <2>3 DEF L!RelayEnds, L!Mux, L!HttpDone, L!Classify, L!ToHttp, L!ToHttpClosed,
                L!Preamble, L!Consume, L!Go, L!Drop
  <2>4. CASE L!AcceptFails \/ L!RunEnds \/ L!ServeEnds \/ L!Stop \/ L!StopListener
    BY <2>4 DEF L!AcceptFails, L!RunEnds, L!ServeEnds, L!Stop, L!StopListener
  <2>5. CASE UNCHANGED L!vars
    BY <2>5
  <2> QED
    BY <2>1, <2>2, <2>3, <2>4, <2>5 DEF L!Next
<1> QED
  BY <1>1, <1>2, PTL DEF L!Spec, LInv

-----------------------------------------------------------------------------
(* The users.                                                              *)

LoaderRec == [at : {"idle", "compare", "stat", "read", "store", "bump"},
              mtime : Nat, data : SUBSET Users]
HsRec == [at : {"idle", "check", "get", "install", "done"}, ver : Nat,
          users : SUBSET Users, gen : Nat]
Bumps(l) == IF loader[l].at = "bump" THEN 1 ELSE 0

\* The store is ahead of its version by the reloads that have yet to count it,
\* and what a handshake or the index took is as new as the version it bears.
VersionInv ==
  /\ version \in Nat /\ gen = version + Bumps("watcher") + Bumps("restore")
  /\ loader \in [U!Loaders -> LoaderRec]
  /\ index \in [built : BOOLEAN, users : SUBSET Users, ver : Nat, gen : Nat]
  /\ index.gen >= index.ver
  /\ hs \in [Handlers -> HsRec]
  /\ \A h \in Handlers : /\ hs[h].ver <= version
                         /\ hs[h].at \in {"install", "done"} => hs[h].gen >= hs[h].ver

\* No time is ahead of the file's, and one that is the file's was read before
\* its content.
TimeInv ==
  /\ file \in [data : U!Content, mtime : Nat] /\ store \in SUBSET Users
  /\ modTime \in Nat /\ modTime <= file.mtime
  /\ U!TimeVouches
  /\ tool \in [Tools -> [at : {"idle", "loaded"}, copy : SUBSET Users]]
  /\ \A l \in U!Loaders : loader[l].at \in {"read", "store"} =>
       /\ loader[l].mtime <= file.mtime
       /\ loader[l].at = "store" /\ loader[l].mtime = file.mtime => loader[l].data = file.data

\* The server starts with the users of the file, version 1 and no index.
LEMMA UsersInit == U!Init => VersionInv /\ TimeInv
<1> SUFFICES ASSUME U!Init PROVE VersionInv /\ TimeInv
  OBVIOUS
<1>1. VersionInv
  BY DEF U!Init, VersionInv, LoaderRec, HsRec, U!Loaders, U!LoaderIdle, U!HsIdle, Bumps
<1>2. TimeInv
  BY DEF U!Init, TimeInv, U!Loaders, U!LoaderIdle, U!ToolIdle, U!Content, U!TimeVouches
<1> QED
  BY <1>1, <1>2

\* A new modification time is ahead of everything that was read before.
LEMMA FileMoves ==
  ASSUME VersionInv, TimeInv, NEW d \in U!Content,
         file' = [data |-> d, mtime |-> file.mtime + 1], UNCHANGED <<store, modTime>>,
         tool' \in [Tools -> [at : {"idle", "loaded"}, copy : SUBSET Users]],
         loader' \in [U!Loaders -> LoaderRec],
         \A l \in U!Loaders : loader'[l].at \in {"read", "store"} => loader'[l] = loader[l]
  PROVE  TimeInv'
<1>1. /\ file' \in [data : U!Content, mtime : Nat] /\ file'.mtime = file.mtime + 1
      /\ file.mtime \in Nat /\ modTime \in Nat /\ modTime <= file.mtime
  BY DEF TimeInv
<1>2. modTime' <= file'.mtime /\ modTime' # file'.mtime /\ modTime' \in Nat
  BY <1>1
<1>3. ASSUME NEW l \in U!Loaders, loader'[l].at \in {"read", "store"}
      PROVE  loader'[l].mtime <= file'.mtime /\ loader'[l].mtime # file'.mtime
  <2>1. loader[l].mtime \in Nat /\ loader[l].mtime <= file.mtime /\ loader'[l] = loader[l]
    BY <1>3 DEF TimeInv, VersionInv, LoaderRec
  <2> QED
    BY <1>1, <2>1
<1> QED
  BY <1>1, <1>2, <1>3 DEF TimeInv, U!TimeVouches

\* The command-line tool writes the file only, and its time moves on.
LEMMA ToolStep ==
  ASSUME VersionInv, TimeInv,
         \/ \E p \in Tools : U!Tool(p)
         \/ \E d \in U!Content : U!RestoreWrites(d)
  PROVE  VersionInv' /\ TimeInv'
<1>1. ASSUME NEW p \in Tools, U!Tool(p) PROVE VersionInv' /\ TimeInv'
  <2>1. UNCHANGED <<loader, store, modTime, gen, version, index, hs>>
    BY <1>1 DEF U!Tool, U!ToolLoads, U!ToolUpserts, U!ToolDeletes
  <2>2. VersionInv'
    BY <2>1 DEF VersionInv, Bumps
  <2>3. \/ UNCHANGED file
        \/ \E d \in SUBSET Users : file' = [data |-> d, mtime |-> file.mtime + 1]
    BY <1>1 DEF U!Tool, U!ToolLoads, U!ToolUpserts, U!ToolDeletes, U!Saved, TimeInv
  <2>4. tool' \in [Tools -> [at : {"idle", "loaded"}, copy : SUBSET Users]]
    <3>1. file.data # U!NotUsers => file.data \in SUBSET Users
      BY DEF TimeInv, U!Content
    <3>2. U!ToolIdle \in [at : {"idle", "loaded"}, copy : SUBSET Users]
      BY DEF U!ToolIdle
    <3>3. \E r \in [at : {"idle", "loaded"}, copy : SUBSET Users] : tool' = [tool EXCEPT ![p] = r]
      <4>1. CASE U!ToolLoads(p)
        <5> DEFINE u == IF file.data = U!NotUsers THEN {} ELSE file.data
        <5>1. u \in SUBSET Users /\ tool' = [tool EXCEPT ![p] = [at |-> "loaded", copy |-> u]]
          BY <3>1, <4>1 DEF U!ToolLoads
        <5> HIDE DEF u
        <5> QED
          BY <5>1
      <4>2. CASE ~U!ToolLoads(p)
        BY <1>1, <3>2, <4>2 DEF U!Tool, U!ToolUpserts, U!ToolDeletes
      <4> QED
        BY <4>1, <4>2
    <3> QED
      BY <3>3 DEF TimeInv
  <2>5. TimeInv'
    <3>1. CASE UNCHANGED file
      BY <2>1, <2>4, <3>1 DEF TimeInv, U!TimeVouches
    <3>2. CASE file' # file
      <4>1. PICK d \in SUBSET Users : file' = [data |-> d, mtime |-> file.mtime + 1]
        BY <2>3, <3>2
      <4>2. d \in U!Content /\ loader' \in [U!Loaders -> LoaderRec]
        BY <2>1 DEF U!Content, VersionInv
      <4> QED
        BY <2>1, <2>4, <4>1, <4>2, FileMoves
    <3> QED
      BY <3>1, <3>2
  <2> QED
    BY <2>2, <2>5
<1>2. ASSUME NEW d \in U!Content, U!RestoreWrites(d) PROVE VersionInv' /\ TimeInv'
  <2> DEFINE r == [U!LoaderIdle EXCEPT !.at = "stat"]
  <2>1. /\ UNCHANGED <<tool, store, modTime, gen, version, index, hs>>
        /\ file' = [data |-> d, mtime |-> file.mtime + 1]
        /\ loader["restore"].at = "idle" /\ loader' = [loader EXCEPT !["restore"] = r]
    BY <1>2 DEF U!RestoreWrites, U!Saved, U!Put
  <2>2. r \in LoaderRec /\ r.at = "stat"
    BY DEF U!LoaderIdle, LoaderRec
  <2> HIDE DEF r
  <2>3. VersionInv'
    BY <2>1, <2>2 DEF VersionInv, Bumps, U!Loaders
  <2>4. TimeInv'
    BY <2>1, <2>2, FileMoves DEF TimeInv, VersionInv, U!Loaders
  <2> QED
    BY <2>3, <2>4
<1> QED
  BY <1>1, <1>2

\* A loader's step before the store: what it has read is not ahead of the file.
LEMMA LoaderMoves ==
  ASSUME VersionInv, TimeInv, NEW l \in U!Loaders, NEW r \in LoaderRec, U!Put(l, r),
         UNCHANGED <<file, tool, store, modTime, gen, version, index, hs>>,
         loader[l].at # "bump", r.at # "bump",
         r.at \in {"read", "store"} => r.mtime <= file.mtime,
         r.at = "store" => r.data = file.data
  PROVE  VersionInv' /\ TimeInv'
<1>1. loader' = [loader EXCEPT ![l] = r]
  BY DEF U!Put
<1>2. VersionInv'
  BY <1>1 DEF VersionInv, Bumps, U!Loaders
<1>3. TimeInv'
  BY <1>1 DEF TimeInv, U!TimeVouches, VersionInv
<1> QED
  BY <1>2, <1>3

\* A reload: the time, then the content, then both into the store, then the
\* version.
LEMMA LoadStep ==
  ASSUME VersionInv, TimeInv,
         U!WatchStat \/ U!WatchCompare \/ \E l \in U!Loaders : U!Load(l)
  PROVE  VersionInv' /\ TimeInv'
<1>0. /\ U!LoaderIdle \in LoaderRec /\ U!LoaderIdle.at = "idle"
      /\ "watcher" \in U!Loaders /\ file.mtime \in Nat
      /\ \A l \in U!Loaders : loader[l] \in LoaderRec
  BY DEF U!LoaderIdle, LoaderRec, U!Loaders, TimeInv, VersionInv
<1>1. CASE U!WatchStat
  <2> DEFINE r == [U!LoaderIdle EXCEPT !.at = "compare", !.mtime = file.mtime]
  <2>1. r \in LoaderRec /\ r.at = "compare"
    BY <1>0 DEF LoaderRec, U!LoaderIdle
  <2>2. U!Put("watcher", r) /\ loader["watcher"].at = "idle"
    BY <1>1 DEF U!WatchStat
  <2> HIDE DEF r
  <2> QED
    BY <1>0, <1>1, <2>1, <2>2, LoaderMoves DEF U!WatchStat
<1>2. CASE U!WatchCompare
  <2> DEFINE r == [U!LoaderIdle EXCEPT !.at = "stat"]
  <2>1. r \in LoaderRec /\ r.at = "stat"
    BY <1>0 DEF LoaderRec, U!LoaderIdle
  <2>2. /\ U!Put("watcher", U!LoaderIdle) \/ U!Put("watcher", r)
        /\ loader["watcher"].at = "compare"
    BY <1>2 DEF U!WatchCompare
  <2> HIDE DEF r
  <2> QED
    BY <1>0, <1>2, <2>1, <2>2, LoaderMoves DEF U!WatchCompare
<1>3. ASSUME NEW l \in U!Loaders, U!LoadStat(l) PROVE VersionInv' /\ TimeInv'
  <2> DEFINE r == [U!LoaderIdle EXCEPT !.at = "read", !.mtime = file.mtime]
  <2>1. r \in LoaderRec /\ r.at = "read" /\ r.mtime = file.mtime
    BY <1>0 DEF LoaderRec, U!LoaderIdle
  <2>2. U!Put(l, r) /\ loader[l].at = "stat"
    BY <1>3 DEF U!LoadStat
  <2> HIDE DEF r
  <2> QED
    BY <1>0, <1>3, <2>1, <2>2, LoaderMoves DEF U!LoadStat
<1>4. ASSUME NEW l \in U!Loaders, U!LoadRead(l) PROVE VersionInv' /\ TimeInv'
  <2>1. CASE file.data = U!NotUsers
    BY <1>0, <1>4, <2>1, LoaderMoves DEF U!LoadRead
  <2>2. CASE file.data # U!NotUsers
    <3> DEFINE r == [loader[l] EXCEPT !.at = "store", !.data = file.data]
    <3>1. file.data \in SUBSET Users
      BY <2>2 DEF TimeInv, U!Content
    <3>2. /\ r \in LoaderRec /\ r.at = "store" /\ r.mtime = loader[l].mtime
          /\ r.data = file.data
      BY <1>0, <3>1 DEF LoaderRec
    <3>3. /\ U!Put(l, r) /\ loader[l].at = "read"
          /\ UNCHANGED <<file, tool, store, modTime, gen, version, index, hs>>
      BY <1>4, <2>2 DEF U!LoadRead
    <3>4. loader[l].mtime <= file.mtime
      BY <3>3 DEF TimeInv
    <3> HIDE DEF r
    <3> QED
      BY <3>2, <3>3, <3>4, LoaderMoves
  <2> QED
    BY <2>1, <2>2
<1>5. ASSUME NEW l \in U!Loaders, U!LoadStore(l) PROVE VersionInv' /\ TimeInv'
  <2> DEFINE r == [U!LoaderIdle EXCEPT !.at = "bump"]
  <2>1. /\ UNCHANGED <<file, tool, version, index, hs>> /\ gen' = gen + 1
        /\ loader[l].at = "store" /\ store' = loader[l].data /\ modTime' = loader[l].mtime
        /\ loader' = [loader EXCEPT ![l] = r]
    BY <1>5 DEF U!LoadStore, U!Put
  <2>2. r \in LoaderRec /\ r.at = "bump"
    BY DEF LoaderRec, U!LoaderIdle
  <2> HIDE DEF r
  <2>3. VersionInv'
    BY <2>1, <2>2 DEF VersionInv, Bumps, U!Loaders
  <2>4. loader[l].data \in SUBSET Users /\ loader[l].mtime \in Nat
    BY <1>0 DEF LoaderRec
  <2>5. TimeInv'
    BY <2>1, <2>2, <2>4 DEF TimeInv, U!TimeVouches, VersionInv
  <2> QED
    BY <2>3, <2>5
<1>6. ASSUME NEW l \in U!Loaders, U!LoadBump(l) PROVE VersionInv' /\ TimeInv'
  <2>1. /\ UNCHANGED <<file, tool, store, modTime, gen, index, hs>> /\ version' = version + 1
        /\ loader[l].at = "bump" /\ loader' = [loader EXCEPT ![l] = U!LoaderIdle]
    BY <1>6 DEF U!LoadBump, U!Put
  <2>2. VersionInv'
    <3>1. version' \in Nat /\ gen' = version' + Bumps("watcher")' + Bumps("restore")'
      BY <1>0, <2>1 DEF VersionInv, Bumps, U!Loaders
    <3>2. \A h \in Handlers : hs[h].ver \in Nat /\ hs[h].ver <= version'
      BY <2>1 DEF VersionInv, HsRec
    <3> QED
      BY <1>0, <2>1, <3>1, <3>2 DEF VersionInv
  <2>3. TimeInv'
    BY <1>0, <2>1 DEF TimeInv, U!TimeVouches, VersionInv
  <2> QED
    BY <2>2, <2>3
<1> QED
  BY <1>1, <1>2, <1>3, <1>4, <1>5, <1>6 DEF U!Load

\* A handshake: version, index, store and index again, in this order.
LEMMA HandshakeStep ==
  ASSUME VersionInv, TimeInv, NEW h \in Handlers, U!Handshake(h)
  PROVE  VersionInv' /\ TimeInv'
<1>1. UNCHANGED <<file, tool, loader, store, modTime, gen, version>>
  BY DEF U!Handshake, U!HsVersion, U!HsCheck, U!HsGet, U!HsInstall, U!HsLookup
<1>2. TimeInv'
  BY <1>1 DEF TimeInv, U!TimeVouches
<1>3. gen \in Nat /\ gen >= version /\ version \in Nat
  BY DEF VersionInv, Bumps
<1>4. hs[h] \in HsRec /\ U!HsIdle \in HsRec /\ U!HsIdle.ver = 0 /\ U!HsIdle.at = "idle"
  BY DEF VersionInv, HsRec, U!HsIdle
<1>5. /\ index \in [built : BOOLEAN, users : SUBSET Users, ver : Nat, gen : Nat]
      /\ index.gen >= index.ver /\ hs[h].ver <= version
      /\ hs[h].at \in {"install", "done"} => hs[h].gen >= hs[h].ver
  BY DEF VersionInv
<1>6. ASSUME NEW r \in HsRec, U!Hs(h, r), r.ver <= version,
             r.at \in {"install", "done"} => r.gen >= r.ver,
             index' \in [built : BOOLEAN, users : SUBSET Users, ver : Nat, gen : Nat],
             index'.gen >= index'.ver
      PROVE  VersionInv'
  BY <1>1, <1>6 DEF VersionInv, Bumps, U!Hs
<1>7. VersionInv'
  <2>1. CASE U!HsVersion(h)
    <3> DEFINE r == [U!HsIdle EXCEPT !.at = "check", !.ver = version]
    <3>1. r \in HsRec /\ r.at = "check" /\ r.ver = version
      BY <1>3 DEF HsRec, U!HsIdle
    <3>2. U!Hs(h, r) /\ index' = index
      BY <2>1 DEF U!HsVersion
    <3> HIDE DEF r
    <3> QED
      BY <1>3, <1>5, <1>6, <3>1, <3>2
  <2>2. CASE U!HsCheck(h)
    <3> DEFINE r == [hs[h] EXCEPT !.at = "done", !.users = index.users, !.gen = index.gen]
               q == [hs[h] EXCEPT !.at = "get"]
    <3>1. r \in HsRec /\ r.gen = index.gen /\ r.ver = hs[h].ver
      BY <1>4, <1>5 DEF HsRec
    <3>2. q \in HsRec /\ q.at = "get" /\ q.ver = hs[h].ver
      BY <1>4 DEF HsRec
    <3>3. /\ (U!Hs(h, r) /\ index.ver = hs[h].ver) \/ U!Hs(h, q)
          /\ index' = index
      BY <2>2 DEF U!HsCheck
    <3> HIDE DEF r, q
    <3> QED
      BY <1>5, <1>6, <3>1, <3>2, <3>3
  <2>3. CASE U!HsGet(h)
    <3> DEFINE r == [hs[h] EXCEPT !.at = "install", !.users = store, !.gen = gen]
    <3>1. r \in HsRec /\ r.gen = gen /\ r.ver = hs[h].ver
      BY <1>3, <1>4 DEF HsRec, TimeInv
    <3>2. U!Hs(h, r) /\ index' = index
      BY <2>3 DEF U!HsGet
    <3>3. hs[h].ver \in Nat
      BY <1>4 DEF HsRec
    <3> HIDE DEF r
    <3> QED
      BY <1>3, <1>5, <1>6, <3>1, <3>2, <3>3
  <2>4. CASE U!HsInstall(h)
    <3> DEFINE r == [hs[h] EXCEPT !.at = "done"]
    <3>1. r \in HsRec /\ r.gen = hs[h].gen /\ r.ver = hs[h].ver /\ r.at = "done"
      BY <1>4 DEF HsRec
    <3>2. /\ U!Hs(h, r) /\ hs[h].at = "install"
          /\ index' = [built |-> TRUE, users |-> hs[h].users, ver |-> hs[h].ver, gen |-> hs[h].gen]
      BY <2>4 DEF U!HsInstall
    <3>3. /\ index' \in [built : BOOLEAN, users : SUBSET Users, ver : Nat, gen : Nat]
          /\ index'.gen = hs[h].gen /\ index'.ver = hs[h].ver
      BY <1>4, <3>2 DEF HsRec
    <3> HIDE DEF r
    <3> QED
      BY <1>5, <1>6, <3>1, <3>2, <3>3
  <2>5. CASE U!HsLookup(h)
    BY <1>3, <1>4, <1>5, <1>6, <2>5 DEF U!HsLookup
  <2> QED
    BY <2>1, <2>2, <2>3, <2>4, <2>5 DEF U!Handshake
<1> QED
  BY <1>2, <1>7

\* A handshake works with users at least as new as the last reload that was
\* complete when it began, and a store that bears the file's modification time
\* holds the file's users (selectorIndex.snapshot, applyUsersFromFile), for any
\* number of handshakes and runs of the tool.
THEOREM UsersAreFresh == U!Spec => [](U!NotStale /\ U!TimeVouches)
<1>1. VersionInv /\ TimeInv /\ [U!Next]_(U!vars) => VersionInv' /\ TimeInv'
  <2> SUFFICES ASSUME VersionInv, TimeInv, [U!Next]_(U!vars) PROVE VersionInv' /\ TimeInv'
    OBVIOUS
  <2>1. CASE UNCHANGED U!vars
    BY <2>1 DEF U!vars, VersionInv, TimeInv, Bumps, U!TimeVouches
  <2> QED
    BY <2>1, ToolStep, LoadStep, HandshakeStep DEF U!Next
<1>2. VersionInv /\ TimeInv => U!NotStale /\ U!TimeVouches
  BY DEF VersionInv, TimeInv, U!NotStale
<1> QED
  BY <1>1, <1>2, UsersInit, PTL DEF U!Spec
=============================================================================
