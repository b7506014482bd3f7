--------------------------- MODULE DatagramProofs ---------------------------
(***************************************************************************)
(* The server's datagram sessions (DatagramSessions), for any number of    *)
(* ids, targets, sessions and sockets: nothing is lost when two loops dial *)
(* one target, or when a client comes back under its old id.               *)
(***************************************************************************)
EXTENDS DatagramSessions, FiniteSetTheorems, TLAPS

Bounds == MaxSess \in Nat /\ MaxSock \in Nat

SockRec == [s : Sess, key : Keys, open : BOOLEAN]
AtRec == [pc : {"idle", "dial", "publish", "write"}, key : Keys \cup {Idle.key}, sock : Nat]

\* The sockets are numbered in the order they are made.
SockType ==
  /\ \E n \in 0..MaxSock : DOMAIN socks = 1..n
  /\ socks \in [DOMAIN socks -> SockRec]
  /\ targets \in [Sess -> [Keys -> Nat]]
  /\ at \in [Sess -> [Loops -> AtRec]]
  /\ pump \in [Socks -> {"none", "read", "leave", "close"}]

\* An entry is a socket of the session and the key it is found under, and the
\* one whose pump has not left.
EntryInv ==
  /\ \A s \in Sess, k \in Keys :
       targets[s][k] # 0 => /\ targets[s][k] \in DOMAIN socks
                            /\ socks[targets[s][k]].s = s /\ socks[targets[s][k]].key = k
  /\ \A c \in Socks : pump[c] # "none" => c \in DOMAIN socks
  /\ \A c \in DOMAIN socks :
       /\ pump[c] \in {"read", "leave"} => targets[socks[c].s][socks[c].key] = c
       /\ targets[socks[c].s][socks[c].key] = c => pump[c] \in {"read", "leave"}

\* A socket that is being published is its loop's alone.
LoopInv ==
  \A s \in Sess, l \in Loops :
    /\ at[s][l].pc # "idle" => at[s][l].key \in Keys
    /\ at[s][l].pc \in {"publish", "write"} => at[s][l].sock \in DOMAIN socks
    /\ at[s][l].pc = "publish" =>
         /\ socks[at[s][l].sock].s = s /\ socks[at[s][l].sock].key = at[s][l].key
         /\ pump[at[s][l].sock] = "none"
         /\ \A m \in Loops : at[s][m].pc = "publish" /\ at[s][m].sock = at[s][l].sock => m = l

SockInv == SockType /\ EntryInv /\ LoopInv /\ NoLostSocket

\* The registry: an entry is of its id, the newest session is registered
\* while its connection lasts, and what is not registered gets closed.
RegInv ==
  /\ made \in 0..MaxSess /\ reg \in [Ids -> 0..made] /\ idOf \in [1..made -> Ids]
  /\ conn \in [1..made -> {"up", "down", "seen"}]
  /\ toClose \subseteq 1..made /\ closed \subseteq 1..made
  /\ \A i \in Ids : reg[i] # 0 => idOf[reg[i]] = i
  /\ NewestIsRegistered /\ UnregisteredIsClosed

-----------------------------------------------------------------------------
(* The registry.                                                           *)

\* A new session takes its id's entry; the one before it will be closed.
LEMMA RegisterKeeps ==
  ASSUME Bounds, RegInv, NEW i \in Ids, Register(i)
  PROVE  RegInv'
<1>1. /\ made < MaxSess /\ made' = made + 1 /\ reg' = [reg EXCEPT ![i] = made']
      /\ idOf' = With(idOf, made', i) /\ conn' = With(conn, made', "up")
      /\ toClose' = toClose \cup ({reg[i]} \ {0}) /\ closed' = closed
  BY DEF Register
<1>2. /\ made \in Nat /\ made' \in 0..MaxSess /\ 1..made' = 1..made \cup {made'}
      /\ made' \notin 1..made /\ 0..made \subseteq 0..made' /\ made' \in 0..made' /\ made' # 0
  BY <1>1 DEF RegInv, Bounds
<1>3. /\ idOf' \in [1..made' -> Ids] /\ idOf'[made'] = i
      /\ \A s \in 1..made : idOf'[s] = idOf[s]
  BY <1>1, <1>2 DEF With, RegInv
<1>4. /\ conn' \in [1..made' -> {"up", "down", "seen"}]
      /\ \A s \in 1..made : conn'[s] = conn[s]
  BY <1>1, <1>2 DEF With, RegInv
<1>5. /\ reg' \in [Ids -> 0..made'] /\ reg'[i] = made'
      /\ \A j \in Ids : j # i => reg'[j] = reg[j]
  BY <1>1, <1>2 DEF RegInv
<1>6. toClose' \subseteq 1..made' /\ closed' \subseteq 1..made'
  <2>1. reg[i] \in 0..made /\ toClose \subseteq 1..made /\ closed \subseteq 1..made
    BY DEF RegInv
  <2>2. reg[i] # 0 => reg[i] \in 1..made
    BY <1>2, <2>1
  <2> QED
    BY <1>1, <1>2, <2>1, <2>2
<1>7. ASSUME NEW j \in Ids, reg'[j] # 0
      PROVE  idOf'[reg'[j]] = j
  <2>1. CASE j = i
    BY <1>3, <1>5, <2>1
  <2>2. CASE j # i
    <3>1. reg[j] \in 1..made /\ idOf[reg[j]] = j
      BY <1>5, <1>7, <2>2 DEF RegInv
    <3> QED
      BY <1>3, <1>5, <2>2, <3>1
  <2> QED
    BY <2>1, <2>2
<1>8. ASSUME NEW s \in 1..made', conn'[s] # "seen", \A t \in (s + 1)..made' : idOf'[t] # idOf'[s]
      PROVE  reg'[idOf'[s]] = s
  <2>1. CASE s = made'
    BY <1>3, <1>5, <2>1
  <2>2. CASE s \in 1..made
    <3>1. made' \in (s + 1)..made' /\ \A t \in (s + 1)..made : t \in (s + 1)..made' /\ t \in 1..made
      BY <1>1, <1>2, <2>2
    <3>2. idOf[s] # i /\ \A t \in (s + 1)..made : idOf[t] # idOf[s]
      BY <1>3, <1>8, <2>2, <3>1
    <3>3. reg[idOf[s]] = s /\ idOf[s] \in Ids
      BY <1>4, <1>8, <2>2, <3>2 DEF RegInv, NewestIsRegistered
    <3> QED
      BY <1>3, <1>5, <2>2, <3>2, <3>3
  <2> QED
    BY <1>2, <2>1, <2>2
<1>9. ASSUME NEW s \in 1..made', reg'[idOf'[s]] # s
      PROVE  s \in closed' \cup toClose'
  <2>0. s # made'
    BY <1>3, <1>5, <1>9
  <2>1. s \in 1..made /\ s # 0 /\ idOf[s] \in Ids
    <3>1. s \in 1..made
      BY <1>2, <2>0
    <3> QED
      BY <1>2, <3>1 DEF RegInv
  <2>2. CASE reg[idOf[s]] = s
    <3>1. idOf[s] = i
      BY <1>3, <1>5, <1>9, <2>1, <2>2
    <3> QED
      BY <1>1, <2>1, <2>2, <3>1
  <2>3. CASE reg[idOf[s]] # s
    BY <1>1, <2>1, <2>3 DEF RegInv, UnregisteredIsClosed
  <2> QED
    BY <2>2, <2>3
<1> QED
  BY <1>2, <1>3, <1>4, <1>5, <1>6, <1>7, <1>8, <1>9
  DEF RegInv, NewestIsRegistered, UnregisteredIsClosed

\* The watcher of a connection takes away its own session's entry only.
LEMMA GoneKeeps ==
  ASSUME Bounds, RegInv, NEW s \in Sess, ConnGone(s)
  PROVE  RegInv'
<1>1. /\ s \in 1..made /\ conn' = [conn EXCEPT ![s] = "seen"] /\ toClose' = toClose \cup {s}
      /\ reg' = [reg EXCEPT ![idOf[s]] = IF @ = s THEN 0 ELSE @]
      /\ UNCHANGED <<made, idOf, closed>>
  BY DEF ConnGone
<1>2. idOf[s] \in Ids /\ made \in Nat /\ 0 \in 0..made
  BY <1>1 DEF RegInv
<1>3. /\ reg' \in [Ids -> 0..made]
      /\ \A i \in Ids : reg'[i] = IF i = idOf[s] /\ reg[i] = s THEN 0 ELSE reg[i]
  BY <1>1, <1>2 DEF RegInv
<1>4. conn' \in [1..made -> {"up", "down", "seen"}] /\ conn'[s] = "seen"
      /\ \A t \in 1..made : t # s => conn'[t] = conn[t]
  BY <1>1 DEF RegInv
<1>5. \A i \in Ids : reg'[i] # 0 => idOf[reg'[i]] = i
  BY <1>3 DEF RegInv
<1>6. ASSUME NEW t \in 1..made, conn'[t] # "seen", \A u \in (t + 1)..made : idOf[u] # idOf[t]
      PROVE  reg'[idOf[t]] = t
  <2>1. t # s /\ conn[t] # "seen" /\ idOf[t] \in Ids
    BY <1>4, <1>6 DEF RegInv
  <2>2. reg[idOf[t]] = t
    BY <1>6, <2>1 DEF RegInv, NewestIsRegistered
  <2> QED
    BY <1>3, <2>1, <2>2
<1>7. ASSUME NEW t \in 1..made, reg'[idOf[t]] # t
      PROVE  t \in closed' \cup toClose'
  <2>1. idOf[t] \in Ids
    BY DEF RegInv
  <2>2. CASE t = s
    BY <1>1, <2>2
  <2>3. CASE t # s
    <3>1. reg[idOf[t]] # t
      BY <1>3, <1>7, <2>1, <2>3
    <3> QED
      BY <1>1, <3>1 DEF RegInv, UnregisteredIsClosed
  <2> QED
    BY <2>2, <2>3
<1>8. toClose' \subseteq 1..made'
  BY <1>1 DEF RegInv
<1> QED
  BY <1>1, <1>3, <1>4, <1>5, <1>6, <1>7, <1>8 DEF RegInv, NewestIsRegistered, UnregisteredIsClosed

\* A connection's end and the close of an old session leave the entries alone.
LEMMA RestKeeps ==
  ASSUME Bounds, RegInv, NEW s \in Sess, CloseOld(s) \/ ConnDies(s)
  PROVE  RegInv'
<1>1. CASE CloseOld(s)
  BY <1>1 DEF CloseOld, RegInv, NewestIsRegistered, UnregisteredIsClosed
<1>2. CASE ConnDies(s)
  <2>1. /\ conn' = [conn EXCEPT ![s] = "down"] /\ s \in 1..made /\ conn[s] = "up"
        /\ UNCHANGED <<reg, made, idOf, toClose, closed>>
    BY <1>2 DEF ConnDies
  <2>2. /\ conn' \in [1..made -> {"up", "down", "seen"}]
        /\ \A t \in 1..made : conn'[t] # "seen" => conn[t] # "seen"
    BY <2>1 DEF RegInv
  <2> QED
    BY <2>1, <2>2 DEF RegInv, NewestIsRegistered, UnregisteredIsClosed
<1> QED
  BY <1>1, <1>2

-----------------------------------------------------------------------------
(* The sockets.                                                            *)

\* What one entry of a table of tables may be set to.
LEMMA NestedExcept ==
  ASSUME NEW A, NEW B, NEW V, NEW f \in [A -> [B -> V]], NEW a \in A, NEW b \in B, NEW v \in V
  PROVE  /\ [f EXCEPT ![a][b] = v] \in [A -> [B -> V]]
         /\ \A x \in A, y \in B :
              [f EXCEPT ![a][b] = v][x][y] = IF x = a /\ y = b THEN v ELSE f[x][y]
OBVIOUS

\* The next socket is the one after the last.
LEMMA NextSockIs ==
  ASSUME Bounds, SockType
  PROVE  /\ NextSock \in Nat /\ NextSock # 0 /\ NextSock \notin DOMAIN socks
         /\ DOMAIN socks \subseteq Socks
         /\ NextSock <= MaxSock =>
              /\ NextSock \in Socks
              /\ \E n \in 0..MaxSock : DOMAIN socks \cup {NextSock} = 1..n
<1>1. PICK n \in 0..MaxSock : DOMAIN socks = 1..n
  BY DEF SockType
<1>2. n \in Nat /\ Cardinality(1..n) = n
  BY <1>1, FS_Interval DEF Bounds
<1>3. NextSock = n + 1
  BY <1>1, <1>2 DEF NextSock
<1>4. n + 1 <= MaxSock => n + 1 \in 0..MaxSock /\ 1..n \cup {n + 1} = 1..(n + 1)
  BY <1>2 DEF Bounds
<1> QED
  BY <1>1, <1>2, <1>3, <1>4 DEF Bounds, Socks

\* Sockets are the same ones, open or closed since.
OnlyCloses ==
  /\ DOMAIN socks' = DOMAIN socks /\ socks' \in [DOMAIN socks -> SockRec]
  /\ \A c \in DOMAIN socks : /\ socks'[c].s = socks[c].s /\ socks'[c].key = socks[c].key
                             /\ socks'[c].open => socks[c].open

\* Close: its sockets' pumps will see it.
LEMMA ShutKeeps ==
  ASSUME Bounds, SockInv, NEW s \in Sess, CloseOld(s)
  PROVE  SockInv'
<1>1. socks' = Shut(s) /\ UNCHANGED <<targets, at, pump>>
  BY DEF CloseOld
<1>2. socks \in [DOMAIN socks -> SockRec]
  BY DEF SockInv, SockType
<1>3. ASSUME NEW c \in DOMAIN socks
      PROVE  /\ socks'[c] \in SockRec
             /\ socks'[c].s = socks[c].s /\ socks'[c].key = socks[c].key
             /\ socks'[c].open => socks[c].open
  <2>1. socks'[c] = [socks[c] EXCEPT !.open = FALSE] \/ socks'[c] = socks[c]
    BY <1>1 DEF Shut
  <2> QED
    BY <1>2, <2>1 DEF SockRec
<1>4. DOMAIN socks' = DOMAIN socks /\ socks' \in [DOMAIN socks -> SockRec]
  BY <1>1, <1>3 DEF Shut
<1>5. OnlyCloses
  BY <1>3, <1>4 DEF OnlyCloses
<1>6. SockType'
  BY <1>1, <1>5 DEF SockInv, SockType, OnlyCloses
<1>7. EntryInv'
  BY <1>1, <1>5 DEF SockInv, EntryInv, OnlyCloses
<1>8. LoopInv'
  BY <1>1, <1>5 DEF SockInv, LoopInv, OnlyCloses
<1>9. NoLostSocket'
  BY <1>1, <1>5 DEF SockInv, NoLostSocket, OnlyCloses
<1> QED
  BY <1>6, <1>7, <1>8, <1>9 DEF SockInv

\* What becomes of one loop, one entry, one pump; the others stay.
AtIs(s, l, v) ==
  /\ at' \in [Sess -> [Loops -> AtRec]]
  /\ \A t \in Sess, m \in Loops : at'[t][m] = IF t = s /\ m = l THEN v ELSE at[t][m]
TargetIs(s, k, c) ==
  /\ targets' \in [Sess -> [Keys -> Nat]]
  /\ \A t \in Sess, j \in Keys : targets'[t][j] = IF t = s /\ j = k THEN c ELSE targets[t][j]
PumpIs(c, p) ==
  /\ pump' \in [Socks -> {"none", "read", "leave", "close"}] /\ pump'[c] = p
  /\ \A d \in Socks : d # c => pump'[d] = pump[d]

\* A place has the parts it is made of.
LEMMA AtPcIs ==
  ASSUME NEW q \in {"idle", "dial", "publish", "write"}, NEW k \in Keys, NEW c \in Nat
  PROVE  /\ AtPc(q, k, c) \in AtRec /\ AtPc(q, k, c).pc = q
         /\ AtPc(q, k, c).key = k /\ AtPc(q, k, c).sock = c
BY DEF AtPc, AtRec

\* A loop that is put at a place is the only one that moves.
LEMMA PutIs ==
  ASSUME SockType, NEW s \in Sess, NEW l \in Loops, NEW v \in AtRec, Put(s, l, v)
  PROVE  AtIs(s, l, v)
<1>1. at \in [Sess -> [Loops -> AtRec]]
  BY DEF SockType
<1> HIDE DEF AtRec, Sess, Loops
<1> QED
  BY <1>1, NestedExcept DEF Put, AtIs

\* An entry that is stored or deleted is the only one that changes.
LEMMA TargetSet ==
  ASSUME SockType, NEW s \in Sess, NEW k \in Keys, NEW c \in Nat,
         targets' = [targets EXCEPT ![s][k] = c]
  PROVE  TargetIs(s, k, c)
<1>1. targets \in [Sess -> [Keys -> Nat]]
  BY DEF SockType
<1> HIDE DEF Sess
<1> QED
  BY <1>1, NestedExcept DEF TargetIs

\* A pump that moves is the only one that does.
LEMMA PumpSet ==
  ASSUME SockType, NEW c \in Socks, NEW p \in {"none", "read", "leave", "close"},
         pump' = [pump EXCEPT ![c] = p]
  PROVE  PumpIs(c, p)
BY DEF SockType, PumpIs

\* A loop goes on, not to publish; what it publishes was not open or has a pump.
LEMMA LoopGoesOn ==
  ASSUME Bounds, SockInv, NEW s \in Sess, NEW l \in Loops, NEW v \in AtRec, AtIs(s, l, v),
         v.pc # "publish", v.pc # "idle" => v.key \in Keys,
         v.pc = "write" => v.sock \in DOMAIN socks,
         at[s][l].pc = "publish" =>
           pump[at[s][l].sock] # "none" \/ ~socks'[at[s][l].sock].open,
         OnlyCloses, UNCHANGED <<targets, pump>>
  PROVE  SockInv'
<1>1. /\ at' \in [Sess -> [Loops -> AtRec]]
      /\ \A t \in Sess, m \in Loops : at'[t][m] = IF t = s /\ m = l THEN v ELSE at[t][m]
  BY DEF AtIs
<1>2. SockType'
  BY <1>1 DEF SockInv, SockType, OnlyCloses
<1>3. EntryInv'
  BY DEF SockInv, EntryInv, OnlyCloses
<1>4. LoopInv'
  <2> SUFFICES ASSUME NEW t \in Sess, NEW m \in Loops
               PROVE  /\ at'[t][m].pc # "idle" => at'[t][m].key \in Keys
                      /\ at'[t][m].pc \in {"publish", "write"} => at'[t][m].sock \in DOMAIN socks
                      /\ at'[t][m].pc = "publish" =>
                           /\ socks'[at'[t][m].sock].s = t /\ socks'[at'[t][m].sock].key = at'[t][m].key
                           /\ pump[at'[t][m].sock] = "none"
                           /\ \A o \in Loops : at'[t][o].pc = "publish" /\ at'[t][o].sock = at'[t][m].sock
                                                 => o = m
    BY DEF LoopInv, OnlyCloses
  <2>1. CASE t = s /\ m = l
    BY <1>1, <2>1
  <2>2. CASE ~(t = s /\ m = l)
    <3>1. at'[t][m] = at[t][m]
      BY <1>1, <2>2
    <3>2. \A o \in Loops : at'[t][o].pc = "publish" => at'[t][o] = at[t][o]
      BY <1>1
    <3> QED
      BY <3>1, <3>2 DEF SockInv, LoopInv, OnlyCloses
  <2> QED
    BY <2>1, <2>2
<1>5. NoLostSocket'
  <2> SUFFICES ASSUME NEW c \in DOMAIN socks, socks'[c].open, pump[c] = "none"
               PROVE  \E t \in Sess, m \in Loops : at'[t][m].pc = "publish" /\ at'[t][m].sock = c
    BY DEF NoLostSocket, OnlyCloses
  <2>1. PICK t \in Sess, m \in Loops : at[t][m].pc = "publish" /\ at[t][m].sock = c
    BY DEF SockInv, NoLostSocket, OnlyCloses
  <2>2. ~(t = s /\ m = l)
    BY <2>1
  <2> QED
    BY <1>1, <2>1, <2>2
<1> QED
  BY <1>2, <1>3, <1>4, <1>5 DEF SockInv

\* A target is dialled: the socket is new, so no pump and no entry is its.
LEMMA DialKeeps ==
  ASSUME Bounds, SockInv, NEW s \in Sess, NEW l \in Loops, NEW k \in Keys, NEW c, NEW v,
         c = NextSock, NextSock <= MaxSock,
         DOMAIN socks' = DOMAIN socks \cup {c}, socks' \in [DOMAIN socks' -> SockRec],
         socks'[c].s = s, socks'[c].key = k, \A d \in DOMAIN socks : socks'[d] = socks[d],
         AtIs(s, l, v), v.pc = "publish", v.key = k, v.sock = c, UNCHANGED <<targets, pump>>,
         at[s][l].pc # "publish"
  PROVE  SockInv'
<1>1. /\ c \in Nat /\ c # 0 /\ c \notin DOMAIN socks /\ c \in Socks /\ DOMAIN socks \subseteq Socks
      /\ \E n \in 0..MaxSock : DOMAIN socks \cup {c} = 1..n
  BY NextSockIs DEF SockInv
<1>2. k \in Keys
  OBVIOUS
<1>3. /\ DOMAIN socks' = DOMAIN socks \cup {c} /\ socks' \in [DOMAIN socks' -> SockRec]
      /\ socks'[c].s = s /\ socks'[c].key = k
      /\ \A d \in DOMAIN socks : socks'[d] = socks[d]
  OBVIOUS
<1>4. v.pc = "publish" /\ v.key = k /\ v.sock = c
  OBVIOUS
<1>5. /\ at' \in [Sess -> [Loops -> AtRec]]
      /\ \A t \in Sess, m \in Loops : at'[t][m] = IF t = s /\ m = l THEN v ELSE at[t][m]
  BY DEF AtIs
<1>6. SockType'
  BY <1>1, <1>3, <1>5 DEF SockInv, SockType
<1>7. pump[c] = "none" /\ \A t \in Sess, j \in Keys : targets[t][j] # c
  <2>1. pump[c] = "none"
    BY <1>1 DEF SockInv, EntryInv
  <2>2. \A t \in Sess, j \in Keys : targets[t][j] # c
    BY <1>1 DEF SockInv, EntryInv
  <2> QED
    BY <2>1, <2>2
<1>8. EntryInv'
  <2>1. ASSUME NEW t \in Sess, NEW j \in Keys, targets[t][j] # 0
        PROVE  /\ targets[t][j] \in DOMAIN socks'
               /\ socks'[targets[t][j]].s = t /\ socks'[targets[t][j]].key = j
    <3>1. targets[t][j] \in DOMAIN socks /\ socks[targets[t][j]].s = t /\ socks[targets[t][j]].key = j
      BY <2>1 DEF SockInv, EntryInv
    <3> QED
      BY <1>3, <3>1
  <2>2. ASSUME NEW d \in DOMAIN socks'
        PROVE  /\ pump[d] \in {"read", "leave"} => targets[socks'[d].s][socks'[d].key] = d
               /\ targets[socks'[d].s][socks'[d].key] = d => pump[d] \in {"read", "leave"}
    <3>1. CASE d = c
      BY <1>2, <1>3, <1>7, <3>1
    <3>2. CASE d # c
      <4>1. d \in DOMAIN socks /\ socks'[d] = socks[d]
        BY <1>3, <3>2
      <4> QED
        BY <4>1 DEF SockInv, EntryInv
    <3> QED
      BY <3>1, <3>2
  <2>3. \A d \in Socks : pump[d] # "none" => d \in DOMAIN socks'
    BY <1>3 DEF SockInv, EntryInv
  <2>4. targets' = targets /\ pump' = pump
    OBVIOUS
  <2> QED
    BY <2>1, <2>2, <2>3, <2>4 DEF EntryInv
<1>9. LoopInv'
  <2> SUFFICES ASSUME NEW t \in Sess, NEW m \in Loops
               PROVE  /\ at'[t][m].pc # "idle" => at'[t][m].key \in Keys
                      /\ at'[t][m].pc \in {"publish", "write"} => at'[t][m].sock \in DOMAIN socks'
                      /\ at'[t][m].pc = "publish" =>
                           /\ socks'[at'[t][m].sock].s = t /\ socks'[at'[t][m].sock].key = at'[t][m].key
                           /\ pump[at'[t][m].sock] = "none"
                           /\ \A o \in Loops : at'[t][o].pc = "publish" /\ at'[t][o].sock = at'[t][m].sock
                                                 => o = m
    <3>1. pump' = pump
      OBVIOUS
    <3> QED
      BY <3>1 DEF LoopInv
  <2>1. \A o \in Loops : ~(t = s /\ o = l) =>
          /\ at'[t][o] = at[t][o]
          /\ at[t][o].pc \in {"publish", "write"} => at[t][o].sock \in DOMAIN socks /\ at[t][o].sock # c
    BY <1>1, <1>5 DEF SockInv, LoopInv
  <2>2. CASE t = s /\ m = l
    BY <1>2, <1>3, <1>4, <1>5, <1>7, <2>1, <2>2
  <2>3. CASE ~(t = s /\ m = l)
    <3>1. at'[t][m] = at[t][m]
      BY <2>1, <2>3
    <3>2. at'[t][m].pc = "publish" =>
            \A o \in Loops : at'[t][o].pc = "publish" /\ at'[t][o].sock = at'[t][m].sock => o = m
      <4> SUFFICES ASSUME at[t][m].pc = "publish", NEW o \in Loops,
                          at'[t][o].pc = "publish", at'[t][o].sock = at[t][m].sock
                   PROVE  o = m
        BY <3>1
      <4>1. at[t][m].sock # c
        BY <2>1, <2>3
      <4>2. ~(t = s /\ o = l)
        BY <1>4, <1>5, <4>1
      <4> QED
        BY <2>1, <4>2 DEF SockInv, LoopInv
    <3>3. at[t][m].pc \in {"publish", "write"} =>
            at[t][m].sock \in DOMAIN socks /\ socks'[at[t][m].sock] = socks[at[t][m].sock]
      BY <1>3, <2>1, <2>3
    <3>4. DOMAIN socks \subseteq DOMAIN socks'
      BY <1>3
    <3> QED
      BY <3>1, <3>2, <3>3, <3>4 DEF SockInv, LoopInv
  <2> QED
    BY <2>2, <2>3
<1>10. NoLostSocket'
  <2> SUFFICES ASSUME NEW d \in DOMAIN socks', socks'[d].open, pump[d] = "none"
               PROVE  \E t \in Sess, m \in Loops : at'[t][m].pc = "publish" /\ at'[t][m].sock = d
    BY DEF NoLostSocket
  <2>1. CASE d = c
    BY <1>4, <1>5, <2>1
  <2>2. CASE d # c
    <3>1. d \in DOMAIN socks /\ socks[d].open
      BY <1>3, <2>2
    <3>2. PICK t \in Sess, m \in Loops : at[t][m].pc = "publish" /\ at[t][m].sock = d
      BY <3>1 DEF SockInv, NoLostSocket
    <3> QED
      BY <1>5, <3>2
  <2> QED
    BY <2>1, <2>2
<1> QED
  BY <1>6, <1>8, <1>9, <1>10 DEF SockInv

\* The socket is stored where there was none, and its pump runs.
LEMMA StoreKeeps ==
  ASSUME Bounds, SockInv, NEW s \in Sess, NEW l \in Loops, NEW k, NEW c, NEW v,
         at[s][l].pc = "publish", k = at[s][l].key, c = at[s][l].sock, targets[s][k] = 0,
         TargetIs(s, k, c), PumpIs(c, "read"), AtIs(s, l, v), v.pc = "write", v.key = k, v.sock = c,
         socks' = socks
  PROVE  SockInv'
<1>1. /\ k \in Keys /\ c \in DOMAIN socks /\ socks[c].s = s /\ socks[c].key = k /\ pump[c] = "none"
      /\ \A m \in Loops : at[s][m].pc = "publish" /\ at[s][m].sock = c => m = l
  BY DEF SockInv, LoopInv
<1>2. v.pc = "write" /\ v.key = k /\ v.sock = c
  OBVIOUS
<1>3. /\ at' \in [Sess -> [Loops -> AtRec]]
      /\ \A t \in Sess, m \in Loops : at'[t][m] = IF t = s /\ m = l THEN v ELSE at[t][m]
  BY DEF AtIs
<1>4. /\ targets' \in [Sess -> [Keys -> Nat]]
      /\ \A t \in Sess, j \in Keys : targets'[t][j] = IF t = s /\ j = k THEN c ELSE targets[t][j]
  BY DEF TargetIs
<1>5. /\ pump' \in [Socks -> {"none", "read", "leave", "close"}] /\ pump'[c] = "read"
      /\ \A d \in Socks : d # c => pump'[d] = pump[d]
  BY DEF PumpIs
<1>6. SockType'
  BY <1>3, <1>4, <1>5 DEF SockInv, SockType
<1>7. DOMAIN socks \subseteq Socks /\ \A d \in DOMAIN socks : socks[d].s \in Sess /\ socks[d].key \in Keys
  BY NextSockIs DEF SockInv, SockType, SockRec
<1>8. targets[s][k] = 0
  OBVIOUS
<1>9. EntryInv'
  <2>1. \A t \in Sess, j \in Keys :
          targets'[t][j] # 0 => /\ targets'[t][j] \in DOMAIN socks
                                /\ socks[targets'[t][j]].s = t /\ socks[targets'[t][j]].key = j
    BY <1>1, <1>4 DEF SockInv, EntryInv
  <2>2. \A d \in Socks : pump'[d] # "none" => d \in DOMAIN socks
    BY <1>1, <1>5 DEF SockInv, EntryInv
  <2>3. ASSUME NEW d \in DOMAIN socks
        PROVE  /\ pump'[d] \in {"read", "leave"} => targets'[socks[d].s][socks[d].key] = d
               /\ targets'[socks[d].s][socks[d].key] = d => pump'[d] \in {"read", "leave"}
    <3>1. CASE d = c
      <4>1. pump'[d] = "read" /\ socks[d].s = s /\ socks[d].key = k
        BY <1>1, <1>5, <3>1
      <4>2. targets'[s][k] = c
        BY <1>1, <1>4
      <4>3. targets'[socks[d].s][socks[d].key] = d
        BY <3>1, <4>1, <4>2
      <4> QED
        BY <4>1, <4>3
    <3>2. CASE d # c
      <4>1. pump'[d] = pump[d]
        BY <1>5, <1>7, <3>2
      <4>2. CASE socks[d].s = s /\ socks[d].key = k
        <5>1. targets'[socks[d].s][socks[d].key] = c
          BY <1>4, <1>7, <4>2
        <5>2. targets[socks[d].s][socks[d].key] # d
          <6>1. d # 0
            BY <1>7 DEF Socks
          <6> QED
            BY <1>8, <4>2, <6>1
        <5> QED
          BY <3>2, <4>1, <5>1, <5>2 DEF SockInv, EntryInv
      <4>3. CASE ~(socks[d].s = s /\ socks[d].key = k)
        <5>1. targets'[socks[d].s][socks[d].key] = targets[socks[d].s][socks[d].key]
          BY <1>4, <1>7, <4>3, SMTT(30)
        <5> QED
          BY <4>1, <5>1 DEF SockInv, EntryInv
      <4> QED
        BY <4>2, <4>3
    <3> QED
      BY <3>1, <3>2
  <2> QED
    BY <2>1, <2>2, <2>3 DEF EntryInv
<1>10. LoopInv'
  <2> SUFFICES ASSUME NEW t \in Sess, NEW m \in Loops
               PROVE  /\ at'[t][m].pc # "idle" => at'[t][m].key \in Keys
                      /\ at'[t][m].pc \in {"publish", "write"} => at'[t][m].sock \in DOMAIN socks
                      /\ at'[t][m].pc = "publish" =>
                           /\ socks[at'[t][m].sock].s = t /\ socks[at'[t][m].sock].key = at'[t][m].key
                           /\ pump'[at'[t][m].sock] = "none"
                           /\ \A o \in Loops : at'[t][o].pc = "publish" /\ at'[t][o].sock = at'[t][m].sock
                                                 => o = m
    BY DEF LoopInv
  <2>1. CASE t = s /\ m = l
    BY <1>1, <1>2, <1>3, <2>1, SMTT(30)
  <2>2. CASE ~(t = s /\ m = l)
    <3>1. at'[t][m] = at[t][m] /\ \A o \in Loops : at'[t][o].pc = "publish" => at'[t][o] = at[t][o]
      BY <1>2, <1>3, <2>2, SMTT(30)
    <3>2. at[t][m].pc = "publish" => at[t][m].sock # c
      BY <1>1, <2>2 DEF SockInv, LoopInv
    <3>3. at[t][m].pc = "publish" => pump'[at[t][m].sock] = pump[at[t][m].sock]
      <4>1. at[t][m].pc = "publish" => at[t][m].sock \in DOMAIN socks
        BY DEF SockInv, LoopInv
      <4> QED
        BY <1>5, <1>7, <3>2, <4>1
    <3> QED
      BY <3>1, <3>3 DEF SockInv, LoopInv
  <2> QED
    BY <2>1, <2>2
<1>11. NoLostSocket'
  <2> SUFFICES ASSUME NEW d \in DOMAIN socks, socks[d].open, pump'[d] = "none"
               PROVE  \E t \in Sess, m \in Loops : at'[t][m].pc = "publish" /\ at'[t][m].sock = d
    BY DEF NoLostSocket
  <2>1. d # c /\ pump[d] = "none"
    BY <1>5, <1>7
  <2>2. PICK t \in Sess, m \in Loops : at[t][m].pc = "publish" /\ at[t][m].sock = d
    BY <2>1 DEF SockInv, NoLostSocket
  <2>3. ~(t = s /\ m = l)
    BY <2>1, <2>2
  <2> QED
    BY <1>3, <2>2, <2>3
<1> QED
  BY <1>6, <1>9, <1>10, <1>11 DEF SockInv

\* A pump goes on: it leaves with its own entry, and closes the socket last.
LEMMA PumpKeeps ==
  ASSUME Bounds, SockInv, NEW c \in Socks, NEW p, pump[c] # "none", PumpIs(c, p), OnlyCloses, at' = at,
         \/ p = "leave" /\ pump[c] = "read" /\ targets' = targets
         \/ p = "close" /\ pump[c] = "leave" /\ TargetIs(socks[c].s, socks[c].key, 0)
         \/ p = "none" /\ pump[c] = "close" /\ targets' = targets /\ ~socks'[c].open
  PROVE  SockInv'
<1>1. /\ pump' \in [Socks -> {"none", "read", "leave", "close"}] /\ pump'[c] = p
      /\ \A d \in Socks : d # c => pump'[d] = pump[d]
  BY DEF PumpIs
<1>2. c \in DOMAIN socks /\ socks[c].s \in Sess /\ socks[c].key \in Keys /\ DOMAIN socks \subseteq Socks
  <2>1. c \in DOMAIN socks
    BY DEF SockInv, EntryInv
  <2> QED
    BY <2>1, NextSockIs DEF SockInv, SockType, SockRec
<1>3. /\ targets' \in [Sess -> [Keys -> Nat]]
      /\ \A t \in Sess, j \in Keys :
           targets'[t][j] = IF p = "close" /\ t = socks[c].s /\ j = socks[c].key THEN 0 ELSE targets[t][j]
  <2>1. CASE targets' = targets /\ p # "close"
    BY <2>1 DEF SockInv, SockType
  <2>2. CASE p = "close" /\ TargetIs(socks[c].s, socks[c].key, 0)
    BY <2>2 DEF TargetIs
  <2> QED
    BY <2>1, <2>2
<1>4. /\ DOMAIN socks' = DOMAIN socks /\ socks' \in [DOMAIN socks -> SockRec]
      /\ \A d \in DOMAIN socks : /\ socks'[d].s = socks[d].s /\ socks'[d].key = socks[d].key
                                 /\ socks'[d].open => socks[d].open
  BY DEF OnlyCloses
<1>5. SockType'
  BY <1>1, <1>3, <1>4 DEF SockInv, SockType
<1>6. EntryInv'
  <2>1. ASSUME NEW t \in Sess, NEW j \in Keys, targets'[t][j] # 0
        PROVE  /\ targets'[t][j] \in DOMAIN socks'
               /\ socks'[targets'[t][j]].s = t /\ socks'[targets'[t][j]].key = j
    <3>1. targets'[t][j] = targets[t][j] /\ targets[t][j] # 0
      BY <1>3, <2>1
    <3>2. targets[t][j] \in DOMAIN socks /\ socks[targets[t][j]].s = t /\ socks[targets[t][j]].key = j
      BY <3>1 DEF SockInv, EntryInv
    <3> QED
      BY <1>4, <3>1, <3>2
  <2>2. \A d \in Socks : pump'[d] # "none" => d \in DOMAIN socks'
    BY <1>1, <1>2, <1>4 DEF SockInv, EntryInv
  <2>3. ASSUME NEW d \in DOMAIN socks
        PROVE  /\ pump'[d] \in {"read", "leave"} => targets'[socks[d].s][socks[d].key] = d
               /\ targets'[socks[d].s][socks[d].key] = d => pump'[d] \in {"read", "leave"}
    <3>1. socks[d].s \in Sess /\ socks[d].key \in Keys /\ d # 0 /\ d \in Socks
      BY <1>2 DEF SockInv, SockType, SockRec, Socks
    <3>2. CASE d = c
      BY <1>1, <1>2, <1>3, <3>1, <3>2 DEF SockInv, EntryInv
    <3>3. CASE d # c
      <4>1. pump'[d] = pump[d]
        BY <1>1, <3>1, <3>3
      <4>2. CASE p = "close" /\ socks[d].s = socks[c].s /\ socks[d].key = socks[c].key
        <5>1. targets[socks[c].s][socks[c].key] = c
          BY <1>2, <4>2 DEF SockInv, EntryInv
        <5>2. targets'[socks[d].s][socks[d].key] = 0
          BY <1>3, <3>1, <4>2
        <5>3. ~(pump[d] \in {"read", "leave"})
          BY <3>3, <4>2, <5>1 DEF SockInv, EntryInv
        <5> QED
          BY <3>1, <4>1, <5>2, <5>3
      <4>3. CASE ~(p = "close" /\ socks[d].s = socks[c].s /\ socks[d].key = socks[c].key)
        <5>1. targets'[socks[d].s][socks[d].key] = targets[socks[d].s][socks[d].key]
          BY <1>3, <3>1, <4>3
        <5> QED
          BY <4>1, <5>1 DEF SockInv, EntryInv
      <4> QED
        BY <4>2, <4>3
    <3> QED
      BY <3>2, <3>3
  <2>4. \A d \in DOMAIN socks' : socks'[d].s = socks[d].s /\ socks'[d].key = socks[d].key /\ d \in DOMAIN socks
    BY <1>4
  <2> QED
    BY <2>1, <2>2, <2>3, <2>4 DEF EntryInv
<1>7. LoopInv'
  <2> SUFFICES ASSUME NEW t \in Sess, NEW m \in Loops
               PROVE  /\ at[t][m].pc # "idle" => at[t][m].key \in Keys
                      /\ at[t][m].pc \in {"publish", "write"} => at[t][m].sock \in DOMAIN socks'
                      /\ at[t][m].pc = "publish" =>
                           /\ socks'[at[t][m].sock].s = t /\ socks'[at[t][m].sock].key = at[t][m].key
                           /\ pump'[at[t][m].sock] = "none"
                           /\ \A o \in Loops : at[t][o].pc = "publish" /\ at[t][o].sock = at[t][m].sock
                                                 => o = m
    BY DEF LoopInv
  <2>1. at[t][m].pc = "publish" =>
          /\ at[t][m].sock \in DOMAIN socks /\ at[t][m].sock # c /\ pump'[at[t][m].sock] = "none"
    BY <1>1, <1>2 DEF SockInv, LoopInv
  <2> QED
    BY <1>4, <2>1 DEF SockInv, LoopInv
<1>8. NoLostSocket'
  <2> SUFFICES ASSUME NEW d \in DOMAIN socks, socks'[d].open, pump'[d] = "none"
               PROVE  \E t \in Sess, m \in Loops : at[t][m].pc = "publish" /\ at[t][m].sock = d
    BY <1>4 DEF NoLostSocket
  <2>1. d # c
    BY <1>1
  <2>2. pump[d] = "none" /\ socks[d].open
    BY <1>1, <1>2, <1>4, <2>1
  <2> QED
    BY <2>2 DEF SockInv, NoLostSocket
<1> QED
  BY <1>5, <1>6, <1>7, <1>8 DEF SockInv

\* A socket that is closed by its number is closed, and no other one changes.
LEMMA ClosesOne ==
  ASSUME SockType, NEW c \in DOMAIN socks, socks' = [socks EXCEPT ![c].open = FALSE]
  PROVE  OnlyCloses /\ ~socks'[c].open
<1>1. socks \in [DOMAIN socks -> SockRec]
  BY DEF SockType
<1>2. /\ DOMAIN socks' = DOMAIN socks /\ socks'[c] = [socks[c] EXCEPT !.open = FALSE]
      /\ \A d \in DOMAIN socks : d # c => socks'[d] = socks[d]
  BY <1>1
<1>3. /\ socks'[c] \in SockRec /\ socks'[c].s = socks[c].s /\ socks'[c].key = socks[c].key
      /\ ~socks'[c].open
  BY <1>1, <1>2 DEF SockRec
<1>4. socks' \in [DOMAIN socks -> SockRec]
  <2>1. \A d \in DOMAIN socks : socks'[d] \in SockRec
    BY <1>1, <1>2, <1>3
  <2>2. socks' = [d \in DOMAIN socks |-> socks'[d]]
    BY <1>1
  <2> QED
    BY <2>1, <2>2
<1> QED
  BY <1>2, <1>3, <1>4 DEF OnlyCloses

\* handlePayload, by either loop.
LEMMA LoopStep ==
  ASSUME Bounds, SockInv, NEW s \in Sess, NEW l \in Loops, Loop(s, l)
  PROVE  SockInv'
<1>0. SockType /\ at[s][l] \in AtRec
  BY DEF SockInv, SockType
<1>1. Idle \in AtRec /\ Idle.pc = "idle"
  BY DEF Idle, AtRec
<1>2. (UNCHANGED <<targets, socks, pump>>) => OnlyCloses
  BY <1>0 DEF SockType, OnlyCloses
<1>3. ASSUME NEW k \in Keys, Lookup(s, l, k) PROVE SockInv'
  <2>1. at[s][l].pc # "publish" /\ UNCHANGED <<targets, socks, pump>> /\ OnlyCloses
    BY <1>2, <1>3 DEF Lookup
  <2>2. PICK v \in AtRec : /\ Put(s, l, v) /\ v.pc \in {"write", "dial"} /\ v.key = k
                           /\ v.pc = "write" => v.sock \in DOMAIN socks
    <3>1. CASE targets[s][k] # 0
      <4>1. /\ Put(s, l, AtPc("write", k, targets[s][k])) /\ targets[s][k] \in DOMAIN socks
            /\ targets[s][k] \in Nat
        BY <1>3, <3>1 DEF Lookup, SockInv, EntryInv, SockType
      <4> QED
        BY <4>1, AtPcIs
    <3>2. CASE targets[s][k] = 0
      <4>1. Put(s, l, AtPc("dial", k, 0))
        BY <1>3, <3>2 DEF Lookup
      <4>2. AtPc("dial", k, 0) \in AtRec /\ AtPc("dial", k, 0).pc = "dial" /\ AtPc("dial", k, 0).key = k
        BY AtPcIs
      <4> QED
        BY <4>1, <4>2
    <3> QED
      BY <3>1, <3>2
  <2>3. AtIs(s, l, v)
    BY <1>0, <2>2, PutIs
  <2>4. v.pc # "publish" /\ v.key \in Keys
    BY <2>2
  <2> QED
    BY <2>1, <2>2, <2>3, <2>4, LoopGoesOn
<1>4. ASSUME NEW ok \in BOOLEAN, DialTarget(s, l, ok) PROVE SockInv'
  <2> DEFINE k == at[s][l].key
  <2>1. at[s][l].pc = "dial" /\ k \in Keys /\ UNCHANGED <<targets, pump>>
    BY <1>4 DEF DialTarget, SockInv, LoopInv
  <2>2. CASE ok = TRUE
    <3> DEFINE c == NextSock
               r == [s |-> s, key |-> k, open |-> TRUE]
    <3>1. c <= MaxSock /\ socks' = With(socks, c, r) /\ Put(s, l, AtPc("publish", k, c))
      BY <1>4, <2>2 DEF DialTarget
    <3>2. c \in Nat
      BY <1>0, NextSockIs
    <3>3. r \in SockRec /\ r.s = s /\ r.key = k
      BY <2>1 DEF SockRec
    <3> HIDE DEF c, r
    <3>4. /\ DOMAIN socks' = DOMAIN socks \cup {c} /\ socks' \in [DOMAIN socks' -> SockRec]
          /\ socks'[c] = r /\ \A d \in DOMAIN socks \ {c} : socks'[d] = socks[d]
      BY <1>0, <3>1, <3>3 DEF With, SockType
    <3>5. c \notin DOMAIN socks
      BY <1>0, NextSockIs DEF c
    <3> HIDE DEF k
    <3>6. /\ AtPc("publish", k, c) \in AtRec /\ AtPc("publish", k, c).pc = "publish"
          /\ AtPc("publish", k, c).key = k /\ AtPc("publish", k, c).sock = c
      BY <2>1, <3>2, AtPcIs
    <3>7. AtIs(s, l, AtPc("publish", k, c)) /\ c = NextSock
      BY <1>0, <3>1, <3>6, PutIs DEF c
    <3>8. socks'[c].s = s /\ socks'[c].key = k /\ \A d \in DOMAIN socks : socks'[d] = socks[d]
      BY <3>3, <3>4, <3>5
    <3>9. at[s][l].pc # "publish" /\ NextSock <= MaxSock
      BY <2>1, <3>1 DEF c
    <3> QED
      BY <2>1, <3>4, <3>6, <3>7, <3>8, <3>9, DialKeeps
  <2>3. CASE ok = FALSE
    <3>1. Put(s, l, Idle) /\ UNCHANGED <<targets, socks, pump>>
      BY <1>4, <2>3 DEF DialTarget
    <3>2. AtIs(s, l, Idle)
      BY <1>0, <1>1, <3>1, PutIs
    <3> QED
      BY <1>1, <1>2, <2>1, <3>1, <3>2, LoopGoesOn, SMTT(30)
  <2> QED
    BY <2>2, <2>3
<1>5. CASE Publish(s, l)
  <2> DEFINE k == at[s][l].key
             c == at[s][l].sock
  <2>1. /\ at[s][l].pc = "publish" /\ k \in Keys /\ c \in DOMAIN socks /\ c \in Nat /\ pump[c] = "none"
        /\ at[s][l].sock = c
    BY <1>0, <1>5 DEF Publish, SockInv, LoopInv, AtRec
  <2>2. CASE targets[s][k] # 0
    <3>1. /\ Put(s, l, AtPc("write", k, targets[s][k])) /\ targets[s][k] \in DOMAIN socks
          /\ targets[s][k] \in Nat /\ socks' = [socks EXCEPT ![c].open = FALSE]
          /\ targets' = targets /\ pump' = pump
      BY <1>5, <2>1, <2>2 DEF Publish, SockInv, EntryInv, SockType
    <3> HIDE DEF k, c
    <3>2. OnlyCloses /\ ~socks'[c].open
      BY <1>0, <2>1, <3>1, ClosesOne
    <3> DEFINE v == AtPc("write", k, targets[s][k])
    <3>3. v \in AtRec /\ v.pc = "write" /\ v.key = k /\ v.sock = targets[s][k]
      BY <2>1, <3>1, AtPcIs
    <3>4. Put(s, l, v)
      BY <3>1
    <3> HIDE DEF v
    <3>5. AtIs(s, l, v)
      BY <1>0, <3>3, <3>4, PutIs
    <3>6. /\ v.pc # "publish" /\ v.key \in Keys /\ v.sock \in DOMAIN socks
          /\ ~socks'[at[s][l].sock].open
      BY <2>1, <3>1, <3>2, <3>3
    <3> QED
      BY <3>1, <3>2, <3>3, <3>5, <3>6, LoopGoesOn
  <2>3. CASE targets[s][k] = 0
    <3>1. /\ targets' = [targets EXCEPT ![s][k] = c] /\ pump' = [pump EXCEPT ![c] = "read"]
          /\ Put(s, l, AtPc("write", k, c)) /\ socks' = socks
      BY <1>5, <2>3 DEF Publish
    <3>2. k = at[s][l].key
      OBVIOUS
    <3> HIDE DEF k, c
    <3> DEFINE v == AtPc("write", k, c)
    <3>3. v \in AtRec /\ v.pc = "write" /\ v.key = k /\ v.sock = c /\ Put(s, l, v)
      BY <2>1, <3>1, AtPcIs
    <3> HIDE DEF v
    <3>4. AtIs(s, l, v)
      BY <1>0, <3>3, PutIs
    <3>5. TargetIs(s, k, c)
      BY <1>0, <2>1, <3>1, TargetSet
    <3>6. PumpIs(c, "read")
      <4>1. c \in Socks
        BY <1>0, <2>1, NextSockIs
      <4> QED
        BY <1>0, <3>1, <4>1, PumpSet
    <3> QED
      BY <2>1, <2>3, <3>1, <3>2, <3>3, <3>4, <3>5, <3>6, StoreKeeps
  <2> QED
    BY <2>2, <2>3
<1>6. CASE WriteTarget(s, l)
  <2>1. at[s][l].pc = "write" /\ Put(s, l, Idle) /\ UNCHANGED <<targets, socks, pump>>
    BY <1>6 DEF WriteTarget
  <2>2. AtIs(s, l, Idle)
    BY <1>0, <1>1, <2>1, PutIs
  <2> QED
    BY <1>1, <1>2, <2>1, <2>2, LoopGoesOn
<1> QED
  BY <1>3, <1>4, <1>5, <1>6 DEF Loop

\* pumpTargetResponses.
LEMMA PumpStep ==
  ASSUME Bounds, SockInv, NEW c \in Socks, Pump(c)
  PROVE  SockInv'
<1>0. SockType /\ pump[c] # "none" /\ c \in DOMAIN socks
  <2>1. pump[c] # "none"
    BY DEF Pump, PumpEnds, PumpLeaves, PumpCloses
  <2> QED
    BY <2>1 DEF SockInv, EntryInv
<1>1. socks' = socks => OnlyCloses
  BY <1>0 DEF SockType, OnlyCloses
<1>2. CASE PumpEnds(c)
  <2>1. pump[c] = "read" /\ pump' = [pump EXCEPT ![c] = "leave"] /\ UNCHANGED <<targets, at, socks>>
    BY <1>2 DEF PumpEnds
  <2>2. PumpIs(c, "leave")
    BY <1>0, <2>1, PumpSet
  <2> QED
    BY <1>0, <1>1, <2>1, <2>2, PumpKeeps
<1>3. CASE PumpLeaves(c)
  <2>1. /\ pump[c] = "leave" /\ pump' = [pump EXCEPT ![c] = "close"] /\ UNCHANGED <<at, socks>>
        /\ targets' = [targets EXCEPT ![socks[c].s][socks[c].key] = 0]
    BY <1>3 DEF PumpLeaves
  <2>2. PumpIs(c, "close")
    BY <1>0, <2>1, PumpSet
  <2>3. TargetIs(socks[c].s, socks[c].key, 0)
    <3>1. socks[c].s \in Sess /\ socks[c].key \in Keys
      BY <1>0 DEF SockType, SockRec
    <3> QED
      BY <1>0, <2>1, <3>1, TargetSet
  <2> QED
    BY <1>0, <1>1, <2>1, <2>2, <2>3, PumpKeeps
<1>4. CASE PumpCloses(c)
  <2>1. /\ pump[c] = "close" /\ pump' = [pump EXCEPT ![c] = "none"] /\ UNCHANGED <<targets, at>>
        /\ socks' = [socks EXCEPT ![c].open = FALSE]
    BY <1>4 DEF PumpCloses
  <2>2. PumpIs(c, "none")
    BY <1>0, <2>1, PumpSet
  <2>3. OnlyCloses /\ ~socks'[c].open
    BY <1>0, <2>1, ClosesOne
  <2> QED
    BY <1>0, <2>1, <2>2, <2>3, PumpKeeps
<1> QED
  BY <1>2, <1>3, <1>4 DEF Pump

\* RegisterDatagramConn, handlePayload and pumpTargetResponses lose nothing:
\* however the loops, the pumps, the watchers and returning clients interleave,
\* a target has one entry, whose pump is running, every open socket has a
\* pump or a loop that will store it, and the registry has the newest session
\* of an id until its connection has ended.
THEOREM SessionsHold ==
  ASSUME Bounds
  PROVE  Spec => []NothingLost
<1>1. Init => RegInv /\ SockInv
  <2> SUFFICES ASSUME Init PROVE RegInv /\ SockInv
    OBVIOUS
  <2>1. made = 0 /\ 1..made = {} /\ idOf = <<>> /\ conn = <<>> /\ socks = <<>>
    BY DEF Init
  <2>2. RegInv
    BY <2>1 DEF Init, RegInv, NewestIsRegistered, UnregisteredIsClosed, Bounds
  <2>3. DOMAIN socks = {} /\ 1..0 = {} /\ 0 \in 0..MaxSock
    BY <2>1 DEF Bounds
  <2>4. Idle \in AtRec /\ Idle.pc = "idle"
    BY DEF Idle, AtRec
  <2>5. /\ targets = [s \in Sess |-> [k \in Keys |-> 0]]
        /\ at = [s \in Sess |-> [l \in Loops |-> Idle]] /\ pump = [c \in Socks |-> "none"]
    BY DEF Init
  <2>6. SockType
    <3>1. socks \in [DOMAIN socks -> SockRec]
      BY <2>1, <2>3
    <3>2. \E n \in 0..MaxSock : DOMAIN socks = 1..n
      BY <2>3
    <3> HIDE DEF AtRec, Idle
    <3> QED
      BY <2>4, <2>5, <3>1, <3>2 DEF SockType
  <2>7. EntryInv
    BY <2>3, <2>5 DEF EntryInv
  <2>8. LoopInv /\ NoLostSocket
    BY <2>3, <2>4, <2>5 DEF LoopInv, NoLostSocket
  <2> QED
    BY <2>2, <2>6, <2>7, <2>8 DEF SockInv
<1>2. RegInv /\ SockInv /\ [Next]_vars => RegInv' /\ SockInv'
  <2> SUFFICES ASSUME RegInv, SockInv, [Next]_vars PROVE RegInv' /\ SockInv'
    OBVIOUS
  <2>1. (UNCHANGED <<reg, made, idOf, conn, toClose, closed>>) => RegInv'
    BY SMTT(30) DEF RegInv, NewestIsRegistered, UnregisteredIsClosed
  <2>2. (UNCHANGED <<targets, at, socks, pump>>) => SockInv'
    BY DEF SockInv, SockType, EntryInv, LoopInv, NoLostSocket
  <2>3. ASSUME NEW i \in Ids, Register(i) PROVE RegInv' /\ SockInv'
    BY <2>2, <2>3, RegisterKeeps DEF Register
  <2>4. ASSUME NEW s \in Sess, CloseOld(s) PROVE RegInv' /\ SockInv'
    BY <2>4, RestKeeps, ShutKeeps
  <2>5. ASSUME NEW s \in Sess, ConnDies(s) \/ ConnGone(s) PROVE RegInv' /\ SockInv'
    BY <2>2, <2>5, RestKeeps, GoneKeeps DEF ConnDies, ConnGone
  <2>6. ASSUME NEW s \in Sess, NEW l \in Loops, Loop(s, l) PROVE RegInv' /\ SockInv'
    <3>1. UNCHANGED <<reg, made, idOf, conn, toClose, closed>>
      BY <2>6 DEF Loop, Lookup, DialTarget, Publish, WriteTarget
    <3> QED
      BY <2>1, <2>6, <3>1, LoopStep
  <2>7. ASSUME NEW c \in Socks, Pump(c) PROVE RegInv' /\ SockInv'
    <3>1. UNCHANGED <<reg, made, idOf, conn, toClose, closed>>
      BY <2>7 DEF Pump, PumpEnds, PumpLeaves, PumpCloses
    <3> QED
      BY <2>1, <2>7, <3>1, PumpStep
  <2>8. CASE UNCHANGED vars
    BY <2>1, <2>2, <2>8 DEF vars
  <2> QED
    BY <2>3, <2>4, <2>5, <2>6, <2>7, <2>8 DEF Next
<1>3. RegInv /\ SockInv => NothingLost
  <2> SUFFICES ASSUME RegInv, SockInv PROVE NothingLost
    OBVIOUS
  <2>1. TypeOK
    <3>1. \A s \in Sess, k \in Keys : targets[s][k] \in {0} \cup DOMAIN socks
      BY DEF SockInv, EntryInv
    <3>2. \A s \in Sess, l \in Loops :
            /\ at[s][l].pc \in {"idle", "dial", "publish", "write"}
            /\ at[s][l].pc \in {"publish", "write"} => at[s][l].sock \in DOMAIN socks
      BY DEF SockInv, SockType, AtRec, LoopInv
    <3>3. \A c \in Socks : pump[c] \in {"none", "read", "leave", "close"}
      BY DEF SockInv, SockType
    <3> QED
      BY <3>1, <3>2, <3>3 DEF RegInv, TypeOK
  <2>2. PumpOwnsEntry
    BY DEF SockInv, EntryInv, PumpOwnsEntry
  <2> QED
    BY <2>1, <2>2 DEF RegInv, SockInv, NothingLost
<1> QED
  BY <1>1, <1>2, <1>3, PTL DEF Spec
=============================================================================
