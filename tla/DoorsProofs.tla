---------------------------- MODULE DoorsProofs ----------------------------
(***************************************************************************)
(* The accounts of the server's plain doors (ServerDoors), for any number  *)
(* of connections and addresses and any limits.                            *)
(***************************************************************************)
EXTENDS ServerDoors, FiniteSetTheorems, SequenceTheorems, TLAPS

OpenAt(d) == {c \in open : DoorOf[c] = d}

DoorsAssumption ==
  /\ IsFiniteSet(Conns) /\ DoorOf \in [Conns -> Doors]
  /\ MaxPerIP \in Nat /\ MaxConns \in Nat

\* The transports' counts.
CountInv ==
  /\ open \subseteq Conns
  /\ \A d \in Transports : active[d] = Cardinality(OpenAt(d))
  /\ tracked = OpenAt("tcp") /\ active["tcp"] <= MaxConns

\* The slots of the addresses.
SlotInv ==
  /\ perIP \in [IPs -> Nat]
  /\ \A i \in IPs : perIP[i] = Cardinality(Holds(i)) /\ perIP[i] <= MaxPerIP

\* Where the connections are: the queue has each queued one once, and only the
\* gRPC door calls, only the TCP transport has one in Accept.
WhereInv ==
  /\ st \in [Conns -> {"new", "called", "queued", "got", "taken", "served", "closed", "ended"}]
  /\ \A c \in open : st[c] \in {"queued", "taken", "served"}
  /\ \A c \in Conns : /\ st[c] = "called" => DoorOf[c] = "grpc"
                      /\ st[c] = "got" => DoorOf[c] = "tcp"
  /\ queue \in Seq(Conns)
  /\ \A i \in 1..Len(queue) : st[queue[i]] = "queued"
  /\ \A i, j \in 1..Len(queue) : queue[i] = queue[j] => i = j

\* A wrapped connection counts once, at its own door.
LEMMA WrapCounts ==
  ASSUME DoorsAssumption, CountInv, NEW c \in Conns, c \notin open, Wrap(c),
         tracked' = IF DoorOf[c] = "tcp" THEN tracked \cup {c} ELSE tracked,
         DoorOf[c] = "tcp" => active["tcp"] < MaxConns
  PROVE  CountInv'
<1>1. open' = open \cup {c} /\ open' \subseteq Conns
  BY DEF Wrap, CountInv
<1>2. \A d \in Transports : /\ IsFiniteSet(OpenAt(d)) /\ Cardinality(OpenAt(d)) \in Nat
                              /\ c \notin OpenAt(d)
  BY FS_Subset, FS_CardinalityType DEF CountInv, OpenAt, DoorsAssumption
<1>3. ASSUME NEW d \in Transports
      PROVE  /\ active'[d] = Cardinality(OpenAt(d)')
             /\ active'[d] = IF DoorOf[c] = d THEN active[d] + 1 ELSE active[d]
  <2>1. active'[d] = active[d] + Cardinality({b \in {c} : DoorOf[b] = d})
    BY DEF Wrap
  <2>2. CASE DoorOf[c] = d
    <3>1. {b \in {c} : DoorOf[b] = d} = {c} /\ OpenAt(d)' = OpenAt(d) \cup {c}
      BY <1>1, <2>2 DEF OpenAt
    <3>2. Cardinality(OpenAt(d) \cup {c}) = Cardinality(OpenAt(d)) + 1
      BY <1>2, FS_AddElement
    <3>3. Cardinality({c}) = 1
      BY FS_Singleton
    <3> QED
      BY <2>1, <2>2, <3>1, <3>2, <3>3 DEF CountInv
  <2>3. CASE DoorOf[c] # d
    <3>1. {b \in {c} : DoorOf[b] = d} = {} /\ OpenAt(d)' = OpenAt(d)
      BY <1>1, <2>3 DEF OpenAt
    <3>2. active[d] \in Nat /\ active[d] = Cardinality(OpenAt(d))
      BY <1>2 DEF CountInv
    <3> QED
      BY <2>1, <2>3, <3>1, <3>2, FS_EmptySet
  <2> QED
    BY <2>2, <2>3
<1>4. tracked' = OpenAt("tcp")'
  BY <1>1 DEF CountInv, OpenAt
<1>5. "tcp" \in Transports /\ active["tcp"] \in Nat
  BY <1>2 DEF Transports, CountInv
<1>6. active'["tcp"] <= MaxConns
  BY <1>3, <1>5 DEF CountInv, DoorsAssumption
<1> QED
  BY <1>1, <1>3, <1>4, <1>6 DEF CountInv

\* Closing counts each connection once, whoever closed it before.
LEMMA CloseCounts ==
  ASSUME DoorsAssumption, CountInv, NEW S, CloseAll(S)
  PROVE  CountInv' /\ open' = open \ S
<1>1. open' = open \ S /\ tracked' = tracked \ S
  BY DEF CloseAll
<1>2. ASSUME NEW d \in Transports
      PROVE  /\ active'[d] = Cardinality(OpenAt(d)')
             /\ active'[d] \in Int /\ active'[d] <= active[d] /\ active[d] \in Nat
  <2> DEFINE B == {c \in S \cap open : DoorOf[c] = d}
  <2>1. active'[d] = active[d] - Cardinality(B) /\ active[d] = Cardinality(OpenAt(d))
    BY DEF CloseAll, CountInv
  <2>2. OpenAt(d)' = OpenAt(d) \ B /\ OpenAt(d) \cap B = B /\ B \subseteq Conns
    BY <1>1 DEF OpenAt, CountInv
  <2>3. IsFiniteSet(OpenAt(d)) /\ IsFiniteSet(B)
    <3>1. OpenAt(d) \in SUBSET Conns /\ B \in SUBSET Conns
      BY <2>2 DEF OpenAt, CountInv
    <3> HIDE DEF B
    <3> QED
      BY <3>1, FS_Subset DEF DoorsAssumption
  <2> HIDE DEF B
  <2>4. Cardinality(OpenAt(d) \ B) = Cardinality(OpenAt(d)) - Cardinality(OpenAt(d) \cap B)
    BY <2>3, FS_Difference
  <2>5. Cardinality(B) \in Nat /\ Cardinality(OpenAt(d)) \in Nat
    BY <2>3, FS_CardinalityType
  <2>6. Cardinality(OpenAt(d)') = Cardinality(OpenAt(d)) - Cardinality(B)
    BY <2>2, <2>4
  <2> QED
    BY <2>1, <2>5, <2>6
<1>3. tracked' = OpenAt("tcp")'
  BY <1>1 DEF CountInv, OpenAt
<1>4. active'["tcp"] <= MaxConns
  BY <1>2 DEF Transports, CountInv, DoorsAssumption
<1> QED
  BY <1>1, <1>2, <1>3, <1>4 DEF CountInv

\* Who holds a slot is as before.
LEMMA SlotsStay ==
  ASSUME SlotInv, perIP' = perIP,
         \A c \in Conns : st'[c] \in {"served", "closed"} <=> st[c] \in {"served", "closed"}
  PROVE  SlotInv'
<1>1. \A i \in IPs : Holds(i)' = Holds(i)
  BY DEF Holds
<1> QED
  BY <1>1 DEF SlotInv, IPs

\* One connection takes a slot of its address.
LEMMA SlotTaken ==
  ASSUME DoorsAssumption, SlotInv, WhereInv, NEW c \in Conns, st[c] = "taken",
         perIP[IpOf[c]] < MaxPerIP, Is(c, "served"),
         perIP' = [perIP EXCEPT ![IpOf[c]] = @ + 1]
  PROVE  SlotInv'
<1>1. IpOf[c] \in IPs
  BY DEF IPs
<1>2. perIP' \in [IPs -> Nat] /\ perIP'[IpOf[c]] = perIP[IpOf[c]] + 1 /\ perIP'[IpOf[c]] <= MaxPerIP
  BY <1>1 DEF SlotInv, DoorsAssumption
<1>3. \A i \in IPs : i # IpOf[c] => perIP'[i] = perIP[i] /\ Holds(i)' = Holds(i)
  BY DEF SlotInv, WhereInv, Is, Holds
<1>4. Cardinality(Holds(IpOf[c])') = Cardinality(Holds(IpOf[c])) + 1
  <2>1. Holds(IpOf[c])' = Holds(IpOf[c]) \cup {c} /\ c \notin Holds(IpOf[c])
    BY DEF WhereInv, Is, Holds
  <2>2. IsFiniteSet(Holds(IpOf[c]))
    BY FS_Subset DEF Holds, DoorsAssumption
  <2> QED
    BY <2>1, <2>2, FS_AddElement
<1>5. \A i \in IPs : perIP'[i] = Cardinality(Holds(i)') /\ perIP'[i] <= MaxPerIP
  BY <1>2, <1>3, <1>4 DEF SlotInv
<1> QED
  BY <1>2, <1>5 DEF SlotInv, IPs

\* One connection gives its slot back.
LEMMA SlotGiven ==
  ASSUME DoorsAssumption, SlotInv, WhereInv, NEW c \in Conns, st[c] = "closed",
         Is(c, "ended"), perIP' = [perIP EXCEPT ![IpOf[c]] = @ - 1]
  PROVE  SlotInv'
<1>1. IpOf[c] \in IPs
  BY DEF IPs
<1>2. \A i \in IPs : i # IpOf[c] => perIP'[i] = perIP[i] /\ Holds(i)' = Holds(i)
  BY DEF SlotInv, WhereInv, Is, Holds
<1>3. /\ Cardinality(Holds(IpOf[c])') = Cardinality(Holds(IpOf[c])) - 1
      /\ Cardinality(Holds(IpOf[c])') \in Nat
  <2>1. Holds(IpOf[c])' = Holds(IpOf[c]) \ {c} /\ c \in Holds(IpOf[c])
    BY DEF WhereInv, Is, Holds
  <2>2. IsFiniteSet(Holds(IpOf[c])) /\ IsFiniteSet(Holds(IpOf[c]) \ {c})
    BY FS_Subset DEF Holds, DoorsAssumption
  <2> QED
    BY <2>1, <2>2, FS_RemoveElement, FS_CardinalityType
<1>4. /\ perIP'[IpOf[c]] = perIP[IpOf[c]] - 1 /\ perIP[IpOf[c]] \in Nat
      /\ perIP'[IpOf[c]] \in Nat /\ perIP' \in [IPs -> Int]
  BY <1>1, <1>3 DEF SlotInv
<1>5. perIP' \in [IPs -> Nat]
  BY <1>2, <1>4 DEF SlotInv
<1>6. \A i \in IPs : perIP'[i] = Cardinality(Holds(i)') /\ perIP'[i] <= MaxPerIP
  BY <1>2, <1>3, <1>4 DEF SlotInv, DoorsAssumption
<1> QED
  BY <1>5, <1>6 DEF SlotInv, IPs

\* A connection that is in no queue moves on; it stays open only where
\* something will close it.
LEMMA Moves ==
  ASSUME WhereInv, NEW c \in Conns, NEW s, Is(c, s), st[c] # "queued",
         s \in {"called", "got", "taken", "served", "closed", "ended"},
         s = "called" => DoorOf[c] = "grpc", s = "got" => DoorOf[c] = "tcp",
         open' \subseteq open \cup {c}, c \in open' => s \in {"taken", "served"},
         queue' = queue
  PROVE  WhereInv'
<1>1. st' = [st EXCEPT ![c] = s]
  BY DEF Is
<1>2. /\ st' \in [Conns -> {"new", "called", "queued", "got", "taken", "served", "closed", "ended"}]
      /\ st'[c] = s /\ \A b \in Conns \ {c} : st'[b] = st[b]
  BY <1>1 DEF WhereInv
<1>3. \A b \in open' : st'[b] \in {"queued", "taken", "served"}
  <2> SUFFICES ASSUME NEW b \in open' PROVE st'[b] \in {"queued", "taken", "served"}
    OBVIOUS
  <2>1. CASE b = c
    BY <1>2, <2>1
  <2>2. CASE b # c
    BY <1>1, <2>2 DEF WhereInv
  <2> QED
    BY <2>1, <2>2
<1>4. \A b \in Conns : /\ st'[b] = "called" => DoorOf[b] = "grpc"
                       /\ st'[b] = "got" => DoorOf[b] = "tcp"
  BY <1>2 DEF WhereInv
<1>5. \A i \in 1..Len(queue) : queue[i] \in Conns /\ st'[queue[i]] = "queued"
  BY <1>2, ElementOfSeq DEF WhereInv
<1> QED
  BY <1>2, <1>3, <1>4, <1>5 DEF WhereInv

\* A call is queued: the queue's entries stay apart.
LEMMA Queued ==
  ASSUME WhereInv, NEW c \in Conns, Is(c, "queued"), st[c] # "queued",
         queue' = Append(queue, c), open' = open \cup {c}
  PROVE  WhereInv'
<1>1. /\ st' \in [Conns -> {"new", "called", "queued", "got", "taken", "served", "closed", "ended"}]
      /\ st'[c] = "queued" /\ \A b \in Conns \ {c} : st'[b] = st[b]
      /\ \A b \in open' : st'[b] \in {"queued", "taken", "served"}
      /\ \A b \in Conns : /\ st'[b] = "called" => DoorOf[b] = "grpc"
                          /\ st'[b] = "got" => DoorOf[b] = "tcp"
  BY DEF WhereInv, Is
<1>2. /\ queue' \in Seq(Conns) /\ Len(queue') = Len(queue) + 1 /\ Len(queue) \in Nat
      /\ queue'[Len(queue) + 1] = c /\ \A i \in 1..Len(queue) : queue'[i] = queue[i]
  BY AppendProperties, LenProperties DEF WhereInv
<1>3. \A i \in 1..Len(queue) : queue[i] \in Conns /\ queue[i] # c /\ st'[queue[i]] = "queued"
  BY <1>1, ElementOfSeq DEF WhereInv
<1>4. \A i \in 1..Len(queue') : i \in 1..Len(queue) \/ i = Len(queue) + 1
  BY <1>2
<1>5. \A i \in 1..Len(queue') : st'[queue'[i]] = "queued"
  BY <1>1, <1>2, <1>3, <1>4
<1>6. \A i, j \in 1..Len(queue') : queue'[i] = queue'[j] => i = j
  BY <1>2, <1>3, <1>4 DEF WhereInv
<1> QED
  BY <1>1, <1>2, <1>5, <1>6 DEF WhereInv

\* The gRPC loop takes the head of the queue.
LEMMA Dequeued ==
  ASSUME WhereInv, queue # <<>>, queue' = Tail(queue), Is(Head(queue), "taken"), open' = open
  PROVE  WhereInv' /\ Head(queue) \in Conns /\ st[Head(queue)] = "queued"
<1> DEFINE h == Head(queue)
<1>1. /\ h \in Conns /\ Tail(queue) \in Seq(Conns) /\ Len(Tail(queue)) = Len(queue) - 1
      /\ \A i \in 1..Len(Tail(queue)) : Tail(queue)[i] = queue[i + 1]
  BY HeadTailProperties DEF WhereInv
<1>2. Len(queue) \in Nat /\ Len(queue) >= 1 /\ h = queue[1]
  BY LenProperties, EmptySeq DEF WhereInv
<1>3. st[h] = "queued"
  BY <1>2 DEF WhereInv
<1> HIDE DEF h
<1>4. /\ st' \in [Conns -> {"new", "called", "queued", "got", "taken", "served", "closed", "ended"}]
      /\ st'[h] = "taken" /\ \A b \in Conns \ {h} : st'[b] = st[b]
      /\ \A b \in open' : st'[b] \in {"queued", "taken", "served"}
      /\ \A b \in Conns : /\ st'[b] = "called" => DoorOf[b] = "grpc"
                          /\ st'[b] = "got" => DoorOf[b] = "tcp"
  BY <1>1 DEF WhereInv, Is, h
<1>5. \A i \in 1..Len(queue') : /\ i + 1 \in 1..Len(queue) /\ i + 1 # 1
                                /\ queue'[i] = queue[i + 1]
  BY <1>1, <1>2
<1>6. ASSUME NEW i \in 1..Len(queue')
      PROVE  st'[queue'[i]] = "queued"
  <2>1. queue[i + 1] # h /\ queue[i + 1] \in Conns /\ st[queue[i + 1]] = "queued"
    BY <1>2, <1>5, ElementOfSeq DEF WhereInv
  <2> QED
    BY <1>4, <1>5, <2>1
<1>7. \A i, j \in 1..Len(queue') : queue'[i] = queue'[j] => i = j
  <2> SUFFICES ASSUME NEW i \in 1..Len(queue'), NEW j \in 1..Len(queue'), queue'[i] = queue'[j]
               PROVE  i = j
    OBVIOUS
  <2>1. i + 1 = j + 1
    BY <1>5 DEF WhereInv
  <2> QED
    BY <2>1
<1> QED
  BY <1>1, <1>3, <1>4, <1>6, <1>7 DEF WhereInv, h

DoorsInv == CountInv /\ SlotInv /\ WhereInv

\* The steps of one connection.
LEMMA ConnStep ==
  ASSUME DoorsAssumption, DoorsInv, NEW c \in Conns,
         \/ Call(c) \/ Tunnel(c) \/ PeerLeaves(c) \/ TakeTCP(c) \/ AcceptTCP(c)
         \/ acquireConnSlot(c) \/ Served(c) \/ release(c)
  PROVE  DoorsInv'
<1> USE DEF DoorsInv
<1>0. /\ DoorOf[c] \in Doors /\ (c \in open => st[c] \in {"queued", "taken", "served"})
      /\ DOMAIN st = Conns
  BY DEF DoorsAssumption, WhereInv
<1>1. CASE Call(c)
  <2>1. WhereInv'
    BY <1>0, <1>1, Moves DEF Call
  <2>2. SlotInv'
    BY <1>1, SlotsStay DEF Call, Is, WhereInv
  <2>3. CountInv'
    BY <1>1 DEF Call, CountInv, OpenAt
  <2> QED
    BY <2>1, <2>2, <2>3
<1>2. CASE Tunnel(c)
  <2>1. SlotInv'
    BY <1>2, SlotsStay DEF Tunnel, Is, WhereInv
  <2>2. CASE queue' = Append(queue, c) /\ Is(c, "queued") /\ Wrap(c)
    <3>1. DoorOf[c] = "grpc" /\ c \notin open /\ st[c] # "queued" /\ tracked' = tracked
      BY <1>0, <1>2 DEF Tunnel, WhereInv
    <3>2. CountInv'
      BY <2>2, <3>1, WrapCounts
    <3>3. WhereInv'
      BY <2>2, <3>1, Queued DEF Wrap
    <3> QED
      BY <2>1, <3>2, <3>3
  <2>3. CASE Is(c, "ended") /\ UNCHANGED <<queue, open, active>>
    <3>1. WhereInv'
      BY <1>0, <1>2, <2>3, Moves DEF Tunnel
    <3>2. CountInv'
      BY <1>2, <2>3 DEF Tunnel, CountInv, OpenAt
    <3> QED
      BY <2>1, <3>1, <3>2
  <2> QED
    BY <1>2, <2>2, <2>3 DEF Tunnel
<1>3. CASE PeerLeaves(c)
  BY <1>3 DEF PeerLeaves, CountInv, OpenAt, SlotInv, WhereInv, Holds
<1>4. CASE TakeTCP(c)
  <2>1. SlotInv'
    BY <1>4, SlotsStay DEF TakeTCP, Is, WhereInv
  <2>2. c \notin open /\ st[c] = "new" /\ queue' = queue /\ tracked' = tracked
    BY <1>0, <1>4 DEF TakeTCP
  <2>3. CASE DoorOf[c] = "tcp"
    <3>1. Is(c, "got") /\ open' = open /\ active' = active
      BY <1>4, <2>3 DEF TakeTCP
    <3>2. WhereInv'
      BY <2>2, <2>3, <3>1, Moves
    <3>3. CountInv'
      BY <2>2, <3>1 DEF CountInv, OpenAt
    <3> QED
      BY <2>1, <3>2, <3>3
  <2>4. CASE DoorOf[c] # "tcp"
    <3>1. Is(c, "taken") /\ Wrap(c) /\ open' = open \cup {c}
      BY <1>4, <2>4 DEF TakeTCP, Wrap
    <3>2. CountInv'
      BY <2>2, <2>4, <3>1, WrapCounts
    <3>3. WhereInv'
      BY <2>2, <3>1, Moves
    <3> QED
      BY <2>1, <3>2, <3>3
  <2> QED
    BY <2>3, <2>4
<1>5. CASE AcceptTCP(c)
  <2>1. SlotInv'
    BY <1>5, SlotsStay DEF AcceptTCP, Is, WhereInv
  <2>2. c \notin open /\ st[c] = "got" /\ DoorOf[c] = "tcp" /\ queue' = queue
    BY <1>0, <1>5 DEF AcceptTCP, WhereInv
  <2>3. CASE active["tcp"] >= MaxConns
    <3>1. Is(c, "ended") /\ UNCHANGED <<open, active, tracked>>
      BY <1>5, <2>3 DEF AcceptTCP
    <3>2. WhereInv'
      BY <2>2, <3>1, Moves
    <3>3. CountInv'
      BY <3>1 DEF CountInv, OpenAt
    <3> QED
      BY <2>1, <3>2, <3>3
  <2>4. CASE ~(active["tcp"] >= MaxConns)
    <3>1. Is(c, "taken") /\ Wrap(c) /\ tracked' = tracked \cup {c} /\ open' = open \cup {c}
      BY <1>5, <2>4 DEF AcceptTCP, Wrap
    <3>2. active["tcp"] < MaxConns
      <4>1. active["tcp"] \in Nat
        <5>1. OpenAt("tcp") \in SUBSET Conns
          BY DEF OpenAt, CountInv
        <5> QED
          BY <5>1, FS_Subset, FS_CardinalityType DEF CountInv, DoorsAssumption, Transports
      <4> QED
        BY <2>4, <4>1 DEF DoorsAssumption
    <3>3. CountInv'
      BY <2>2, <3>1, <3>2, WrapCounts
    <3>4. WhereInv'
      BY <2>2, <3>1, Moves
    <3> QED
      BY <2>1, <3>3, <3>4
  <2> QED
    BY <2>3, <2>4
<1>6. CASE acquireConnSlot(c)
  <2>1. st[c] = "taken" /\ queue' = queue
    BY <1>6 DEF acquireConnSlot
  <2>2. CASE Admits(c)
    <3>1. /\ Is(c, "served") /\ perIP' = [perIP EXCEPT ![IpOf[c]] = @ + 1]
          /\ UNCHANGED <<open, active, tracked>> /\ perIP[IpOf[c]] < MaxPerIP
      BY <1>6, <2>2 DEF acquireConnSlot, Admits
    <3>2. SlotInv'
      BY <2>1, <3>1, SlotTaken
    <3>3. WhereInv'
      BY <2>1, <3>1, Moves
    <3>4. CountInv'
      BY <3>1 DEF CountInv, OpenAt
    <3> QED
      BY <3>2, <3>3, <3>4
  <2>3. CASE ~Admits(c)
    <3>1. Is(c, "ended") /\ CloseAll({c}) /\ perIP' = perIP
      BY <1>6, <2>3 DEF acquireConnSlot
    <3>2. CountInv' /\ open' = open \ {c}
      BY <3>1, CloseCounts
    <3>3. WhereInv'
      BY <2>1, <3>1, <3>2, Moves
    <3>4. SlotInv'
      BY <2>1, <3>1, SlotsStay DEF Is, WhereInv
    <3> QED
      BY <3>2, <3>3, <3>4
  <2> QED
    BY <2>2, <2>3
<1>7. CASE Served(c)
  <2>1. st[c] = "served" /\ Is(c, "closed") /\ CloseAll({c}) /\ queue' = queue /\ perIP' = perIP
    BY <1>7 DEF Served
  <2>2. CountInv' /\ open' = open \ {c}
    BY <2>1, CloseCounts
  <2>3. WhereInv'
    BY <2>1, <2>2, Moves
  <2>4. SlotInv'
    BY <2>1, SlotsStay DEF Is, WhereInv
  <2> QED
    BY <2>2, <2>3, <2>4
<1>8. CASE release(c)
  <2>1. st[c] = "closed" /\ Is(c, "ended") /\ UNCHANGED <<open, active, tracked, queue>>
    BY <1>8 DEF release
  <2>2. WhereInv'
    BY <1>0, <2>1, Moves
  <2>3. SlotInv'
    BY <1>8, SlotGiven DEF release
  <2>4. CountInv'
    BY <2>1 DEF CountInv, OpenAt
  <2> QED
    BY <2>2, <2>3, <2>4
<1> QED
  BY <1>1, <1>2, <1>3, <1>4, <1>5, <1>6, <1>7, <1>8

\* The doors keep their accounts, whoever closes a connection first and
\* whenever the transports stop: a slot of an address is open exactly by the
\* connections being served, a transport's count is that of its open ones.
THEOREM DoorsHold ==
  ASSUME DoorsAssumption
  PROVE  Spec => []DoorsAccount
<1>1. Init => DoorsInv
  <2> SUFFICES ASSUME Init PROVE DoorsInv
    OBVIOUS
  <2>1. \A d \in Transports : OpenAt(d) = {} /\ active[d] = 0
    BY DEF Init, OpenAt
  <2>2. "tcp" \in Transports /\ Cardinality({}) = 0
    BY FS_EmptySet DEF Transports
  <2>3. CountInv
    <3>1. open = {} /\ tracked = {}
      BY DEF Init
    <3>2. \A d \in Transports : active[d] = Cardinality(OpenAt(d))
      BY <2>1, <2>2
    <3>3. active["tcp"] = 0 /\ OpenAt("tcp") = {}
      BY <2>1, <2>2
    <3> QED
      BY <3>1, <3>2, <3>3 DEF CountInv, DoorsAssumption
  <2>4. \A i \in IPs : Holds(i) = {}
    BY DEF Init, Holds
  <2>5. SlotInv
    <3>1. perIP = [i \in IPs |-> 0]
      BY DEF Init
    <3> QED
      BY <2>2, <2>4, <3>1 DEF SlotInv, DoorsAssumption
  <2>6. WhereInv
    BY EmptySeq DEF Init, WhereInv
  <2> QED
    BY <2>3, <2>5, <2>6 DEF DoorsInv
<1>2. DoorsInv /\ [Next]_sdVars => DoorsInv'
  <2> SUFFICES ASSUME DoorsInv, [Next]_sdVars PROVE DoorsInv'
    OBVIOUS
  <2>1. ASSUME UNCHANGED <<st, open, active, tracked, queue, perIP>>
        PROVE  DoorsInv'
    BY <2>1 DEF DoorsInv, CountInv, OpenAt, SlotInv, WhereInv, Holds
  <2>2. CASE AcceptGrpc
    <3>1. /\ queue # <<>> /\ queue' = Tail(queue) /\ Is(Head(queue), "taken")
          /\ UNCHANGED <<open, active, tracked, perIP>>
      BY <2>2 DEF AcceptGrpc
    <3>2. WhereInv' /\ Head(queue) \in Conns /\ st[Head(queue)] = "queued"
      BY <3>1, Dequeued DEF DoorsInv
    <3>3. SlotInv'
      BY <3>1, <3>2, SlotsStay DEF Is, DoorsInv, WhereInv
    <3>4. CountInv'
      BY <3>1 DEF CountInv, OpenAt, DoorsInv
    <3> QED
      BY <3>2, <3>3, <3>4 DEF DoorsInv
  <2>3. CASE TcpStop
    <3>1. CASE UNCHANGED <<open, active, tracked>>
      BY <2>1, <2>3, <3>1 DEF TcpStop
    <3>2. CASE CloseAll(tracked)
      <4>1. CountInv' /\ open' = open \ tracked
        BY <3>2, CloseCounts DEF DoorsInv
      <4>2. WhereInv' /\ SlotInv'
        BY <2>3, <4>1 DEF TcpStop, DoorsInv, WhereInv, SlotInv, Holds
      <4> QED
        BY <4>1, <4>2 DEF DoorsInv
    <3> QED
      BY <2>3, <3>1, <3>2 DEF TcpStop
  <2>4. CASE GrpcStop \/ LoopTurns \/ Cancel \/ UNCHANGED sdVars
    BY <2>1, <2>4 DEF GrpcStop, LoopTurns, Cancel, sdVars
  <2> QED
    BY <2>2, <2>3, <2>4, ConnStep DEF Next
<1>3. DoorsInv => DoorsAccount
  BY DEF DoorsInv, CountInv, SlotInv, WhereInv, OpenAt, DoorsAccount
<1> QED
  BY <1>1, <1>2, <1>3, PTL DEF Spec
=============================================================================
