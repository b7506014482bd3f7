--------------------------- MODULE IdleSetProofs ---------------------------
(***************************************************************************)
(* For any number of connections and threads and any cap: a connection of  *)
(* the idle set has one owner at a time, who will use or close it, and is  *)
(* read by one goroutine (OwnedOnce).                                      *)
(***************************************************************************)
EXTENDS IdleSet, SequenceTheorems, TLAPS

Distinct(s) == \A i, j \in 1..Len(s) : s[i] = s[j] => i = j
Elems(s) == {s[i] : i \in 1..Len(s)}

-----------------------------------------------------------------------------
(* The set as a sequence: pop the last, push and cut the front, delete.    *)

\* take removes the last connection, and only that one.
LEMMA PopLast ==
  ASSUME NEW S, NEW s \in Seq(S), s # <<>>, Distinct(s)
  PROVE  LET t == SubSeq(s, 1, Len(s) - 1)
         IN  /\ t \in Seq(S) /\ Distinct(t) /\ Len(t) <= Len(s)
             /\ s[Len(s)] \in Elems(s)
             /\ Elems(t) = Elems(s) \ {s[Len(s)]}
<1> DEFINE n == Len(s)
           t == SubSeq(s, 1, n - 1)
<1>1. n \in Nat /\ n >= 1 /\ \A i \in 1..n : s[i] \in S
  BY EmptySeq, ElementOfSeq
<1>2. /\ t \in Seq(S) /\ Len(t) = n - 1
      /\ \A i \in 1..(n - 1) : t[i] = s[i]
  <2>1. \A i \in 1..(n - 1) : s[i] \in S
    BY <1>1
  <2>2. /\ t \in Seq(S) /\ Len(t) = IF 1 <= n - 1 THEN n - 1 - 1 + 1 ELSE 0
        /\ \A i \in 1..(n - 1 - 1 + 1) : t[i] = s[1 + i - 1]
    BY <1>1, <2>1, SubSeqProperties
  <2>3. n - 1 - 1 + 1 = n - 1 /\ \A i \in 1..(n - 1) : 1 + i - 1 = i
    BY <1>1
  <2> QED
    BY <1>1, <2>2, <2>3
<1> HIDE DEF t
<1>3. Distinct(t)
  BY <1>1, <1>2 DEF Distinct
<1>4. Elems(t) = Elems(s) \ {s[n]}
  <2>1. ASSUME NEW i \in 1..(n - 1) PROVE t[i] \in Elems(s) \ {s[n]}
    <3>1. i \in 1..n /\ i # n /\ n \in 1..n
      BY <1>1
    <3> QED
      BY <1>2, <3>1 DEF Elems, Distinct
  <2>2. ASSUME NEW i \in 1..n, s[i] # s[n] PROVE s[i] \in Elems(t)
    <3>1. i \in 1..(n - 1)
      BY <1>1, <2>2
    <3> QED
      BY <1>2, <3>1 DEF Elems
  <2> QED
    BY <1>2, <2>1, <2>2 DEF Elems
<1>5. s[n] \in Elems(s)
  BY <1>1 DEF Elems
<1> QED
  BY <1>1, <1>2, <1>3, <1>4, <1>5 DEF t

\* put appends a connection that was not there and cuts the overflow off the
\* front: what is cut and what stays are all of them, and have none in common.
LEMMA PushAndCut ==
  ASSUME NEW S, NEW s \in Seq(S), Distinct(s), NEW c \in S, c \notin Elems(s),
         NEW over \in 0..Len(s)
  PROVE  LET all == Append(s, c)
             t == SubSeq(all, over + 1, Len(all))
             cut == {all[i] : i \in 1..over}
         IN  /\ t \in Seq(S) /\ Distinct(t) /\ Len(t) = Len(s) + 1 - over
             /\ Elems(t) \cup cut = Elems(s) \cup {c}
             /\ Elems(t) \cap cut = {}
             /\ c \notin cut
<1> DEFINE n == Len(s)
           all == Append(s, c)
           t == SubSeq(all, over + 1, n + 1)
           cut == {all[i] : i \in 1..over}
<1>1. /\ n \in Nat /\ Len(all) = n + 1 /\ all \in Seq(S)
      /\ \A i \in 1..n : all[i] = s[i]
      /\ all[n + 1] = c
  BY AppendProperties, LenProperties
<1>2. \A i \in 1..(n + 1) : all[i] \in S
  BY <1>1, ElementOfSeq
<1>3. \A i, j \in 1..(n + 1) : all[i] = all[j] => i = j
  <2> SUFFICES ASSUME NEW i \in 1..(n + 1), NEW j \in 1..(n + 1), all[i] = all[j]
               PROVE  i = j
    OBVIOUS
  <2>1. CASE i \in 1..n /\ j \in 1..n
    BY <1>1, <2>1 DEF Distinct
  <2>2. CASE i = n + 1 /\ j \in 1..n
    BY <1>1, <2>2 DEF Elems
  <2>3. CASE i \in 1..n /\ j = n + 1
    BY <1>1, <2>3 DEF Elems
  <2> QED
    BY <1>1, <2>1, <2>2, <2>3
<1>4. over \in Nat /\ over <= n
  BY <1>1
<1>5. /\ t \in Seq(S) /\ Len(t) = n + 1 - over
      /\ \A i \in 1..(n + 1 - over) : t[i] = all[over + i]
  <2>1. \A i \in (over + 1)..(n + 1) : all[i] \in S
    BY <1>1, <1>2, <1>4
  <2> QED
    BY <1>1, <1>4, <2>1, SubSeqProperties
<1>6. Distinct(t)
  BY <1>1, <1>3, <1>4, <1>5 DEF Distinct
<1>7. Elems(t) = {all[i] : i \in (over + 1)..(n + 1)}
  <2>1. \A x \in Elems(t) : x \in {all[i] : i \in (over + 1)..(n + 1)}
    BY <1>1, <1>4, <1>5 DEF Elems
  <2>2. ASSUME NEW i \in (over + 1)..(n + 1) PROVE all[i] \in Elems(t)
    <3>1. i - over \in 1..(n + 1 - over) /\ over + (i - over) = i
      BY <1>1, <1>4
    <3> QED
      BY <1>5, <3>1 DEF Elems
  <2> QED
    BY <2>1, <2>2
<1>8. Elems(t) \cup cut = Elems(s) \cup {c}
  <2>1. Elems(t) \cup cut = {all[i] : i \in 1..(n + 1)}
    BY <1>1, <1>4, <1>7
  <2>2. {all[i] : i \in 1..(n + 1)} = Elems(s) \cup {c}
    BY <1>1 DEF Elems
  <2> QED
    BY <2>1, <2>2
<1>9. Elems(t) \cap cut = {} /\ c \notin cut
  BY <1>1, <1>3, <1>4, <1>7
<1> QED
  BY <1>1, <1>5, <1>6, <1>8, <1>9

\* remove takes the connection out wherever it is, and nothing else.
LEMMA RemoveOne ==
  ASSUME NEW S, NEW s \in Seq(S), Distinct(s), NEW c
  PROVE  /\ Remove(s, c) \in Seq(S) /\ Distinct(Remove(s, c))
         /\ Len(Remove(s, c)) <= Len(s)
         /\ Elems(Remove(s, c)) = Elems(s) \ {c}
<1> DEFINE n == Len(s)
<1>0. n \in Nat /\ \A i \in 1..n : s[i] \in S
  BY LenProperties, ElementOfSeq
<1>1. CASE \A i \in 1..n : s[i] # c
  BY <1>0, <1>1 DEF Remove, Elems
<1>2. CASE ~ \A i \in 1..n : s[i] # c
  <2> DEFINE i == CHOOSE j \in 1..n : s[j] = c /\ \A k \in 1..(j - 1) : s[k] # c
             a == SubSeq(s, 1, i - 1)
             b == SubSeq(s, i + 1, n)
  <2>1. \E j \in 1..n : s[j] = c /\ \A k \in 1..(j - 1) : s[k] # c
    <3>1. PICK j \in 1..n : s[j] = c
      BY <1>2
    <3>2. \A k \in 1..(j - 1) : s[k] # c
      BY <1>0, <3>1 DEF Distinct
    <3> QED
      BY <3>1, <3>2
  <2>2. i \in 1..n /\ s[i] = c
    BY <2>1
  <2> HIDE DEF i
  <2>3. Remove(s, c) = a \o b
    BY <1>2 DEF Remove, i
  <2>4. a \in Seq(S) /\ Len(a) = i - 1 /\ \A j \in 1..(i - 1) : a[j] = s[j]
    <3>1. \A j \in 1..(i - 1) : s[j] \in S
      BY <1>0, <2>2
    <3> QED
      BY <1>0, <2>2, <3>1, SubSeqProperties
  <2>5. b \in Seq(S) /\ Len(b) = n - i /\ \A j \in 1..(n - i) : b[j] = s[i + j]
    <3>1. \A j \in (i + 1)..n : s[j] \in S
      BY <1>0, <2>2
    <3> QED
      BY <1>0, <2>2, <3>1, SubSeqProperties
  <2> HIDE DEF a, b
  <2> DEFINE r == a \o b
  <2>6. /\ r \in Seq(S) /\ Len(r) = n - 1
        /\ \A j \in 1..(n - 1) : r[j] = IF j < i THEN s[j] ELSE s[j + 1]
    <3>1. /\ r \in Seq(S) /\ Len(r) = Len(a) + Len(b)
          /\ \A j \in 1..(Len(a) + Len(b)) :
               r[j] = IF j <= Len(a) THEN a[j] ELSE b[j - Len(a)]
      BY <2>4, <2>5, ConcatProperties
    <3> HIDE DEF r
    <3>2. Len(a) + Len(b) = n - 1 /\ i \in Int /\ n \in Int
      BY <1>0, <2>2, <2>4, <2>5
    <3>3. ASSUME NEW j \in 1..(n - 1) PROVE r[j] = IF j < i THEN s[j] ELSE s[j + 1]
      <4>1. CASE j < i
        <5>1. j \in 1..(i - 1) /\ j <= Len(a)
          BY <2>4, <3>2, <4>1
        <5> QED
          BY <2>4, <3>1, <3>2, <4>1, <5>1
      <4>2. CASE ~(j < i)
        <5> DEFINE m == j - (i - 1)
        <5>1. m \in 1..(n - i) /\ i + m = j + 1 /\ ~(j <= Len(a)) /\ j - Len(a) = m
          BY <2>4, <3>2, <4>2
        <5>2. r[j] = b[m]
          BY <3>1, <3>2, <5>1
        <5> HIDE DEF m
        <5> QED
          BY <2>5, <4>2, <5>1, <5>2
      <4> QED
        BY <4>1, <4>2
    <3> QED
      BY <3>1, <3>2, <3>3
  <2> HIDE DEF r
  <2>7. Distinct(r)
    <3> SUFFICES ASSUME NEW j \in 1..(n - 1), NEW k \in 1..(n - 1), r[j] = r[k]
                 PROVE  j = k
      BY <1>0, <2>6 DEF Distinct
    <3>1. j \in 1..n /\ k \in 1..n /\ j + 1 \in 1..n /\ k + 1 \in 1..n
      BY <1>0
    <3>2. j \in Int /\ k \in Int /\ i \in Int
      BY <2>2
    <3> QED
      BY <2>6, <3>1, <3>2 DEF Distinct
  <2>8. Elems(r) = Elems(s) \ {c}
    <3>1. \A x \in Elems(r) : x \in Elems(s) \ {c}
      BY <1>0, <2>2, <2>6 DEF Elems, Distinct
    <3>2. ASSUME NEW j \in 1..n, s[j] # c PROVE s[j] \in Elems(r)
      <4>1. CASE j < i
        BY <1>0, <2>2, <2>6, <4>1 DEF Elems
      <4>2. CASE j > i
        <5>1. j - 1 \in 1..(n - 1) /\ ~(j - 1 < i) /\ (j - 1) + 1 = j
          BY <1>0, <2>2, <4>2
        <5> QED
          BY <2>6, <5>1 DEF Elems
      <4> QED
        BY <1>0, <2>2, <3>2, <4>1, <4>2
    <3> QED
      BY <3>1, <3>2 DEF Elems
  <2> QED
    BY <1>0, <2>3, <2>6, <2>7, <2>8 DEF r, a, b
<1> QED
  BY <1>1, <1>2

-----------------------------------------------------------------------------
(* The inductive invariant.                                                *)

\* The sequence: no duplicates, within the cap, empty once shut.
SetOK ==
  /\ conns \in Seq(Conns) /\ Distinct(conns)
  /\ Len(conns) <= IdleMax
  /\ closed => conns = <<>>

\* The types of the rest, and the flag that says a filler runs.
Types ==
  /\ closed \in BOOLEAN /\ filling \in BOOLEAN
  /\ loop \in {"off", "asleep", "leaving"}
  /\ filled \subseteq Conns /\ ended \subseteq Conns /\ past \subseteq Conns
  /\ sock \in [Conns -> {"none", "open", "closed"}]
  /\ watch \in [Conns -> {"none", "reading", "remove"}]
  /\ alive \in [Conns -> {"empty", "alive", "dead"}]
  /\ doomed \subseteq Conns
  /\ pc \in [Threads -> Holding \cup {"idle", "take", "dial"}]
  /\ mine \in [Threads -> Conns \cup {NoConn}]
  /\ filling = (loop # "off")

\* Who has a connection: what is parked, doomed or held is open, in one of
\* these places only, and everything open is in one of them.
Owners ==
  /\ Parked \subseteq Conns
  /\ Parked \cap doomed = {}
  /\ \A c \in Parked \cup doomed : sock[c] = "open"
  /\ \A t \in Threads : mine[t] # NoConn <=> pc[t] \in Holding
  /\ \A t \in Threads : mine[t] # NoConn =>
       /\ mine[t] \notin Parked /\ mine[t] \notin doomed
       /\ sock[mine[t]] = "open"
       /\ \A u \in Threads : mine[u] = mine[t] => u = t
  /\ \A c \in Conns : sock[c] = "open" =>
       c \in Parked \/ c \in doomed \/ \E t \in Threads : mine[t] = c

\* Who reads a connection: a watcher that has said "alive" has gone, and one
\* that was never dialled has no watcher and no deadline.
Readers ==
  /\ \A t \in Threads : pc[t] \in {"pooled", "using", "put", "park", "reopen"} =>
       watch[mine[t]] = "none"
  /\ \A t \in Threads : pc[t] \in {"pooled", "using"} => mine[t] \notin past
  /\ \A c \in Conns : sock[c] = "none" => watch[c] = "none" /\ c \notin past
  /\ \A c \in Conns : alive[c] = "alive" => watch[c] = "none"

IInv == SetOK /\ Types /\ Owners /\ Readers

\* The inductive invariant is strong enough, and holds at the start.
LEMMA Implies == IInv => OwnedOnce
<1> SUFFICES ASSUME IInv PROVE OwnedOnce
  OBVIOUS
<1> USE DEF IInv
<1>1. TypeOK
  BY DEF TypeOK, SetOK, Types, Owners
<1>2. OneOwner
  BY DEF OneOwner, SetOK, Owners, Distinct
<1>3. NothingLeaks
  BY DEF NothingLeaks, Owners
<1>4. Capped /\ ShutIsEmpty
  BY DEF Capped, ShutIsEmpty, SetOK
<1>5. HandOver
  BY DEF HandOver, NoSharedReader, HandedOutUsable, Readers
<1> QED
  BY <1>1, <1>2, <1>3, <1>4, <1>5 DEF OwnedOnce, Ownership

\* The set starts empty, with nothing dialled.
LEMMA Initially == Init => IInv
<1> SUFFICES ASSUME Init PROVE IInv
  OBVIOUS
<1>1. Parked = {} /\ SetOK
  BY IdleAssumption, EmptySeq DEF Init, Parked, SetOK, Distinct
<1>2. Types
  BY DEF Init, Types
<1>3. Owners
  BY <1>1, IdleAssumption DEF Init, Owners, Holding
<1>4. Readers
  BY DEF Init, Readers
<1> QED
  BY <1>1, <1>2, <1>3, <1>4 DEF IInv

-----------------------------------------------------------------------------
(* The steps.                                                              *)

\* A step that leaves the set alone leaves what is parked alone.
LEMMA SameSet ==
  ASSUME SetOK, UNCHANGED setVars
  PROVE  SetOK' /\ Parked' = Parked
BY DEF SetOK, Parked, setVars, Distinct

\* take hands the last parked connection to the thread, or sends it to dial.
LEMMA TakeStep ==
  ASSUME IInv, NEW t \in Threads, Take(t)
  PROVE  IInv'
<1> USE DEF IInv
<1>1. CASE conns = <<>>
  <2>1. SetOK' /\ Parked' = Parked
    BY <1>1, SameSet DEF Take, setVars
  <2>2. Types'
    BY <1>1 DEF Take, Types, Goto, fillVars, netVars
  <2>3. Owners'
    BY <1>1, <2>1 DEF Take, Types, Owners, Goto, fillVars, netVars, Holding
  <2>4. Readers'
    BY <1>1 DEF Take, Types, Readers, Goto, fillVars, netVars
  <2> QED
    BY <2>1, <2>2, <2>3, <2>4
<1>2. CASE conns # <<>>
  <2> DEFINE c == conns[Len(conns)]
  <2>1. /\ conns' \in Seq(Conns) /\ Distinct(conns') /\ Len(conns') <= Len(conns)
        /\ c \in Parked /\ Parked' = Parked \ {c}
    BY <1>2, PopLast DEF Take, SetOK, Parked, Elems
  <2>2. SetOK'
    <3>1. Len(conns) \in Nat /\ Len(conns') \in Nat
      BY <2>1 DEF SetOK
    <3> QED
      BY <1>2, <2>1, <3>1, IdleAssumption DEF SetOK, Take
  <2>3. /\ mine' = [mine EXCEPT ![t] = c] /\ pc' = [pc EXCEPT ![t] = "reclaim"]
        /\ mine[t] = NoConn /\ c \in Conns
    BY <1>2, <2>1 DEF Take, Goto, Owners, Holding
  <2> HIDE DEF c
  <2>4. Types'
    BY <1>2, <2>3 DEF Take, Types, fillVars, netVars, Holding
  <2>5. Owners'
    BY <1>2, <2>1, <2>3, IdleAssumption DEF Take, Types, Owners, fillVars, netVars, Holding
  <2>6. Readers'
    BY <1>2, <2>3 DEF Take, Types, Readers, fillVars, netVars
  <2> QED
    BY <2>2, <2>4, <2>5, <2>6
<1> QED
  BY <1>1, <1>2

\* A thread closes the connection it holds.
LEMMA CloseMineStep ==
  ASSUME IInv, NEW t \in Threads, NEW label \in {"idle", "take", "dial"},
         pc[t] \in Holding, CloseMine(t, label),
         UNCHANGED <<setVars, fillVars, netVars, watch, alive, doomed>>
  PROVE  IInv'
<1> USE DEF IInv
<1>1. SetOK' /\ Parked' = Parked
  BY SameSet
<1>2. mine[t] \in Conns
  BY DEF Owners, Types
<1>3. Types'
  BY <1>2 DEF Types, CloseMine, Goto, setVars, fillVars, netVars
<1>4. Owners'
  BY <1>1, <1>2, IdleAssumption DEF Types, Owners, CloseMine, Goto, Holding
<1>5. Readers'
  BY <1>2 DEF Types, Owners, Readers, CloseMine, Goto, netVars, Holding
<1> QED
  BY <1>1, <1>3, <1>4, <1>5

\* A thread dials a connection.
LEMMA DialStep ==
  ASSUME IInv, NEW t \in Threads, NEW c \in Conns, Dial(t, c) \/ Probe(t, c)
  PROVE  IInv'
<1> USE DEF IInv
<1>1. SetOK' /\ Parked' = Parked
  BY SameSet DEF Dial, Probe
<1>2. PICK label \in {"using", "reopen"} :
        /\ pc' = [pc EXCEPT ![t] = label] /\ mine' = [mine EXCEPT ![t] = c]
        /\ sock[c] = "none" /\ sock' = [sock EXCEPT ![c] = "open"]
        /\ pc[t] \notin Holding
        /\ UNCHANGED <<setVars, fillVars, netVars, watch, alive, doomed>>
  BY DEF Dial, Probe, Goto, Holding
<1>3. Types'
  BY <1>2 DEF Types, setVars, fillVars, netVars, Holding
<1>4. Owners'
  BY <1>1, <1>2, IdleAssumption DEF Types, Owners, Holding
<1>5. Readers'
  BY <1>2, IdleAssumption DEF Types, Owners, Readers, netVars, Holding
<1> QED
  BY <1>1, <1>3, <1>4, <1>5

\* reclaim: interrupting the watcher adds to past, its verdict clears it.
LEMMA ReclaimStep ==
  ASSUME IInv, NEW t \in Threads, ReclaimArm(t) \/ ReclaimAlive(t)
  PROVE  IInv'
<1> USE DEF IInv
<1>1. SetOK' /\ Parked' = Parked
  BY SameSet DEF ReclaimArm, ReclaimAlive
<1>2. mine[t] \in Conns
  BY DEF Owners, Types, ReclaimArm, ReclaimAlive, Holding
<1>3. Types'
  BY <1>2 DEF Types, ReclaimArm, ReclaimAlive, Goto, setVars, fillVars, Holding
<1>4. Owners'
  BY <1>1 DEF Types, Owners, ReclaimArm, ReclaimAlive, Goto, Holding
<1>5. Readers'
  <2>1. CASE ReclaimArm(t)
    BY <1>2, <2>1 DEF Types, Owners, Readers, ReclaimArm, Goto, Holding
  <2>2. CASE ReclaimAlive(t)
    BY <1>2, <2>2 DEF Types, Owners, Readers, ReclaimAlive, Goto, Holding
  <2> QED
    BY <2>1, <2>2
<1> QED
  BY <1>1, <1>3, <1>4, <1>5

\* A thread goes on with the connection it has, or without one as before.
LEMMA MoveOnStep ==
  ASSUME IInv, NEW t \in Threads,
         \/ DialFails(t) \/ SendHeader(t) \/ Drained(t) \/ PutStart(t) \/ Reopen(t)
  PROVE  IInv'
<1> USE DEF IInv
<1>1. SetOK' /\ Parked' = Parked
  <2>1. CASE Reopen(t)
    BY <2>1 DEF Reopen, SetOK, Parked, Distinct
  <2>2. CASE ~Reopen(t)
    BY <2>2, SameSet DEF DialFails, SendHeader, Drained, PutStart
  <2> QED
    BY <2>1, <2>2
<1>2. Types'
  <2>1. CASE PutStart(t)
    <3>1. filling' = TRUE /\ loop' \in {"asleep", "leaving"}
      <4>1. CASE filling = TRUE
        BY <2>1, <4>1 DEF Types, PutStart
      <4>2. CASE filling = FALSE
        BY <2>1, <4>2 DEF Types, PutStart
      <4> QED
        BY <4>1, <4>2 DEF Types
    <3> QED
      BY <2>1, <3>1 DEF Types, PutStart, Goto, setVars, netVars, Holding
  <2>2. CASE ~PutStart(t)
    BY <2>2 DEF Types, DialFails, SendHeader, Drained, Reopen, Goto, setVars, fillVars,
                netVars, Holding
  <2> QED
    BY <2>1, <2>2
<1>3. Owners'
  BY <1>1 DEF Types, Owners, DialFails, SendHeader, Drained, PutStart, Reopen, Goto, Holding
<1>4. Readers'
  BY DEF Types, Readers, DialFails, SendHeader, Drained, PutStart, Reopen, Goto, netVars
<1> QED
  BY <1>1, <1>2, <1>3, <1>4

\* put's second half: the connection is closed when the set is shut, else it
\* is parked with a watcher and the overflow is on its way to be closed.
LEMMA ParkStep ==
  ASSUME IInv, NEW t \in Threads, Park(t)
  PROVE  IInv'
<1> USE DEF IInv
<1>0. /\ pc[t] \in Holding /\ pc[t] = "park" /\ mine[t] \in Conns /\ mine[t] \notin Parked
      /\ mine[t] \notin doomed
  BY DEF Park, Types, Owners, Holding
<1>1. CASE closed
  BY <1>0, <1>1, CloseMineStep
     DEF Park, CloseMine, setVars, fillVars, netVars
<1>2. CASE ~closed
  <2> DEFINE c == mine[t]
             all == Append(conns, c)
             over == IF Len(all) > IdleMax THEN Len(all) - IdleMax ELSE 0
             cut == {all[i] : i \in 1..over}
  <2>1. /\ conns' = SubSeq(all, over + 1, Len(all)) /\ doomed' = doomed \cup cut
        /\ filled' = filled \ {c} /\ watch' = [watch EXCEPT ![c] = "reading"]
        /\ alive' = [alive EXCEPT ![c] = "empty"] /\ UNCHANGED sock
    BY <1>2 DEF Park
  <2>2. Len(conns) \in Nat /\ Len(all) = Len(conns) + 1 /\ IdleMax \in Nat \ {0}
    BY <1>0, AppendProperties, LenProperties, IdleAssumption DEF SetOK
  <2>3. over \in 0..Len(conns) /\ Len(conns) + 1 - over <= IdleMax
    BY <2>2 DEF SetOK
  <2> HIDE DEF over
  <2>4. /\ conns' \in Seq(Conns) /\ Distinct(conns') /\ Len(conns') = Len(conns) + 1 - over
        /\ Parked' \cup cut = Parked \cup {c}
        /\ Parked' \cap cut = {}
        /\ c \notin cut
    <3>1. conns \in Seq(Conns) /\ Distinct(conns) /\ c \in Conns /\ c \notin Elems(conns)
      BY <1>0 DEF SetOK, Parked, Elems
    <3>2. Parked = Elems(conns) /\ Parked' = Elems(conns')
      BY DEF Parked, Elems
    <3> HIDE DEF c
    <3>3. LET t1 == SubSeq(all, over + 1, Len(all))
          IN  /\ t1 \in Seq(Conns) /\ Distinct(t1) /\ Len(t1) = Len(conns) + 1 - over
              /\ Elems(t1) \cup cut = Elems(conns) \cup {c}
              /\ Elems(t1) \cap cut = {}
              /\ c \notin cut
      BY <2>3, <3>1, PushAndCut
    <3> HIDE DEF cut, all
    <3> QED
      BY <2>1, <3>2, <3>3
  <2>5. SetOK'
    BY <1>2, <2>3, <2>4 DEF SetOK, Park
  <2>6. c \in Parked' /\ cut \subseteq Parked /\ Parked' \subseteq Parked \cup {c}
    BY <2>4
  <2>7. mine' = [mine EXCEPT ![t] = NoConn] /\ pc' = [pc EXCEPT ![t] = "idle"]
    BY DEF Park, Goto
  <2> HIDE DEF cut, c
  <2>8. Types'
    <3>1. doomed' \subseteq Conns /\ c \in Conns
      BY <1>0, <2>1, <2>6 DEF Types, Owners, c
    <3> QED
      BY <2>1, <2>7, <3>1 DEF Types, Park, netVars, Holding
  <2>9. Owners'
    <3>1. c \in Conns /\ c = mine[t] /\ c # NoConn
      BY <1>0, IdleAssumption DEF c
    <3> QED
      BY <1>0, <2>1, <2>4, <2>6, <2>7, <3>1, IdleAssumption DEF Types, Owners, Holding
  <2>10. Readers'
    <3>1. c \in Conns /\ c = mine[t]
      BY <1>0 DEF c
    <3> QED
      BY <1>0, <2>1, <2>7, <3>1, IdleAssumption
         DEF Types, Owners, Readers, Park, netVars, Holding
  <2> QED
    BY <2>5, <2>8, <2>9, <2>10
<1> QED
  BY <1>1, <1>2

\* closeAll, and the closing of what was taken off the set.
LEMMA CloseStep ==
  ASSUME IInv, CloseAll \/ \E c \in Conns : CloseDoomed(c)
  PROVE  IInv'
<1> USE DEF IInv
<1>1. CASE CloseAll
  <2>1. SetOK' /\ Parked' = {}
    BY <1>1, EmptySeq, IdleAssumption DEF CloseAll, SetOK, Parked, Distinct
  <2>2. Types'
    BY <1>1 DEF CloseAll, Types, Owners, fillVars, netVars
  <2>3. Owners'
    BY <1>1, <2>1 DEF CloseAll, Types, Owners
  <2>4. Readers'
    BY <1>1 DEF CloseAll, Readers, netVars
  <2> QED
    BY <2>1, <2>2, <2>3, <2>4
<1>2. ASSUME NEW c \in Conns, CloseDoomed(c) PROVE IInv'
  <2>1. SetOK' /\ Parked' = Parked
    BY <1>2, SameSet DEF CloseDoomed
  <2>2. Types'
    BY <1>2 DEF CloseDoomed, Types, setVars, fillVars, netVars
  <2>3. Owners'
    BY <1>2, <2>1 DEF CloseDoomed, Types, Owners
  <2>4. Readers'
    BY <1>2 DEF CloseDoomed, Types, Owners, Readers, netVars
  <2> QED
    BY <2>1, <2>2, <2>3, <2>4
<1> QED
  BY <1>1, <1>2

\* The watcher, and the other end.
LEMMA WatchStepInv ==
  ASSUME IInv, NEW c \in Conns, WatchStep(c) \/ ServerEnds(c)
  PROVE  IInv'
<1> USE DEF IInv
<1>1. CASE WatchAlive(c) \/ WatchDead(c) \/ ServerEnds(c)
  <2>1. SetOK' /\ Parked' = Parked
    BY <1>1, SameSet DEF WatchAlive, WatchDead, ServerEnds
  <2>2. Types'
    BY <1>1 DEF WatchAlive, WatchDead, ServerEnds, Types, setVars, fillVars, netVars
  <2>3. Owners'
    BY <1>1, <2>1 DEF WatchAlive, WatchDead, ServerEnds, Owners
  <2>4. Readers'
    BY <1>1 DEF WatchAlive, WatchDead, ServerEnds, Types, Owners, Readers, netVars, Holding
  <2> QED
    BY <2>1, <2>2, <2>3, <2>4
<1>2. CASE WatchRemove(c)
  <2>1. /\ conns' \in Seq(Conns) /\ Distinct(conns') /\ Len(conns') <= Len(conns)
        /\ Parked' = Parked \ {c}
    <3>1. conns \in Seq(Conns) /\ Distinct(conns) /\ conns' = Remove(conns, c)
      BY <1>2 DEF WatchRemove, SetOK
    <3>2. Parked = Elems(conns) /\ Parked' = Elems(conns')
      BY DEF Parked, Elems
    <3> QED
      BY <3>1, <3>2, RemoveOne
  <2>2. SetOK'
    <3>1. Len(conns) \in Nat /\ Len(conns') \in Nat
      BY <2>1 DEF SetOK
    <3>2. closed' => conns' = <<>>
      <4>1. closed' => conns = <<>>
        BY <1>2 DEF WatchRemove, SetOK
      <4> QED
        BY <1>2, <4>1, EmptySeq DEF WatchRemove, Remove
    <3> QED
      BY <2>1, <3>1, <3>2, IdleAssumption DEF SetOK
  <2>3. Types'
    BY <1>2 DEF WatchRemove, Types, fillVars, netVars
  <2>4. Owners'
    BY <1>2, <2>1 DEF WatchRemove, Types, Owners
  <2>5. Readers'
    BY <1>2 DEF WatchRemove, Types, Readers, netVars
  <2> QED
    BY <2>2, <2>3, <2>4, <2>5
<1> QED
  BY <1>1, <1>2 DEF WatchStep

\* The filler writes to what is parked, or ends.
LEMMA FillStep ==
  ASSUME IInv, FillWake \/ FillLeave
  PROVE  IInv'
<1> USE DEF IInv
<1>1. SetOK' /\ Parked' = Parked
  BY SameSet DEF FillWake, FillLeave
<1>2. Types'
  <2>1. CASE FillLeave
    BY <2>1 DEF FillLeave, Types, setVars, netVars
  <2>2. CASE FillWake
    <3>1. filling' = filling /\ loop' # "off" /\ loop # "off"
      BY <2>2 DEF FillWake, Types
    <3>2. /\ UNCHANGED <<closed, ended, past, sock, watch, alive, doomed, pc, mine>>
          /\ loop' \in {"off", "asleep", "leaving"} /\ filled' \subseteq Conns
      BY <2>2 DEF FillWake, Types, Owners, setVars, netVars
    <3> QED
      BY <3>1, <3>2 DEF Types
  <2> QED
    BY <2>1, <2>2
<1>3. Owners'
  BY <1>1 DEF FillWake, FillLeave, Owners
<1>4. Readers'
  BY DEF FillWake, FillLeave, Readers, netVars
<1> QED
  BY <1>1, <1>2, <1>3, <1>4

\* OwnedOnce holds in every reachable state: a connection is parked once, or in
\* one thread's hands, or about to be closed; a stream never shares its reads
\* with the watcher; the set keeps to idleMax and is empty once shut (take,
\* watch, reclaim, put, closeAll).
THEOREM OwnershipHolds == Spec => []OwnedOnce
<1>1. Init => IInv
  BY Initially
<1>2. IInv /\ [Next]_vars => IInv'
  <2> SUFFICES ASSUME IInv, [Next]_vars PROVE IInv'
    OBVIOUS
  <2>1. ASSUME NEW t \in Threads, ThreadStep(t) PROVE IInv'
    <3>1. CASE ReclaimDead(t)
      BY <3>1, CloseMineStep DEF ReclaimDead, Holding
    <3>2. CASE HeaderFails(t)
      BY <3>2, CloseMineStep DEF HeaderFails, Holding
    <3>3. CASE Discard(t)
      BY <3>3, CloseMineStep DEF Discard, Holding
    <3> QED
      BY <2>1, <3>1, <3>2, <3>3, TakeStep, DialStep, ReclaimStep, MoveOnStep, ParkStep
         DEF ThreadStep
  <2>2. CASE UNCHANGED vars
    <3>1. SetOK' /\ Parked' = Parked
      BY <2>2, SameSet DEF vars, IInv
    <3>2. Types'
      BY <2>2 DEF vars, setVars, fillVars, netVars, IInv, Types
    <3>3. Owners'
      BY <2>2, <3>1 DEF vars, IInv, Owners
    <3>4. Readers'
      BY <2>2 DEF vars, netVars, IInv, Readers
    <3> QED
      BY <3>1, <3>2, <3>3, <3>4 DEF IInv
  <2> QED
    BY <2>1, <2>2, WatchStepInv, CloseStep, FillStep DEF Next
<1> QED
  BY <1>1, <1>2, Implies, PTL DEF Spec
=============================================================================
