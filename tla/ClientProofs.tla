---------------------------- MODULE ClientProofs ----------------------------
(***************************************************************************)
(* Theorems about parts of the client, for any number of threads, names,   *)
(* bridges and calls: a flow goes to a bridge that was listed while it was *)
(* looked for (ResolvesToListed); callers of the resolver share their      *)
(* queries and get answers for their names (LookupsAreShared); and the     *)
(* mobile library has one session at a time (OneSession).                  *)
(***************************************************************************)
EXTENDS Naturals, Sequences, FiniteSets, FiniteSetTheorems, FunctionTheorems, SequenceTheorems, TLAPS

-----------------------------------------------------------------------------
(* The list of bridges.                                                    *)

CONSTANTS IDs, Walkers, MaxEntries, MaxRemoves
VARIABLES entry, up, array, len, connecting, move, again, held, removed, walk, made

Bridges == INSTANCE MultiRouter

BridgeRec == [id : IDs, matches : BOOLEAN, tunnel : BOOLEAN]
WalkRec == [at : Nat, n : 0..MaxEntries, result : Nat, may : SUBSET Nat]

ListType ==
  /\ made \in 0..MaxEntries /\ len \in 0..made /\ held \in BOOLEAN
  /\ entry \in Seq(BridgeRec) /\ Len(entry) = made
  /\ array \in [1..MaxEntries -> 0..MaxEntries] /\ \A i \in 1..len : array[i] \in 1..made
  /\ walk \in [Walkers -> WalkRec]

\* No identifier is listed twice, but for the place a removal is at, which
\* may still have what the place before it has got.  What is to be listed in
\* its stead has an identifier no other place has.
ListedOnce ==
  /\ \A i, j \in 1..len : i # move /\ j # move /\ entry[array[i]].id = entry[array[j]].id => i = j
  /\ held => move \in 1..len
  /\ ~held => move = 0 /\ again = <<>>
  /\ again # <<>> => /\ again \in Seq(BridgeRec) /\ Len(again) = 1 /\ made + 1 <= MaxEntries
                     /\ \A i \in 1..len : i # move => entry[array[i]].id # again[1].id

\* Whatever a walk may still read was listed since it began: the places of
\* the list now and those of the list it took.
WalkInv ==
  \A w \in Walkers :
    /\ walk[w].at = 0 => walk[w].result = 0
    /\ walk[w].at > 0 =>
         /\ \A i \in 1..MaxEntries : i <= len \/ i <= walk[w].n => array[i] \in walk[w].may
         /\ walk[w].result # 0 => walk[w].result \in walk[w].may

ListInv == ListType /\ ListedOnce /\ WalkInv

RouterBounds == MaxEntries \in Nat

\* An entry is appended to the list of all.
LEMMA EntryAdded ==
  ASSUME ListType, NEW r \in BridgeRec
  PROVE  /\ Append(entry, r) \in Seq(BridgeRec) /\ Len(Append(entry, r)) = made + 1
         /\ \A e \in 1..made : Append(entry, r)[e] = entry[e]
         /\ Append(entry, r)[made + 1] = r
BY DEF ListType

\* Sees adds to what the walks under way may name.
LEMMA SeesMore ==
  ASSUME ListType, NEW e \in Nat, walk' = Bridges!Sees(e)
  PROVE  /\ walk' \in [Walkers -> WalkRec]
         /\ \A w \in Walkers :
              /\ walk'[w].at = walk[w].at /\ walk'[w].n = walk[w].n /\ walk'[w].result = walk[w].result
              /\ walk[w].at > 0 => walk'[w].may = walk[w].may \cup {e}
              /\ ~(walk[w].at > 0) => walk'[w].may = walk[w].may
<1>1. \A w \in Walkers : walk[w] \in WalkRec
  BY DEF ListType
<1>2. \A w \in Walkers : [walk[w] EXCEPT !.may = @ \cup {e}] \in WalkRec
  BY <1>1 DEF WalkRec
<1> QED
  BY <1>1, <1>2 DEF Bridges!Sees, WalkRec

\* A new entry comes to the end of the list, after the last place or in it.
LEMMA NewListed ==
  ASSUME RouterBounds, ListInv, NEW r \in BridgeRec, NEW p \in 1..MaxEntries, made < MaxEntries,
         entry' \in Seq(BridgeRec) /\ Len(entry') = made + 1,
         (\A e \in 1..made : entry'[e] = entry[e]) /\ entry'[made + 1] = r,
         array' = [array EXCEPT ![p] = made + 1], walk' = Bridges!Sees(made + 1),
         made' = made + 1, len' = p, p = len \/ p = len + 1, held' = FALSE, move' = 0, again' = <<>>,
         \A i \in 1..(p - 1) : i # move /\ entry[array[i]].id # r.id
  PROVE  ListInv'
<1>1. /\ made \in 0..MaxEntries /\ len \in 0..made /\ made + 1 \in Nat /\ made + 1 \in 0..MaxEntries
      /\ p \in 0..(made + 1) /\ MaxEntries \in Nat
  BY DEF ListInv, ListType, RouterBounds
<1>2. /\ array' \in [1..MaxEntries -> 0..MaxEntries] /\ array'[p] = made + 1
      /\ \A i \in 1..MaxEntries : i # p => array'[i] = array[i]
  BY <1>1 DEF ListInv, ListType
<1>3. /\ walk' \in [Walkers -> WalkRec]
      /\ \A w \in Walkers :
           /\ walk'[w].at = walk[w].at /\ walk'[w].n = walk[w].n /\ walk'[w].result = walk[w].result
           /\ walk[w].at > 0 => walk'[w].may = walk[w].may \cup {made + 1}
           /\ ~(walk[w].at > 0) => walk'[w].may = walk[w].may
  BY <1>1, SeesMore DEF ListInv
<1>4. ASSUME NEW i \in 1..(p - 1)
      PROVE  /\ i \in 1..len /\ i \in 1..MaxEntries /\ array'[i] = array[i] /\ array[i] \in 1..made
             /\ entry'[array'[i]].id = entry[array[i]].id
  <2>1. i \in 1..len /\ i \in 1..MaxEntries /\ i # p
    BY <1>1
  <2>2. array'[i] = array[i] /\ array[i] \in 1..made
    BY <1>2, <2>1 DEF ListInv, ListType
  <2> QED
    BY <2>1, <2>2
<1>5. \A i \in 1..p : i = p \/ i \in 1..(p - 1)
  BY <1>1
<1>6. ListType'
  <2>1. \A i \in 1..p : array'[i] \in 1..(made + 1)
    BY <1>1, <1>2, <1>4, <1>5
  <2> QED
    BY <1>1, <1>2, <1>3, <2>1 DEF ListType, WalkRec
<1>7. ListedOnce'
  <2>1. entry'[array'[p]].id = r.id /\ \A i \in 1..(p - 1) : entry'[array'[i]].id # r.id
    BY <1>2, <1>4
  <2>2. ASSUME NEW i \in 1..p, NEW j \in 1..p, entry'[array'[i]].id = entry'[array'[j]].id
        PROVE  i = j
    <3>1. CASE i \in 1..(p - 1) /\ j \in 1..(p - 1)
      BY <1>4, <2>2, <3>1 DEF ListInv, ListedOnce
    <3>2. CASE i = p \/ j = p
      BY <1>5, <2>1, <2>2, <3>2
    <3> QED
      BY <1>5, <3>1, <3>2
  <2> QED
    BY <2>2 DEF ListedOnce
<1>8. WalkInv'
  <2> SUFFICES ASSUME NEW w \in Walkers
               PROVE  /\ walk'[w].at = 0 => walk'[w].result = 0
                      /\ walk'[w].at > 0 =>
                           /\ \A i \in 1..MaxEntries :
                                i <= p \/ i <= walk'[w].n => array'[i] \in walk'[w].may
                           /\ walk'[w].result # 0 => walk'[w].result \in walk'[w].may
    BY DEF WalkInv
  <2>1. ASSUME walk[w].at > 0, NEW i \in 1..MaxEntries, i <= p \/ i <= walk[w].n
        PROVE  array'[i] \in walk'[w].may
    <3>1. CASE i = p
      BY <1>2, <1>3, <2>1, <3>1
    <3>2. CASE i # p
      <4>1. i <= len \/ i <= walk[w].n
        BY <1>1, <2>1, <3>2
      <4>2. array[i] \in walk[w].may
        BY <2>1, <4>1 DEF ListInv, WalkInv
      <4> QED
        BY <1>2, <1>3, <2>1, <3>2, <4>2
    <3> QED
      BY <3>1, <3>2
  <2>2. walk[w].at > 0 /\ walk[w].result # 0 => walk[w].result \in walk'[w].may
    BY <1>3 DEF ListInv, WalkInv
  <2> QED
    BY <1>3, <2>1, <2>2 DEF ListInv, WalkInv
<1> QED
  BY <1>6, <1>7, <1>8 DEF ListInv

\* AddBridge of a new identifier, after the last place.
LEMMA AddKeeps ==
  ASSUME RouterBounds, ListInv, NEW id \in IDs, NEW b \in BOOLEAN, Bridges!Index(id) = {},
         Bridges!AddBridge(id, b)
  PROVE  ListInv'
<1> DEFINE r == [id |-> id, matches |-> b, tunnel |-> FALSE]
<1>1. r \in BridgeRec /\ r.id = id
  BY DEF BridgeRec
<1>2. /\ ~held /\ made < MaxEntries /\ made' = made + 1 /\ entry' = Append(entry, r)
      /\ array' = [array EXCEPT ![len + 1] = made + 1] /\ len' = len + 1 /\ walk' = Bridges!Sees(made + 1)
      /\ held' = held /\ move' = move /\ again' = again
  BY DEF Bridges!AddBridge
<1> HIDE DEF r
<1>3. /\ entry' \in Seq(BridgeRec) /\ Len(entry') = made + 1
      /\ \A e \in 1..made : entry'[e] = entry[e]
      /\ entry'[made + 1] = r
  BY <1>1, <1>2, EntryAdded DEF ListInv
<1> DEFINE p == len + 1
<1>4. /\ p \in 1..MaxEntries /\ p = len + 1 /\ len' = p /\ array' = [array EXCEPT ![p] = made + 1]
      /\ held' = FALSE /\ move' = 0 /\ again' = <<>>
  BY <1>2 DEF ListInv, ListType, ListedOnce, RouterBounds
<1>5. \A i \in 1..(p - 1) : i # move /\ entry[array[i]].id # r.id
  BY <1>1, <1>2 DEF ListInv, ListType, ListedOnce, Bridges!Index
<1> HIDE DEF p
<1> QED
  BY <1>1, <1>2, <1>3, <1>4, <1>5, NewListed

\* RemoveEnds: the list is one shorter, or has the new entry in its last place.
LEMMA EndKeeps ==
  ASSUME RouterBounds, ListInv, Bridges!RemoveEnds
  PROVE  ListInv'
<1>1. held /\ move = len /\ held' = FALSE /\ move' = 0 /\ again' = <<>> /\ len \in 1..len
  BY DEF Bridges!RemoveEnds, ListInv, ListedOnce
<1>2. CASE again = <<>>
  <2>1. len' = len - 1 /\ UNCHANGED <<array, entry, walk, made>>
    BY <1>2 DEF Bridges!RemoveEnds
  <2>2. len' \in 0..made /\ \A i \in 1..len' : i \in 1..len /\ i # move
    BY <1>1, <2>1 DEF ListInv, ListType
  <2>3. ListType'
    BY <1>1, <2>1, <2>2 DEF ListInv, ListType
  <2>4. ListedOnce'
    BY <1>1, <2>1, <2>2 DEF ListInv, ListedOnce
  <2>5. WalkInv'
    <3>1. \A i \in 1..MaxEntries : i <= len' => i <= len
      BY <2>1 DEF ListInv, ListType, RouterBounds
    <3> QED
      BY <2>1, <3>1 DEF ListInv, WalkInv
  <2> QED
    BY <2>3, <2>4, <2>5 DEF ListInv
<1>3. CASE again # <<>>
  <2>1. /\ array' = [array EXCEPT ![len] = made + 1] /\ made' = made + 1 /\ entry' = entry \o again
        /\ walk' = Bridges!Sees(made + 1) /\ len' = len
    BY <1>3 DEF Bridges!RemoveEnds
  <2>2. /\ again \in Seq(BridgeRec) /\ Len(again) = 1 /\ made < MaxEntries
        /\ \A i \in 1..len : i # move => entry[array[i]].id # again[1].id
    BY <1>3 DEF ListInv, ListType, ListedOnce, RouterBounds
  <2>3. again[1] \in BridgeRec
    BY <2>2
  <2>4. /\ entry' \in Seq(BridgeRec) /\ Len(entry') = made + 1
        /\ \A e \in 1..made : entry'[e] = entry[e]
        /\ entry'[made + 1] = again[1]
    <3>1. entry \in Seq(BridgeRec) /\ Len(entry) = made /\ made \in Nat
      BY DEF ListInv, ListType
    <3>2. /\ entry' \in Seq(BridgeRec) /\ Len(entry') = Len(entry) + Len(again)
          /\ \A e \in 1..(Len(entry) + Len(again)) :
               entry'[e] = IF e <= Len(entry) THEN entry[e] ELSE again[e - Len(entry)]
      BY <2>1, <2>2, <3>1, ConcatProperties
    <3>3. made + 1 - made = 1 /\ made + 1 \in 1..(made + 1) /\ ~(made + 1 <= made)
          /\ \A e \in 1..made : e \in 1..(made + 1) /\ e <= made
      BY <3>1
    <3> QED
      BY <2>2, <3>1, <3>2, <3>3
  <2>5. len \in 1..MaxEntries /\ \A i \in 1..(len - 1) : i \in 1..len /\ i # move
    BY <1>1 DEF ListInv, ListType, RouterBounds
  <2>6. \A i \in 1..(len - 1) : i # move /\ entry[array[i]].id # again[1].id
    BY <2>2, <2>5
  <2> QED
    BY <1>1, <2>1, <2>2, <2>3, <2>4, <2>5, <2>6, NewListed
<1> QED
  BY <1>2, <1>3

\* RemoveBegins: the lock is taken and nothing has moved yet.
LEMMA BeginKeeps ==
  ASSUME RouterBounds, ListInv, NEW id \in IDs, NEW new \in Seq(BridgeRec),
         new = <<>> \/ (Len(new) = 1 /\ new[1].id = id), Bridges!RemoveBegins(id, new)
  PROVE  ListInv'
<1>1. /\ ~held /\ held' = TRUE /\ again' = new /\ made + Len(new) <= MaxEntries
      /\ move' \in Bridges!Index(id) /\ UNCHANGED <<entry, array, len, walk, made>>
  BY DEF Bridges!RemoveBegins
<1>2. move = 0 /\ again = <<>> /\ move' \in 1..len /\ entry[array[move']].id = id
  BY <1>1 DEF ListInv, ListedOnce, Bridges!Index
<1>3. \A i, j \in 1..len : entry[array[i]].id = entry[array[j]].id => i = j
  BY <1>2 DEF ListInv, ListType, ListedOnce
<1>4. ListType' /\ WalkInv'
  BY <1>1 DEF ListInv, ListType, WalkInv
<1>5. ListedOnce'
  <2>1. new # <<>> => /\ new \in Seq(BridgeRec) /\ Len(new) = 1 /\ made + 1 <= MaxEntries
                      /\ \A i \in 1..len : i # move' => entry[array[i]].id # new[1].id
    BY <1>1, <1>2, <1>3
  <2> QED
    BY <1>1, <1>2, <1>3, <2>1 DEF ListedOnce
<1> QED
  BY <1>4, <1>5 DEF ListInv

\* MoveOne: the next entry moves down, and the hole up.
LEMMA MoveKeeps ==
  ASSUME RouterBounds, ListInv, Bridges!MoveOne
  PROVE  ListInv'
<1>1. /\ held /\ move < len /\ array' = [array EXCEPT ![move] = array[move + 1]] /\ move' = move + 1
      /\ UNCHANGED <<entry, len, again, held, walk, made>>
  BY DEF Bridges!MoveOne
<1>2. /\ move \in 1..len /\ move + 1 \in 1..len /\ move \in 1..MaxEntries /\ move + 1 \in 1..MaxEntries
      /\ \A i \in 1..len : i \in 1..MaxEntries
  BY <1>1 DEF ListInv, ListType, ListedOnce, RouterBounds
<1>3. /\ array' \in [1..MaxEntries -> 0..MaxEntries] /\ array'[move] = array[move + 1]
      /\ \A i \in 1..MaxEntries : i # move => array'[i] = array[i]
  BY <1>1, <1>2 DEF ListInv, ListType
<1>4. ListType'
  <2>1. \A i \in 1..len : array'[i] \in 1..made
    BY <1>2, <1>3 DEF ListInv, ListType
  <2> QED
    BY <1>1, <1>3, <2>1 DEF ListInv, ListType
<1>5. ListedOnce'
  <2> DEFINE was(i) == IF i = move THEN move + 1 ELSE i
  <2>1. \A i \in 1..len : i # move + 1 => was(i) \in 1..len /\ was(i) # move /\ array'[i] = array[was(i)]
    BY <1>2, <1>3
  <2>2. \A i, j \in 1..len : i # move + 1 /\ j # move + 1 /\ was(i) = was(j) => i = j
    OBVIOUS
  <2> HIDE DEF was
  <2>3. \A i, j \in 1..len : i # move + 1 /\ j # move + 1 /\ entry[array'[i]].id = entry[array'[j]].id => i = j
    BY <2>1, <2>2 DEF ListInv, ListedOnce
  <2>4. again # <<>> => \A i \in 1..len : i # move + 1 => entry[array'[i]].id # again[1].id
    BY <2>1 DEF ListInv, ListedOnce
  <2> QED
    BY <1>1, <1>2, <2>3, <2>4 DEF ListInv, ListedOnce
<1>6. WalkInv'
  <2>1. ASSUME NEW w \in Walkers, walk[w].at > 0, NEW i \in 1..MaxEntries, i <= len \/ i <= walk[w].n
        PROVE  array'[i] \in walk[w].may
    <3>1. move + 1 <= len
      BY <1>2
    <3> QED
      BY <1>2, <1>3, <2>1, <3>1 DEF ListInv, WalkInv
  <2> QED
    BY <1>1, <2>1 DEF ListInv, WalkInv
<1> QED
  BY <1>4, <1>5, <1>6 DEF ListInv

\* Rewrite and AttachBridgeTunnel change an entry, not its identifier.
LEMMA EntryKeeps ==
  ASSUME RouterBounds, ListInv, entry' \in Seq(BridgeRec), Len(entry') = made,
         \A e \in 1..made : entry'[e].id = entry[e].id,
         UNCHANGED <<array, len, move, again, held, walk, made>>
  PROVE  ListInv'
<1>1. ListType' /\ WalkInv'
  BY DEF ListInv, ListType, WalkInv
<1>2. \A i \in 1..len : entry'[array[i]].id = entry[array[i]].id
  BY DEF ListInv, ListType
<1>3. ListedOnce'
  BY <1>2 DEF ListInv, ListedOnce
<1> QED
  BY <1>1, <1>3 DEF ListInv

\* An entry of the list with another field is still an entry.
LEMMA FieldSet ==
  ASSUME ListType, NEW e \in 1..made, NEW b \in BOOLEAN,
         entry' = [entry EXCEPT ![e].matches = b] \/ entry' = [entry EXCEPT ![e].tunnel = b]
  PROVE  /\ entry' \in Seq(BridgeRec) /\ Len(entry') = made
         /\ \A d \in 1..made : entry'[d].id = entry[d].id
<1>1. entry \in [1..made -> BridgeRec] /\ made \in Nat
  BY DEF ListType
<1>2. /\ DOMAIN entry' = 1..made /\ \A d \in 1..made : d # e => entry'[d] = entry[d]
      /\ entry'[e] = [entry[e] EXCEPT !.matches = b] \/ entry'[e] = [entry[e] EXCEPT !.tunnel = b]
  BY <1>1
<1>3. entry[e] \in BridgeRec
  BY <1>1
<1>4. entry'[e] \in BridgeRec /\ entry'[e].id = entry[e].id
  BY <1>2, <1>3 DEF BridgeRec
<1>5. \A d \in 1..made : entry'[d] \in BridgeRec
  BY <1>1, <1>2, <1>4
<1>6. entry' = [d \in 1..made |-> entry'[d]]
  BY <1>1
<1>7. entry' \in [1..made -> BridgeRec]
  BY <1>5, <1>6
<1> HIDE DEF BridgeRec
<1> QED
  BY <1>1, <1>2, <1>4, <1>7

\* What becomes of one walk, the others going on.
WalkIs(w, v) ==
  /\ walk' \in [Walkers -> WalkRec] /\ walk'[w] = v
  /\ \A x \in Walkers : x # w => walk'[x] = walk[x]

\* A walk that is assigned is the only one that changes.
LEMMA WalkSet ==
  ASSUME ListType, NEW w \in Walkers, NEW v \in WalkRec, walk' = [walk EXCEPT ![w] = v]
  PROVE  WalkIs(w, v)
<1> HIDE DEF WalkRec
<1> QED
  BY DEF ListType, WalkIs

\* resolve: the slice is taken, an entry is looked at, the flow is opened.
LEMMA WalkKeeps ==
  ASSUME RouterBounds, ListInv, NEW w \in Walkers,
         Bridges!Resolve(w) \/ Bridges!Look(w) \/ Bridges!Opened(w)
  PROVE  ListInv'
<1>1. UNCHANGED <<entry, array, len, move, again, held, made>>
  BY DEF Bridges!Resolve, Bridges!Look, Bridges!Opened
<1>2. walk \in [Walkers -> WalkRec] /\ walk[w] \in WalkRec /\ MaxEntries \in Nat /\ len \in 0..MaxEntries
  BY DEF ListInv, ListType, RouterBounds
<1>3. ListedOnce'
  BY <1>1 DEF ListInv, ListedOnce
<1>4. ASSUME NEW v \in WalkRec, WalkIs(w, v), v.at = 0 => v.result = 0,
             v.at > 0 => /\ \A i \in 1..MaxEntries : i <= len \/ i <= v.n => array[i] \in v.may
                         /\ v.result # 0 => v.result \in v.may
      PROVE  ListInv'
  <2>1. /\ walk' \in [Walkers -> WalkRec] /\ walk'[w] = v
        /\ \A x \in Walkers : x # w => walk'[x] = walk[x]
    BY <1>4 DEF WalkIs
  <2>2. ListType'
    BY <1>1, <2>1 DEF ListInv, ListType
  <2>3. WalkInv'
    BY <1>1, <1>4, <2>1 DEF ListInv, WalkInv
  <2> QED
    BY <1>3, <2>2, <2>3 DEF ListInv
<1>5. CASE Bridges!Resolve(w)
  <2> DEFINE v == [at |-> 1, n |-> len, result |-> 0, may |-> Bridges!Listed]
  <2>1. walk' = [walk EXCEPT ![w] = v]
    BY <1>5 DEF Bridges!Resolve, Bridges!PrimaryTunnel
  <2>2. Bridges!Listed \in SUBSET Nat
    BY DEF Bridges!Listed, ListInv, ListType
  <2>3. v \in WalkRec /\ v.at = 1 /\ v.n = len /\ v.result = 0 /\ v.may = Bridges!Listed
    BY <1>2, <2>2 DEF WalkRec
  <2>4. \A i \in 1..MaxEntries : i <= len => array[i] \in Bridges!Listed
    BY <1>2 DEF Bridges!Listed
  <2> HIDE DEF v
  <2>5. WalkIs(w, v)
    BY <2>1, <2>3, WalkSet DEF ListInv
  <2> QED
    BY <1>4, <2>3, <2>4, <2>5
<1>6. CASE Bridges!Look(w)
  <2> DEFINE e == array[walk[w].at]
             found == entry[e].tunnel /\ e \in up /\ entry[e].matches
             a == [walk[w] EXCEPT !.result = e]
             b == [walk[w] EXCEPT !.at = walk[w].at + 1]
  <2>1. /\ walk[w].at > 0 /\ walk[w].at <= walk[w].n /\ walk[w].result = 0
        /\ walk' = [walk EXCEPT ![w] = IF found THEN a ELSE b]
    <3>1. walk' = [walk EXCEPT ![w] = IF found THEN a ELSE b]
      BY <1>6 DEF Bridges!Look
    <3> QED
      BY <1>6, <3>1 DEF Bridges!Look, Bridges!PrimaryTunnel
  <2> HIDE DEF found
  <2>2. /\ walk[w].at \in Nat /\ walk[w].n \in 0..MaxEntries /\ walk[w].at \in 1..MaxEntries
        /\ walk[w].may \in SUBSET Nat /\ walk[w].result \in Nat
    BY <1>2, <2>1 DEF WalkRec
  <2>3. /\ e \in walk[w].may /\ e \in Nat
        /\ \A i \in 1..MaxEntries : i <= len \/ i <= walk[w].n => array[i] \in walk[w].may
    BY <2>1, <2>2 DEF ListInv, WalkInv, ListType
  <2> HIDE DEF e
  <2>4. a \in WalkRec /\ a.at = walk[w].at /\ a.n = walk[w].n /\ a.result = e /\ a.may = walk[w].may
    BY <1>2, <2>3 DEF WalkRec
  <2>5. /\ b \in WalkRec /\ b.at = walk[w].at + 1 /\ b.n = walk[w].n /\ b.result = 0
        /\ b.may = walk[w].may /\ b.at # 0
    BY <1>2, <2>1, <2>2 DEF WalkRec
  <2> HIDE DEF a, b
  <2>6. CASE found
    <3>1. WalkIs(w, a)
      BY <2>1, <2>4, <2>6, WalkSet DEF ListInv
    <3>2. a.at # 0
      BY <2>1, <2>4
    <3> QED
      BY <1>4, <2>3, <2>4, <3>1, <3>2
  <2>7. CASE ~found
    <3>1. WalkIs(w, b)
      BY <2>1, <2>5, <2>7, WalkSet DEF ListInv
    <3> QED
      BY <1>4, <2>3, <2>5, <3>1
  <2> QED
    BY <2>6, <2>7
<1>7. CASE Bridges!Opened(w)
  <2>1. walk' = [walk EXCEPT ![w] = Bridges!NoWalk]
    BY <1>7 DEF Bridges!Opened
  <2>2. Bridges!NoWalk \in WalkRec /\ Bridges!NoWalk.at = 0 /\ Bridges!NoWalk.result = 0
    BY <1>2 DEF Bridges!NoWalk, Bridges!PrimaryTunnel, WalkRec
  <2> DEFINE v == Bridges!NoWalk
  <2> HIDE DEF v
  <2>3. WalkIs(w, v)
    BY <2>1, <2>2, WalkSet DEF ListInv, v
  <2>4. v \in WalkRec /\ v.at = 0 /\ v.result = 0 /\ ~(v.at > 0)
    BY <2>2 DEF v
  <2> QED
    BY <1>4, <2>3, <2>4
<1> QED
  BY <1>5, <1>6, <1>7

\* multirouter.go: however AddBridge and RemoveBridge move the entries under
\* the walks, an identifier is listed once whenever the lock is free, and a
\* resolve answers with the primary tunnel or with a bridge that was listed
\* while it ran, for any number of identifiers, entries and walks.
THEOREM BridgesHold ==
  ASSUME RouterBounds
  PROVE  Bridges!Spec => []Bridges!ResolvesToListed
<1>1. Bridges!Init => ListInv
  <2> SUFFICES ASSUME Bridges!Init PROVE ListInv
    OBVIOUS
  <2>1. Bridges!NoWalk \in WalkRec /\ Bridges!NoWalk.at = 0 /\ Bridges!NoWalk.result = 0
    BY DEF Bridges!NoWalk, Bridges!PrimaryTunnel, WalkRec, RouterBounds
  <2>2. /\ made = 0 /\ len = 0 /\ held = FALSE /\ move = 0 /\ again = <<>> /\ entry = <<>>
        /\ array \in [1..MaxEntries -> 0..MaxEntries] /\ 0 \in 0..MaxEntries /\ 1..0 = {}
    BY DEF Bridges!Init, RouterBounds
  <2>3. walk \in [Walkers -> WalkRec] /\ \A w \in Walkers : walk[w] = Bridges!NoWalk
    BY <2>1 DEF Bridges!Init
  <2>4. ListType
    <3>1. entry \in Seq(BridgeRec) /\ Len(entry) = 0
      BY <2>2
    <3>2. \A i \in 1..len : array[i] \in 1..made
      BY <2>2
    <3>3. made \in 0..MaxEntries /\ len \in 0..made
      BY <2>2
    <3>4. held \in BOOLEAN
      BY <2>2
    <3> QED
      BY <2>2, <2>3, <3>1, <3>2, <3>3, <3>4 DEF ListType
  <2>5. ListedOnce
    BY <2>2 DEF ListedOnce
  <2>6. WalkInv
    BY <2>1, <2>3 DEF WalkInv
  <2> QED
    BY <2>4, <2>5, <2>6 DEF ListInv
<1>2. ListInv /\ [Bridges!Next]_Bridges!mrVars => ListInv'
  <2> SUFFICES ASSUME ListInv, [Bridges!Next]_Bridges!mrVars PROVE ListInv'
    OBVIOUS
  <2>1. (UNCHANGED <<entry, array, len, move, again, held, walk, made>>) => ListInv'
    BY DEF ListInv, ListType, ListedOnce, WalkInv
  <2>2. ASSUME NEW id \in IDs PROVE \A i \in Bridges!Index(id) : array[i] \in 1..made
    BY DEF Bridges!Index, ListInv, ListType
  <2>3. ASSUME NEW id \in IDs, NEW b \in BOOLEAN, Bridges!MultiBridges(id, b) PROVE ListInv'
    <3>1. CASE Bridges!Index(id) = {}
      BY <2>3, <3>1, AddKeeps DEF Bridges!MultiBridges
    <3>2. CASE Bridges!Index(id) # {}
      <4> DEFINE r == [id |-> id, matches |-> b, tunnel |-> FALSE]
      <4>1. r \in BridgeRec /\ r.id = id
        BY DEF BridgeRec
      <4>2. Bridges!RemoveBegins(id, <<r>>)
        BY <2>3, <3>2 DEF Bridges!MultiBridges
      <4> HIDE DEF r
      <4>3. <<r>> \in Seq(BridgeRec) /\ Len(<<r>>) = 1 /\ <<r>>[1] = r
        BY <4>1
      <4> QED
        BY <4>1, <4>2, <4>3, BeginKeeps
    <3> QED
      BY <3>1, <3>2
  <2>4. ASSUME NEW id \in IDs, Bridges!MultiBridgeByID(id) PROVE ListInv'
    <3>1. <<>> \in Seq(BridgeRec)
      OBVIOUS
    <3> QED
      BY <2>4, <3>1, BeginKeeps DEF Bridges!MultiBridgeByID
  <2>5. ASSUME NEW id \in IDs, NEW b \in BOOLEAN, Bridges!Rewrite(id, b) PROVE ListInv'
    <3>1. PICK i \in Bridges!Index(id) : entry' = [entry EXCEPT ![array[i]].matches = b]
      BY <2>5 DEF Bridges!Rewrite
    <3>2. array[i] \in 1..made
      BY <2>2
    <3>3. entry' \in Seq(BridgeRec) /\ Len(entry') = made /\ \A d \in 1..made : entry'[d].id = entry[d].id
      BY <3>1, <3>2, FieldSet DEF ListInv
    <3> QED
      BY <2>5, <3>3, EntryKeeps DEF Bridges!Rewrite
  <2>6. ASSUME NEW id \in IDs, NEW b \in BOOLEAN, Bridges!ConnectBridge(id, b) PROVE ListInv'
    <3>1. UNCHANGED <<array, len, move, again, held, walk, made>>
      BY <2>6 DEF Bridges!ConnectBridge
    <3>2. CASE entry' = entry
      BY <2>1, <3>1, <3>2
    <3>3. CASE \E i \in Bridges!Index(id) : entry' = [entry EXCEPT ![array[i]].tunnel = TRUE]
      <4>1. PICK i \in Bridges!Index(id) : entry' = [entry EXCEPT ![array[i]].tunnel = TRUE]
        BY <3>3
      <4>2. array[i] \in 1..made
        BY <2>2
      <4>3. entry' \in Seq(BridgeRec) /\ Len(entry') = made /\ \A d \in 1..made : entry'[d].id = entry[d].id
        BY <4>1, <4>2, FieldSet DEF ListInv
      <4> QED
        BY <3>1, <4>3, EntryKeeps
    <3> QED
      BY <2>6, <3>2, <3>3 DEF Bridges!ConnectBridge, Bridges!AttachBridgeTunnel
  <2>7. ASSUME NEW e \in 1..MaxEntries, Bridges!TunnelFlaps(e) PROVE ListInv'
    BY <2>1, <2>7 DEF Bridges!TunnelFlaps
  <2>8. CASE UNCHANGED Bridges!mrVars
    BY <2>1, <2>8 DEF Bridges!mrVars
  <2>9. CASE Bridges!Next
    BY <2>3, <2>4, <2>5, <2>6, <2>7, <2>9, MoveKeeps, EndKeeps, WalkKeeps DEF Bridges!Next
  <2> QED
    BY <2>8, <2>9
<1>3. ListInv => Bridges!ResolvesToListed
  <2> SUFFICES ASSUME ListInv PROVE Bridges!ResolvesToListed
    OBVIOUS
  <2>1. \A w \in Walkers : walk[w].result # Bridges!PrimaryTunnel => walk[w].result \in walk[w].may
    <3>1. \A w \in Walkers : walk[w].at = 0 \/ walk[w].at > 0
      BY DEF ListInv, ListType, WalkRec
    <3> QED
      BY <3>1 DEF ListInv, WalkInv, Bridges!PrimaryTunnel
  <2>2. ASSUME ~held
        PROVE  /\ Bridges!Cardinality(Bridges!Listed) = len
               /\ \A id \in IDs : Bridges!Cardinality(Bridges!Index(id)) <= 1
    <3>1. move = 0 /\ len \in Nat
      BY <2>2 DEF ListInv, ListType, ListedOnce
    <3>2. \A i, j \in 1..len : entry[array[i]].id = entry[array[j]].id => i = j
      BY <3>1 DEF ListInv, ListedOnce
    <3>3. Bridges!Cardinality(Bridges!Listed) = Cardinality(Bridges!Listed)
      BY DEF Bridges!Cardinality, Cardinality
    <3>4. Cardinality(Bridges!Listed) = len
      <4> DEFINE f == [i \in 1..len |-> array[i]]
      <4>1. f \in Bijection(1..len, Bridges!Listed)
        <5>1. f \in [1..len -> Bridges!Listed]
          BY DEF Bridges!Listed
        <5>2. \A i, j \in 1..len : f[i] = f[j] => i = j
          BY <3>2
        <5>3. \A e \in Bridges!Listed : \E i \in 1..len : f[i] = e
          BY DEF Bridges!Listed
        <5> HIDE DEF f
        <5> QED
          BY <5>1, <5>2, <5>3, Fun_IsBij
      <4> HIDE DEF f
      <4>2. IsFiniteSet(1..len) /\ Cardinality(1..len) = len
        BY <3>1, FS_Interval
      <4> QED
        BY <4>1, <4>2, FS_Bijection DEF ExistsBijection
    <3>5. ASSUME NEW id \in IDs PROVE Bridges!Cardinality(Bridges!Index(id)) <= 1
      <4> DEFINE S == Bridges!Index(id)
      <4>1. \A i, j \in S : i = j
        BY <3>2 DEF Bridges!Index
      <4>2. Bridges!Cardinality(S) = Cardinality(S)
        BY DEF Bridges!Cardinality, Cardinality
      <4> HIDE DEF S
      <4>3. CASE S = {}
        <5>1. Cardinality(S) = 0
          BY <4>3, FS_EmptySet
        <5> QED
          BY <4>2, <5>1 DEF S
      <4>4. ASSUME NEW i \in S PROVE Bridges!Cardinality(Bridges!Index(id)) <= 1
        <5>1. S = {i} /\ Cardinality({i}) = 1
          BY <4>1, FS_Singleton
        <5> QED
          BY <4>2, <5>1 DEF S
      <4> QED
        BY <4>3, <4>4
    <3> QED
      BY <3>3, <3>4, <3>5
  <2> QED
    BY <2>1, <2>2 DEF Bridges!ResolvesToListed
<1> QED
  BY <1>1, <1>2, <1>3, PTL DEF Bridges!Spec

-----------------------------------------------------------------------------
(* The resolver.                                                           *)

CONSTANTS Lookers, Names, Bypassed, Kinds, MaxLookups, MaxSwitches
VARIABLES cache, asking, upstream, switches, rpc, name, asked, leader, answer, done, givenUp, lookups

DNS == INSTANCE Resolver WITH
  Callers <- Lookers, MaxCalls <- MaxLookups, inflight <- asking, expired <- givenUp, calls <- lookups

\* Names that stand for nobody, nothing and no upstream are not used.
DnsNames == "none" \notin Lookers /\ "none" \notin Kinds /\ "failed" \notin Kinds

AskPlaces == {"ask", "query", "fallback", "store", "remove"}
LookPlaces == {"idle", "bypass", "look", "share", "wait", "close", "answered"} \cup AskPlaces

\* What may be kept for a name, and what a caller may be given for it.
Kept(n) == IF n \in Bypassed THEN {} ELSE [name : {n}, via : Kinds \cup {"doh"}]
Given(n) == {DNS!Failed} \cup (IF n \in Bypassed THEN {[name |-> n, via |-> "system"]} ELSE Kept(n))

LookType ==
  /\ upstream \in Kinds
  /\ rpc \in [Lookers -> LookPlaces] /\ name \in [Lookers -> Names \cup {"none"}]
  /\ asked \in [Lookers -> Kinds \cup {"none"}] /\ leader \in [Lookers -> Lookers \cup {"none"}]
  /\ done \in [Lookers -> BOOLEAN] /\ asking \in [Names -> Lookers \cup {"none"}]
  /\ DOMAIN answer = Lookers /\ answer = [c \in Lookers |-> answer[c]]
  /\ DOMAIN cache = Names /\ cache = [n \in Names |-> cache[n]]

\* The places of a caller fit its name, and the upstream it read.
PlaceInv ==
  \A c \in Lookers :
    /\ rpc[c] # "idle" => name[c] \in Names
    /\ rpc[c] = "bypass" => name[c] \in Bypassed
    /\ rpc[c] \notin {"idle", "bypass", "answered"} => name[c] \notin Bypassed
    /\ rpc[c] = "query" => asked[c] \in Kinds

\* The query in flight for a name is that of the caller that asks for it.
FlightInv ==
  /\ \A c \in Lookers : rpc[c] \in AskPlaces => asking[name[c]] = c
  /\ \A n \in Names : asking[n] # "none" => rpc[asking[n]] \in AskPlaces /\ name[asking[n]] = n

\* A caller that waits has a leader for its name who is at work or has closed.
WaitInv ==
  /\ \A c \in Lookers : done[c] => rpc[c] = "answered"
  /\ \A c \in Lookers : rpc[c] = "wait" =>
       /\ leader[c] \in Lookers /\ name[leader[c]] = name[c]
       /\ done[leader[c]] \/ rpc[leader[c]] \in AskPlaces \cup {"close"}

\* Answers are for the name, in the cache and with the callers.
AnswerInv ==
  /\ \A n \in Names : cache[n] \in {DNS!None} \cup Kept(n)
  /\ \A c \in Lookers : rpc[c] \in {"store", "remove", "close", "answered"} => answer[c] \in Given(name[c])

LookInv == LookType /\ PlaceInv /\ FlightInv /\ WaitInv /\ AnswerInv

\* What a failed or a successful lookup yields is an answer for the name.
LEMMA GivenIs ==
  ASSUME NEW n
  PROVE  /\ DNS!Failed \in Given(n)
         /\ n \in Bypassed => [name |-> n, via |-> "system"] \in Given(n)
         /\ n \notin Bypassed => \A k \in Kinds \cup {"doh"} : [name |-> n, via |-> k] \in Kept(n)
         /\ Kept(n) \subseteq Given(n)
BY DEF Given, Kept

\* LookTurns(c): one of the steps of a caller, whatever it is given.
LookTurns(c) ==
  \/ \E n \in Names : DNS!Resolve(c, n)
  \/ \E ok \in BOOLEAN : DNS!Query(c, ok) \/ DNS!Fallback(c, ok) \/ DNS!Bypass(c, ok)
  \/ DNS!Look(c) \/ DNS!Share(c) \/ DNS!Ask(c) \/ DNS!Store(c) \/ DNS!Remove(c) \/ DNS!CloseDone(c)
  \/ DNS!Told(c) \/ DNS!GivesUp(c) \/ DNS!Return(c) \/ DNS!Expire(c)

\* Resolve, step by step.
LEMMA LookStep ==
  ASSUME DnsNames, LookInv, NEW c \in Lookers, LookTurns(c)
  PROVE  LookInv'
<1> USE DEF LookInv, LookType, DNS!At, AskPlaces
<1>1. ASSUME NEW n \in Names, DNS!Resolve(c, n) PROVE LookInv'
  <2>1. LookType'
    BY <1>1 DEF DNS!Resolve, LookPlaces
  <2>2. PlaceInv'
    BY <1>1 DEF DNS!Resolve, PlaceInv
  <2>3. FlightInv'
    BY <1>1 DEF DNS!Resolve, FlightInv
  <2>4. WaitInv'
    BY <1>1 DEF DNS!Resolve, WaitInv
  <2>5. AnswerInv'
    BY <1>1 DEF DNS!Resolve, AnswerInv, PlaceInv
  <2> QED
    BY <2>1, <2>2, <2>3, <2>4, <2>5
<1>2. ASSUME NEW ok \in BOOLEAN, DNS!Bypass(c, ok) PROVE LookInv'
  <2>1. LookType'
    BY <1>2 DEF DNS!Bypass, LookPlaces
  <2>2. PlaceInv'
    BY <1>2 DEF DNS!Bypass, PlaceInv
  <2>3. FlightInv'
    BY <1>2 DEF DNS!Bypass, FlightInv
  <2>4. WaitInv'
    BY <1>2 DEF DNS!Bypass, WaitInv
  <2>5. AnswerInv'
    BY <1>2, GivenIs DEF DNS!Bypass, AnswerInv, PlaceInv
  <2> QED
    BY <2>1, <2>2, <2>3, <2>4, <2>5
<1>3. CASE DNS!Look(c)
  <2>1. LookType'
    BY <1>3 DEF DNS!Look, LookPlaces
  <2>2. PlaceInv'
    BY <1>3 DEF DNS!Look, PlaceInv
  <2>3. FlightInv'
    BY <1>3 DEF DNS!Look, FlightInv
  <2>4. WaitInv'
    BY <1>3 DEF DNS!Look, WaitInv
  <2>5. AnswerInv'
    <3>1. CASE cache[name[c]] # DNS!None
      <4>1. cache[name[c]] \in Given(name[c])
        BY <1>3, <3>1, GivenIs DEF DNS!Look, AnswerInv, PlaceInv
      <4> QED
        BY <1>3, <3>1, <4>1 DEF DNS!Look, AnswerInv
    <3>2. CASE cache[name[c]] = DNS!None
      BY <1>3, <3>2 DEF DNS!Look, AnswerInv
    <3> QED
      BY <3>1, <3>2
  <2> QED
    BY <2>1, <2>2, <2>3, <2>4, <2>5
<1>4. CASE DNS!Share(c)
  <2>1. LookType'
    BY <1>4 DEF DNS!Share, LookPlaces, PlaceInv
  <2>2. PlaceInv'
    BY <1>4 DEF DNS!Share, PlaceInv
  <2>3. FlightInv'
    BY <1>4 DEF DNS!Share, FlightInv, PlaceInv, DnsNames
  <2>4. WaitInv'
    BY <1>4 DEF DNS!Share, WaitInv, FlightInv, PlaceInv, DnsNames
  <2>5. AnswerInv'
    BY <1>4 DEF DNS!Share, AnswerInv, PlaceInv
  <2> QED
    BY <2>1, <2>2, <2>3, <2>4, <2>5
<1>5. CASE DNS!Ask(c)
  <2>1. LookType'
    BY <1>5 DEF DNS!Ask, LookPlaces
  <2>2. PlaceInv'
    BY <1>5 DEF DNS!Ask, PlaceInv
  <2>3. FlightInv'
    BY <1>5 DEF DNS!Ask, FlightInv
  <2>4. WaitInv'
    BY <1>5 DEF DNS!Ask, WaitInv
  <2>5. AnswerInv'
    BY <1>5 DEF DNS!Ask, AnswerInv, PlaceInv
  <2> QED
    BY <2>1, <2>2, <2>3, <2>4, <2>5
<1>6. ASSUME NEW ok \in BOOLEAN, DNS!Query(c, ok) PROVE LookInv'
  <2>1. LookType'
    BY <1>6 DEF DNS!Query, LookPlaces
  <2>2. PlaceInv'
    BY <1>6 DEF DNS!Query, PlaceInv
  <2>3. FlightInv'
    BY <1>6 DEF DNS!Query, FlightInv
  <2>4. WaitInv'
    BY <1>6 DEF DNS!Query, WaitInv
  <2>5. AnswerInv'
    BY <1>6, GivenIs DEF DNS!Query, AnswerInv, PlaceInv
  <2> QED
    BY <2>1, <2>2, <2>3, <2>4, <2>5
<1>7. ASSUME NEW ok \in BOOLEAN, DNS!Fallback(c, ok) PROVE LookInv'
  <2>1. LookType'
    BY <1>7 DEF DNS!Fallback, LookPlaces
  <2>2. PlaceInv'
    BY <1>7 DEF DNS!Fallback, PlaceInv
  <2>3. FlightInv'
    BY <1>7 DEF DNS!Fallback, FlightInv
  <2>4. WaitInv'
    BY <1>7 DEF DNS!Fallback, WaitInv
  <2>5. AnswerInv'
    BY <1>7, GivenIs DEF DNS!Fallback, AnswerInv, PlaceInv
  <2> QED
    BY <2>1, <2>2, <2>3, <2>4, <2>5
<1>8. CASE DNS!Store(c)
  <2>1. LookType'
    BY <1>8 DEF DNS!Store, LookPlaces
  <2>2. PlaceInv'
    BY <1>8 DEF DNS!Store, PlaceInv
  <2>3. FlightInv'
    BY <1>8 DEF DNS!Store, FlightInv
  <2>4. WaitInv'
    BY <1>8 DEF DNS!Store, WaitInv
  <2>5. AnswerInv'
    <3>1. name[c] \in Names /\ name[c] \notin Bypassed /\ answer[c] \in Given(name[c])
      BY <1>8 DEF DNS!Store, AnswerInv, PlaceInv
    <3>2. CASE answer[c] = DNS!Failed
      BY <1>8, <3>2 DEF DNS!Store, AnswerInv
    <3>3. CASE answer[c] # DNS!Failed
      <4>1. answer[c] \in Kept(name[c]) /\ cache' = [cache EXCEPT ![name[c]] = answer[c]]
        BY <1>8, <3>1, <3>3 DEF DNS!Store, Given
      <4>2. \A n \in Names : cache'[n] \in {DNS!None} \cup Kept(n)
        BY <3>1, <4>1 DEF AnswerInv
      <4> QED
        BY <1>8, <4>2 DEF DNS!Store, AnswerInv
    <3> QED
      BY <3>2, <3>3
  <2> QED
    BY <2>1, <2>2, <2>3, <2>4, <2>5
<1>9. CASE DNS!Remove(c)
  <2>1. LookType'
    BY <1>9 DEF DNS!Remove, LookPlaces
  <2>2. PlaceInv'
    BY <1>9 DEF DNS!Remove, PlaceInv
  <2>3. FlightInv'
    BY <1>9 DEF DNS!Remove, FlightInv, PlaceInv, DnsNames
  <2>4. WaitInv'
    BY <1>9 DEF DNS!Remove, WaitInv
  <2>5. AnswerInv'
    BY <1>9 DEF DNS!Remove, AnswerInv, PlaceInv
  <2> QED
    BY <2>1, <2>2, <2>3, <2>4, <2>5
<1>10. CASE DNS!CloseDone(c)
  <2>1. LookType'
    BY <1>10 DEF DNS!CloseDone, LookPlaces
  <2>2. PlaceInv'
    BY <1>10 DEF DNS!CloseDone, PlaceInv
  <2>3. FlightInv'
    BY <1>10 DEF DNS!CloseDone, FlightInv
  <2>4. WaitInv'
    BY <1>10 DEF DNS!CloseDone, WaitInv
  <2>5. AnswerInv'
    BY <1>10 DEF DNS!CloseDone, AnswerInv, PlaceInv
  <2> QED
    BY <2>1, <2>2, <2>3, <2>4, <2>5
<1>11. CASE DNS!Told(c)
  <2>1. LookType'
    BY <1>11 DEF DNS!Told, LookPlaces
  <2>2. PlaceInv'
    BY <1>11 DEF DNS!Told, PlaceInv
  <2>3. FlightInv'
    BY <1>11 DEF DNS!Told, FlightInv
  <2>4. WaitInv'
    BY <1>11 DEF DNS!Told, WaitInv
  <2>5. AnswerInv'
    BY <1>11 DEF DNS!Told, AnswerInv, PlaceInv, WaitInv
  <2> QED
    BY <2>1, <2>2, <2>3, <2>4, <2>5
<1>12. CASE DNS!GivesUp(c)
  <2>1. LookType'
    BY <1>12 DEF DNS!GivesUp, LookPlaces
  <2>2. PlaceInv'
    BY <1>12 DEF DNS!GivesUp, PlaceInv
  <2>3. FlightInv'
    BY <1>12 DEF DNS!GivesUp, FlightInv
  <2>4. WaitInv'
    BY <1>12 DEF DNS!GivesUp, WaitInv
  <2>5. AnswerInv'
    BY <1>12, GivenIs DEF DNS!GivesUp, AnswerInv, PlaceInv
  <2> QED
    BY <2>1, <2>2, <2>3, <2>4, <2>5
<1>13. CASE DNS!Return(c)
  <2>1. LookType'
    BY <1>13 DEF DNS!Return, LookPlaces
  <2>2. PlaceInv'
    BY <1>13 DEF DNS!Return, PlaceInv
  <2>3. FlightInv'
    BY <1>13 DEF DNS!Return, FlightInv
  <2>4. WaitInv'
    BY <1>13 DEF DNS!Return, WaitInv
  <2>5. AnswerInv'
    BY <1>13 DEF DNS!Return, AnswerInv, PlaceInv
  <2> QED
    BY <2>1, <2>2, <2>3, <2>4, <2>5
<1>14. CASE DNS!Expire(c)
  <2>1. LookType'
    BY <1>14 DEF DNS!Expire, LookPlaces
  <2>2. PlaceInv'
    BY <1>14 DEF DNS!Expire, PlaceInv
  <2>3. FlightInv'
    BY <1>14 DEF DNS!Expire, FlightInv
  <2>4. WaitInv'
    BY <1>14 DEF DNS!Expire, WaitInv
  <2>5. AnswerInv'
    BY <1>14 DEF DNS!Expire, AnswerInv, PlaceInv
  <2> QED
    BY <2>1, <2>2, <2>3, <2>4, <2>5
<1> QED
  BY <1>1, <1>2, <1>3, <1>4, <1>5, <1>6, <1>7, <1>8, <1>9, <1>10, <1>11, <1>12, <1>13, <1>14 DEF LookTurns

\* Resolve shares its queries: for any number of callers, names and upstreams,
\* one query is under way for a name, whoever waits has a caller at work for
\* the same name or its answer, and an answer that is kept or returned is for
\* the name it is kept or returned for.
THEOREM LookupsHold ==
  ASSUME DnsNames
  PROVE  DNS!Spec => []DNS!LookupsAreShared
<1>1. DNS!Init => LookInv
  BY DEF DNS!Init, LookInv, LookType, PlaceInv, FlightInv, WaitInv, AnswerInv, LookPlaces, AskPlaces
<1>2. LookInv /\ [DNS!Next]_DNS!rsVars => LookInv'
  <2> SUFFICES ASSUME LookInv, [DNS!Next]_DNS!rsVars PROVE LookInv'
    OBVIOUS
  <2>1. CASE UNCHANGED DNS!rsVars
    BY <2>1 DEF DNS!rsVars, LookInv, LookType, PlaceInv, FlightInv, WaitInv, AnswerInv
  <2>2. ASSUME NEW n \in Names, DNS!Evict(n) PROVE LookInv'
    BY <2>2 DEF DNS!Evict, LookInv, LookType, PlaceInv, FlightInv, WaitInv, AnswerInv
  <2>3. ASSUME NEW u \in Kinds, DNS!SetUpstream(u) PROVE LookInv'
    BY <2>3 DEF DNS!SetUpstream, LookInv, LookType, PlaceInv, FlightInv, WaitInv, AnswerInv
  <2>4. ASSUME NEW c \in Lookers, LookTurns(c) PROVE LookInv'
    BY <2>4, LookStep
  <2>5. \A v4, v6 \in BOOLEAN : DNS!mergeDualStack(v4, v6) \in BOOLEAN
    BY DEF DNS!mergeDualStack
  <2> QED
    BY <2>1, <2>2, <2>3, <2>4, <2>5 DEF DNS!Next, LookTurns
<1>3. LookInv => DNS!LookupsAreShared
  <2> SUFFICES ASSUME LookInv PROVE DNS!LookupsAreShared
    OBVIOUS
  <2>1. DNS!OneQuery
    <3> SUFFICES ASSUME NEW n \in Names PROVE DNS!Asking(n) = {asking[n]} \ {"none"}
      BY DEF DNS!OneQuery
    <3> QED
      BY DEF DNS!Asking, LookInv, LookType, FlightInv, AskPlaces, DnsNames
  <2>2. DNS!NobodyWaitsInVain
    BY DEF DNS!NobodyWaitsInVain, LookInv, WaitInv, AskPlaces
  <2>3. DNS!AnswersFit
    <3>1. \A n \in Names : cache[n] \in {DNS!None} \cup [name : {n}, via : Kinds \cup {"doh"}]
      BY DEF LookInv, AnswerInv, Kept
    <3>2. \A n \in Names \cap Bypassed : cache[n] = DNS!None
      BY DEF LookInv, AnswerInv, Kept
    <3>3. ASSUME NEW c \in Lookers, rpc[c] = "answered"
          PROVE  /\ answer[c] = DNS!Failed \/ answer[c].name = name[c]
                 /\ name[c] \in Bypassed => answer[c].via \in {"system", "failed"}
      BY <3>3 DEF LookInv, AnswerInv, Given, Kept, DNS!Failed
    <3> QED
      BY <3>1, <3>2, <3>3 DEF DNS!AnswersFit
  <2> QED
    BY <2>1, <2>2, <2>3 DEF DNS!LookupsAreShared
<1> QED
  BY <1>1, <1>2, <1>3, PTL DEF DNS!Spec

-----------------------------------------------------------------------------
(* The sessions of the mobile library.                                     *)

CONSTANTS HostThreads, MaxSessions, MaxStops
VARIABLES mobileRunning, pkgLC, cpc, cold, runPc, slc, mgrRunning, mgrDone, poolOf, stopped,
          started, stops, expired

Mobile == INSTANCE MobileSession WITH Callers <- HostThreads, spc <- runPc

RunPlaces == {"none", "begin", "setup", "refused", "listening", "up", "connected", "teardown",
              "returned", "gone"}

\* Until a Start has waited in vain: no session has started that was not
\* launched, two live sessions are one, and what is in the pool belongs to a
\* session that listens.
SessionInv ==
  /\ started \in 0..MaxSessions /\ mobileRunning \in BOOLEAN /\ expired \in BOOLEAN
  /\ runPc \in [Mobile!Sessions -> RunPlaces]
  /\ \A s \in Mobile!Sessions : s > started => runPc[s] = "none"
  /\ ~expired =>
       /\ \A s, t \in Mobile!Live : s = t
       /\ mobileRunning => Mobile!Live # {}
       /\ ~mobileRunning => Mobile!Live = {}
       /\ poolOf \subseteq {s \in Mobile!Sessions : Mobile!Listening(s)}
       /\ \A s \in stopped : s \in Mobile!Sessions /\ runPc[s] \in {"returned", "gone"}

\* A session goes from one place of RunMain to the next.
SessionGoes(s, p) ==
  /\ runPc' \in [Mobile!Sessions -> RunPlaces] /\ runPc'[s] = p
  /\ \A t \in Mobile!Sessions : t # s => runPc'[t] = runPc[t]

\* RunMain moves on within a session that lives and stays alive.
LEMMA RunKeeps ==
  ASSUME MaxSessions \in Nat, SessionInv, NEW s \in Mobile!Sessions, NEW p,
         SessionGoes(s, p), runPc[s] \notin {"none", "gone"}, p \notin {"none", "gone"},
         UNCHANGED <<started, mobileRunning, expired>>,
         ~expired => /\ poolOf' \subseteq {t \in Mobile!Sessions : Mobile!Listening(t)'}
                     /\ \A t \in stopped' : t \in Mobile!Sessions /\ runPc'[t] \in {"returned", "gone"}
  PROVE  SessionInv'
<1>1. Mobile!Sessions' = Mobile!Sessions
  BY DEF Mobile!Sessions
<1>2. Mobile!Live' = Mobile!Live
  <2>1. \A t \in Mobile!Sessions : runPc'[t] \in {"none", "gone"} => runPc[t] \in {"none", "gone"}
    BY DEF SessionGoes
  <2>2. \A t \in Mobile!Sessions : runPc[t] \in {"none", "gone"} => runPc'[t] \in {"none", "gone"}
    BY DEF SessionGoes
  <2> QED
    BY <1>1, <2>1, <2>2 DEF Mobile!Live
<1>3. \A t \in Mobile!Sessions : t > started => runPc'[t] = "none"
  BY DEF SessionGoes, SessionInv
<1> QED
  BY <1>1, <1>2, <1>3 DEF SessionInv, SessionGoes

\* Launch: with no live session before, the new one is the only one.
LEMMA LaunchKeeps ==
  ASSUME MaxSessions \in Nat, SessionInv, NEW c, Mobile!Launch(c), expired' \in BOOLEAN,
         ~expired' => ~expired /\ ~mobileRunning, UNCHANGED <<poolOf, stopped>>
  PROVE  SessionInv'
<1> DEFINE n == started + 1
<1>1. /\ n \in Mobile!Sessions /\ started' = n /\ started' \in 0..MaxSessions
      /\ mobileRunning' = TRUE /\ runPc[n] = "none"
  BY DEF Mobile!Launch, SessionInv, Mobile!Sessions
<1>2. runPc' = [runPc EXCEPT ![n] = "begin"]
  BY DEF Mobile!Launch
<1>3. SessionGoes(n, "begin")
  BY <1>1, <1>2 DEF SessionInv, SessionGoes, RunPlaces
<1>4. Mobile!Sessions' = Mobile!Sessions
  BY DEF Mobile!Sessions
<1>5. \A t \in Mobile!Sessions : t > started' => runPc'[t] = "none"
  BY <1>1, <1>3 DEF SessionGoes, SessionInv, Mobile!Sessions
<1>6. ASSUME ~expired'
      PROVE  /\ Mobile!Live' = {n}
             /\ poolOf' \subseteq {s \in Mobile!Sessions : Mobile!Listening(s)'}
             /\ \A s \in stopped' : s \in Mobile!Sessions /\ runPc'[s] \in {"returned", "gone"}
  <2>1. Mobile!Live = {} /\ \A s \in poolOf : s \in Mobile!Live
    BY <1>6 DEF SessionInv, Mobile!Live, Mobile!Listening
  <2>2. poolOf' = {}
    BY <2>1
  <2>3. \A t \in Mobile!Sessions : t # n => runPc[t] \in {"none", "gone"} /\ runPc'[t] = runPc[t]
    BY <1>3, <2>1 DEF Mobile!Live, SessionGoes
  <2>4. Mobile!Live' = {n}
    BY <1>1, <1>3, <1>4, <2>3 DEF Mobile!Live, SessionGoes
  <2>5. \A s \in stopped' : s \in Mobile!Sessions /\ s # n /\ runPc[s] \in {"returned", "gone"}
    BY <1>1, <1>6 DEF SessionInv
  <2> QED
    BY <1>3, <2>2, <2>4, <2>5 DEF SessionGoes
<1> QED
  BY <1>1, <1>3, <1>4, <1>5, <1>6 DEF SessionInv, SessionGoes

\* What Start and Stop do before the launch leaves the sessions alone.
LEMMA CallerKeeps ==
  ASSUME MaxSessions \in Nat, SessionInv, NEW c \in HostThreads, Mobile!Caller(c)
  PROVE  SessionInv'
<1>0. (UNCHANGED <<started, mobileRunning, expired, runPc, poolOf, stopped>>) => SessionInv'
  BY DEF SessionInv, Mobile!Live, Mobile!Listening, Mobile!Sessions
<1>1. CASE Mobile!Start(c)
  <2>1. CASE mobileRunning
    BY <1>0, <1>1, <2>1 DEF Mobile!Start
  <2>2. CASE ~mobileRunning
    <3>1. Mobile!Launch(c) /\ UNCHANGED <<poolOf, stopped, expired>>
      BY <1>1, <2>2 DEF Mobile!Start
    <3> QED
      BY <2>2, <3>1, LaunchKeeps DEF SessionInv
  <2> QED
    BY <2>1, <2>2
<1>2. CASE Mobile!StopOld(c) \/ Mobile!Stop(c) \/ Mobile!StopReturns(c)
  BY <1>0, <1>2 DEF Mobile!StopOld, Mobile!Stop, Mobile!StopReturns, Mobile!sessVars
<1>3. CASE Mobile!Waited(c)
  <2>1. Mobile!Launch(c) /\ expired' = (expired \/ mobileRunning) /\ UNCHANGED <<poolOf, stopped>>
    BY <1>3 DEF Mobile!Waited
  <2> QED
    BY <2>1, LaunchKeeps DEF SessionInv
<1> QED
  BY <1>1, <1>2, <1>3 DEF Mobile!Caller

\* RunMain, to its end.
LEMMA SessionKeeps ==
  ASSUME MaxSessions \in Nat, SessionInv, NEW s \in Mobile!Sessions, Mobile!Session(s)
  PROVE  SessionInv'
<1>1. runPc \in [Mobile!Sessions -> RunPlaces]
  BY DEF SessionInv
<1>2. ASSUME NEW p \in RunPlaces, runPc' = [runPc EXCEPT ![s] = p] PROVE SessionGoes(s, p)
  BY <1>1, <1>2 DEF SessionGoes
<1>3. ASSUME NEW p \in RunPlaces \ {"none", "gone"}, runPc' = [runPc EXCEPT ![s] = p],
             runPc[s] \notin {"none", "gone", "returned"},
             runPc[s] \in {"listening", "up", "connected", "teardown"}
               => p \in {"listening", "up", "connected", "teardown"},
             UNCHANGED <<started, mobileRunning, expired, stopped>>,
             poolOf' = poolOf \/ (p = "listening" /\ poolOf' = poolOf \cup {s})
      PROVE  SessionInv'
  <2>1. SessionGoes(s, p)
    BY <1>2, <1>3
  <2>2. ~expired => /\ poolOf' \subseteq {t \in Mobile!Sessions : Mobile!Listening(t)'}
                    /\ \A t \in stopped' : t \in Mobile!Sessions /\ runPc'[t] \in {"returned", "gone"}
    <3> SUFFICES ASSUME ~expired
                 PROVE  /\ \A t \in poolOf' : t \in Mobile!Sessions /\ Mobile!Listening(t)'
                        /\ \A t \in stopped : t \in Mobile!Sessions /\ runPc'[t] \in {"returned", "gone"}
      BY <1>3
    <3>1. \A t \in poolOf : t \in Mobile!Sessions /\ Mobile!Listening(t)
      BY DEF SessionInv
    <3>2. \A t \in poolOf : Mobile!Listening(t)'
      BY <1>3, <2>1, <3>1 DEF SessionGoes, Mobile!Listening
    <3>3. p = "listening" => Mobile!Listening(s)'
      BY <2>1 DEF SessionGoes, Mobile!Listening
    <3>4. \A t \in stopped : t \in Mobile!Sessions /\ runPc'[t] \in {"returned", "gone"}
      BY <1>3, <2>1 DEF SessionInv, SessionGoes
    <3> QED
      BY <1>3, <3>1, <3>2, <3>3, <3>4
  <2> QED
    BY <1>3, <2>1, <2>2, RunKeeps
<1>4. CASE Mobile!NewLifecycle(s)
  BY <1>3, <1>4 DEF Mobile!NewLifecycle, Mobile!callVars, RunPlaces
<1>5. CASE Mobile!SetupNetworking(s)
  BY <1>3, <1>5 DEF Mobile!SetupNetworking, Mobile!callVars, RunPlaces
<1>6. CASE Mobile!LcStart(s) \/ Mobile!ConnectPrimary(s) \/ Mobile!WaitForShutdown(s)
  BY <1>3, <1>6 DEF Mobile!LcStart, Mobile!ConnectPrimary, Mobile!WaitForShutdown, Mobile!callVars, RunPlaces
<1>7. CASE Mobile!StopPool(s)
  <2>1. /\ runPc' = [runPc EXCEPT ![s] = "returned"] /\ runPc[s] \in {"teardown", "refused"}
        /\ stopped' = stopped \cup poolOf /\ poolOf' = {} /\ UNCHANGED <<started, mobileRunning, expired>>
    BY <1>7 DEF Mobile!StopPool, Mobile!callVars
  <2>2. SessionGoes(s, "returned")
    BY <1>2, <2>1 DEF RunPlaces
  <2>3. ~expired => \A t \in stopped' : t \in Mobile!Sessions /\ runPc'[t] \in {"returned", "gone"}
    <3> SUFFICES ASSUME ~expired, NEW t \in stopped'
                 PROVE  t \in Mobile!Sessions /\ runPc'[t] \in {"returned", "gone"}
      OBVIOUS
    <3>1. CASE t \in stopped
      BY <2>1, <2>2, <3>1 DEF SessionInv, SessionGoes
    <3>2. CASE t \in poolOf
      <4>1. t \in Mobile!Live /\ s \in Mobile!Live
        BY <2>1, <3>2 DEF SessionInv, Mobile!Live, Mobile!Listening
      <4>2. t = s
        BY <4>1 DEF SessionInv
      <4> QED
        BY <2>2, <4>2 DEF SessionGoes
    <3> QED
      BY <2>1, <3>1, <3>2
  <2> QED
    BY <2>1, <2>2, <2>3, RunKeeps
<1>8. CASE Mobile!SessionEnds(s)
  <2>1. /\ runPc' = [runPc EXCEPT ![s] = "gone"] /\ runPc[s] = "returned" /\ mobileRunning' = FALSE
        /\ UNCHANGED <<started, expired, poolOf, stopped>>
    BY <1>8 DEF Mobile!SessionEnds, Mobile!callVars
  <2>2. SessionGoes(s, "gone") /\ Mobile!Sessions' = Mobile!Sessions
    BY <1>2, <2>1 DEF RunPlaces, Mobile!Sessions
  <2>3. \A t \in Mobile!Sessions : t > started => runPc'[t] = "none"
    BY <2>1, <2>2 DEF SessionInv, SessionGoes
  <2>4. ASSUME ~expired
        PROVE  /\ Mobile!Live' = {}
               /\ poolOf \subseteq {t \in Mobile!Sessions : Mobile!Listening(t)'}
               /\ \A t \in stopped : t \in Mobile!Sessions /\ runPc'[t] \in {"returned", "gone"}
    <3>1. s \in Mobile!Live /\ \A t \in Mobile!Live : t = s
      BY <2>1, <2>4 DEF SessionInv, Mobile!Live
    <3>2. \A t \in Mobile!Live' : t \in Mobile!Live /\ t # s
      BY <2>2 DEF Mobile!Live, SessionGoes
    <3>3. \A t \in poolOf : t \in Mobile!Sessions /\ t # s /\ Mobile!Listening(t)
      BY <2>1, <2>4 DEF SessionInv, Mobile!Listening
    <3>4. \A t \in poolOf : Mobile!Listening(t)'
      BY <2>2, <3>3 DEF SessionGoes, Mobile!Listening
    <3>5. \A t \in stopped : t \in Mobile!Sessions /\ runPc'[t] \in {"returned", "gone"}
      BY <2>2, <2>4 DEF SessionInv, SessionGoes
    <3> QED
      BY <3>1, <3>2, <3>3, <3>4, <3>5
  <2> QED
    BY <2>1, <2>2, <2>3, <2>4 DEF SessionInv, SessionGoes
<1> QED
  BY <1>4, <1>5, <1>6, <1>7, <1>8 DEF Mobile!Session

\* mobile.go: as long as no Start has waited its three seconds in vain, one
\* session lives at a time, mobileRunning says whether one does, and no
\* session's tunnels are stopped by another's teardown, for any number of
\* threads of the host application and any number of calls.
THEOREM OneSessionAtATime ==
  ASSUME MaxSessions \in Nat
  PROVE  Mobile!Spec => []Mobile!OneSession
<1>1. Mobile!Init => SessionInv
  <2> SUFFICES ASSUME Mobile!Init PROVE SessionInv
    OBVIOUS
  <2>1. \A s \in Mobile!Sessions : runPc[s] = "none"
    BY DEF Mobile!Init
  <2>2. Mobile!Live = {}
    BY <2>1 DEF Mobile!Live
  <2>3. runPc \in [Mobile!Sessions -> RunPlaces]
    BY DEF Mobile!Init, RunPlaces
  <2>4. started = 0 /\ 0 \in 0..MaxSessions /\ poolOf = {} /\ stopped = {} /\ ~mobileRunning /\ ~expired
    BY DEF Mobile!Init
  <2>5. mobileRunning \in BOOLEAN /\ expired \in BOOLEAN
    BY DEF Mobile!Init
  <2> QED
    BY <2>1, <2>2, <2>3, <2>4, <2>5 DEF SessionInv
<1>2. SessionInv /\ [Mobile!Next]_Mobile!msVars => SessionInv'
  <2> SUFFICES ASSUME SessionInv, [Mobile!Next]_Mobile!msVars PROVE SessionInv'
    OBVIOUS
  <2>1. CASE UNCHANGED Mobile!msVars
    BY <2>1 DEF Mobile!msVars, SessionInv, Mobile!Live, Mobile!Listening, Mobile!Sessions
  <2> QED
    BY <2>1, CallerKeeps, SessionKeeps DEF Mobile!Next
<1>3. SessionInv => Mobile!OneSession
  <2> SUFFICES ASSUME SessionInv, ~expired
               PROVE  /\ Mobile!Cardinality(Mobile!Live) <= 1
                      /\ mobileRunning = (Mobile!Live # {})
                      /\ \A s \in stopped : runPc[s] \in {"returned", "gone"}
    BY DEF Mobile!OneSession
  <2>1. mobileRunning = (Mobile!Live # {})
    BY DEF SessionInv
  <2>2. Mobile!Cardinality(Mobile!Live) = Cardinality(Mobile!Live)
    BY DEF Mobile!Cardinality, Cardinality
  <2>3. Cardinality(Mobile!Live) <= 1
    <3>1. CASE Mobile!Live = {}
      <4>1. Cardinality(Mobile!Live) = 0
        BY <3>1, FS_EmptySet
      <4> QED
        BY <4>1
    <3>2. ASSUME NEW s \in Mobile!Live PROVE Cardinality(Mobile!Live) <= 1
      <4>1. Mobile!Live = {s}
        BY <3>2 DEF SessionInv
      <4>2. Cardinality({s}) = 1
        BY FS_Singleton
      <4> QED
        BY <4>1, <4>2
    <3> QED
      BY <3>1, <3>2
  <2> QED
    BY <2>1, <2>2, <2>3 DEF SessionInv
<1> QED
  BY <1>1, <1>2, <1>3, PTL DEF Mobile!Spec
=============================================================================
