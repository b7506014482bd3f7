---------------------------- MODULE RouterEngine ----------------------------
(***************************************************************************)
(* The server's routing engine (core/router/router.go) and the relay that  *)
(* asks it (core/relay/relay.go): rules in order of priority, a compiled   *)
(* copy that flows scan without the lock, and a cache of verdicts per      *)
(* destination.  A compiled rule and a cached verdict point at the slot of *)
(* the rules' array that held the rule when it was compiled; AddRule sorts *)
(* that array in place whenever it has room for one more.                  *)
(*                                                                         *)
(* Flows name a destination and nothing else, as the relay's packets do.   *)
(***************************************************************************)
EXTENDS Naturals, Sequences, FiniteSetsExt, SequencesExt

CONSTANTS
  Rules,       \* rule identifiers
  Prio, Hits,  \* priority of a rule, destinations its conditions match
  Dsts, Flows, \* destinations and the flows that ask for them
  MaxRules,    \* the rules AddRule accepts; UpdateRules does not look
  MaxChanges, MaxAsks

NoPtr == <<0, 0>>    \* the default destination
DefaultRule == 0

VARIABLES
  arrays, room,  \* every array the rules have had, and the capacity of each
  compiled,      \* Engine.compiled: rule and pointer, in order
  byID,          \* identifiers known to byID
  cache,         \* destination -> verdict kept: a sequence of at most one pointer
  fpc, dst, snap, verdict,  \* a flow: where it is, its destination, rules taken, pointer
  mixed,         \* some flow has been under way while the rules changed
  changes, asks

reVars == <<arrays, room, compiled, byID, cache, fpc, dst, snap, verdict, mixed, changes, asks>>

Rules_ == IF arrays = <<>> THEN <<>> ELSE Last(arrays)
Points(p) == IF p = NoPtr THEN DefaultRule ELSE arrays[p[1]][p[2]]

Init ==
  /\ arrays = <<>> /\ room = 0 /\ compiled = <<>> /\ byID = {}
  /\ cache = [d \in Dsts |-> <<>>]
  /\ fpc = [f \in Flows |-> "idle"] /\ dst \in [Flows -> Dsts]
  /\ snap = [f \in Flows |-> <<>>] /\ verdict = [f \in Flows |-> NoPtr]
  /\ mixed = FALSE /\ changes = 0 /\ asks = 0

-----------------------------------------------------------------------------
(* Rules.                                                                  *)

\* sort.Slice by falling priority.
Sorted(rs) == SortSeq(rs, LAMBDA a, b : Prio[a] > Prio[b])

\* recompileLocked for the rules rs in array number k.
Recompile(rs, k) == [i \in 1..Len(rs) |-> [rule |-> rs[i], ptr |-> <<k, i>>]]

\* A change under the lock: new array or the same one in place, a new
\* compiled copy, and an empty cache.
Changed(rs, inPlace, cap) ==
  /\ changes < MaxChanges /\ changes' = changes + 1
  /\ LET k == IF inPlace THEN Len(arrays) ELSE Len(arrays) + 1 IN
     /\ arrays' = IF inPlace THEN [arrays EXCEPT ![k] = rs] ELSE Append(arrays, rs)
     /\ compiled' = Recompile(rs, k)
  /\ room' = cap
  /\ cache' = [d \in Dsts |-> <<>>]
  /\ mixed' = (mixed \/ \E f \in Flows : fpc[f] # "idle")
  /\ UNCHANGED <<fpc, dst, snap, verdict, asks>>

\* append doubles the capacity of a full array, into a new one.
AddRule(r) ==
  /\ r \notin byID /\ Len(Rules_) < MaxRules
  /\ Changed(Sorted(Append(Rules_, r)), Len(Rules_) < room,
             IF Len(Rules_) < room THEN room ELSE Max({2 * room, Len(Rules_) + 1}))
  /\ byID' = byID \cup {r}

\* Mutant of RemoveRule: the verdicts already given stay.
RemoveRule_KeepsCache(r) ==
  /\ r \in byID
  /\ changes < MaxChanges /\ changes' = changes + 1
  /\ LET rs == SelectSeq(Rules_, LAMBDA x : x # r) IN
     /\ arrays' = Append(arrays, rs) /\ compiled' = Recompile(rs, Len(arrays) + 1) /\ room' = Len(rs)
  /\ mixed' = (mixed \/ \E f \in Flows : fpc[f] # "idle")
  /\ byID' = byID \ {r}
  /\ UNCHANGED <<cache, fpc, dst, snap, verdict, asks>>

\* The rules that stay go to a new array without room to spare.
RemoveRule(r) ==
  /\ r \in byID
  /\ LET rs == SelectSeq(Rules_, LAMBDA x : x # r) IN Changed(rs, FALSE, Len(rs))
  /\ byID' = byID \ {r}

UpdateRules(S) ==
  /\ Changed(Sorted(SetToSeq(S)), FALSE, Cardinality(S))
  /\ byID' = S

-----------------------------------------------------------------------------
(* Route.                                                                  *)

\* The cache answers, or the compiled rules are taken under the read lock.
CheckCache(f) ==
  /\ fpc[f] = "idle" /\ asks < MaxAsks /\ asks' = asks + 1
  /\ IF cache[dst[f]] # <<>>
       THEN fpc' = [fpc EXCEPT ![f] = "use"] /\ verdict' = [verdict EXCEPT ![f] = cache[dst[f]][1]]
       ELSE fpc' = [fpc EXCEPT ![f] = "take"] /\ UNCHANGED verdict
  /\ UNCHANGED <<arrays, room, compiled, byID, cache, dst, snap, mixed, changes>>

Take(f) ==
  /\ fpc[f] = "take"
  /\ snap' = [snap EXCEPT ![f] = compiled] /\ fpc' = [fpc EXCEPT ![f] = "scan"]
  /\ UNCHANGED <<arrays, room, compiled, byID, cache, dst, verdict, mixed, changes, asks>>

\* Every condition of the rule holds for the destination.
MatchCondition(r, d) == d \in Hits[r]
MatchCompiled(c, d) == MatchCondition(c.rule, d)

\* The first rule that matches, or the default.
Scan(f) ==
  /\ fpc[f] = "scan"
  /\ LET hits == {i \in 1..Len(snap[f]) : MatchCompiled(snap[f][i], dst[f])} IN
     verdict' = [verdict EXCEPT ![f] = IF hits = {} THEN NoPtr ELSE snap[f][Min(hits)].ptr]
  /\ snap' = [snap EXCEPT ![f] = <<>>] /\ fpc' = [fpc EXCEPT ![f] = "store"]
  /\ UNCHANGED <<arrays, room, compiled, byID, cache, dst, mixed, changes, asks>>

UpdateCache(f) ==
  /\ fpc[f] = "store"
  /\ cache' = [cache EXCEPT ![dst[f]] = <<verdict[f]>>]
  /\ fpc' = [fpc EXCEPT ![f] = "use"]
  /\ UNCHANGED <<arrays, room, compiled, byID, dst, snap, verdict, mixed, changes, asks>>

\* resolveProxyDialer reads the destination the verdict points at.
Use(f) ==
  /\ fpc[f] = "use"
  /\ fpc' = [fpc EXCEPT ![f] = "idle"] /\ verdict' = [verdict EXCEPT ![f] = NoPtr]
  /\ UNCHANGED <<arrays, room, compiled, byID, cache, dst, snap, mixed, changes, asks>>

Next ==
  \/ \E r \in Rules : AddRule(r) \/ RemoveRule(r)
  \/ \E S \in SUBSET Rules : UpdateRules(S)
  \/ \E f \in Flows : CheckCache(f) \/ Take(f) \/ Scan(f) \/ UpdateCache(f) \/ Use(f)

Spec == Init /\ [][Next]_reVars

-----------------------------------------------------------------------------
(* Properties.                                                             *)

\* The rule that decides for d, from the rules themselves.
Decides(d) ==
  LET hits == {r \in byID : d \in Hits[r]} IN
  IF hits = {} THEN DefaultRule ELSE CHOOSE r \in hits : \A q \in hits : Prio[r] >= Prio[q]

\* As long as no flow has been under way during a change, every verdict given
\* or kept is that of the matching rule of highest priority, through any
\* number of changes and cached answers (Route, AddRule, RemoveRule,
\* UpdateRules).
VerdictsFollowRules ==
  ~mixed => /\ \A d \in Dsts : cache[d] # <<>> => Points(cache[d][1]) = Decides(d)
            /\ \A f \in Flows : fpc[f] \in {"store", "use"} => Points(verdict[f]) = Decides(dst[f])
            /\ {Rules_[i] : i \in 1..Len(Rules_)} = byID
=============================================================================
