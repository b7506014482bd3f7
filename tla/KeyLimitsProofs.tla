-------------------------- MODULE KeyLimitsProofs --------------------------
(***************************************************************************)
(* For any number of flows, keys, addresses and limits, and for any        *)
(* interleaving of admissions, releases, evictions and collections:        *)
(* totalSessions is exactly the number of sessions plus the decrements     *)
(* still owed, and so GlobalCap is never exceeded.                         *)
(***************************************************************************)
EXTENDS KeyLimits, FiniteSetTheorems, TLAPS

\* TypeOK, except that the counter is only known to be an integer.
BaseOK ==
  /\ defaults \in LimitChoices
  /\ keyLimits \in [Keys -> LimitChoices \cup {NoLimits}]
  /\ IsPartialFn(sessions, Ids, Session)
  /\ burst \in [Keys -> Nat]
  /\ oldBurst \subseteq Keys
  /\ total \in Int
  /\ IsPartialFn(closers, Ids, Flows)
  /\ clock \in Nat
  /\ pc \in [Flows -> FlowPC]
  /\ ev \in [pc : {"idle", "picked", "deleted", "counted"},
             ids : SUBSET Ids, n : Nat]
  /\ gc \in [pc : {"idle", "deleted", "counted"}, ids : SUBSET Ids, n : Nat]

\* Only a removal between its delete and its decrement owes anything.
OwedShape ==
  /\ ev.pc # "deleted" => ev.n = 0
  /\ gc.pc # "deleted" => gc.n = 0

\* A session on the books belongs to a flow that is being served.
SessionsOwned ==
  \A id \in DOMAIN sessions :
    \E f \in Flows : IdOf(f) = id /\ pc[f] \in {"live", "shut"}

-----------------------------------------------------------------------------
\* What Without and With do to a partial function's domain and range.
LEMMA WithoutType ==
  ASSUME NEW f, NEW S, NEW T, NEW D, IsPartialFn(f, S, T)
  PROVE  /\ IsPartialFn(Without(f, D), S, T)
         /\ DOMAIN Without(f, D) = DOMAIN f \ D
BY DEF IsPartialFn, Without

LEMMA WithType ==
  ASSUME NEW f, NEW S, NEW T, NEW x \in S, NEW v \in T, IsPartialFn(f, S, T)
  PROVE  /\ IsPartialFn(With(f, x, v), S, T)
         /\ DOMAIN With(f, x, v) = DOMAIN f \cup {x}
BY DEF IsPartialFn, With

LEMMA IdType == \A f \in Flows : IdOf(f) \in Ids
BY ConstantsAssumption DEF IdOf, Ids

LEMMA SessionField ==
  ASSUME NEW id \in DOMAIN sessions, IsPartialFn(sessions, Ids, Session)
  PROVE  /\ IsPartialFn([sessions EXCEPT ![id].torrent = TRUE], Ids, Session)
         /\ \A b \in BOOLEAN :
              IsPartialFn([sessions EXCEPT ![id].stale = b], Ids, Session)
         /\ DOMAIN [sessions EXCEPT ![id].torrent = TRUE] = DOMAIN sessions
         /\ \A b \in BOOLEAN :
              DOMAIN [sessions EXCEPT ![id].stale = b] = DOMAIN sessions
BY DEF IsPartialFn, Session

LEMMA OwingFinite == IsFiniteSet(Owing) /\ Cardinality(Owing) \in Nat
<1>1. Owing \in SUBSET Flows
  BY DEF Owing
<1>2. IsFiniteSet(Owing)
  BY <1>1, FS_Subset, ConstantsAssumption
<1> QED
  BY <1>2, FS_CardinalityType

-----------------------------------------------------------------------------
(* Types.                                                                  *)

\* A collection's batch: sets of identifiers of sessions, and their number.
LEMMA BatchType ==
  ASSUME NEW S \in SUBSET DOMAIN sessions, BaseOK, IsFiniteSet(DOMAIN sessions)
  PROVE  S \in SUBSET Ids /\ IsFiniteSet(S) /\ Cardinality(S) \in Nat
<1>1. S \in SUBSET Ids
  BY DEF BaseOK, IsPartialFn
<1>2. IsFiniteSet(S)
  BY FS_Subset
<1> QED
  BY <1>1, <1>2, FS_CardinalityType

\* Calling closers leaves every flow at a place of its program.
LEMMA TakeClosersType ==
  ASSUME NEW ids, BaseOK, TakeClosers(ids)
  PROVE  IsPartialFn(closers', Ids, Flows) /\ pc' \in [Flows -> FlowPC]
<1>1. IsPartialFn(closers', Ids, Flows)
  BY WithoutType DEF BaseOK, TakeClosers
<1>2. pc' \in [Flows -> FlowPC]
  BY DEF BaseOK, TakeClosers, FlowPC
<1> QED
  BY <1>1, <1>2

LEMMA CountBurstType ==
  ASSUME NEW k \in Keys, BaseOK, CountBurst(k)
  PROVE  burst' \in [Keys -> Nat] /\ oldBurst' \subseteq Keys
<1>1. WindowCount(k) \in Nat
  BY DEF BaseOK, WindowCount
<1> QED
  BY <1>1 DEF BaseOK, CountBurst

\* Every step of a flow keeps the types.
LEMMA FlowTypes ==
  ASSUME NEW f \in Flows, BaseOK, FlowStep(f)
  PROVE  BaseOK'
<1>0. IdOf(f) \in Ids /\ KeyOf[f] \in Keys
  BY IdType, ConstantsAssumption
<1>1. CASE Deny(f)
  <2>1. burst' \in [Keys -> Nat] /\ oldBurst' \subseteq Keys
    BY <1>0, <1>1, CountBurstType DEF Deny
  <2> QED
    BY <1>1, <2>1 DEF Deny, BaseOK, FlowPC, limitVars
<1>2. CASE Admit(f)
  <2>1. burst' \in [Keys -> Nat] /\ oldBurst' \subseteq Keys
    BY <1>0, <1>2, CountBurstType DEF Admit
  <2>2. [ip |-> IPOf[f], torrent |-> FALSE, stale |-> FALSE, started |-> clock]
          \in Session
    BY ConstantsAssumption DEF BaseOK, Session
  <2>3. IsPartialFn(sessions', Ids, Session)
    BY <1>0, <1>2, <2>2, WithType DEF Admit, BaseOK
  <2> QED
    BY <1>2, <2>1, <2>3 DEF Admit, BaseOK, FlowPC, limitVars
<1>3. CASE MarkTorrent(f)
  BY <1>3, SessionField DEF MarkTorrent, BaseOK, limitVars, threadVars
<1>4. CASE Touch(f)
  BY <1>4, SessionField DEF Touch, BaseOK, limitVars, threadVars
<1>5. CASE RegisterCloser(f)
  BY <1>0, <1>5, WithType DEF RegisterCloser, BaseOK, limitVars, threadVars
<1>6. CASE ReleaseDelete(f)
  <2>1. IsPartialFn(sessions', Ids, Session)
    BY <1>6, WithoutType DEF ReleaseDelete, BaseOK
  <2> QED
    BY <1>6, <2>1 DEF ReleaseDelete, BaseOK, FlowPC, limitVars
<1>7. CASE ReleaseCount(f)
  BY <1>7 DEF ReleaseCount, BaseOK, FlowPC, limitVars
<1>8. CASE ReleaseCloser(f)
  <2>1. IsPartialFn(closers', Ids, Flows)
    BY <1>8, WithoutType DEF ReleaseCloser, BaseOK
  <2> QED
    BY <1>8, <2>1 DEF ReleaseCloser, BaseOK, FlowPC, limitVars
<1> QED
  BY <1>1, <1>2, <1>3, <1>4, <1>5, <1>6, <1>7, <1>8 DEF FlowStep

\* So does every step of the operator, of an eviction, of the collector and
\* of time.
LEMMA OtherTypes ==
  ASSUME BaseOK, IsFiniteSet(DOMAIN sessions), Configure \/ Evict \/ Collect \/ Time
  PROVE  BaseOK'
<1>1. CASE Configure
  BY <1>1 DEF Configure, SetLimits, ClearLimits, SetDefault, BaseOK, threadVars
<1>2. ASSUME NEW S \in SUBSET DOMAIN sessions, NEW n, EvictPick(S, n)
      PROVE  BaseOK'
  <2>1. Oldest(S, n) \in SUBSET Ids
    BY <1>2, BatchType DEF Oldest
  <2> QED
    BY <1>2, <2>1 DEF EvictPick, BaseOK, limitVars
<1>3. CASE EvictDelete
  <2>1. IsPartialFn(sessions', Ids, Session)
    BY <1>3, WithoutType DEF EvictDelete, BaseOK
  <2>2. Cardinality(ev.ids \cap DOMAIN sessions) \in Nat
    BY BatchType
  <2> QED
    BY <1>3, <2>1, <2>2 DEF EvictDelete, BaseOK, limitVars
<1>4. CASE EvictCount
  <2>1. total' \in Int
    BY <1>4 DEF EvictCount, BaseOK
  <2> QED
    BY <1>4, <2>1 DEF EvictCount, BaseOK, limitVars
<1>5. CASE EvictClose
  BY <1>5, TakeClosersType DEF EvictClose, BaseOK, limitVars, Idle
<1>6. CASE GCSweep
  <2>1. IsPartialFn(sessions', Ids, Session)
    BY <1>6, WithoutType DEF GCSweep, BaseOK
  <2>2. Expired \in SUBSET Ids /\ Cardinality(Expired) \in Nat
    BY BatchType DEF Expired
  <2>3. burst' \in [Keys -> Nat] /\ oldBurst' \subseteq Keys
    BY <1>6 DEF GCSweep, BaseOK
  <2> QED
    BY <1>6, <2>1, <2>2, <2>3 DEF GCSweep, BaseOK, limitVars, Idle
<1>7. CASE GCCount
  <2>1. total' \in Int
    BY <1>7 DEF GCCount, BaseOK
  <2> QED
    BY <1>7, <2>1 DEF GCCount, BaseOK, limitVars
<1>8. CASE GCClose
  BY <1>8, TakeClosersType DEF GCClose, BaseOK, limitVars, Idle
<1>9. CASE Time
  <2>1. ASSUME NEW id \in DOMAIN sessions, GoStale(id) PROVE BaseOK'
    <3>1. IsPartialFn([sessions EXCEPT ![id].stale = TRUE], Ids, Session)
      BY SessionField DEF BaseOK
    <3>2. IsPartialFn(sessions', Ids, Session)
      BY <2>1, <3>1 DEF GoStale
    <3> QED
      BY <2>1, <3>2 DEF GoStale, BaseOK, limitVars, threadVars
  <2>2. ASSUME NEW k \in Keys, AgeBurst(k) PROVE BaseOK'
    BY <2>2 DEF AgeBurst, BaseOK, limitVars, threadVars
  <2> QED
    BY <1>9, <2>1, <2>2 DEF Time
<1>10. CASE Evict
  <2>1. \A k : SessionsOf(k) \in SUBSET DOMAIN sessions
    BY DEF SessionsOf
  <2> QED
    BY <1>2, <1>3, <1>4, <1>5, <1>10, <2>1
       DEF Evict, EvictOldest, EvictOldestGlobal
<1> QED
  BY <1>1, <1>6, <1>7, <1>8, <1>9, <1>10 DEF Collect

-----------------------------------------------------------------------------
(* Ownership of sessions, and the count.                                   *)

\* The part of the invariant the accounting speaks of.
Books == /\ IsFiniteSet(DOMAIN sessions)
         /\ OwedShape
         /\ SessionsOwned
         /\ Accounting
         /\ total <= CapBound

\* A step that adds and removes no session, moves no flow between "served"
\* and "owing", and leaves counter and batches alone keeps the books.
LEMMA QuietStep ==
  ASSUME BaseOK, BaseOK', Books,
         DOMAIN sessions' = DOMAIN sessions, total' = total,
         ev'.n = ev.n, gc'.n = gc.n,
         ev'.pc # "deleted" => ev.pc # "deleted",
         gc'.pc # "deleted" => gc.pc # "deleted",
         \A f \in Flows : /\ pc[f] = "deleted" <=> pc'[f] = "deleted"
                          /\ pc[f] \in {"live", "shut"} => pc'[f] \in {"live", "shut"}
  PROVE  Books'
<1>1. Owing' = Owing
  BY DEF Owing
<1>2. OwedShape'
  <2>1. ev'.pc # "deleted" => ev'.n = 0
    BY DEF Books, OwedShape
  <2>2. gc'.pc # "deleted" => gc'.n = 0
    BY DEF Books, OwedShape
  <2> QED
    BY <2>1, <2>2 DEF OwedShape
<1>3. SessionsOwned'
  BY DEF Books, SessionsOwned, IdOf
<1>4. Accounting'
  BY <1>1 DEF Books, Accounting, Pending
<1> QED
  BY <1>2, <1>3, <1>4 DEF Books

\* The batches and the counter in the terms the arithmetic needs.
LEMMA CountTypes ==
  ASSUME BaseOK, IsFiniteSet(DOMAIN sessions)
  PROVE  /\ Cardinality(DOMAIN sessions) \in Nat
         /\ Cardinality(Owing) \in Nat
         /\ ev.n \in Nat /\ gc.n \in Nat /\ total \in Int
BY FS_CardinalityType, OwingFinite DEF BaseOK

\* The global cap in force is one of those that may be configured.
LEMMA CapTypes ==
  ASSUME BaseOK
  PROVE  /\ defaults.global \in 1..CapBound /\ CapBound \in Nat
         /\ defaults.global \in Int
<1>1. defaults \in LimitChoices
  BY DEF BaseOK
<1>2. defaults.global \in 1..CapBound /\ CapBound \in Nat
  BY <1>1, ConstantsAssumption
<1> QED
  BY <1>2

\* Admit adds one session, one to the counter, and respects the cap.
LEMMA AdmitBooks ==
  ASSUME FreshSids, BaseOK, Books, NEW f \in Flows, Admit(f)
  PROVE  Books'
<1>1. IdOf(f) \notin DOMAIN sessions
  BY DEF FreshSids, Books, SessionsOwned, Admit
<1>2. DOMAIN sessions' = DOMAIN sessions \cup {IdOf(f)}
  BY DEF Admit, With
<1>3. /\ IsFiniteSet(DOMAIN sessions')
      /\ Cardinality(DOMAIN sessions') = Cardinality(DOMAIN sessions) + 1
  BY <1>1, <1>2, FS_AddElement DEF Books
<1>4. Owing' = Owing
  BY DEF Owing, Admit, BaseOK
<1>5. OwedShape'
  BY DEF Books, OwedShape, Admit
<1>6. SessionsOwned'
  <2> SUFFICES ASSUME NEW id \in DOMAIN sessions'
               PROVE  \E g \in Flows : IdOf(g) = id /\ pc'[g] \in {"live", "shut"}
    BY DEF SessionsOwned, IdOf
  <2>1. CASE id = IdOf(f)
    BY <2>1 DEF Admit, BaseOK
  <2>2. CASE id \in DOMAIN sessions
    <3>1. PICK g \in Flows : IdOf(g) = id /\ pc[g] \in {"live", "shut"}
      BY <2>2 DEF Books, SessionsOwned
    <3>2. pc'[g] \in {"live", "shut"}
      BY <3>1 DEF Admit, BaseOK
    <3> QED
      BY <3>1, <3>2
  <2> QED
    BY <1>2, <2>1, <2>2
<1>7. total' = total + 1 /\ ev' = ev /\ gc' = gc
  BY DEF Admit
<1>8. Accounting'
  BY <1>3, <1>4, <1>7, CountTypes DEF Books, Accounting, Pending
<1>9. total' <= CapBound
  <2>1. defaults.global \in 1..CapBound /\ CapBound \in Nat
    BY CapTypes
  <2>2. ~(defaults.global > 0 /\ total >= defaults.global)
    BY DEF Admit, Refused
  <2>3. total \in Int
    BY DEF BaseOK
  <2> QED
    BY <1>7, <2>1, <2>2, <2>3
<1> QED
  BY <1>3, <1>5, <1>6, <1>8, <1>9 DEF Books

\* Release takes its session off the books and owes one decrement, or finds
\* it gone and owes none.
LEMMA ReleaseDeleteBooks ==
  ASSUME FreshSids, BaseOK, Books, NEW f \in Flows, ReleaseDelete(f)
  PROVE  Books'
<1>1. DOMAIN sessions' = DOMAIN sessions \ {IdOf(f)}
  BY DEF ReleaseDelete, Without
<1>2. IsFiniteSet(DOMAIN sessions')
  BY <1>1, FS_Subset DEF Books
<1>3. OwedShape'
  BY DEF Books, OwedShape, ReleaseDelete
<1>4. SessionsOwned'
  <2> SUFFICES ASSUME NEW id \in DOMAIN sessions'
               PROVE  \E g \in Flows : IdOf(g) = id /\ pc'[g] \in {"live", "shut"}
    BY DEF SessionsOwned, IdOf
  <2>1. PICK g \in Flows : IdOf(g) = id /\ pc[g] \in {"live", "shut"}
    BY <1>1 DEF Books, SessionsOwned
  <2>2. g # f
    BY <1>1, <2>1
  <2>3. pc'[g] = pc[g]
    BY <2>2 DEF ReleaseDelete, BaseOK
  <2> QED
    BY <2>1, <2>3
<1>5. total' = total /\ ev' = ev /\ gc' = gc
  BY DEF ReleaseDelete
<1>6. CASE IdOf(f) \in DOMAIN sessions
  <2>1. Cardinality(DOMAIN sessions') = Cardinality(DOMAIN sessions) - 1
    BY <1>1, <1>6, FS_RemoveElement DEF Books
  <2>2. Owing' = Owing \cup {f} /\ f \notin Owing
    BY <1>6 DEF Owing, ReleaseDelete, BaseOK
  <2>3. Cardinality(Owing') = Cardinality(Owing) + 1
    BY <2>2, OwingFinite, FS_AddElement
  <2>4. Accounting'
    BY <1>5, <2>1, <2>3, CountTypes DEF Books, Accounting, Pending
  <2> QED
    BY <1>2, <1>3, <1>4, <1>5, <2>4 DEF Books
<1>7. CASE IdOf(f) \notin DOMAIN sessions
  <2>1. DOMAIN sessions' = DOMAIN sessions
    BY <1>1, <1>7
  <2>2. Owing' = Owing
    BY <1>7 DEF Owing, ReleaseDelete, BaseOK
  <2>3. Accounting'
    BY <1>5, <2>1, <2>2 DEF Books, Accounting, Pending
  <2> QED
    BY <1>2, <1>3, <1>4, <1>5, <2>3 DEF Books
<1> QED
  BY <1>6, <1>7

\* Release pays the decrement it owes.
LEMMA ReleaseCountBooks ==
  ASSUME BaseOK, Books, NEW f \in Flows, ReleaseCount(f)
  PROVE  Books'
<1>1. Owing' = Owing \ {f} /\ f \in Owing
  BY DEF Owing, ReleaseCount, BaseOK
<1>2. Cardinality(Owing') = Cardinality(Owing) - 1
  BY <1>1, OwingFinite, FS_RemoveElement
<1>3. total' = total - 1 /\ ev' = ev /\ gc' = gc /\ sessions' = sessions
  BY DEF ReleaseCount
<1>4. Accounting'
  BY <1>2, <1>3, CountTypes DEF Books, Accounting, Pending
<1>5. SessionsOwned'
  BY <1>3 DEF Books, SessionsOwned, IdOf, ReleaseCount, BaseOK
<1>6. total' <= CapBound
  BY <1>3, CountTypes, ConstantsAssumption DEF Books
<1> QED
  BY <1>3, <1>4, <1>5, <1>6 DEF Books, OwedShape

\* Removing a batch D from the books and owing |D| in its place.
LEMMA BatchBooks ==
  ASSUME BaseOK, Books, NEW D, sessions' = Without(sessions, D),
         pc' = pc, total' = total
  PROVE  /\ IsFiniteSet(DOMAIN sessions')
         /\ SessionsOwned'
         /\ Owing' = Owing
         /\ Cardinality(DOMAIN sessions')
              = Cardinality(DOMAIN sessions) - Cardinality(D \cap DOMAIN sessions)
         /\ Cardinality(D \cap DOMAIN sessions) \in Nat
<1>1. DOMAIN sessions' = DOMAIN sessions \ D
  BY DEF Without
<1>2. IsFiniteSet(DOMAIN sessions')
  BY <1>1, FS_Subset DEF Books
<1>3. SessionsOwned'
  BY <1>1 DEF Books, SessionsOwned, IdOf
<1>4. Owing' = Owing
  BY DEF Owing
<1>5. D \cap DOMAIN sessions = DOMAIN sessions \cap D
  OBVIOUS
<1>6. Cardinality(DOMAIN sessions \ D)
        = Cardinality(DOMAIN sessions) - Cardinality(DOMAIN sessions \cap D)
  BY FS_Difference DEF Books
<1>7. Cardinality(D \cap DOMAIN sessions) \in Nat
  BY FS_Subset, FS_CardinalityType DEF Books
<1> QED
  BY <1>1, <1>2, <1>3, <1>4, <1>5, <1>6, <1>7

LEMMA EvictDeleteBooks ==
  ASSUME BaseOK, Books, EvictDelete
  PROVE  Books'
<1> DEFINE D == ev.ids
<1>1. sessions' = Without(sessions, D) /\ pc' = pc /\ total' = total /\ gc' = gc
  BY DEF EvictDelete
<1>2. /\ IsFiniteSet(DOMAIN sessions')
      /\ SessionsOwned'
      /\ Owing' = Owing
      /\ Cardinality(DOMAIN sessions')
           = Cardinality(DOMAIN sessions) - Cardinality(D \cap DOMAIN sessions)
      /\ Cardinality(D \cap DOMAIN sessions) \in Nat
  BY <1>1, BatchBooks
<1>3. ev.n = 0
  BY DEF Books, OwedShape, EvictDelete
<1>4. ev'.n = Cardinality(D \cap DOMAIN sessions) /\ ev'.pc = "deleted"
  BY DEF EvictDelete, BaseOK
<1> HIDE DEF D
<1>5. Accounting'
  BY <1>1, <1>2, <1>3, <1>4, CountTypes DEF Books, Accounting, Pending
<1>6. OwedShape'
  BY <1>1, <1>4 DEF Books, OwedShape
<1> QED
  BY <1>1, <1>2, <1>5, <1>6 DEF Books

LEMMA EvictCountBooks ==
  ASSUME BaseOK, Books, EvictCount
  PROVE  Books'
<1>1. /\ sessions' = sessions /\ pc' = pc /\ gc' = gc
      /\ total' = total - ev.n
      /\ ev'.n = 0
  BY DEF EvictCount, BaseOK
<1>2. Owing' = Owing
  BY <1>1 DEF Owing
<1>3. Accounting'
  BY <1>1, <1>2, CountTypes DEF Books, Accounting, Pending
<1>4. SessionsOwned'
  BY <1>1 DEF Books, SessionsOwned, IdOf
<1>5. total' <= CapBound
  BY <1>1, CountTypes, ConstantsAssumption DEF Books
<1> QED
  BY <1>1, <1>3, <1>4, <1>5 DEF Books, OwedShape

LEMMA GCSweepBooks ==
  ASSUME BaseOK, Books, GCSweep
  PROVE  Books'
<1>1. sessions' = Without(sessions, Expired) /\ pc' = pc /\ total' = total /\ ev' = ev
  BY DEF GCSweep
<1>2. Expired \cap DOMAIN sessions = Expired
  BY DEF Expired
<1>3. /\ IsFiniteSet(DOMAIN sessions')
      /\ SessionsOwned'
      /\ Owing' = Owing
      /\ Cardinality(DOMAIN sessions')
           = Cardinality(DOMAIN sessions) - Cardinality(Expired)
      /\ Cardinality(Expired) \in Nat
  BY <1>1, <1>2, BatchBooks
<1>4. gc.n = 0
  BY DEF GCSweep, Idle
<1>5. gc'.n = Cardinality(Expired) /\ (gc'.pc # "deleted" => gc'.n = 0)
  <2>1. CASE Expired = {}
    BY <2>1, FS_EmptySet DEF GCSweep, Idle
  <2>2. CASE Expired # {}
    BY <2>2 DEF GCSweep
  <2> QED
    BY <2>1, <2>2
<1>6. Accounting'
  BY <1>1, <1>3, <1>4, <1>5, CountTypes DEF Books, Accounting, Pending
<1>7. OwedShape'
  BY <1>1, <1>5 DEF Books, OwedShape
<1> QED
  BY <1>1, <1>3, <1>6, <1>7 DEF Books

LEMMA GCCountBooks ==
  ASSUME BaseOK, Books, GCCount
  PROVE  Books'
<1>1. /\ sessions' = sessions /\ pc' = pc /\ ev' = ev
      /\ total' = total - gc.n
      /\ gc'.n = 0
  BY DEF GCCount, BaseOK
<1>2. Owing' = Owing
  BY <1>1 DEF Owing
<1>3. Accounting'
  BY <1>1, <1>2, CountTypes DEF Books, Accounting, Pending
<1>4. SessionsOwned'
  BY <1>1 DEF Books, SessionsOwned, IdOf
<1>5. total' <= CapBound
  BY <1>1, CountTypes, ConstantsAssumption DEF Books
<1> QED
  BY <1>1, <1>3, <1>4, <1>5 DEF Books, OwedShape

\* Every step keeps the books.
LEMMA BooksStep ==
  ASSUME FreshSids, BaseOK, BaseOK', Books, Next
  PROVE  Books'
<1>1. ASSUME NEW f \in Flows, FlowStep(f) PROVE Books'
  <2>1. CASE Deny(f)
    BY <2>1, QuietStep DEF Deny, BaseOK
  <2>2. CASE Admit(f)
    BY <2>2, AdmitBooks
  <2>3. CASE MarkTorrent(f) \/ Touch(f)
    BY <2>3, QuietStep, SessionField DEF MarkTorrent, Touch, threadVars, BaseOK
  <2>4. CASE RegisterCloser(f)
    BY <2>4, QuietStep DEF RegisterCloser, threadVars
  <2>5. CASE ReleaseDelete(f)
    BY <2>5, ReleaseDeleteBooks
  <2>6. CASE ReleaseCount(f)
    BY <2>6, ReleaseCountBooks
  <2>7. CASE ReleaseCloser(f)
    BY <2>7, QuietStep DEF ReleaseCloser, BaseOK
  <2> QED
    BY <1>1, <2>1, <2>2, <2>3, <2>4, <2>5, <2>6, <2>7 DEF FlowStep
<1>2. CASE Configure
  BY <1>2, QuietStep DEF Configure, SetLimits, ClearLimits, SetDefault, threadVars
<1>3. ASSUME NEW ids, TakeClosers(ids)
      PROVE  \A f \in Flows :
               /\ pc[f] = "deleted" <=> pc'[f] = "deleted"
               /\ pc[f] \in {"live", "shut"} => pc'[f] \in {"live", "shut"}
  BY <1>3 DEF TakeClosers
<1>4. CASE Evict
  <2>1. ASSUME NEW S, NEW n, EvictPick(S, n) PROVE Books'
    <3>1. ev.n = 0 /\ ev.pc = "idle" /\ ev'.n = 0 /\ ev'.pc = "picked"
      BY <2>1 DEF EvictPick, Idle
    <3> QED
      BY <2>1, <3>1, QuietStep DEF EvictPick
  <2>2. CASE EvictClose
    <3>1. ev.n = 0 /\ ev.pc = "counted" /\ ev'.n = 0 /\ ev'.pc = "idle"
      BY <2>2 DEF EvictClose, Idle, Books, OwedShape
    <3> QED
      BY <1>3, <2>2, <3>1, QuietStep DEF EvictClose
  <2> QED
    BY <1>4, <2>1, <2>2, EvictDeleteBooks, EvictCountBooks
       DEF Evict, EvictOldest, EvictOldestGlobal
<1>5. CASE Collect
  <2>1. CASE GCClose
    <3>1. gc.n = 0 /\ gc.pc = "counted" /\ gc'.n = 0 /\ gc'.pc = "idle"
      BY <2>1 DEF GCClose, Idle, Books, OwedShape
    <3> QED
      BY <1>3, <2>1, <3>1, QuietStep DEF GCClose
  <2> QED
    BY <1>5, <2>1, GCSweepBooks, GCCountBooks DEF Collect
<1>6. CASE Time
  <2>1. ASSUME NEW id \in DOMAIN sessions, GoStale(id) PROVE Books'
    BY <2>1, QuietStep, SessionField DEF GoStale, threadVars, BaseOK
  <2>2. ASSUME NEW k \in Keys, AgeBurst(k) PROVE Books'
    BY <2>2, QuietStep DEF AgeBurst, threadVars
  <2> QED
    BY <1>6, <2>1, <2>2 DEF Time
<1> QED
  BY <1>1, <1>2, <1>4, <1>5, <1>6 DEF Next

LEMMA InitInv == Init => BaseOK /\ Books
<1> SUFFICES ASSUME Init PROVE BaseOK /\ Books
  OBVIOUS
<1>1. BaseOK
  BY DEF Init, BaseOK, IsPartialFn, Idle, FlowPC
<1>2. DOMAIN sessions = {} /\ Owing = {}
  BY DEF Init, Owing
<1>3. IsFiniteSet(DOMAIN sessions) /\ Accounting
  BY <1>2, FS_EmptySet DEF Init, Accounting, Pending, Idle
<1>4. OwedShape /\ SessionsOwned /\ total <= CapBound
  BY <1>2, ConstantsAssumption DEF Init, OwedShape, SessionsOwned, Idle
<1> QED
  BY <1>1, <1>3, <1>4 DEF Books

\* A step in which nothing happens.
LEMMA Stutter ==
  ASSUME BaseOK, Books, UNCHANGED vars
  PROVE  BaseOK' /\ Books'
BY DEF vars, BaseOK, Books, OwedShape, SessionsOwned, IdOf, Accounting, Pending,
       Owing, IsPartialFn

\* The invariant holds in every reachable state: whatever removes a session,
\* in whatever order, the books are kept.
THEOREM BooksAreKept ==
  ASSUME FreshSids
  PROVE  Spec => [](BaseOK /\ Books)
<1>1. BaseOK /\ Books /\ [Next]_vars => (BaseOK /\ Books)'
  <2> SUFFICES ASSUME BaseOK, Books, [Next]_vars
               PROVE  (BaseOK /\ Books)'
    OBVIOUS
  <2>1. CASE Next
    <3>1. BaseOK'
      BY <2>1, FlowTypes, OtherTypes DEF Next, Books
    <3> QED
      BY <2>1, <3>1, BooksStep
  <2>2. CASE UNCHANGED vars
    BY <2>2, Stutter
  <2> QED
    BY <2>1, <2>2
<1> QED
  BY <1>1, InitInv, PTL DEF Spec

\* The manager's type invariant; in particular totalSessions is never
\* negative, although four paths lower it without looking.
THEOREM TypeCorrect ==
  ASSUME FreshSids
  PROVE  Spec => []TypeOK
<1>1. BaseOK /\ Books => TypeOK
  BY CountTypes DEF BaseOK, Books, TypeOK, Accounting, Pending
<1> QED
  BY <1>1, BooksAreKept, PTL

\* Each session removed by Release, EvictOldest, EvictOldestGlobal or
\* gcExpired is subtracted from totalSessions exactly once.
THEOREM AccountingHolds ==
  ASSUME FreshSids
  PROVE  Spec => []Accounting
BY BooksAreKept, PTL DEF Books

\* The number of sessions never exceeds the largest configured GlobalCap.
THEOREM GlobalCapIsHeld ==
  ASSUME FreshSids
  PROVE  Spec => []GlobalCapHolds
<1>1. BaseOK /\ Books => GlobalCapHolds
  BY CountTypes, ConstantsAssumption
     DEF Books, Accounting, Pending, GlobalCapHolds
<1> QED
  BY <1>1, BooksAreKept, PTL

\* A cap lowered by SetDefault bites at the very next admission.
THEOREM LoweredCapHolds ==
  ASSUME FreshSids
  PROVE  Spec => LoweredCapBites
<1> DEFINE Grows == ~(DOMAIN sessions' \subseteq DOMAIN sessions)
           Within == Cardinality(DOMAIN sessions') <= defaults.global
<1>1. BaseOK /\ Books /\ [Next]_vars => [Grows => Within]_vars
  <2> SUFFICES ASSUME BaseOK, Books, Next, Grows
               PROVE  Within
    OBVIOUS
  <2>1. PICK f \in Flows : Admit(f)
    <3>1. \A D : DOMAIN Without(sessions, D) \subseteq DOMAIN sessions
      BY DEF Without
    <3>2. CASE \E f \in Flows : FlowStep(f)
      BY <3>1, <3>2, SessionField
         DEF FlowStep, Deny, MarkTorrent, Touch, RegisterCloser, ReleaseDelete,
             ReleaseCount, ReleaseCloser, BaseOK
    <3>3. CASE Configure
      BY <3>3 DEF Configure, SetLimits, ClearLimits, SetDefault
    <3>4. CASE Evict
      BY <3>1, <3>4 DEF Evict, EvictOldest, EvictOldestGlobal, EvictPick,
                        EvictDelete, EvictCount, EvictClose
    <3>5. CASE Collect
      BY <3>1, <3>5 DEF Collect, GCSweep, GCCount, GCClose
    <3>6. CASE Time
      BY <3>6, SessionField DEF Time, GoStale, AgeBurst, BaseOK
    <3> QED
      BY <3>2, <3>3, <3>4, <3>5, <3>6 DEF Next
  <2>2. Books' /\ total' = total + 1 /\ ev' = ev /\ gc' = gc
    BY <2>1, AdmitBooks DEF Admit
  <2>3. BaseOK'
    BY <2>1, FlowTypes DEF FlowStep
  <2>4. /\ Cardinality(DOMAIN sessions') \in Nat
        /\ Cardinality(Owing') \in Nat
        /\ ev.n \in Nat /\ gc.n \in Nat /\ total \in Int
    <3>1. IsFiniteSet(DOMAIN sessions') /\ IsFiniteSet(Owing')
      <4>1. Owing' \in SUBSET Flows
        BY DEF Owing
      <4> QED
        BY <2>2, <4>1, FS_Subset, ConstantsAssumption DEF Books
    <3> QED
      BY <3>1, CountTypes, FS_CardinalityType DEF Books
  <2>5. total < defaults.global
    <3>1. defaults.global \in 1..CapBound /\ CapBound \in Nat
      BY CapTypes
    <3>2. ~(defaults.global > 0 /\ total >= defaults.global)
      BY <2>1 DEF Admit, Refused
    <3> QED
      BY <2>4, <3>1, <3>2
  <2>6. total' = Cardinality(DOMAIN sessions') + (Cardinality(Owing') + ev.n + gc.n)
    BY <2>2 DEF Books, Accounting, Pending
  <2>7. defaults.global \in Int
    BY CapTypes
  <2> QED
    BY <2>2, <2>4, <2>5, <2>6, <2>7
<1> QED
  BY <1>1, BooksAreKept, PTL DEF Spec, LoweredCapBites
=============================================================================
