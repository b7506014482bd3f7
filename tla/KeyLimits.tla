----------------------------- MODULE KeyLimits -----------------------------
(***************************************************************************)
(* Admission control of the server: core/keylimits/keylimits.go and its    *)
(* caller serveWhisperaConn (app/server/transport.go).                     *)
(*                                                                         *)
(* A flow is one accepted tunnel connection.  It is admitted under its     *)
(* user's key, served by a goroutine of its own, and released when that    *)
(* goroutine returns.  Meanwhile sessions are also removed by EvictOldest, *)
(* by EvictOldestGlobal and by the garbage collector.  Each of the three   *)
(* removers deletes under m.mu, then lowers totalSessions after the lock   *)
(* is dropped, then looks at the closers under another lock: these are     *)
(* separate steps here.  Admit runs under m.mu from its first to its last  *)
(* line; a decrement that lands between its load and its increment of      *)
(* totalSessions can be moved after it, so it is one step.                 *)
(*                                                                         *)
(* Abstracted: message texts; the clock (a session may become "stale",     *)
(* older than its TTL, and a burst window "old", at any time; StartedAt is *)
(* the admission's rank); empty inner maps.                                *)
(***************************************************************************)
EXTENDS Integers, FiniteSets

CONSTANTS
  Flows,         \* accepted connections
  Keys,          \* users' key identifiers
  Sids,          \* session identifiers a flow can present
  IPs,           \* remote addresses
  KeyOf,         \* the key each flow authenticated with
  SidOf,         \* the session identifier each flow presented
  IPOf,          \* the address each flow comes from
  LimitChoices,  \* the Limits values an operator may configure
  CapBound,      \* no configured GlobalCap is larger
  EvictSizes,    \* the arguments EvictOldest is called with
  Reconfigure,   \* whether limits change while the server runs
  NoLimits       \* a key without limits of its own

Limits == [max : Nat, global : Nat, ips : Nat, burst : Nat]

ASSUME ConstantsAssumption ==
  /\ IsFiniteSet(Flows)
  /\ KeyOf \in [Flows -> Keys]
  /\ SidOf \in [Flows -> Sids]
  /\ IPOf \in [Flows -> IPs]
  /\ LimitChoices \subseteq Limits
  /\ CapBound \in Nat
  /\ \A l \in LimitChoices : l.global \in 1..CapBound
  /\ EvictSizes \subseteq Nat
  /\ Reconfigure \in BOOLEAN
  /\ NoLimits \notin LimitChoices

Ids == Keys \X Sids

IdOf(f) == <<KeyOf[f], SidOf[f]>>

\* The client draws a fresh random session identifier for every connection.
FreshSids == \A f, g \in Flows : IdOf(f) = IdOf(g) => f = g

VARIABLES
  defaults,   \* m.defaultLimits
  keyLimits,  \* m.keyLimits
  sessions,   \* m.sessions, flattened: a function on the live <<key, sid>>
  burst,      \* m.burst: attempts counted in each key's window
  oldBurst,   \* keys whose window began more than a minute ago
  total,      \* m.totalSessions
  closers,    \* m.closers, flattened: <<key, sid>> to the flow it closes
  clock,      \* number of admissions so far, the source of StartedAt
  pc,         \* where each flow's goroutine is
  ev,         \* the evicting call in progress
  gc          \* the collection in progress

vars == <<defaults, keyLimits, sessions, burst, oldBurst, total, closers,
          clock, pc, ev, gc>>

limitVars == <<defaults, keyLimits>>
threadVars == <<pc, ev, gc>>

Session == [ip : IPs, torrent : BOOLEAN, stale : BOOLEAN, started : Nat]

\* f is a partial function from S to T.
IsPartialFn(f, S, T) == DOMAIN f \subseteq S /\ f \in [DOMAIN f -> T]

Idle == [pc |-> "idle", ids |-> {}, n |-> 0]

limitsFor(k) == IF keyLimits[k] = NoLimits THEN defaults ELSE keyLimits[k]

SessionsOf(k) == {id \in DOMAIN sessions : id[1] = k}

normalCount(k) == Cardinality({id \in SessionsOf(k) : ~sessions[id].torrent})

countUniqueIPs(k, adding) ==
  Cardinality({sessions[id].ip : id \in SessionsOf(k)} \cup {adding})

Without(f, S) == [x \in DOMAIN f \ S |-> f[x]]

With(f, x, v) == [y \in DOMAIN f \cup {x} |-> IF y = x THEN v ELSE f[y]]

Init ==
  /\ defaults \in LimitChoices
  /\ keyLimits = [k \in Keys |-> NoLimits]
  /\ sessions = [id \in {} |-> 0]
  /\ burst = [k \in Keys |-> 0]
  /\ oldBurst = {}
  /\ total = 0
  /\ closers = [id \in {} |-> 0]
  /\ clock = 0
  /\ pc = [f \in Flows |-> "new"]
  /\ ev = Idle
  /\ gc = Idle

-----------------------------------------------------------------------------
(* Limits an operator changes.                                             *)

SetLimits(k, l) ==
  /\ keyLimits' = [keyLimits EXCEPT ![k] = l]
  /\ UNCHANGED <<defaults, sessions, burst, oldBurst, total, closers, clock,
                 threadVars>>

ClearLimits(k) ==
  /\ keyLimits' = [keyLimits EXCEPT ![k] = NoLimits]
  /\ UNCHANGED <<defaults, sessions, burst, oldBurst, total, closers, clock,
                 threadVars>>

SetDefault(l) ==
  /\ defaults' = l
  /\ UNCHANGED <<keyLimits, sessions, burst, oldBurst, total, closers, clock,
                 threadVars>>

-----------------------------------------------------------------------------
(* A flow: admission, service, release.                                    *)

WindowCount(k) == IF k \in oldBurst THEN 0 ELSE burst[k]

\* The first check: BurstPerMinute.  It counts the attempt even when a later
\* check refuses it.
BurstFull(k) ==
  /\ limitsFor(k).burst > 0
  /\ WindowCount(k) >= limitsFor(k).burst

CountBurst(k) ==
  IF limitsFor(k).burst > 0
    THEN /\ burst' = [burst EXCEPT
                        ![k] = IF BurstFull(k) THEN @ ELSE WindowCount(k) + 1]
         /\ oldBurst' = oldBurst \ {k}
    ELSE UNCHANGED <<burst, oldBurst>>

\* Mutant of Refused: ">" for ">=" in the MaxActiveSessions check.
Refused_OffByOne(f) ==
  LET k == KeyOf[f]
      l == limitsFor(k)
  IN  \/ BurstFull(k)
      \/ defaults.global > 0 /\ total >= defaults.global
      \/ l.max > 0 /\ normalCount(k) > l.max
      \/ l.ips > 0 /\ countUniqueIPs(k, IPOf[f]) > l.ips

\* Mutant of Refused: the global cap taken from the key's own limits.
Refused_KeyGlobal(f) ==
  LET k == KeyOf[f]
      l == limitsFor(k)
  IN  \/ BurstFull(k)
      \/ l.global > 0 /\ total >= l.global
      \/ l.max > 0 /\ normalCount(k) >= l.max
      \/ l.ips > 0 /\ countUniqueIPs(k, IPOf[f]) > l.ips

\* The remaining checks, in the code's order; each only refuses.
Refused(f) ==
  LET k == KeyOf[f]
      l == limitsFor(k)
  IN  \/ BurstFull(k)
      \/ defaults.global > 0 /\ total >= defaults.global
      \/ l.max > 0 /\ normalCount(k) >= l.max
      \/ l.ips > 0 /\ countUniqueIPs(k, IPOf[f]) > l.ips

Deny(f) ==
  /\ pc[f] = "new"
  /\ Refused(f)
  /\ CountBurst(KeyOf[f])
  /\ pc' = [pc EXCEPT ![f] = "denied"]
  /\ UNCHANGED <<limitVars, sessions, total, closers, clock, ev, gc>>

Admit(f) ==
  /\ pc[f] = "new"
  /\ ~Refused(f)
  /\ CountBurst(KeyOf[f])
  /\ sessions' = With(sessions, IdOf(f), [ip |-> IPOf[f], torrent |-> FALSE,
                                          stale |-> FALSE, started |-> clock])
  /\ total' = total + 1
  /\ clock' = clock + 1
  /\ pc' = [pc EXCEPT ![f] = "live"]
  /\ UNCHANGED <<limitVars, closers, ev, gc>>

MarkTorrent(f) ==
  /\ pc[f] = "live"
  /\ IdOf(f) \in DOMAIN sessions
  /\ sessions' = [sessions EXCEPT ![IdOf(f)].torrent = TRUE]
  /\ UNCHANGED <<limitVars, burst, oldBurst, total, closers, clock, threadVars>>

Touch(f) ==
  /\ pc[f] = "live"
  /\ IdOf(f) \in DOMAIN sessions
  /\ sessions' = [sessions EXCEPT ![IdOf(f)].stale = FALSE]
  /\ UNCHANGED <<limitVars, burst, oldBurst, total, closers, clock, threadVars>>

RegisterCloser(f) ==
  /\ pc[f] = "live"
  /\ closers' = With(closers, IdOf(f), f)
  /\ UNCHANGED <<limitVars, sessions, burst, oldBurst, total, clock, threadVars>>

\* The relay returned, by itself or because the closer shut the connection:
\* Release deletes the session under m.mu ...
ReleaseDelete(f) ==
  /\ pc[f] \in {"live", "shut"}
  /\ sessions' = Without(sessions, {IdOf(f)})
  /\ pc' = [pc EXCEPT ![f] = IF IdOf(f) \in DOMAIN sessions THEN "deleted"
                                                            ELSE "unhook"]
  /\ UNCHANGED <<limitVars, burst, oldBurst, total, closers, clock, ev, gc>>

\* ... lowers the counter if it deleted one ...
ReleaseCount(f) ==
  /\ pc[f] = "deleted"
  /\ total' = total - 1
  /\ pc' = [pc EXCEPT ![f] = "unhook"]
  /\ UNCHANGED <<limitVars, sessions, burst, oldBurst, closers, clock, ev, gc>>

\* ... and forgets the closer under closersMu.
ReleaseCloser(f) ==
  /\ pc[f] = "unhook"
  /\ closers' = Without(closers, {IdOf(f)})
  /\ pc' = [pc EXCEPT ![f] = "done"]
  /\ UNCHANGED <<limitVars, sessions, burst, oldBurst, total, clock, ev, gc>>

-----------------------------------------------------------------------------
(* Eviction of the oldest sessions, of one key or of all.                  *)

\* The n members of S that started first (all of them when n is larger).
Oldest(S, n) ==
  {id \in S : Cardinality({x \in S : sessions[x].started < sessions[id].started}) < n}

EvictPick(S, n) ==
  /\ ev = Idle
  /\ ev' = [pc |-> "picked", ids |-> Oldest(S, n), n |-> 0]
  /\ UNCHANGED <<limitVars, sessions, burst, oldBurst, total, closers, clock,
                 pc, gc>>

EvictOldest(k, n) == EvictPick(SessionsOf(k), n)

EvictOldestGlobal(n) == EvictPick(DOMAIN sessions, n)

\* Mutant of EvictDelete: counts the sessions it picked, not those it found.
EvictDelete_CountsPicked ==
  /\ ev.pc = "picked"
  /\ sessions' = Without(sessions, ev.ids)
  /\ ev' = [ev EXCEPT !.pc = "deleted", !.n = Cardinality(ev.ids)]
  /\ UNCHANGED <<limitVars, burst, oldBurst, total, closers, clock, pc, gc>>

EvictDelete ==
  /\ ev.pc = "picked"
  /\ sessions' = Without(sessions, ev.ids)
  /\ ev' = [ev EXCEPT !.pc = "deleted",
                      !.n = Cardinality(ev.ids \cap DOMAIN sessions)]
  /\ UNCHANGED <<limitVars, burst, oldBurst, total, closers, clock, pc, gc>>

EvictCount ==
  /\ ev.pc = "deleted"
  /\ total' = total - ev.n
  /\ ev' = [ev EXCEPT !.pc = "counted", !.n = 0]
  /\ UNCHANGED <<limitVars, sessions, burst, oldBurst, closers, clock, pc, gc>>

\* The closers registered for ids are taken off the books and called: each
\* closes its flow's connection, and the flow's relay is bound to return.
TakeClosers(ids) ==
  LET called == {closers[id] : id \in ids \cap DOMAIN closers}
  IN  /\ closers' = Without(closers, ids)
      /\ pc' = [f \in Flows |-> IF f \in called /\ pc[f] = "live" THEN "shut"
                                                               ELSE pc[f]]

EvictClose ==
  /\ ev.pc = "counted"
  /\ TakeClosers(ev.ids)
  /\ ev' = Idle
  /\ UNCHANGED <<limitVars, sessions, burst, oldBurst, total, clock, gc>>

-----------------------------------------------------------------------------
(* The garbage collector, once a minute.                                   *)

\* The stale sessions no closer vouches for.
Expired == {id \in DOMAIN sessions \ DOMAIN closers : sessions[id].stale}

GCSweep ==
  /\ gc = Idle
  /\ sessions' = Without(sessions, Expired)
  /\ \E ended \in SUBSET oldBurst :   \* windows older than five minutes
       /\ burst' = [k \in Keys |-> IF k \in ended THEN 0 ELSE burst[k]]
       /\ oldBurst' = oldBurst \ ended
  /\ gc' = IF Expired = {} THEN Idle
           ELSE [pc |-> "deleted", ids |-> Expired, n |-> Cardinality(Expired)]
  /\ UNCHANGED <<limitVars, total, closers, clock, pc, ev>>

\* Mutant of GCCount: the collector never lowers the counter.
GCCount_Lost ==
  /\ gc.pc = "deleted"
  /\ gc' = [gc EXCEPT !.pc = "counted", !.n = 0]
  /\ UNCHANGED <<limitVars, sessions, burst, oldBurst, total, closers, clock,
                 pc, ev>>

GCCount ==
  /\ gc.pc = "deleted"
  /\ total' = total - gc.n
  /\ gc' = [gc EXCEPT !.pc = "counted", !.n = 0]
  /\ UNCHANGED <<limitVars, sessions, burst, oldBurst, closers, clock, pc, ev>>

GCClose ==
  /\ gc.pc = "counted"
  /\ TakeClosers(gc.ids)
  /\ gc' = Idle
  /\ UNCHANGED <<limitVars, sessions, burst, oldBurst, total, clock, ev>>

-----------------------------------------------------------------------------
(* The passing of time.                                                    *)

GoStale(id) ==
  /\ ~sessions[id].stale
  /\ sessions' = [sessions EXCEPT ![id].stale = TRUE]
  /\ UNCHANGED <<limitVars, burst, oldBurst, total, closers, clock, threadVars>>

AgeBurst(k) ==
  /\ burst[k] > 0 /\ k \notin oldBurst
  /\ oldBurst' = oldBurst \cup {k}
  /\ UNCHANGED <<limitVars, sessions, burst, total, closers, clock, threadVars>>

-----------------------------------------------------------------------------
FlowStep(f) ==
  \/ Deny(f) \/ Admit(f)
  \/ MarkTorrent(f) \/ Touch(f) \/ RegisterCloser(f)
  \/ ReleaseDelete(f) \/ ReleaseCount(f) \/ ReleaseCloser(f)

Configure ==
  /\ Reconfigure
  /\ \/ \E k \in Keys, l \in LimitChoices : SetLimits(k, l)
     \/ \E k \in Keys : ClearLimits(k)
     \/ \E l \in LimitChoices : SetDefault(l)

Evict ==
  \/ \E k \in Keys, n \in EvictSizes : EvictOldest(k, n)
  \/ \E n \in EvictSizes : EvictOldestGlobal(n)
  \/ EvictDelete \/ EvictCount \/ EvictClose

Collect == GCSweep \/ GCCount \/ GCClose

Time ==
  \/ \E id \in DOMAIN sessions : GoStale(id)
  \/ \E k \in Keys : AgeBurst(k)

Next ==
  \/ \E f \in Flows : FlowStep(f)
  \/ Configure
  \/ Evict
  \/ Collect
  \/ Time

Spec == Init /\ [][Next]_vars

-----------------------------------------------------------------------------
(* Properties.                                                             *)

FlowPC == {"new", "denied", "live", "shut", "deleted", "unhook", "done"}

\* The type invariant of the limits manager's maps and of its callers.
TypeOK ==
  /\ defaults \in LimitChoices
  /\ keyLimits \in [Keys -> LimitChoices \cup {NoLimits}]
  /\ IsPartialFn(sessions, Ids, Session)
  /\ burst \in [Keys -> Nat]
  /\ oldBurst \subseteq Keys
  /\ total \in Nat
  /\ IsPartialFn(closers, Ids, Flows)
  /\ clock \in Nat
  /\ pc \in [Flows -> FlowPC]
  /\ ev \in [pc : {"idle", "picked", "deleted", "counted"},
             ids : SUBSET Ids, n : Nat]
  /\ gc \in [pc : {"idle", "deleted", "counted"}, ids : SUBSET Ids, n : Nat]

\* Flows that have deleted their session and not yet lowered the counter.
Owing == {f \in Flows : pc[f] = "deleted"}

\* Sessions deleted whose decrement of totalSessions has yet to land.
Pending == Cardinality(Owing) + ev.n + gc.n

\* totalSessions is the number of sessions plus the decrements still owed:
\* Release, EvictOldest, EvictOldestGlobal and gcExpired, in any order and
\* on the same session, subtract each session exactly once.
Accounting == total = Cardinality(DOMAIN sessions) + Pending

\* The number of sessions on the books never exceeds the largest GlobalCap
\* configured, although Admit compares the cap with a counter its removers
\* lower late.
GlobalCapHolds == Cardinality(DOMAIN sessions) <= CapBound

\* A step that adds a session ends within the GlobalCap in force at that
\* moment: a cap lowered by SetDefault while sessions are being removed bites
\* at the very next admission.
LoweredCapBites ==
  [][~(DOMAIN sessions' \subseteq DOMAIN sessions)
       => Cardinality(DOMAIN sessions') <= defaults.global]_vars

\* With fixed limits, no key ever has more ordinary (not torrent) sessions
\* than MaxActiveSessions, nor more addresses than SoftIPCap.
KeyCapsHold ==
  ~Reconfigure => \A k \in Keys :
    /\ limitsFor(k).max > 0 => normalCount(k) <= limitsFor(k).max
    /\ limitsFor(k).ips > 0 =>
         Cardinality({sessions[id].ip : id \in SessionsOf(k)}) <= limitsFor(k).ips

\* A closer on the books belongs to a flow that is admitted and not yet fully
\* released: no closer outlives its flow, whoever removed the session first,
\* so none can ever be called for a connection that is gone.
ClosersOwned ==
  \A id \in DOMAIN closers :
    /\ IdOf(closers[id]) = id
    /\ pc[closers[id]] \in {"live", "shut", "deleted", "unhook"}

\* Nothing is in progress.
Quiescent ==
  /\ \A f \in Flows : pc[f] \in {"new", "denied", "live", "shut", "done"}
  /\ ev = Idle /\ gc = Idle

\* Several flows of one session take one slot
\* (TestSameSessionAcrossFlowsTakesOneSlot): with nothing in progress the
\* counter that GlobalCap is compared with is the number of sessions.
OneSlotPerSession == Quiescent => total = Cardinality(DOMAIN sessions)

Ended == \A f \in Flows : pc[f] \in {"denied", "done"}

\* Once every flow has ended, the counter comes back to zero and no closer
\* is left behind.
DrainsToZero == Ended ~> (total = 0 /\ closers = [id \in {} |-> 0])
=============================================================================
