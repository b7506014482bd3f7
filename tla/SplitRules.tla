----------------------------- MODULE SplitRules -----------------------------
(***************************************************************************)
(* The split tunnel's rules (common/split_tunnel/split_tunnel.go): they    *)
(* are collected at start (setup.go), kept sorted and free of duplicates,  *)
(* and compiled into a snapshot that lookups read without a lock.  The     *)
(* snapshot holds a table per kind of name rule, and for addresses a list  *)
(* of disjoint ranges made by a sweep over the ends of the rules' ranges.  *)
(*                                                                         *)
(* Addresses are 0..MaxAddr, names sequences of labels, last label the     *)
(* top-level domain.  What the country list says is in CountryVerdicts.    *)
(***************************************************************************)
EXTENDS Integers, Sequences, FiniteSetsExt, SequencesExt

CONSTANTS
  MaxAddr, Hosts,
  DefaultRules,  \* what CreateDefaultRules adds, a sequence
  AppRules,      \* rules an application can pass
  FileRules,     \* rules a configuration file can hold
  MaxLoad        \* rules in one load

Addrs == 0..MaxAddr
Country == "country"  \* no rule decides: ask the country list
None == -1

VARIABLES
  stage,     \* progress of setupSplitTunnel
  rules,     \* SplitTunnelManager.rules
  enabled,   \* config.Enabled
  byCountry,
  snap,      \* the snapshot published last: a sequence of at most one
  loaded     \* every rule ever added, in order

srVars == <<stage, rules, enabled, byCountry, snap, loaded>>

Init ==
  /\ stage = "default" /\ rules = <<>> /\ enabled = FALSE /\ byCountry = TRUE
  /\ snap = <<>> /\ loaded = <<>>

-----------------------------------------------------------------------------
(* Compiling.                                                              *)

keyOf(r) == <<r.kind, r.value>>

\* Stable: rules of one priority stay in the order they came.
sortRulesByPriority(rs) ==
  LET before(i, j) == rs[i].prio > rs[j].prio \/ (rs[i].prio = rs[j].prio /\ i < j)
      place == SetToSortSeq(DOMAIN rs, before)
  IN [i \in DOMAIN rs |-> rs[place[i]]]

\* The first rule of each key stays.
Unique(rs) ==
  FoldLeft(LAMBDA acc, r : IF \E i \in DOMAIN acc : keyOf(acc[i]) = keyOf(r) THEN acc ELSE Append(acc, r),
           <<>>, rs)

\* Mutant of flattenRanges: a range ends at its last address, not after it.
flattenRanges_EndsEarly(raw) ==
  LET starts == {r.lo : r \in raw}
      ends == {r.hi : r \in raw}
      points == SetToSortSeq(starts \cup ends, <)
      At(i) ==
        LET active == {r \in raw : r.lo <= points[i] /\ r.hi > points[i]} IN
        [lo |-> points[i], hi |-> IF i < Len(points) THEN points[i + 1] - 1 ELSE MaxAddr,
         idx |-> IF active = {} THEN None ELSE Min({r.idx : r \in active})]
  IN SelectSeq([i \in DOMAIN points |-> At(i)], LAMBDA s : s.idx # None)

\* The sweep: at every address where a range starts or one has just ended,
\* the smallest active rule wins up to the next such address; a piece that
\* continues its predecessor with the same rule is joined to it.  A range
\* that reaches the last address has no end event.
flattenRanges(raw) ==
  LET events == {r.lo : r \in raw} \cup {r.hi + 1 : r \in {q \in raw : q.hi < MaxAddr}}
      points == SetToSortSeq(events, <)
      Step(acc, i) ==
        LET at == points[i]
            active == (acc.active \cup {r \in raw : r.lo = at}) \ {r \in raw : r.hi + 1 = at}
            best == Min({r.idx : r \in active})
            end == IF i < Len(points) THEN points[i + 1] - 1 ELSE MaxAddr
            n == Len(acc.out)
            out == IF active = {} THEN acc.out
                   ELSE IF n > 0 /\ acc.out[n].idx = best /\ acc.out[n].hi + 1 = at
                     THEN [acc.out EXCEPT ![n].hi = end]
                     ELSE Append(acc.out, [lo |-> at, hi |-> end, idx |-> best])
        IN [active |-> active, out |-> out]
  IN FoldLeft(Step, [active |-> {}, out |-> <<>>], [i \in DOMAIN points |-> i]).out

\* The table of one kind: value -> index of its rule, disabled rules left out.
Table(rs, kind) ==
  [v \in {rs[i].value : i \in {j \in DOMAIN rs : rs[j].kind = kind /\ rs[j].on}} |->
     Min({i \in DOMAIN rs : rs[i].kind = kind /\ rs[i].on /\ rs[i].value = v})]

publish(rs, on, bc) ==
  <<[enabled |-> on, byCountry |-> bc,
     suffix |-> Table(rs, "domain"), exact |-> Table(rs, "domain-exact"),
     keyword |-> Table(rs, "domain-keyword"),
     ranges |-> flattenRanges({[lo |-> rs[i].value[1], hi |-> rs[i].value[2], idx |-> i]
                                 : i \in {j \in DOMAIN rs : rs[j].kind = "ip" /\ rs[j].on}}),
     direct |-> [i \in DOMAIN rs |-> rs[i].action]]>>

\* Append, sort, drop duplicates, publish, all under the lock.
Add(new, bc) ==
  /\ rules' = Unique(sortRulesByPriority(rules \o new))
  /\ byCountry' = bc
  /\ snap' = publish(rules', enabled, bc)
  /\ loaded' = loaded \o new

-----------------------------------------------------------------------------
(* setupSplitTunnel.                                                       *)

\* One AddRule per default rule.
CreateDefaultRules ==
  /\ stage = "default"
  /\ Len(loaded) < Len(DefaultRules)
  /\ Add(<<DefaultRules[Len(loaded) + 1]>>, byCountry)
  /\ UNCHANGED <<stage, enabled>>

\* The rules the application passes, and whether it lists the country; a
\* rule to reject is dropped, and without input nothing changes.
LoadAppRules ==
  /\ stage = "default" /\ Len(loaded) = Len(DefaultRules)
  /\ stage' = "enable"
  /\ \/ \E n \in 0..MaxLoad, bc \in BOOLEAN : \E given \in [1..n -> AppRules] :
          Add(SelectSeq(given, LAMBDA r : r.action # "reject"), bc)
     \/ UNCHANGED <<rules, byCountry, snap, loaded>>
  /\ UNCHANGED enabled

SetEnabled ==
  /\ stage = "enable"
  /\ enabled' = TRUE /\ snap' = publish(rules, TRUE, byCountry)
  /\ stage' = "file"
  /\ UNCHANGED <<rules, byCountry, loaded>>

\* The file is read when the configuration names one.
LoadConfig ==
  /\ stage = "file"
  /\ \/ \E n \in 0..MaxLoad : \E given \in [1..n -> FileRules] : Add(given, byCountry)
     \/ UNCHANGED <<rules, byCountry, snap, loaded>>
  /\ stage' = "ready"
  /\ UNCHANGED enabled

Next == CreateDefaultRules \/ LoadAppRules \/ SetEnabled \/ LoadConfig

Spec == Init /\ [][Next]_srVars

-----------------------------------------------------------------------------
(* Lookups.                                                                *)

\* The first range that does not end before a, if it has begun.
bypassIP(s, a) ==
  LET reach == {i \in DOMAIN s.ranges : s.ranges[i].hi >= a}
      i == Min(reach)
  IN IF reach # {} /\ s.ranges[i].lo <= a THEN s.direct[s.ranges[i].idx] ELSE Country

\* The rule of smallest index among the tables' answers.
bypassHostReason(s, h) ==
  LET found == {s.exact[v] : v \in {h} \cap DOMAIN s.exact}
               \cup {s.suffix[v] : v \in Suffixes(h) \cap DOMAIN s.suffix}
               \cup {s.keyword[v] : v \in {w \in DOMAIN s.keyword : \E i \in DOMAIN h : h[i] = w}}
  IN IF found = {} THEN Country ELSE s.direct[Min(found)]

Off == "tunnel"

\* BypassDecision and its variants: before a snapshot, or while disabled, the
\* tunnel takes everything.
Decision(x, isIP) ==
  IF snap = <<>> \/ ~snap[1].enabled THEN Off
  ELSE IF isIP THEN bypassIP(snap[1], x) ELSE bypassHostReason(snap[1], x)

-----------------------------------------------------------------------------
(* What the rules promise.                                                 *)

Matches(r, x, isIP) ==
  CASE r.kind = "ip" -> isIP /\ r.value[1] <= x /\ x <= r.value[2]
    [] r.kind = "domain" -> ~isIP /\ IsSuffix(r.value, x)
    [] r.kind = "domain-exact" -> ~isIP /\ r.value = x
    [] r.kind = "domain-keyword" -> ~isIP /\ \E i \in DOMAIN x : x[i] = r.value

\* Rule i comes before rule j: higher priority, or loaded earlier.
Before(i, j) == loaded[i].prio > loaded[j].prio \/ (loaded[i].prio = loaded[j].prio /\ i < j)

\* A rule counts when no rule before it says something of the same key.
Counts(i) == loaded[i].on /\ \A j \in DOMAIN loaded : Before(j, i) => keyOf(loaded[j]) # keyOf(loaded[i])

Promised(x, isIP) ==
  LET hits == {i \in DOMAIN loaded : Counts(i) /\ Matches(loaded[i], x, isIP)} IN
  IF ~enabled THEN Off
  ELSE IF hits = {} THEN Country
  ELSE loaded[CHOOSE i \in hits : \A j \in hits \ {i} : Before(i, j)].action

\* After any sequence of loads the tables and the swept ranges decide every
\* address and every name as the first of all the rules ever loaded does, in
\* order of priority and then of arrival (recompileLocked, publishLocked,
\* flattenRanges, bypassIP, bypassHostReason).
SnapshotDecides ==
  /\ \A a \in Addrs : Decision(a, TRUE) = Promised(a, TRUE)
  /\ \A h \in Hosts : Decision(h, FALSE) = Promised(h, FALSE)
=============================================================================
