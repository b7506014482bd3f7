--------------------------- MODULE CountryVerdicts ---------------------------
(***************************************************************************)
(* The country list of the split tunnel (common/split_tunnel/geoip.go) and *)
(* the verdicts made from it for names no rule decides (split_tunnel.go):  *)
(* a downloader that keeps the list fresh, a cache file, flows that ask,   *)
(* and learners that look a name up behind them.                           *)
(*                                                                         *)
(* A list is a set of addresses.  The resolver is external: it knows some  *)
(* names, and may answer or fail for the others.  One shard of the verdict *)
(* cache is modelled, of ShardMax names.  Waits count in steps of 15 s.    *)
(***************************************************************************)
EXTENDS Naturals, FiniteSetsExt

CONSTANTS
  Hosts, Flows, Addrs,
  Lists,         \* lists the source can serve, each a set of addresses
  Enough,        \* fewest networks of a list that is accepted
  ShardMax, RetryMin, RetryEmpty, RetryMax, Refresh,
  MaxTries, MaxAsks

None == {}
Urls == 1..2     \* the source and its mirror

VARIABLES
  ranges, etag,     \* GeoIPSet: the list in memory and the list its tag names
  file,             \* the cache file
  kpc, url, body, retry, wait,   \* KeepFresh
  verdict,          \* host -> verdict kept; a host without one is not in the domain
  fresh,            \* hosts whose verdict has not expired
  pending,          \* hosts being learned
  learn,            \* learners: set of records
  fpc, fhost, says, \* flows: where they are, the name, the verdict
  evidence,         \* host -> TRUE once an address of it was in a list in memory
  tries, asks

kfVars == <<ranges, etag, file, kpc, url, body, retry, wait>>
flVars == <<fpc, fhost, says>>
cvVars == <<kfVars, verdict, fresh, pending, learn, flVars, evidence, tries, asks>>

Empty == [h \in {} |-> FALSE]

\* A list too short to be the whole one is refused.
load(b) == Cardinality(b) >= Enough

\* An earlier run may have left a cache file.
Init ==
  /\ ranges = None /\ etag = None
  /\ file \in {None} \cup {l \in Lists : load(l)}
  /\ kpc = "load" /\ url = 1 /\ body = None /\ retry = RetryMin /\ wait = 0
  /\ verdict = Empty /\ fresh = {} /\ pending = {} /\ learn = {}
  /\ fpc = [f \in Flows |-> "idle"] /\ fhost \in [Flows -> Hosts] /\ says = [f \in Flows |-> FALSE]
  /\ evidence = {} /\ tries = 0 /\ asks = 0

-----------------------------------------------------------------------------
(* KeepFresh.                                                              *)

LoadFile ==
  /\ kpc = "load"
  /\ ranges' = IF load(file) THEN file ELSE ranges
  /\ kpc' = "get" /\ url' = 1
  /\ UNCHANGED <<etag, file, body, retry, wait>>

\* Request to one of the addresses.  It fails, or says that the tagged list
\* is still the latest, or sends a list, perhaps cut short.
Get ==
  /\ kpc = "get" /\ tries < MaxTries
  /\ \/ /\ IF url = 1 THEN url' = 2 /\ kpc' = kpc ELSE url' = url /\ kpc' = "failed"
        /\ UNCHANGED body
     \/ /\ etag # None /\ kpc' = "done" /\ UNCHANGED <<url, body>>
     \/ \E b \in Lists : body' = b /\ kpc' = "parse" /\ UNCHANGED url
  /\ tries' = tries + 1
  /\ UNCHANGED <<ranges, etag, file, retry, wait>>

Parse ==
  /\ kpc = "parse"
  /\ IF load(body)
       THEN ranges' = body /\ kpc' = "tag" /\ UNCHANGED url
       ELSE /\ UNCHANGED ranges
            /\ IF url = 1 THEN url' = 2 /\ kpc' = "get" ELSE url' = url /\ kpc' = "failed"
  /\ UNCHANGED <<etag, file, body, retry, wait>>

\* The answer may come without a tag.
Tag ==
  /\ kpc = "tag"
  /\ etag' \in {body, None} /\ kpc' = "write"
  /\ UNCHANGED <<ranges, file, url, body, retry, wait>>

\* Through a temporary file and a rename; a failure is only logged.
writeCache ==
  /\ kpc = "write"
  /\ file' \in {body, file}
  /\ body' = None /\ kpc' = "done"
  /\ UNCHANGED <<ranges, etag, url, retry, wait>>

\* The wait after a round: a day after a success; after a failure it doubles
\* up to a ceiling that is lower while there is no list at all.
KeepFresh ==
  /\ \/ /\ kpc = "done" /\ wait' = Refresh /\ retry' = RetryMin
     \/ /\ kpc = "failed"
        /\ LET ceiling == IF ranges = None THEN RetryEmpty ELSE RetryMax
               now == Min({retry, ceiling}) IN
           wait' = now /\ retry' = IF now < ceiling THEN 2 * now ELSE now
  /\ kpc' = "wait"
  /\ UNCHANGED <<ranges, etag, file, url, body>>

Again ==
  /\ kpc = "wait"
  /\ kpc' = "get" /\ url' = 1 /\ wait' = 0
  /\ UNCHANGED <<ranges, etag, file, body, retry>>

-----------------------------------------------------------------------------
(* Verdicts.                                                               *)

\* Contains for any of the addresses.
Inside(ips) == ips \cap ranges # {}

\* put: a full shard first drops what has expired, then everything.
put(h, v) ==
  LET left == IF Cardinality(DOMAIN verdict) >= ShardMax THEN DOMAIN verdict \cap fresh ELSE DOMAIN verdict
      kept == IF Cardinality(left) >= ShardMax THEN {} ELSE left
  IN /\ verdict' = [k \in kept \cup {h} |-> IF k = h THEN v ELSE verdict[k]]
     /\ fresh' = (fresh \cap kept) \cup {h}

Answer(f, v) == fpc' = [fpc EXCEPT ![f] = "idle"] /\ says' = [says EXCEPT ![f] = v]

\* byCountryVerdict: a fresh verdict answers.
Ask(f) ==
  /\ fpc[f] = "idle" /\ asks < MaxAsks /\ asks' = asks + 1
  /\ IF fhost[f] \in fresh
       THEN Answer(f, verdict[fhost[f]])
       ELSE fpc' = [fpc EXCEPT ![f] = "look"] /\ says' = [says EXCEPT ![f] = FALSE]
  /\ UNCHANGED <<fhost, verdict, fresh, pending, learn, evidence>>

\* No list: the tunnel.  A name the resolver knows is judged on the spot; any
\* other goes through the tunnel and is learned behind it.
Look(f) ==
  /\ fpc[f] = "look"
  /\ \/ ranges = None /\ Answer(f, FALSE) /\ UNCHANGED evidence
     \/ /\ ranges # None
        /\ \E ips \in SUBSET Addrs :
             /\ fpc' = [fpc EXCEPT ![f] = "record"] /\ says' = [says EXCEPT ![f] = Inside(ips)]
             /\ evidence' = IF Inside(ips) THEN evidence \cup {fhost[f]} ELSE evidence
     \/ ranges # None /\ fpc' = [fpc EXCEPT ![f] = "learn"] /\ UNCHANGED <<says, evidence>>
  /\ UNCHANGED <<fhost, verdict, fresh, pending, learn, asks>>

\* recordCountry on the flow's path.
Record(f) ==
  /\ fpc[f] = "record"
  /\ put(fhost[f], says[f]) /\ fpc' = [fpc EXCEPT ![f] = "idle"]
  /\ UNCHANGED <<fhost, says, pending, learn, evidence, asks>>

learnInBackground(f) ==
  /\ fpc[f] = "learn" /\ Answer(f, FALSE)
  /\ IF fhost[f] \in pending
       THEN UNCHANGED <<pending, learn>>
       ELSE /\ pending' = pending \cup {fhost[f]}
            /\ learn' = learn \cup {[host |-> fhost[f], by |-> f, at |-> "resolve", says |-> FALSE]}
  /\ UNCHANGED <<fhost, verdict, fresh, evidence, asks>>

Moved(l, at, v) == (learn \ {l}) \cup {[l EXCEPT !.at = at, !.says = v]}

\* The lookup ends within its timeout, with an answer or without.
Resolve(l) ==
  /\ l.at = "resolve"
  /\ \/ learn' = Moved(l, "clear", FALSE) /\ UNCHANGED evidence
     \/ \E ips \in SUBSET Addrs :
          /\ learn' = Moved(l, "record", Inside(ips))
          /\ evidence' = IF Inside(ips) THEN evidence \cup {l.host} ELSE evidence
  /\ UNCHANGED <<flVars, verdict, fresh, pending, asks>>

Learned(l) ==
  /\ l.at = "record"
  /\ put(l.host, l.says) /\ learn' = Moved(l, "clear", FALSE)
  /\ UNCHANGED <<flVars, pending, evidence, asks>>

Clear(l) ==
  /\ l.at = "clear"
  /\ pending' = pending \ {l.host} /\ learn' = learn \ {l}
  /\ UNCHANGED <<flVars, verdict, fresh, evidence, asks>>

\* verdictTTL passes for one name.
Expire(h) ==
  /\ h \in fresh /\ fresh' = fresh \ {h}
  /\ UNCHANGED <<flVars, verdict, pending, learn, evidence, asks>>

Next ==
  \/ /\ \/ Get
        \/ (LoadFile \/ Parse \/ Tag \/ writeCache \/ KeepFresh \/ Again) /\ UNCHANGED tries
     /\ UNCHANGED <<verdict, fresh, pending, learn, flVars, evidence, asks>>
  \/ /\ \/ \E f \in Flows : Ask(f) \/ Look(f) \/ Record(f) \/ learnInBackground(f)
        \/ \E l \in learn : Resolve(l) \/ Learned(l) \/ Clear(l)
        \/ \E h \in Hosts : Expire(h)
     /\ UNCHANGED <<kfVars, tries>>

Spec == Init /\ [][Next]_cvVars

-----------------------------------------------------------------------------
(* Properties.                                                             *)

\* A host is marked pending exactly while one learner works on it.
LearnedOnce ==
  /\ pending = {l.host : l \in learn}
  /\ \A k, l \in learn : k.host = l.host => k = l

\* A flow or a kept verdict says "direct" only when an address of the name
\* was in a list in memory; the cache holds at most ShardMax names.
DirectHasEvidence ==
  /\ \A h \in DOMAIN verdict : verdict[h] => h \in evidence
  /\ \A f \in Flows : says[f] => fhost[f] \in evidence
  /\ Cardinality(DOMAIN verdict) <= ShardMax /\ fresh \subseteq DOMAIN verdict

\* The tag sent to the source is that of the list in memory, the list in
\* memory and the one in the file are whole, and with no list in memory the
\* next try is at most RetryEmpty away.
ListIsSound ==
  /\ etag # None => etag = ranges \/ kpc = "tag"
  /\ \A l \in {ranges, file} : l # None => load(l)
  /\ kpc = "wait" /\ ranges = None => wait <= RetryEmpty
  /\ kpc = "wait" => wait <= RetryMax \/ wait = Refresh

\* The country list and the verdicts made from it are sound: one learner per
\* name, no "direct" without an address that was on the list, and a list that
\* only a whole one replaces, across failed and cut downloads
\* (byCountryVerdict, learnInBackground, recordCountry, Refresh, KeepFresh).
CountryIsSound == LearnedOnce /\ DirectHasEvidence /\ ListIsSound
=============================================================================
