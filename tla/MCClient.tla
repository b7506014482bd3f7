----------------------------- MODULE MCClient -----------------------------
(***************************************************************************)
(* The client's components, for TLC, one at a time: a tunnel manager, the  *)
(* pool that restarts managers, the SOCKS5 server, the list of bridges,    *)
(* the sessions of the mobile library, the kill switch, the resolver, and  *)
(* the two halves of the bypass: rules and countries.  part says which one *)
(* runs; the others stay as they start.                                    *)
(***************************************************************************)
EXTENDS TunnelManager, Sequences

CONSTANTS Callers, Apis, Entries, Primary, MaxMgr, MaxCalls,
          MinInterval, BackoffStep, MaxBackoff                         \* TunnelPool
CONSTANTS h1, h2, w                                                    \* goroutines

VARIABLE part

VARIABLES prim, mgr, restarting, status, mstate, made, inflight, revivals, closed, fails,
          since, calls, th
VARIABLES running, sClosed, listener, sock, lpc, stopPc, sPc, why, ip, dialled, resolveCache,
          sent, eof, taken, replay, inHand, got, upEnd, downEnd, sShut
VARIABLES entry, up, array, len, connecting, move, again, rHeld, removed, walk, rMade
VARIABLES mobileRunning, pkgLC, cpc, cold, runPc, slc, mgrRunning, mgrDone, poolOf, stopped,
          started, stops, expired
VARIABLES os, ksState, vpnIP, fence, savedRules, op, todo, opErr, lapsed, inherited, stuck,
          ksFails, runs
VARIABLES cache, asking, upstream, switches, rpc, name, asked, leader, answer, done,
          givenUp, lookups
VARIABLES stage, rules, enabled, byCountry, snap, loaded
VARIABLES ranges, etag, file, kpc, url, body, retry, wait, verdict, fresh, pending, learn,
          fpc, fhost, says, evidence, tries, asks

poolVars == <<prim, mgr, restarting, status, mstate, made, inflight, revivals, closed, fails,
              since, calls, th>>
socksVars == <<running, sClosed, listener, sock, lpc, stopPc, sPc, why, ip, dialled,
               resolveCache, sent, eof, taken, replay, inHand, got, upEnd, downEnd, sShut>>
bridgeVars == <<entry, up, array, len, connecting, move, again, rHeld, removed, walk, rMade>>
mobileVars == <<mobileRunning, pkgLC, cpc, cold, runPc, slc, mgrRunning, mgrDone, poolOf,
                stopped, started, stops, expired>>
killVars == <<os, ksState, vpnIP, fence, savedRules, op, todo, opErr, lapsed, inherited, stuck,
              ksFails, runs>>
dnsVars == <<cache, asking, upstream, switches, rpc, name, asked, leader, answer, done,
             givenUp, lookups>>
splitVars == <<stage, rules, enabled, byCountry, snap, loaded>>
countryVars == <<ranges, etag, file, kpc, url, body, retry, wait, verdict, fresh, pending, learn,
                 fpc, fhost, says, evidence, tries, asks>>

Pool == INSTANCE TunnelPool WITH attempts <- revivals

\* One connection and its bytes, and two that share the resolver's cache.
Socks == INSTANCE Socks5 WITH
  Conns <- {"c1"}, IPs <- {"i1", "i2"}, HomeIPs <- {"i1"}, MaxSent <- 3, Need <- 2,
  closed <- sClosed, spc <- stopPc, pc <- sPc, shut <- sShut
Guests == INSTANCE Socks5 WITH
  Conns <- {"c1", "c2"}, IPs <- {"i1"}, HomeIPs <- {"i1"}, MaxSent <- 0, Need <- 0,
  closed <- sClosed, spc <- stopPc, pc <- sPc, shut <- sShut

Bridges == INSTANCE MultiRouter WITH
  IDs <- {"b1", "b2"}, Walkers <- {w}, MaxEntries <- 3, MaxRemoves <- 1,
  held <- rHeld, made <- rMade

\* Two threads of the host application, and one that starts three times.
Mobile == INSTANCE MobileSession WITH
  Callers <- {h1, h2}, MaxSessions <- 2, MaxStops <- 2, spc <- runPc
Again == INSTANCE MobileSession WITH
  Callers <- {h1}, MaxSessions <- 3, MaxStops <- 1, spc <- runPc

Kill == INSTANCE KillSwitch WITH
  Systems <- {"linux", "darwin", "windows"}, MaxFail <- 2, MaxRuns <- 1, fails <- ksFails

DNS == INSTANCE Resolver WITH
  Callers <- {"r1", "r2"}, Names <- {"n1", "n2"}, Bypassed <- {"n2"},
  Kinds <- {"doh", "dot"}, MaxCalls <- 4, MaxSwitches <- 1,
  inflight <- asking, expired <- givenUp, calls <- lookups

\* Names and addresses on which rules of all kinds overlap, some of one
\* priority, and one that is switched off.
Rule(k, v, a, p, o) == [kind |-> k, value |-> v, action |-> a, prio |-> p, on |-> o]

Split == INSTANCE SplitRules WITH
  MaxAddr <- 5, Hosts <- {<<"a", "b">>, <<"b">>, <<"c", "a", "b">>, <<"d">>},
  DefaultRules <- <<Rule("ip", <<0, 1>>, "direct", 2, TRUE), Rule("ip", <<3, 3>>, "direct", 2, TRUE)>>,
  AppRules <- {Rule("ip", <<1, 4>>, "tunnel", 3, TRUE), Rule("ip", <<3, 3>>, "reject", 3, TRUE),
               Rule("domain", <<"b">>, "direct", 3, TRUE),
               Rule("domain-exact", <<"a", "b">>, "tunnel", 3, TRUE),
               Rule("domain-keyword", "a", "tunnel", 3, TRUE)},
  FileRules <- {Rule("ip", <<0, 1>>, "tunnel", 3, FALSE), Rule("ip", <<2, 2>>, "direct", 4, TRUE),
                Rule("ip", <<0, 4>>, "direct", 1, TRUE),
                Rule("domain", <<"a", "b">>, "direct", 4, TRUE),
                Rule("domain", <<"b">>, "tunnel", 1, TRUE),
                Rule("domain-keyword", "d", "direct", 1, TRUE)},
  MaxLoad <- 2

\* A list of one network is too short; the other two share an address.
Country == INSTANCE CountryVerdicts WITH
  Hosts <- {"h1", "h2"}, Flows <- {"f1", "f2"}, Addrs <- {1},
  Lists <- {{1}, {1, 2}, {2, 3}}, Enough <- 2, ShardMax <- 1,
  RetryMin <- 1, RetryEmpty <- 2, RetryMax <- 5, Refresh <- 9, MaxTries <- 2, MaxAsks <- 2

\* A component that does not run starts in one of its initial states.  The
\* two flows that countries decide ask for different names, again and again.
MCInit ==
  /\ part \in {"manager", "pool", "socks", "guests", "bridges", "mobile", "again", "kill", "dns",
              "split", "country"}
  /\ Init /\ Pool!Init /\ Bridges!Init /\ Split!Init
  /\ IF part = "guests" THEN Guests!Init ELSE Socks!Init
  /\ IF part = "again" THEN Again!Init ELSE Mobile!Init
  /\ Kill!Init /\ (part # "kill" => os = "linux")
  /\ DNS!Init /\ (part # "dns" => upstream = "doh")
  /\ Country!Init /\ fhost = [f \in {"f1", "f2"} |-> IF f = "f1" THEN "h1" ELSE "h2"]
  /\ part # "country" => file = {}

MCNext ==
  /\ UNCHANGED part
  /\ IF part = "manager" THEN Next ELSE UNCHANGED vars
  /\ IF part = "pool" THEN Pool!Next ELSE UNCHANGED poolVars
  /\ CASE part = "socks" -> Socks!Next
       [] part = "guests" -> Guests!Next
       [] OTHER -> UNCHANGED socksVars
  /\ IF part = "bridges" THEN Bridges!Next ELSE UNCHANGED bridgeVars
  /\ CASE part = "mobile" -> Mobile!Next
       [] part = "again" -> Again!Next
       [] OTHER -> UNCHANGED mobileVars
  /\ IF part = "kill" THEN Kill!Next ELSE UNCHANGED killVars
  /\ IF part = "dns" THEN DNS!Next ELSE UNCHANGED dnsVars
  /\ IF part = "split" THEN Split!Next ELSE UNCHANGED splitVars
  /\ IF part = "country" THEN Country!Next ELSE UNCHANGED countryVars

MCSpec ==
  MCInit /\ [][MCNext]_<<part, vars, poolVars, socksVars, bridgeVars, mobileVars, killVars,
                         dnsVars, splitVars, countryVars>>

-----------------------------------------------------------------------------

\* Callers and API requests restart an entry one at a time (beginRevive, the
\* CAS in restartTransportEntry), the manager a restart replaces does not run
\* on (main_test.go: "a second caller must not start its own restart"), and
\* the next restart waits at least reviveMinInterval.
RestartsInTurn == [](part = "pool" => Pool!OneRestarter) /\ Pool!Paced

\* The SOCKS5 server serves only while it runs, dials the address it judged,
\* and hands on every byte it read ahead (Start, Stop, bypassRoute, Relay).
DoorIsSound ==
  /\ part = "socks" => Socks!DoorIsSound
  /\ part = "guests" => Guests!DoorIsSound

\* A flow goes to a bridge that was listed while it was looked for, or to the
\* primary tunnel (resolve, RemoveBridge).
ResolvesToListed == part = "bridges" => Bridges!ResolvesToListed

\* As long as no Start ran out of patience there is one session at a time,
\* and none loses its tunnels to another's teardown (Start, RunMain).
OneSession ==
  /\ part = "mobile" => Mobile!OneSession
  /\ part = "again" => Again!OneSession

\* An active kill switch fences, with the server reachable, and a disabled
\* one has given the firewall back, whatever commands fail (Enable, Disable).
FenceIsTrue == part = "kill" => Kill!FenceIsTrue

\* Goroutines that ask for one name share one query, and everyone gets an
\* answer for the name it asked for (Resolve).
LookupsAreShared == part = "dns" => DNS!LookupsAreShared

\* The snapshot the data path reads decides as the rules do, and a country's
\* verdict rests on an address in a whole list (rebuild, flattenRanges,
\* learnInBackground, KeepFresh).
BypassIsSound ==
  /\ part = "split" => Split!SnapshotDecides
  /\ part = "country" => Country!CountryIsSound
=============================================================================
