----------------------------- MODULE MCServer -----------------------------
(***************************************************************************)
(* The server's components, for TLC, one at a time: the listener's layers, *)
(* the users a handshake is checked against, the tokens it may use once,   *)
(* the other doors and the API's, the outbounds, the routing rules, and    *)
(* what the process itself rests on: modules, configuration, binary.       *)
(* part says which one runs; the others stay as they start.                *)
(***************************************************************************)
EXTENDS TokenSet, Sequences

CONSTANTS t1, t2                               \* tokens
CONSTANTS Users, Tools, Handlers, MaxSaves     \* UserStore
CONSTANTS Sockets                              \* the listener's connections

VARIABLE part

VARIABLES file, tool, loader, store, modTime, gen, version, index, hs
VARIABLES stage, hello, open, accepting, lclosed, running, httpClosed, mclosed, serving, ctxDone
VARIABLES st, left, held, active, tracked, queue, hand, loop, perIP, grpcIs, tcpIs, told
VARIABLES at, answer, activeConns, inflight, bucket, clean, clock, allowed, server
VARIABLES outbounds, outboundCfgs, live, update, todo, dial, redefined, updates, dials, fails
VARIABLES arrays, room, compiled, byID, cache, fpc, dst, snap, verdict, mixed, changes, asks
VARIABLES deps, registered, order, mstate, mctx, lcPhase, lcTodo, lcRunning, lcErr,
          announced, busClosed, inbox
VARIABLES cfgFile, fileTime, sumFile, mem, upc, usum, wpc, winfo, wsum, wread, lastModified,
          saves, wfails, crashes, collided, startRace
VARIABLES upBinary, upBackups, upVersion, upPc, upInfo, upTmp, upSigned, upChecks, upCrashes,
          strays

userVars == <<file, tool, loader, store, modTime, gen, version, index, hs>>
listenerVars == <<stage, hello, open, accepting, lclosed, running, httpClosed, mclosed,
                  serving, ctxDone>>
doorVars == <<st, left, held, active, tracked, queue, hand, loop, perIP, grpcIs, tcpIs, told>>
apiVars == <<at, answer, activeConns, inflight, bucket, clean, clock, allowed, server>>
outVars == <<outbounds, outboundCfgs, live, update, todo, dial, redefined, updates, dials, fails>>
ruleVars == <<arrays, room, compiled, byID, cache, fpc, dst, snap, verdict, mixed, changes, asks>>
lifeVars == <<deps, registered, order, mstate, mctx, lcPhase, lcTodo, lcRunning, lcErr,
              announced, busClosed, inbox>>
configVars == <<cfgFile, fileTime, sumFile, mem, upc, usum, wpc, winfo, wsum, wread,
                lastModified, saves, wfails, crashes, collided, startRace>>
updateVars == <<upBinary, upBackups, upVersion, upPc, upInfo, upTmp, upSigned, upChecks,
                upCrashes, strays>>

\* Tokens of two windows in one shard; the other shard stays empty.
MCWindow == [t \in Tokens |-> IF t = t1 THEN 1 ELSE 2]
MCShardOf == [t \in Tokens |-> 1]

U == INSTANCE UserStore
L == INSTANCE Listener WITH Conns <- Sockets

\* Two connections at each of two doors, one of which takes one only, and one
\* connection at each of the three that share a limit per address.
Door(c) == IF c \in {"g1", "g2"} THEN "grpc" ELSE IF c = "p1" THEN "port" ELSE "tcp"
TwoEach == {"g1", "g2", "t1", "t2"}
OneEach == {"g1", "t1", "p1"}

Full == INSTANCE ServerDoors WITH
  Conns <- TwoEach, DoorOf <- [c \in TwoEach |-> Door(c)], IpOf <- [c \in TwoEach |-> "i1"],
  MaxPerIP <- 2, MaxConns <- 1, QueueLen <- 1, open <- held, ctxDone <- told
Shared == INSTANCE ServerDoors WITH
  Conns <- OneEach, DoorOf <- [c \in OneEach |-> Door(c)], IpOf <- [c \in OneEach |-> "i1"],
  MaxPerIP <- 1, MaxConns <- 1, QueueLen <- 1, open <- held, ctxDone <- told

\* Four requests of one address, one of them without a token, and a preflight
\* of another from a foreign origin.
Api == INSTANCE ApiDoor WITH
  Requests <- 1..5,
  Kind <- [q \in 1..5 |-> [ip |-> IF q = 5 THEN "i2" ELSE "i1", path |-> "status",
                           token |-> q \in {1, 3, 4}, origin |-> q # 5, preflight |-> q = 5]],
  MaxConnsPerIP <- 1, Burst <- 2, CleanEvery <- 0, CleanAge <- 1, MaxTime <- 2, now <- clock

\* One request of each kind: a foreign origin's, a public path's, one outside
\* the API, one with a token and one without.
Kinds == INSTANCE ApiDoor WITH
  Requests <- 1..5,
  Kind <- [q \in 1..5 |-> [ip |-> IF q < 3 THEN "i2" ELSE "i1",
                           path |-> CASE q = 2 -> "health" [] q = 3 -> "sub" [] OTHER -> "status",
                           token |-> q = 4, origin |-> q # 1, preflight |-> FALSE]],
  MaxConnsPerIP <- 1, Burst <- 1, CleanEvery <- 0, CleanAge <- 1, MaxTime <- 1, now <- clock

Out == INSTANCE Outbounds WITH
  Tags <- {"a", "b", "c"}, MaxUpdates <- 2, MaxDials <- 1, MaxFail <- 1,
  Chains <- {<<>>, <<"a">>, <<"b">>, <<"b", "a">>, <<"a", "c", "b">>}

\* A rule for both destinations between two for the first.
Rules == INSTANCE RouterEngine WITH
  Rules <- 1..3, Prio <- [r \in 1..3 |-> r],
  Hits <- [r \in 1..3 |-> IF r = 2 THEN {"x", "y"} ELSE {"x"}],
  Dsts <- {"x", "y"}, Flows <- {"f1"}, MaxRules <- 2, MaxChanges <- 3, MaxAsks <- 2

Life == INSTANCE Lifecycle WITH Mods <- 1..3, BusRoom <- 1

Config == INSTANCE ConfigProvider WITH
  Tags <- {"o1"}, Ports <- {"q1"}, MaxUpdates <- 3, MaxFail <- 1, MaxCrash <- 1,
  updates <- saves

Update == INSTANCE Updater WITH Versions <- 1..3, MaxChecks <- 4, MaxCrash <- 2

\* A component that does not run starts in one of its initial states.
MCInit ==
  /\ part \in {"tokens", "users", "listener", "full", "shared", "api", "kinds", "out", "rules",
              "life", "config", "update"}
  /\ Init /\ L!Init /\ Out!Init /\ Config!Init
  /\ U!Init /\ (part # "users" => store = {})
  /\ IF part = "shared" THEN Shared!Init ELSE Full!Init
  /\ IF part = "kinds" THEN Kinds!Init ELSE Api!Init
  /\ Rules!Init /\ (part # "rules" => dst["f1"] = "x")
  /\ Life!Init /\ (part # "life" => deps = [m \in 1..3 |-> {}])
  /\ Update!Init /\ (part # "update" => upBinary = 1)

MCNext ==
  /\ UNCHANGED part
  /\ IF part = "tokens" THEN Next ELSE UNCHANGED vars
  /\ IF part = "users" THEN U!Next ELSE UNCHANGED userVars
  /\ IF part = "listener" THEN L!Next ELSE UNCHANGED listenerVars
  /\ CASE part = "full" -> Full!Next
       [] part = "shared" -> Shared!Next
       [] OTHER -> UNCHANGED doorVars
  /\ CASE part = "api" -> Api!Next
       [] part = "kinds" -> Kinds!Next
       [] OTHER -> UNCHANGED apiVars
  /\ IF part = "out" THEN Out!Next ELSE UNCHANGED outVars
  /\ IF part = "rules" THEN Rules!Next ELSE UNCHANGED ruleVars
  /\ IF part = "life" THEN Life!Next ELSE UNCHANGED lifeVars
  /\ IF part = "config" THEN Config!Next ELSE UNCHANGED configVars
  /\ IF part = "update" THEN Update!Next ELSE UNCHANGED updateVars

MCSpec ==
  MCInit /\ [][MCNext]_<<part, vars, userVars, listenerVars, doorVars, apiVars, outVars,
                         ruleVars, lifeVars, configVars, updateVars>>

-----------------------------------------------------------------------------

\* A handshake works with users at least as new as the last reload that was
\* complete when it began, and a store that bears the file's modification
\* time holds the file's users (selectorIndex, applyUsersFromFile).
NotStale == part = "users" => U!NotStale /\ U!TimeVouches

\* A connection becomes a tunnel only if its hello was recognized (handle,
\* classify, handlePerflowConn).
OnlyRecognizedTunnel == part = "listener" => L!OnlyRecognizedTunnel

\* The slots of an address and the counts of the transports are those of the
\* connections there are, whoever closes first and whenever a transport stops,
\* and every open connection is where something will close it
\* (acquireConnSlot, Tunnel, Accept, Stop).
DoorsAccount ==
  /\ part = "full" => Full!DoorsAccount
  /\ part = "shared" => Shared!DoorsAccount

\* The API's counts are those of the requests inside, a handler runs only for
\* requests that may ask, and sweeps of the buckets let no address exceed its
\* rate (connLimitMiddleware, apiRateMiddleware, authMiddleware, Stop).
ApiDoorIsSound ==
  /\ part = "api" => Api!ApiDoorIsSound
  /\ part = "kinds" => Kinds!ApiDoorIsSound

\* The outbounds' tunnels are those of the map, no chain comes back to itself,
\* and a cascade that ends has closed all it opened (UpdateOutbounds,
\* validateChainGraph, dialCascade).
OutboundsAreSound == part = "out" => Out!OutboundsAreSound

\* Every verdict given or kept is that of the matching rule of highest
\* priority, through changes of the rules and cached answers (Route, AddRule,
\* RemoveRule, UpdateRules).
VerdictsFollowRules == part = "rules" => Rules!VerdictsFollowRules

\* Modules run only while what they depend on does, only tables no order can
\* serve are refused, and after Run nothing is left (computeStartOrder,
\* StartAll, StopAll, eventBus.Close).
RuntimeInOrder == part = "life" => Life!RuntimeInOrder

\* The configuration's file, its checksum and the copy in memory follow each
\* other, across saves by two processes, failures and crashes (Update, save,
\* Load, watch).
ConfigTracks == part = "config" => Config!ConfigTracks

\* The binary is whole and verified, whatever fails and wherever the process
\* dies, until a second roll-back takes another version's backup (Apply,
\* rollback).
BinaryIsWhole == part = "update" => Update!BinaryIsWhole
=============================================================================
