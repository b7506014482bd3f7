---------------------------- MODULE MCKeyLimits ----------------------------
(***************************************************************************)
(* KeyLimits for TLC, twice: two flows of one key whose limits an operator *)
(* changes meanwhile, and three flows of two keys whose limits stay.  part *)
(* says which of the two runs; the other stays as it starts.               *)
(***************************************************************************)
EXTENDS KeyLimits

CONSTANTS Parts, f1, f2, f3, k1, k2, s1, s2, s3, a1, a2

VARIABLE part

VARIABLES tDefaults, tKeyLimits, tSessions, tBurst, tOldBurst, tTotal,
          tClosers, tClock, tPc, tEv, tGc

threeVars == <<tDefaults, tKeyLimits, tSessions, tBurst, tOldBurst, tTotal,
          tClosers, tClock, tPc, tEv, tGc>>

\* As the client does: a fresh identifier for each connection.
MCFresh == [f \in Flows |-> IF f = f1 THEN s1 ELSE IF f = f2 THEN s2 ELSE s3]

\* As TestSameSessionAcrossFlowsTakesOneSlot does: one identifier for all.
MCShared == [f \in Flows |-> s1]

MCOneKey == [f \in Flows |-> k1]
MCIPOf == [f \in Flows |-> IF f = f2 THEN a2 ELSE a1]

\* One ordinary session per key; or two, but from one address.
OneSession == [max |-> 1, global |-> 2, ips |-> 2, burst |-> 0]
OneAddress == [max |-> 2, global |-> 2, ips |-> 1, burst |-> 0]
Tight      == [max |-> 1, global |-> 1, ips |-> 2, burst |-> 2]
Loose      == [max |-> 2, global |-> 2, ips |-> 2, burst |-> 0]
Wide       == [max |-> 3, global |-> 3, ips |-> 0, burst |-> 0]

MCLimits == {Tight, Loose}
MCWide == {Wide}

ThreeFlows == {f1, f2, f3}

Three == INSTANCE KeyLimits WITH
  Flows <- ThreeFlows, Keys <- {k1, k2}, Sids <- {s1, s2, s3}, IPs <- {a1, a2},
  KeyOf <- [f \in ThreeFlows |-> IF f = f3 THEN k2 ELSE k1],
  SidOf <- [f \in ThreeFlows |-> IF f = f1 THEN s1 ELSE IF f = f2 THEN s2 ELSE s3],
  IPOf <- [f \in ThreeFlows |-> IF f = f2 THEN a2 ELSE a1],
  LimitChoices <- {OneSession, OneAddress}, CapBound <- 2, EvictSizes <- {1},
  Reconfigure <- FALSE,
  defaults <- tDefaults, keyLimits <- tKeyLimits, sessions <- tSessions, burst <- tBurst,
  oldBurst <- tOldBurst, total <- tTotal, closers <- tClosers, clock <- tClock,
  pc <- tPc, ev <- tEv, gc <- tGc

\* Both start with any limits; the one that does not run with some.
MCInit ==
  /\ part \in Parts
  /\ Init /\ Three!Init
  /\ part # "two" => defaults = CHOOSE l \in LimitChoices : TRUE
  /\ part # "three" => tDefaults = OneSession

MCNext ==
  /\ UNCHANGED part
  /\ \/ part = "two" /\ Next /\ UNCHANGED threeVars
     \/ part = "three" /\ Three!Next /\ UNCHANGED vars

MCSpec == MCInit /\ [][MCNext]_<<part, vars, threeVars>>

-----------------------------------------------------------------------------

\* The ordinary sessions of a key, and the addresses they come from, stay
\* within the key's limits while these do not change (Admit).
ThreeKeyCapsHold == Three!KeyCapsHold
=============================================================================
