------------------------------ MODULE TokenSet ------------------------------
(***************************************************************************)
(* One-time use of session tokens on the server: VerifyAuthTokenRaw        *)
(* (core/protocol/pathgen.go) accepts the tokens of the windows around its *)
(* clock, and the sharded set of core/protocol/tokenset.go remembers the   *)
(* ones that were used until no clock reading can accept them any more.    *)
(*                                                                         *)
(* A per-flow connection and a datagram registration take the same three   *)
(* steps: verify the token, read the clock, consume.  Time passes between  *)
(* them, and the sweeper works shard by shard with a clock it read before. *)
(*                                                                         *)
(* What the forgetting rests on is stated by two constants: a client's     *)
(* clock is at most Skew ahead of the server's, and at most Delay passes   *)
(* from verifying a token to consuming it.                                 *)
(***************************************************************************)
EXTENDS Integers, FiniteSets

CONSTANTS
  Tokens,     \* tokens clients make
  Window,     \* the time window each was made for
  Shards,     \* shards, 1..Shards
  ShardOf,    \* tokenShardIndex
  Threshold,  \* tokenSeenShardCleanupThreshold
  Conns,      \* connections that present tokens
  W,          \* authWindowSeconds
  T,          \* authWindowTolerance
  Skew,       \* seconds a client's clock is ahead at most
  Delay,      \* seconds from verifying to consuming at most
  MaxNow      \* bound of the clock

ASSUME TokenAssumption ==
  /\ Tokens # {} /\ W \in Nat \ {0} /\ T \in Nat /\ MaxNow \in Nat
  /\ Skew \in Nat /\ Delay \in Nat /\ Shards \in Nat /\ Threshold \in Nat
  /\ Window \in [Tokens -> Nat] /\ ShardOf \in [Tokens -> 1..Shards]

\* The slack replayWindowSeconds leaves.
ASSUME SlackAssumption == Skew + Delay <= T * W

VARIABLES
  now,        \* the server's clock
  seen,       \* token -> time it was used, or None
  conn,       \* connection -> what it is at
  sweep,      \* the sweeper: the shard it is at (0: waiting) and its clock
  accepted    \* token -> how often it was accepted

vars == <<now, seen, conn, sweep, accepted>>

None == -1

Idle == [at |-> "idle", tok |-> CHOOSE t \in Tokens : TRUE, v |-> 0, c |-> 0]

Init ==
  /\ now = 0
  /\ seen = [t \in Tokens |-> None]
  /\ conn = [p \in Conns |-> Idle]
  /\ sweep = [shard |-> 0, clock |-> 0]
  /\ accepted = [t \in Tokens |-> 0]

\* Mutant of ReplayWindow: the windows on either side, without the middle one.
ReplayWindow_Short == 2 * T * W

ReplayWindow == (2 * T + 1) * W

\* The windows whose tokens a clock reading accepts.
Accepts(clock, w) == clock \div W - T <= w /\ w <= clock \div W + T

-----------------------------------------------------------------------------

\* Time goes on, at most Delay past the verification of a token in hand.
Tick ==
  /\ now < MaxNow /\ now' = now + 1
  /\ \A p \in Conns : conn[p].at # "idle" => now' <= conn[p].v + Delay
  /\ UNCHANGED <<seen, conn, sweep, accepted>>

\* resolveSecret: a token a client may have made by now is presented, and
\* goes on if its window is among the ones accepted.
Verify(p, t) ==
  /\ conn[p].at = "idle"
  /\ now >= W * Window[t] - Skew
  /\ Accepts(now, Window[t])
  /\ conn' = [conn EXCEPT ![p] = [at |-> "verified", tok |-> t, v |-> now, c |-> 0]]
  /\ UNCHANGED <<now, seen, sweep, accepted>>

\* consumeToken reads the clock before it takes the shard's lock.
ReadClock(p) ==
  /\ conn[p].at = "verified"
  /\ conn' = [conn EXCEPT ![p].at = "clocked", ![p].c = now]
  /\ UNCHANGED <<now, seen, sweep, accepted>>

Expired(s, t, clock) == s[t] # None /\ clock - s[t] >= ReplayWindow

\* What is left of a shard once its expired entries are deleted.
Prune(s, shard, clock) ==
  [t \in Tokens |-> IF ShardOf[t] = shard /\ Expired(s, t, clock) THEN None ELSE s[t]]

InShard(s, shard) == {t \in Tokens : ShardOf[t] = shard /\ s[t] # None}

\* consume, under the lock of the token's shard.
Consume(p) ==
  /\ conn[p].at = "clocked"
  /\ LET t == conn[p].tok
         c == conn[p].c
         stored == [seen EXCEPT ![t] = c]
     IN  IF seen[t] # None /\ ~Expired(seen, t, c)
         THEN UNCHANGED <<seen, accepted>>
         ELSE /\ accepted' = [accepted EXCEPT ![t] = @ + 1]
              /\ seen' = IF Cardinality(InShard(stored, ShardOf[t])) > Threshold
                         THEN Prune(stored, ShardOf[t], c) ELSE stored
  /\ conn' = [conn EXCEPT ![p] = Idle]
  /\ UNCHANGED <<now, sweep>>

-----------------------------------------------------------------------------
(* The sweeper.                                                            *)

\* The ticker fires and the clock is read.
SweepBegin ==
  /\ sweep.shard = 0
  /\ sweep' = [shard |-> 1, clock |-> now]
  /\ UNCHANGED <<now, seen, conn, accepted>>

\* One shard, under its lock.
SweepShard ==
  /\ sweep.shard \in 1..Shards
  /\ seen' = Prune(seen, sweep.shard, sweep.clock)
  /\ sweep' = IF sweep.shard < Shards THEN [sweep EXCEPT !.shard = @ + 1]
              ELSE [shard |-> 0, clock |-> 0]
  /\ UNCHANGED <<now, conn, accepted>>

-----------------------------------------------------------------------------

Next == \/ Tick \/ SweepBegin \/ SweepShard
        \/ \E p \in Conns : (\E t \in Tokens : Verify(p, t)) \/ ReadClock(p) \/ Consume(p)

Spec == Init /\ [][Next]_vars

-----------------------------------------------------------------------------
(* Properties.                                                             *)

\* The type invariant: times are readings the clock has shown, so an entry is
\* never later than the clock.
TypeOK ==
  /\ now \in Nat
  /\ seen \in [Tokens -> Int] /\ \A t \in Tokens : seen[t] \in {None} \cup 0..now
  /\ conn \in [Conns -> [at : {"idle", "verified", "clocked"}, tok : Tokens, v : 0..now, c : 0..now]]
  /\ sweep \in [shard : 0..Shards, clock : 0..now]
  /\ accepted \in [Tokens -> Nat]

\* A token is accepted once, whichever connections present it and however
\* the sweeper and the clean-up in consume forget old entries.
NoReplay == \A t \in Tokens : accepted[t] <= 1
=============================================================================
