---------------------------- MODULE DialVerdicts ----------------------------
(***************************************************************************)
(* What the client learns from its dials (core/protocol/client.go,         *)
(* core/tunnel: selector.go, shapeepoch.go).  A dial draws a fingerprint   *)
(* and a number of hello fragments from the strategy, one after the other  *)
(* or as a pair (joint), shakes hands, and lives until it is reset or      *)
(* closed; every stage reports back, from whatever goroutine meets the     *)
(* error or calls Close, and the shape in force is judged by how the       *)
(* connections end.                                                        *)
(*                                                                         *)
(* Rewards are tenths.  The survival average is its place with respect to  *)
(* the threshold: "ok", "edge" (set there by a switch) or "low".  UCB's    *)
(* choice among arms that have all been tried is left open, and the split  *)
(* of the hello, judged as the fingerprint is, has no context of its own.  *)
(***************************************************************************)
EXTENDS Integers, FiniteSetsExt

CONSTANTS
  Dials, Closers,   \* dials, and goroutines that may close a connection
  Arms              \* arms of every repertoire, 0..n

Contexts == {"sni", "frag", "joint", "shape"}
NoArm == -1

VARIABLES
  joint,       \* JointArmEnabled
  fragmented,  \* the dialer fragments the hello
  sum, cnt,    \* HandshakeStrategy: rewards and observations per context, arm
  surv, seen,  \* survival of the context "sni", results recorded
  current,     \* the arm each context holds
  dpc, arm, fragArm,  \* a dial: where it is, what it drew
  live,        \* livenessConn: established, closedByUs, fired, ended
  npc, clpc,   \* the goroutine in note, and those in Close
  shapeArm, good, bad,      \* shapeController
  hsSaid, liveSaid, endSaid \* verdicts a dial has given: handshake, live, end

dvVars == <<joint, fragmented, sum, cnt, surv, seen, current, dpc, arm, fragArm, live, npc, clpc,
            shapeArm, good, bad, hsSaid, liveSaid, endSaid>>

Init ==
  /\ joint \in BOOLEAN /\ fragmented \in BOOLEAN
  /\ sum = [c \in Contexts |-> [a \in Arms |-> 0]] /\ cnt = sum
  /\ surv = "ok" /\ seen = 0
  /\ current = [c \in Contexts |-> IF c = "shape" THEN 0 ELSE NoArm]
  /\ dpc = [d \in Dials |-> "new"]
  /\ arm = [d \in Dials |-> NoArm] /\ fragArm = arm
  /\ live = [d \in Dials |-> [established |-> FALSE, closedByUs |-> FALSE, fired |-> FALSE,
                              ended |-> FALSE]]
  /\ npc = [d \in Dials |-> "idle"] /\ clpc = [d \in Dials |-> [k \in Closers |-> "idle"]]
  /\ shapeArm = 0 /\ good = 0 /\ bad = 0
  /\ hsSaid = [d \in Dials |-> 0] /\ liveSaid = hsSaid /\ endSaid = hsSaid

strategyVars == <<sum, cnt, surv, seen>>
dialVars     == <<dpc, arm, fragArm>>
shapeVars    == <<shapeArm, good, bad>>
saidVars     == <<hsSaid, liveSaid, endSaid>>

-----------------------------------------------------------------------------
(* The strategy.                                                           *)

Reward(r) ==
  CASE r = "ok" -> 10 [] r = "reset" -> -10 [] r = "rejected" -> -9
    [] r = "incomplete" -> -7 [] OTHER -> -3

\* What an error is taken for; a reset must come within 15 ms to be one.
classifyHandshake(err, fast) ==
  CASE err = "none" -> "ok" [] err = "reset" -> IF fast THEN "reset" ELSE "error"
    [] err = "alert" -> "rejected" [] err = "timeout" -> "incomplete" [] OTHER -> "error"

\* The mean of a is above that of b; an arm never tried is above all others.
Above(c, a, b) ==
  \/ cnt[c][a] = 0 /\ cnt[c][b] > 0
  \/ cnt[c][a] > 0 /\ cnt[c][b] > 0 /\ sum[c][a] * cnt[c][b] > sum[c][b] * cnt[c][a]

\* The first arm that no other is above, and the first with the fewest tries.
BestArm(c) == Min({a \in Arms : \A b \in Arms : ~Above(c, b, a)})
LeastTried(c) == Min({a \in Arms : \A b \in Arms : cnt[c][a] <= cnt[c][b]})

\* What Select may return, and the arm it holds afterwards.
Select(c, low) ==
  IF current[c] = NoArm
    THEN {<<BestArm(c), BestArm(c)>>}
    ELSE {<<LeastTried(c), current[c]>>,
          IF low THEN <<BestArm(c), BestArm(c)>> ELSE <<current[c], current[c]>>}

\* What selectFromRepertoire may return: the first arm never tried, or any.
FromRepertoire(c, fits) ==
  IF \E a \in fits : cnt[c][a] = 0 THEN {Min({a \in fits : cnt[c][a] = 0})} ELSE fits

\* Observe for the contexts and arms in pairs, with one result.
Observe(pairs, r) ==
  /\ sum' = [c \in Contexts |-> [a \in Arms |-> sum[c][a] + (IF <<c, a>> \in pairs THEN Reward(r) ELSE 0)]]
  /\ cnt' = [c \in Contexts |-> [a \in Arms |-> cnt[c][a] + (IF <<c, a>> \in pairs THEN 1 ELSE 0)]]

\* Record: where the survival average may be after one more result.
Record(r) ==
  /\ seen' = seen + 1
  /\ surv' \in CASE r = "ok" /\ surv = "low" -> {"low", "ok"}
                 [] r = "ok"                 -> {"ok"}
                 [] surv = "ok"              -> {"ok", "low"}
                 [] OTHER                    -> {"low"}

\* The arms a verdict of this stage is charged to.
JudgedBy(d, stage) ==
  IF joint
    THEN IF stage = "handshake" THEN {<<"joint", arm[d]>>} ELSE {}
    ELSE {<<"sni", arm[d]>>} \cup
         (IF fragArm[d] # NoArm /\ stage = "handshake" THEN {<<"frag", fragArm[d]>>} ELSE {})

\* The observe closure of whisperaDial.
Verdict(d, r, stage) ==
  /\ Record(r)
  /\ Observe(JudgedBy(d, stage), r)

-----------------------------------------------------------------------------
(* A dial.                                                                 *)

\* The arms are drawn; a switch of arm resets survival to the threshold.
Draw(d) ==
  /\ dpc[d] = "new"
  /\ IF joint
       THEN /\ \E a \in FromRepertoire("joint", IF fragmented THEN Arms ELSE {0}) :
                 arm' = [arm EXCEPT ![d] = a]
            /\ UNCHANGED <<current, surv, fragArm>>
       ELSE LET low == seen >= Cardinality(Arms) /\ surv = "low" IN
            /\ \E choice \in Select("sni", low) :
                 /\ arm' = [arm EXCEPT ![d] = choice[1]]
                 /\ current' = [current EXCEPT !["sni"] = choice[2]]
                 /\ surv' = IF current["sni"] \notin {NoArm, choice[2]} THEN "edge" ELSE surv
            /\ \E a \in (IF fragmented THEN FromRepertoire("frag", Arms) ELSE {NoArm}) :
                 fragArm' = [fragArm EXCEPT ![d] = a]
  /\ dpc' = [dpc EXCEPT ![d] = "dial"]
  /\ UNCHANGED <<joint, fragmented, sum, cnt, seen, live, npc, clpc, shapeVars, saidVars>>

\* dialRaw; a failure is a verdict the first time and not the second.
DialRaw(d, err) ==
  /\ dpc[d] \in {"dial", "redial"}
  /\ dpc' = [dpc EXCEPT ![d] = IF err # "none" THEN "failed" ELSE IF @ = "dial" THEN "shake" ELSE "reshake"]
  /\ IF err # "none" /\ dpc[d] = "dial"
       THEN Verdict(d, classifyHandshake(err, FALSE), "handshake") /\ hsSaid' = [hsSaid EXCEPT ![d] = @ + 1]
       ELSE UNCHANGED <<strategyVars, hsSaid>>
  /\ UNCHANGED <<joint, fragmented, current, arm, fragArm, live, npc, clpc, shapeVars, liveSaid, endSaid>>

\* dialTLS: a collected hello that fails other than by a timeout is tried
\* once more with the preset's own.
RetryWorthwhile(d, err) == dpc[d] = "shake" /\ err \notin {"none", "timeout"}

\* tlsHandshake: a hello that cannot be built ends it without a verdict.
Shake(d, err, fast, collected) ==
  /\ dpc[d] \in {"shake", "reshake"}
  /\ IF err = "hello"
       THEN UNCHANGED <<strategyVars, hsSaid>>
       ELSE /\ Verdict(d, classifyHandshake(err, fast), "handshake")
            /\ hsSaid' = [hsSaid EXCEPT ![d] = @ + 1]
  /\ dpc' = [dpc EXCEPT ![d] = CASE err = "none" -> "preamble"
                                  [] collected /\ RetryWorthwhile(d, err) -> "redial"
                                  [] OTHER -> "failed"]
  /\ UNCHANGED <<joint, fragmented, current, arm, fragArm, live, npc, clpc, shapeVars, liveSaid, endSaid>>

\* dialPerflow: the preamble is written and the connection established.
Preamble(d, ok) ==
  /\ dpc[d] = "preamble"
  /\ dpc' = [dpc EXCEPT ![d] = IF ok THEN "live" ELSE "failed"]
  /\ live' = [live EXCEPT ![d].established = ok]
  /\ UNCHANGED <<joint, fragmented, strategyVars, current, arm, fragArm, npc, clpc, shapeVars, saidVars>>

-----------------------------------------------------------------------------
(* The end of a connection: note and Close, each with its callback outside *)
(* the lock.                                                               *)

\* shapeController.note: an end that counts, and the end of the epoch.
ShapeNote(how, over) ==
  IF how = "skip" THEN UNCHANGED <<sum, cnt, current, shapeVars>>
  ELSE LET g == good + (IF how = "good" THEN 1 ELSE 0)
           b == bad + (IF how = "bad" THEN 1 ELSE 0)
       IN  IF ~over THEN good' = g /\ bad' = b /\ UNCHANGED <<sum, cnt, current, shapeArm>>
           ELSE /\ Observe({<<"shape", shapeArm>>}, IF g > b THEN "ok" ELSE "reset")
                /\ \E choice \in Select("shape", FALSE) :
                     shapeArm' = choice[1] /\ current' = [current EXCEPT !["shape"] = choice[2]]
                /\ good' = 0 /\ bad' = 0

\* reportEnd: once per established connection.
ReportEnd(d, reset) ==
  IF live[d].ended \/ ~live[d].established
    THEN UNCHANGED <<live, sum, cnt, current, shapeVars, endSaid>>
    ELSE /\ live' = [live EXCEPT ![d].ended = TRUE]
         /\ endSaid' = [endSaid EXCEPT ![d] = @ + 1]
         /\ \E how \in (IF reset THEN {"bad"} ELSE {"skip", "good", "bad"}), over \in BOOLEAN :
              ShapeNote(how, over)

\* A read or a write meets a reset within the first eight seconds.
Note(d) ==
  /\ dpc[d] = "live" /\ npc[d] = "idle"
  /\ ~live[d].fired /\ ~live[d].closedByUs
  /\ live' = [live EXCEPT ![d].fired = TRUE]
  /\ npc' = [npc EXCEPT ![d] = "callback"]
  /\ UNCHANGED <<joint, fragmented, strategyVars, current, dialVars, clpc, shapeVars, saidVars>>

OnReset(d) ==
  /\ npc[d] = "callback"
  /\ Verdict(d, "reset", "live") /\ liveSaid' = [liveSaid EXCEPT ![d] = @ + 1]
  /\ npc' = [npc EXCEPT ![d] = "end"]
  /\ UNCHANGED <<joint, fragmented, current, dialVars, live, clpc, shapeVars, hsSaid, endSaid>>

NoteEnd(d) ==
  /\ npc[d] = "end"
  /\ ReportEnd(d, TRUE)
  /\ npc' = [npc EXCEPT ![d] = "done"]
  /\ UNCHANGED <<joint, fragmented, surv, seen, dialVars, clpc, hsSaid, liveSaid>>

\* Mutant of Close: it reports whatever note has reported.
Close_Anyway(d, k) ==
  /\ dpc[d] = "live" /\ clpc[d][k] = "idle"
  /\ clpc' = [clpc EXCEPT ![d][k] = IF ~live[d].closedByUs THEN "callback" ELSE "end"]
  /\ live' = [live EXCEPT ![d].closedByUs = TRUE]
  /\ UNCHANGED <<joint, fragmented, strategyVars, current, dialVars, npc, shapeVars, saidVars>>

Close(d, k) ==
  /\ dpc[d] = "live" /\ clpc[d][k] = "idle"
  /\ clpc' = [clpc EXCEPT ![d][k] =
       IF live[d].established /\ ~live[d].fired /\ ~live[d].closedByUs THEN "callback" ELSE "end"]
  /\ live' = [live EXCEPT ![d].closedByUs = TRUE]
  /\ UNCHANGED <<joint, fragmented, strategyVars, current, dialVars, npc, shapeVars, saidVars>>

OnOK(d, k) ==
  /\ clpc[d][k] = "callback"
  /\ Verdict(d, "ok", "live") /\ liveSaid' = [liveSaid EXCEPT ![d] = @ + 1]
  /\ clpc' = [clpc EXCEPT ![d][k] = "end"]
  /\ UNCHANGED <<joint, fragmented, current, dialVars, live, npc, shapeVars, hsSaid, endSaid>>

CloseEnd(d, k) ==
  /\ clpc[d][k] = "end"
  /\ ReportEnd(d, FALSE)
  /\ clpc' = [clpc EXCEPT ![d][k] = "done"]
  /\ UNCHANGED <<joint, fragmented, surv, seen, dialVars, npc, hsSaid, liveSaid>>

Next == \E d \in Dials :
  \/ Draw(d) \/ Note(d) \/ OnReset(d) \/ NoteEnd(d)
  \/ \E ok \in BOOLEAN : Preamble(d, ok)
  \/ \E err \in {"none", "timeout"} : DialRaw(d, err)
  \/ \E err \in {"none", "reset", "timeout", "hello"}, c \in BOOLEAN : Shake(d, err, TRUE, c)
  \/ \E k \in Closers : Close(d, k) \/ OnOK(d, k) \/ CloseEnd(d, k)

Spec == Init /\ [][Next]_dvVars

-----------------------------------------------------------------------------
(* Properties.                                                             *)

Told(c, a) == {d \in Dials : IF c = "frag" THEN fragArm[d] = a ELSE arm[d] = a}

\* A connection gives one verdict on its life and one on its end, however
\* many goroutines meet its reset or close it; it has given both when the
\* closers are through (livenessConn).
OneVerdict ==
  \A d \in Dials :
    /\ liveSaid[d] <= 1 /\ endSaid[d] <= 1
    /\ (\E k \in Closers : clpc[d][k] = "done") /\ (\A k \in Closers : clpc[d][k] \in {"idle", "done"})
         /\ npc[d] \in {"idle", "done"} => liveSaid[d] = 1 /\ endSaid[d] = 1

\* Every arm has been charged with the handshakes of the dials that drew it,
\* and only the fingerprint's also with their lives (observe in whisperaDial).
ArmsAreCharged ==
  \A a \in Arms :
    /\ ~joint => /\ cnt["frag"][a] = MapThenSumSet(LAMBDA d : hsSaid[d], Told("frag", a))
                 /\ cnt["sni"][a] = MapThenSumSet(LAMBDA d : hsSaid[d] + liveSaid[d], Told("sni", a))
    /\ joint => cnt["joint"][a] = MapThenSumSet(LAMBDA d : hsSaid[d], Told("joint", a))

\* Both together.
VerdictsAreRight == OneVerdict /\ ArmsAreCharged
=============================================================================
