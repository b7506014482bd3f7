---------------------------- MODULE StreamPipes ----------------------------
(***************************************************************************)
(* What a stream promises its two ends, however connections are shared:    *)
(* every stream is a pair of pipes of its own.  What comes out of a pipe   *)
(* is what went into it, in order, without gaps and without anything from  *)
(* another stream; a pipe may be cut at any point.                         *)
(***************************************************************************)
EXTENDS Naturals, Sequences

CONSTANT Pipes   \* one per stream and direction

VARIABLES
  sent,  \* what has been put into each pipe
  got    \* what has come out of it

Init == sent = [p \in Pipes |-> <<>>] /\ got = [p \in Pipes |-> <<>>]

Send(p) ==
  /\ \E x \in {Len(sent[p]) + 1} : sent' = [sent EXCEPT ![p] = Append(@, <<p, x>>)]
  /\ UNCHANGED got

Deliver(p) ==
  /\ Len(got[p]) < Len(sent[p])
  /\ got' = [got EXCEPT ![p] = Append(@, sent[p][Len(@) + 1])]
  /\ UNCHANGED sent

Next == \E p \in Pipes : Send(p) \/ Deliver(p)

Spec == Init /\ [][Next]_<<sent, got>>
=============================================================================
