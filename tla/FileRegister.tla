---------------------------- MODULE FileRegister ----------------------------
(***************************************************************************)
(* What fsown.WriteFile promises: a file that holds one value at a time,   *)
(* and writers whose write either takes effect at once and as a whole, or  *)
(* fails and changes nothing.                                              *)
(***************************************************************************)
CONSTANTS Writers, Values, NoValue

VARIABLES
  content,   \* what a reader of the file finds
  op         \* writer -> the value it is writing, or NoValue

Init == content \in Values /\ op = [p \in Writers |-> NoValue]

Begin(p, d) ==
  /\ op[p] = NoValue /\ op' = [op EXCEPT ![p] = d]
  /\ UNCHANGED content

Commit(p) ==
  /\ op[p] # NoValue /\ content' = op[p]
  /\ op' = [op EXCEPT ![p] = NoValue]

Abort(p) ==
  /\ op[p] # NoValue /\ op' = [op EXCEPT ![p] = NoValue]
  /\ UNCHANGED content

Next == \E p \in Writers : Commit(p) \/ Abort(p) \/ \E d \in Values : Begin(p, d)

Spec == Init /\ [][Next]_<<content, op>>
=============================================================================
