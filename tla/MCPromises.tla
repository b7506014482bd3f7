----------------------------- MODULE MCPromises -----------------------------
(***************************************************************************)
(* The components that implement an abstract specification, for TLC, one   *)
(* at a time: a connection that carries one stream after another           *)
(* (StreamPipes), and the replacement of a file (FileRegister).  part says *)
(* which one runs; the other stays as it starts.                           *)
(***************************************************************************)
EXTENDS StreamReuse

CONSTANTS Parts                                \* the components that run
CONSTANTS Writers, Values, NoValue, Torn, MaxIno

VARIABLE part

VARIABLES ino, path, tmp, w

fileVars == <<ino, path, tmp, w>>

File == INSTANCE AtomicFile

\* The file starts with any content, unless it is the other one that runs.
MCInit ==
  /\ part \in Parts /\ Init /\ File!Init
  /\ part # "file" => ino = <<CHOOSE d \in Values : TRUE>>

MCNext ==
  /\ UNCHANGED part
  /\ \/ part = "reuse" /\ Next /\ UNCHANGED fileVars
     \/ part = "file" /\ File!Next /\ UNCHANGED vars

MCSpec == MCInit /\ [][MCNext]_<<part, vars, fileVars>>

-----------------------------------------------------------------------------

\* Nothing of a stream is left behind for the connection's next one
\* (drainToEnd, runSession), and a client told that the answer has ended has
\* all of it (relayTCP).
CleanEnds == NothingStays /\ EndMeansComplete

\* "A crash or a full disk leaves the old file intact rather than a truncated
\* one" (fsown.go): whoever reads the target finds a whole value.
PathIsWhole == File!PathIsWhole

\* "WriteFile replaces path with data atomically" (fsown.go): it implements a
\* register whose writes take effect as a whole or not at all.
Replaces == File!Replaces
=============================================================================
