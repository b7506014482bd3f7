----------------------------- MODULE AtomicFile -----------------------------
(***************************************************************************)
(* fsown.WriteFile (common/fsown/fsown.go): the users, the subscriptions,  *)
(* the configuration and the certificates are replaced by writing a        *)
(* temporary file of a fixed name beside the target and renaming it.       *)
(*                                                                         *)
(* Files are inodes: a writer keeps the one it opened also when another    *)
(* process renames it.  A process may die between any two steps.           *)
(***************************************************************************)
EXTENDS Naturals, Sequences

CONSTANTS
  Writers,   \* processes or goroutines that may replace the file
  Values,    \* what they write
  NoValue,
  Torn,      \* an inode that was truncated and not, or not wholly, written
  MaxIno     \* bound: inodes made in all

VARIABLES
  ino,       \* inode -> content
  path,      \* the target's inode
  tmp,       \* the temporary file's inode, 0: there is none
  w          \* writer -> where it is, the inode it opened, what it writes

vars == <<ino, path, tmp, w>>

Idle == [at |-> "idle", ino |-> 0, data |-> NoValue]
Done(p) == w' = [w EXCEPT ![p] = Idle]
GoTo(p, a) == w' = [w EXCEPT ![p].at = a]

Init ==
  /\ \E d \in Values : ino = <<d>>
  /\ path = 1 /\ tmp = 0
  /\ w = [p \in Writers |-> Idle]

-----------------------------------------------------------------------------

\* The call.
Call(p, d) ==
  /\ w[p].at = "idle"
  /\ w' = [w EXCEPT ![p] = [at |-> "open", ino |-> 0, data |-> d]]
  /\ UNCHANGED <<ino, path, tmp>>

\* Mutant of Open: the target itself is opened.
Open_InPlace(p) ==
  /\ w[p].at \in {"open", "reopen"}
  /\ ino' = [ino EXCEPT ![path] = Torn]
  /\ w' = [w EXCEPT ![p].at = "write", ![p].ino = path]
  /\ UNCHANGED <<path, tmp>>

\* os.WriteFile opens the temporary file, creates or truncates it.
Open(p) ==
  /\ w[p].at \in {"open", "reopen"}
  /\ IF tmp = 0
     THEN /\ Len(ino) < MaxIno
          /\ ino' = Append(ino, Torn) /\ tmp' = Len(ino) + 1
     ELSE /\ ino' = [ino EXCEPT ![tmp] = Torn] /\ UNCHANGED tmp
  /\ w' = [w EXCEPT ![p].at = "write", ![p].ino = tmp']
  /\ UNCHANGED path

\* One that another user left may not be opened: it is removed and made anew.
OpenDenied(p) ==
  /\ w[p].at = "open" /\ tmp # 0
  /\ \/ tmp' = 0 /\ GoTo(p, "reopen")
     \/ tmp' = tmp /\ Done(p)
  /\ UNCHANGED <<ino, path>>

Write(p) ==
  /\ w[p].at = "write"
  /\ ino' = [ino EXCEPT ![w[p].ino] = w[p].data]
  /\ GoTo(p, "chown")
  /\ UNCHANGED <<path, tmp>>

\* The disk is full: the temporary file stays, torn.
WriteFails(p) ==
  /\ w[p].at = "write" /\ Done(p)
  /\ UNCHANGED <<ino, path, tmp>>

\* MatchParent; if it fails the temporary file is removed.
Chown(p) ==
  /\ w[p].at = "chown"
  /\ \/ GoTo(p, "rename") /\ UNCHANGED tmp
     \/ Done(p) /\ tmp' = 0
  /\ UNCHANGED <<ino, path>>

\* It may have been taken by another writer's rename, and then this one fails.
Rename(p) ==
  /\ w[p].at = "rename" /\ Done(p)
  /\ path' = IF tmp # 0 THEN tmp ELSE path
  /\ tmp' = 0
  /\ UNCHANGED ino

RenameFails(p) ==
  /\ w[p].at = "rename" /\ Done(p)
  /\ tmp' = 0
  /\ UNCHANGED <<ino, path>>

Crash(p) ==
  /\ w[p].at # "idle" /\ Done(p)
  /\ UNCHANGED <<ino, path, tmp>>

Step(p) == \/ Open(p) \/ OpenDenied(p) \/ Write(p) \/ WriteFails(p)
           \/ Chown(p) \/ Rename(p) \/ RenameFails(p) \/ Crash(p)

Next == \E p \in Writers : Step(p) \/ \E d \in Values : Call(p, d)

Spec == Init /\ [][Next]_vars

-----------------------------------------------------------------------------
(* Properties.                                                             *)

\* The type invariant: a writer past its open holds an inode, and the
\* temporary file and the target are never the same one.
TypeOK ==
  /\ \A i \in DOMAIN ino : ino[i] \in Values \cup {Torn}
  /\ path \in DOMAIN ino /\ tmp \in {0} \cup DOMAIN ino /\ tmp # path
  /\ \A p \in Writers :
       /\ w[p].at \in {"idle", "open", "reopen", "write", "chown", "rename"}
       /\ w[p].at \in {"write", "chown", "rename"} => w[p].ino \in DOMAIN ino

\* "A crash or a full disk leaves the old file intact rather than a truncated
\* one" (fsown.go:10): whoever reads the target finds a whole value.
PathIsWhole == ino[path] \in Values

Register == INSTANCE FileRegister WITH
  content <- ino[path], op <- [p \in Writers |-> w[p].data]

\* "WriteFile replaces path with data atomically" (fsown.go:8): it implements
\* a register whose writes take effect as a whole or not at all.
Replaces == Register!Spec
=============================================================================
