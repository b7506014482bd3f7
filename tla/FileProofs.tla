----------------------------- MODULE FileProofs -----------------------------
(***************************************************************************)
(* What a crash leaves on the disk, for any values, versions and number of *)
(* steps: the replacement of a file by fsown.WriteFile (AtomicFile), which *)
(* implements a register (FileRegister), and the self-update's binary and  *)
(* backups (Updater).                                                      *)
(***************************************************************************)
EXTENDS Integers, FiniteSets, Sequences, FiniteSetTheorems, SequenceTheorems,
        WellFoundedInduction, TLAPS

CONSTANTS Writers, Values, NoValue, Torn, MaxIno   \* AtomicFile
CONSTANTS Versions, MaxChecks, MaxCrash            \* Updater

VARIABLES ino, path, tmp, w
VARIABLES upBinary, upBackups, upVersion, upPc, upInfo, upTmp, upSigned, upChecks, upCrashes,
          strays

File == INSTANCE AtomicFile
Upd == INSTANCE Updater

-----------------------------------------------------------------------------
(* The replacement of a file.                                              *)

\* The writer is alone; the marks are no contents.
OneWriter ==
  /\ \A p, q \in Writers : p = q
  /\ NoValue \notin Values /\ Torn \notin Values

WriterRec == [at : {"idle", "open", "reopen", "write", "chown", "rename"},
              ino : Nat, data : Values \cup {NoValue}]

\* Where a writer is, with what, and the inode it has open: it is the
\* temporary file's, which is never the target's.
FileInv ==
  /\ ino \in Seq(Values \cup {Torn})
  /\ path \in 1..Len(ino) /\ tmp \in 0..Len(ino) /\ tmp # path
  /\ ino[path] \in Values
  /\ w \in [Writers -> WriterRec]
  /\ \A p \in Writers :
       /\ w[p].at = "idle" <=> w[p].data = NoValue
       /\ w[p].at = "idle" => w[p].ino = 0
       /\ w[p].at \in {"write", "chown", "rename"} => tmp # 0 /\ w[p].ino = tmp
       /\ w[p].at \in {"chown", "rename"} => ino[tmp] = w[p].data

\* What a step of the writer may do: begin, give up, put its value in place
\* or nothing that a reader or a caller sees.
RegisterStep ==
  \/ File!Register!Next
  \/ UNCHANGED <<ino[path], [p \in Writers |-> w[p].data]>>

\* A call ends without effect: the register's Abort, or its Commit when the
\* value is in place.
LEMMA WriterEnds ==
  ASSUME OneWriter, FileInv, NEW p \in Writers, w[p].at # "idle", File!Done(p),
         ino' = ino, tmp' \in {0, tmp},
         path' = path \/ (path' \in 1..Len(ino) /\ tmp' = 0 /\ ino[path'] = w[p].data)
  PROVE  FileInv' /\ File!Register!Next
<1>1. /\ w' \in [Writers -> WriterRec] /\ w'[p].at = "idle" /\ w'[p].ino = 0
      /\ w'[p].data = NoValue /\ \A q \in Writers : q = p
  BY DEF FileInv, WriterRec, File!Done, File!Idle, OneWriter
<1>2. w[p] \in WriterRec /\ w[p].data # NoValue /\ w[p].data \in Values
  BY DEF FileInv, WriterRec
<1>3. FileInv'
  <2>1. path' \in 1..Len(ino') /\ tmp' \in 0..Len(ino') /\ tmp' # path' /\ ino'[path'] \in Values
    BY <1>2 DEF FileInv
  <2> QED
    BY <1>1, <2>1 DEF FileInv
<1>4. CASE path' = path
  <2>1. File!Register!Abort(p)
    BY <1>1, <1>2, <1>4 DEF File!Register!Abort
  <2> QED
    BY <1>3, <2>1 DEF File!Register!Next
<1>5. CASE path' # path
  <2>1. File!Register!Commit(p)
    BY <1>1, <1>2, <1>5 DEF File!Register!Commit
  <2> QED
    BY <1>3, <2>1 DEF File!Register!Next
<1> QED
  BY <1>4, <1>5

\* A step inside a call changes nothing that the register shows.
LEMMA WriterGoesOn ==
  ASSUME OneWriter, FileInv, NEW p \in Writers, w[p].at # "idle",
         NEW a \in {"reopen", "write", "chown", "rename"}, NEW i \in Nat,
         w' = [w EXCEPT ![p].at = a, ![p].ino = i],
         ino' \in Seq(Values \cup {Torn}), path' = path, path \in 1..Len(ino'),
         ino'[path] = ino[path], tmp' \in 0..Len(ino'), tmp' # path,
         a # "reopen" => tmp' # 0 /\ i = tmp',
         a \in {"chown", "rename"} => ino'[tmp'] = w[p].data
  PROVE  FileInv' /\ UNCHANGED <<ino[path], [q \in Writers |-> w[q].data]>>
<1>1. w \in [Writers -> WriterRec] /\ w[p] \in WriterRec /\ w[p].data # NoValue
  BY DEF FileInv, WriterRec
<1>2. /\ w' \in [Writers -> WriterRec] /\ w'[p].at = a /\ w'[p].ino = i
      /\ w'[p].data = w[p].data /\ \A q \in Writers : q = p
  BY <1>1 DEF WriterRec, OneWriter
<1>3. FileInv'
  BY <1>1, <1>2 DEF FileInv
<1>4. [q \in Writers |-> w[q].data]' = [q \in Writers |-> w[q].data]
  BY <1>2
<1> QED
  BY <1>3, <1>4

\* Every step of the one writer keeps the invariant, and is a step of the
\* register or none.
LEMMA FileStep ==
  ASSUME OneWriter, FileInv, File!Next
  PROVE  FileInv' /\ RegisterStep
<1>1. PICK p \in Writers : File!Step(p) \/ \E d \in Values : File!Call(p, d)
  BY DEF File!Next
<1>2. /\ w \in [Writers -> WriterRec] /\ w[p] \in WriterRec /\ Len(ino) \in Nat
      /\ (w[p].at # "idle" => w[p].data \in Values)
      /\ ino \in Seq(Values \cup {Torn}) /\ path \in 1..Len(ino)
      /\ tmp \in 0..Len(ino) /\ tmp # path /\ tmp \in Nat
  BY LenProperties DEF FileInv, WriterRec
<1>3. CASE \E d \in Values : File!Call(p, d)
  <2>1. PICK d \in Values : File!Call(p, d)
    BY <1>3
  <2>2. /\ w' \in [Writers -> WriterRec] /\ w'[p].at = "open" /\ w'[p].ino = 0 /\ w'[p].data = d
        /\ w[p].data = NoValue /\ d # NoValue /\ (\A q \in Writers : q = p)
        /\ UNCHANGED <<ino, path, tmp>>
    BY <1>2, <2>1 DEF File!Call, WriterRec, OneWriter, FileInv
  <2>3. FileInv'
    BY <2>2 DEF FileInv
  <2>4. File!Register!Begin(p, d)
    BY <2>2 DEF File!Register!Begin
  <2> QED
    BY <2>3, <2>4 DEF RegisterStep, File!Register!Next
<1>4. CASE File!Open(p)
  <2>1. /\ w[p].at \in {"open", "reopen"} /\ path' = path
        /\ w' = [w EXCEPT ![p].at = "write", ![p].ino = tmp']
    BY <1>4 DEF File!Open
  <2>2. CASE tmp = 0
    <3>1. ino' = Append(ino, Torn) /\ tmp' = Len(ino) + 1
      BY <1>4, <2>2 DEF File!Open
    <3>2. /\ ino' \in Seq(Values \cup {Torn}) /\ Len(ino') = Len(ino) + 1
          /\ \A i \in 1..Len(ino) : ino'[i] = ino[i]
      BY <3>1, AppendProperties DEF FileInv
    <3>3. /\ tmp' \in Nat /\ tmp' # 0 /\ tmp' \in 0..Len(ino') /\ tmp' # path
          /\ path \in 1..Len(ino') /\ ino'[path] = ino[path]
      BY <1>2, <3>1, <3>2 DEF FileInv
    <3> QED
      BY <2>1, <3>2, <3>3, WriterGoesOn DEF RegisterStep
  <2>3. CASE tmp # 0
    <3>1. ino' = [ino EXCEPT ![tmp] = Torn] /\ tmp' = tmp /\ tmp \in 1..Len(ino)
      BY <1>2, <1>4, <2>3 DEF File!Open, FileInv
    <3>2. ino' \in Seq(Values \cup {Torn}) /\ Len(ino') = Len(ino) /\ ino'[path] = ino[path]
      BY <3>1, ExceptSeq DEF FileInv
    <3>3. /\ tmp' \in Nat /\ tmp' # 0 /\ tmp' \in 0..Len(ino') /\ tmp' # path
          /\ path \in 1..Len(ino')
      BY <1>2, <2>3, <3>1, <3>2
    <3> QED
      BY <2>1, <3>2, <3>3, WriterGoesOn DEF RegisterStep
  <2> QED
    BY <2>2, <2>3
<1>5. CASE File!OpenDenied(p)
  <2>1. w[p].at = "open" /\ tmp # 0 /\ UNCHANGED <<ino, path>>
    BY <1>5 DEF File!OpenDenied
  <2>2. CASE tmp' = 0 /\ File!GoTo(p, "reopen")
    <3>1. w' = [w EXCEPT ![p].at = "reopen", ![p].ino = w[p].ino] /\ w[p].ino \in Nat
      BY <1>2, <2>2 DEF File!GoTo, WriterRec
    <3>2. /\ tmp' \in 0..Len(ino') /\ tmp' # path /\ path \in 1..Len(ino') /\ ino' \in Seq(Values \cup {Torn})
          /\ ino'[path] = ino[path] /\ path' = path
      BY <1>2, <2>1, <2>2
    <3> QED
      BY <2>1, <3>1, <3>2, WriterGoesOn DEF RegisterStep
  <2>3. CASE tmp' = tmp /\ File!Done(p)
    BY <2>1, <2>3, WriterEnds DEF RegisterStep
  <2> QED
    BY <1>5, <2>2, <2>3 DEF File!OpenDenied
<1>6. CASE File!Write(p)
  <2>1. /\ w[p].at = "write" /\ w[p].ino = tmp /\ tmp \in 1..Len(ino) /\ w[p].data \in Values
        /\ ino' = [ino EXCEPT ![tmp] = w[p].data] /\ path' = path /\ tmp' = tmp
        /\ File!GoTo(p, "chown")
    <3>1. w[p].at = "write" /\ w[p].ino = tmp /\ tmp # 0
      BY <1>6 DEF File!Write, FileInv
    <3>2. tmp \in 1..Len(ino)
      BY <1>2, <3>1
    <3> QED
      BY <1>2, <1>6, <3>1, <3>2 DEF File!Write
  <2>2. w' = [w EXCEPT ![p].at = "chown", ![p].ino = tmp]
    BY <1>2, <2>1 DEF File!GoTo, WriterRec
  <2>3. /\ ino' \in Seq(Values \cup {Torn}) /\ Len(ino') = Len(ino)
        /\ ino'[path] = ino[path] /\ ino'[tmp] = w[p].data
    BY <2>1, ExceptSeq DEF FileInv
  <2>4. /\ tmp' \in 0..Len(ino') /\ tmp' # path /\ path \in 1..Len(ino') /\ tmp' # 0 /\ tmp = tmp'
        /\ tmp \in Nat /\ ino'[tmp'] = w[p].data /\ path' = path
    BY <1>2, <2>1, <2>3
  <2> QED
    BY <2>1, <2>2, <2>3, <2>4, WriterGoesOn DEF RegisterStep
<1>7. CASE File!Chown(p)
  <2>1. /\ w[p].at = "chown" /\ w[p].ino = tmp /\ tmp \in 1..Len(ino) /\ ino[tmp] = w[p].data
        /\ UNCHANGED <<ino, path>>
    BY <1>2, <1>7 DEF File!Chown, FileInv
  <2>2. CASE File!GoTo(p, "rename") /\ tmp' = tmp
    <3>1. w' = [w EXCEPT ![p].at = "rename", ![p].ino = tmp]
      BY <1>2, <2>1, <2>2 DEF File!GoTo, WriterRec
    <3>2. /\ tmp' \in 0..Len(ino') /\ tmp' # path /\ path \in 1..Len(ino') /\ tmp' # 0 /\ tmp = tmp'
          /\ tmp \in Nat /\ ino'[tmp'] = w[p].data /\ path' = path
          /\ ino' \in Seq(Values \cup {Torn}) /\ ino'[path] = ino[path]
      BY <1>2, <2>1, <2>2
    <3> QED
      BY <2>1, <3>1, <3>2, WriterGoesOn DEF RegisterStep
  <2>3. CASE File!Done(p) /\ tmp' = 0
    BY <2>1, <2>3, WriterEnds DEF RegisterStep
  <2> QED
    BY <1>7, <2>2, <2>3 DEF File!Chown
<1>8. CASE File!Rename(p)
  <2>1. /\ w[p].at = "rename" /\ tmp \in 1..Len(ino) /\ ino[tmp] = w[p].data
        /\ File!Done(p) /\ path' = tmp /\ tmp' = 0 /\ ino' = ino
    BY <1>2, <1>8 DEF File!Rename, FileInv
  <2> QED
    BY <2>1, WriterEnds DEF RegisterStep
<1>9. CASE File!WriteFails(p) \/ File!RenameFails(p) \/ File!Crash(p)
  BY <1>9, WriterEnds DEF File!WriteFails, File!RenameFails, File!Crash, RegisterStep
<1> QED
  BY <1>1, <1>3, <1>4, <1>5, <1>6, <1>7, <1>8, <1>9 DEF File!Step

\* "WriteFile replaces path with data atomically" and "A crash or a full disk
\* leaves the old file intact" (fsown.go): with one writer it implements a
\* register whose writes take effect as a whole or not at all, whatever step
\* fails and wherever the process dies, for any values and number of inodes.
THEOREM FileIsReplaced ==
  ASSUME OneWriter
  PROVE  File!Spec => File!Replaces /\ []File!PathIsWhole
<1>1. File!Init => FileInv
  <2> SUFFICES ASSUME File!Init PROVE FileInv
    OBVIOUS
  <2>1. PICK d \in Values : ino = <<d>>
    BY DEF File!Init
  <2>2. ino \in Seq(Values \cup {Torn}) /\ Len(ino) = 1 /\ ino[1] = d
    BY <2>1
  <2>3. path = 1 /\ tmp = 0 /\ w = [p \in Writers |-> [at |-> "idle", ino |-> 0, data |-> NoValue]]
    BY DEF File!Init, File!Idle
  <2> QED
    BY <2>2, <2>3 DEF FileInv, WriterRec
<1>2. File!Init => File!Register!Init
  BY DEF File!Init, File!Idle, File!Register!Init
<1>3. FileInv /\ [File!Next]_(File!vars) => FileInv'
  BY FileStep DEF FileInv, File!vars
<1>4. FileInv /\ [File!Next]_(File!vars) => [File!Register!Next]_<<ino[path], [p \in Writers |-> w[p].data]>>
  BY FileStep DEF RegisterStep, File!vars
<1>5. FileInv => File!PathIsWhole
  BY DEF FileInv, File!PathIsWhole
<1> QED
  BY <1>1, <1>2, <1>3, <1>4, <1>5, PTL DEF File!Spec, File!Replaces, File!Register!Spec

-----------------------------------------------------------------------------
(* The self-update.                                                        *)

\* A finite set of numbers that is not empty has a largest one: of the sets of
\* numbers from v on, take one that contains no other.
LEMMA MaxIsIn ==
  ASSUME NEW S, IsFiniteSet(S), S \subseteq Int, S # {}
  PROVE  Upd!Max(S) \in S
<1> DEFINE From(v) == {x \in S : x >= v}
           T == {From(v) : v \in S}
           R == StrictSubsetOrdering(S)
<1>1. IsWellFoundedOn(R, FiniteSubsetsOf(S))
  BY FS_StrictSubsetOrderingWellFounded
<1>2. T \subseteq FiniteSubsetsOf(S) /\ T # {}
  <2>1. ASSUME NEW v \in S PROVE From(v) \in FiniteSubsetsOf(S)
    <3>1. From(v) \in SUBSET S
      OBVIOUS
    <3> QED
      BY <3>1, FS_Subset DEF FiniteSubsetsOf
  <2> QED
    BY <2>1
<1>3. PICK m \in T : \A y \in T : ~ (<<y, m>> \in R)
  <2> HIDE DEF T, R
  <2> QED
    BY <1>1, <1>2, WFMin
<1>4. PICK v \in S : m = From(v)
  OBVIOUS
<1>5. ASSUME NEW y \in S PROVE v >= y
  <2>0. v \in Int /\ y \in Int
    OBVIOUS
  <2> SUFFICES ASSUME y > v PROVE FALSE
    BY <2>0
  <2>1. From(y) \subseteq From(v) /\ v \in From(v) /\ v \notin From(y)
    <3>1. \A x \in S : x \in Int /\ (x >= y => x >= v)
      BY <2>0
    <3>2. v >= v /\ ~(v >= y)
      BY <2>0
    <3> QED
      BY <3>1, <3>2
  <2>2. From(y) \in T /\ From(y) \in SUBSET S /\ From(v) \in SUBSET S
    OBVIOUS
  <2> HIDE DEF From, T
  <2>3. <<From(y), From(v)>> \in R
    BY <2>1, <2>2 DEF StrictSubsetOrdering
  <2> QED
    BY <1>3, <1>4, <2>2, <2>3
<1> QED
  BY <1>5 DEF Upd!Max

UpPlaces == {"idle", "download", "verify", "backup", "copy", "replace", "applied", "rollback"}

\* Until a second roll-back goes astray: what will replace the binary was
\* verified, and what was backed up is the binary; until a first one does, a
\* torn backup bears the name of the current version and is made anew.
UpInv ==
  /\ upPc \in UpPlaces /\ strays \in 0..2
  /\ strays < 2 =>
       /\ upBinary \in Versions /\ upVersion \in Versions
       /\ upBackups \in [Versions -> Versions \cup {Upd!None, Upd!Torn}]
       /\ upPc # "idle" => upInfo \in Versions
       /\ upPc \in {"backup", "copy", "replace", "rollback", "applied"} => upTmp = upInfo
       /\ upPc = "applied" => upBinary = upInfo
       /\ upPc \in {"replace", "rollback"} => upBackups[upVersion] = upBinary
  /\ strays = 0 =>
       /\ upPc # "applied" => upBinary = upVersion
       /\ \A v \in Versions : upBackups[v] = Upd!Torn =>
            v = upVersion /\ upPc \notin {"replace", "rollback", "applied"}

\* The binary is whole and verified until a second roll-back takes another
\* version's backup, and until a first one does the updater knows its version
\* (Apply, backup, rollback), for any finite set of versions, any number of
\* manifests and of crashes.
THEOREM BinaryHolds ==
  ASSUME IsFiniteSet(Versions), Versions \subseteq Nat \ {0}
  PROVE  Upd!Spec => []Upd!BinaryIsWhole
<1> USE DEF Upd!None, Upd!Torn, Upd!Bad
<1>1. Upd!Init => UpInv
  BY DEF Upd!Init, UpInv, UpPlaces
<1>2. UpInv /\ [Upd!Next]_(Upd!upVars) => UpInv'
  <2> SUFFICES ASSUME UpInv, [Upd!Next]_(Upd!upVars) PROVE UpInv'
    OBVIOUS
  <2> USE DEF UpInv, UpPlaces, Upd!Goto
  <2>1. ASSUME NEW v \in Versions, NEW signed \in BOOLEAN, Upd!CheckForUpdate(v, signed)
        PROVE  UpInv'
    BY <2>1 DEF Upd!CheckForUpdate
  <2>2. ASSUME NEW content, Upd!Download(content) PROVE UpInv'
    BY <2>2 DEF Upd!Download
  <2>3. CASE Upd!Verify
    BY <2>3 DEF Upd!Verify
  <2>4. CASE Upd!Applied
    BY <2>4 DEF Upd!Applied
  <2>5. CASE Upd!Restart
    <3>1. CASE strays = 0
      BY <2>5, <3>1 DEF Upd!Restart
    <3>2. CASE strays # 0
      BY <2>5, <3>2 DEF Upd!Restart
    <3> QED
      BY <3>1, <3>2
  <2>6. ASSUME NEW ok \in BOOLEAN, Upd!CreateBackup(ok) PROVE UpInv'
    BY <2>6 DEF Upd!CreateBackup
  <2>7. ASSUME NEW ok \in BOOLEAN, Upd!CopyBackup(ok) PROVE UpInv'
    BY <2>7 DEF Upd!CopyBackup
  <2>8. ASSUME NEW ok \in BOOLEAN, Upd!AtomicReplace(ok) PROVE UpInv'
    BY <2>8 DEF Upd!AtomicReplace
  <2>9. ASSUME NEW ok \in BOOLEAN, Upd!Rollback(ok) PROVE UpInv'
    <3> DEFINE S == {v \in Versions : upBackups[v] # Upd!None}
               latest == Upd!Max(S)
    <3>1. CASE ok = FALSE
      BY <2>9, <3>1 DEF Upd!Rollback
    <3>2. CASE ok = TRUE
      <4>1. /\ upPc = "rollback" /\ upPc' = "idle" /\ UNCHANGED <<upInfo, upVersion, upTmp>>
            /\ upBinary' = upBackups[latest]
            /\ upBackups' = [upBackups EXCEPT ![latest] = Upd!None]
            /\ strays' = IF latest # upVersion /\ strays < 2 THEN strays + 1 ELSE strays
        BY <2>9, <3>2 DEF Upd!Rollback
      <4>2. strays < 2 => latest \in S
        <5>1. S \in SUBSET Versions /\ S \subseteq Int
          <6>1. \A v \in Versions : v \in Int
            OBVIOUS
          <6>2. S \subseteq Versions
            OBVIOUS
          <6> HIDE DEF S
          <6> QED
            BY <6>1, <6>2
        <5>2. IsFiniteSet(S)
          <6> HIDE DEF S
          <6> QED
            BY <5>1, FS_Subset
        <5>3. strays < 2 => upVersion \in S
          BY <4>1
        <5> QED
          BY <5>1, <5>2, <5>3, MaxIsIn
      <4> HIDE DEF latest
      <4>3. CASE strays' < 2
        <5>1. /\ strays < 2 /\ latest \in Versions /\ upBackups[latest] # Upd!None
              /\ latest # upVersion => strays = 0
          BY <4>1, <4>2, <4>3
        <5>2. upBinary' \in Versions /\ (strays' = 0 => upBinary' = upVersion)
          BY <4>1, <5>1
        <5> QED
          BY <4>1, <5>1, <5>2
      <4>4. CASE ~(strays' < 2)
        BY <4>1, <4>4
      <4> QED
        BY <4>3, <4>4
    <3> QED
      BY <3>1, <3>2
  <2>10. CASE UNCHANGED Upd!upVars
    BY <2>10 DEF Upd!upVars
  <2>11. CASE Upd!Next
    <3> HIDE DEF UpInv
    <3> QED
      BY <2>1, <2>2, <2>3, <2>4, <2>5, <2>6, <2>7, <2>8, <2>9, <2>11 DEF Upd!Next
  <2> QED
    BY <2>10, <2>11
<1>3. UpInv => Upd!BinaryIsWhole
  BY DEF UpInv, Upd!BinaryIsWhole
<1> QED
  BY <1>1, <1>2, <1>3, PTL DEF Upd!Spec
=============================================================================
