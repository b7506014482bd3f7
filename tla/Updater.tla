------------------------------ MODULE Updater ------------------------------
(***************************************************************************)
(* The self-update of the server (common/update): fetch the manifest,      *)
(* download, verify, back the binary up, replace it, and roll back when    *)
(* that fails.  Any step may fail and the process may die between two of   *)
(* them; it then runs again from the binary it finds.                      *)
(*                                                                         *)
(* A version is its rank in the order of the backups' file names, which    *)
(* need not be the order of the releases.  What a file holds is a version, *)
(* Bad (a damaged download), Torn (a copy that was cut off) or None.       *)
(***************************************************************************)
EXTENDS Integers, FiniteSetsExt

CONSTANTS
  Versions,   \* a finite set of numbers
  MaxChecks,  \* manifests looked at
  MaxCrash

None == 0
Bad == -1
Torn == -2

VARIABLES
  upBinary,    \* the file at BinaryPath
  upBackups,   \* version -> what whispera-<version>.bak holds
  upVersion,   \* config.CurrentVersion
  upPc,        \* where CheckAndApply is
  upInfo,      \* the manifest's latest version
  upTmp,       \* the downloaded file
  upSigned,    \* a public key is configured and the manifest has a signature
  upChecks, upCrashes,
  strays       \* roll-backs that took the backup of another version: none, one, more

upVars == <<upBinary, upBackups, upVersion, upPc, upInfo, upTmp, upSigned, upChecks, upCrashes,
            strays>>

Init ==
  /\ upBinary \in Versions /\ upVersion = upBinary
  /\ upBackups = [v \in Versions |-> None]
  /\ upPc = "idle" /\ upInfo = 0 /\ upTmp = None /\ upSigned = FALSE
  /\ upChecks = 0 /\ upCrashes = 0 /\ strays = 0

\* The step from one point of CheckAndApply to another; os.Remove(tmpFile)
\* runs when Apply returns.
Goto(from, to) ==
  /\ upPc = from /\ upPc' = to
  /\ UNCHANGED <<upCrashes, upInfo>>

\* A tick: the manifest names a version other than the current one.
CheckForUpdate(v, signed) ==
  /\ upPc = "idle" /\ upChecks < MaxChecks /\ v # upVersion
  /\ upChecks' = upChecks + 1
  /\ upInfo' = v /\ upSigned' = signed /\ upPc' = "download"
  /\ UNCHANGED <<upBinary, upBackups, upVersion, upTmp, upCrashes, strays>>

Download(content) ==
  /\ Goto("download", IF content = None THEN "idle" ELSE "verify")
  /\ upTmp' = content
  /\ UNCHANGED <<upBinary, upBackups, upVersion, upSigned, upChecks, strays>>

\* Mutant of Verify: without a signature nothing is checked.
Verify_SignedOnly ==
  /\ Goto("verify", IF upTmp = upInfo \/ ~upSigned THEN "backup" ELSE "idle")
  /\ UNCHANGED <<upBinary, upBackups, upVersion, upTmp, upSigned, upChecks, strays>>

\* The checksum, and the signature if there is one: both of the same content.
Verify ==
  /\ Goto("verify", IF upTmp = upInfo THEN "backup" ELSE "idle")
  /\ UNCHANGED <<upBinary, upBackups, upVersion, upTmp, upSigned, upChecks, strays>>

\* The backup's file is created, which empties it, and then copied into.
CreateBackup(ok) ==
  /\ Goto("backup", IF ok THEN "copy" ELSE "idle")
  /\ upBackups' = IF ok THEN [upBackups EXCEPT ![upVersion] = Torn] ELSE upBackups
  /\ UNCHANGED <<upBinary, upVersion, upTmp, upSigned, upChecks, strays>>

CopyBackup(ok) ==
  /\ Goto("copy", IF ok THEN "replace" ELSE "idle")
  /\ upBackups' = IF ok THEN [upBackups EXCEPT ![upVersion] = upBinary] ELSE upBackups
  /\ UNCHANGED <<upBinary, upVersion, upTmp, upSigned, upChecks, strays>>

AtomicReplace(ok) ==
  /\ Goto("replace", IF ok THEN "applied" ELSE "rollback")
  /\ upBinary' = IF ok THEN upTmp ELSE upBinary
  /\ UNCHANGED <<upBackups, upVersion, upTmp, upSigned, upChecks, strays>>

\* The rename of the last backup by name; it may fail too.
Rollback(ok) ==
  LET latest == Max({v \in Versions : upBackups[v] # None})
  IN  /\ Goto("rollback", "idle")
      /\ IF ok
           THEN /\ upBinary' = upBackups[latest]
                /\ upBackups' = [upBackups EXCEPT ![latest] = None]
                /\ strays' = IF latest # upVersion /\ strays < 2 THEN strays + 1 ELSE strays
           ELSE UNCHANGED <<upBinary, upBackups, strays>>
      /\ UNCHANGED <<upVersion, upTmp, upSigned, upChecks>>

Applied ==
  /\ Goto("applied", "idle")
  /\ upVersion' = upInfo
  /\ UNCHANGED <<upBinary, upBackups, upTmp, upSigned, upChecks, strays>>

\* The process dies, or the administrator restarts it to run the new binary,
\* whose version is compiled in.
Restart ==
  /\ upCrashes < MaxCrash
  /\ upCrashes' = upCrashes + 1
  /\ upPc' = "idle" /\ upVersion' = upBinary
  /\ UNCHANGED <<upBinary, upBackups, upInfo, upTmp, upSigned, upChecks, strays>>

Next ==
  \/ \E v \in Versions, signed \in BOOLEAN : CheckForUpdate(v, signed)
  \/ \E content \in {None, Bad, upInfo} : Download(content)
  \/ Verify \/ Applied \/ Restart
  \/ \E ok \in BOOLEAN : CreateBackup(ok) \/ CopyBackup(ok) \/ AtomicReplace(ok) \/ Rollback(ok)

Spec == Init /\ [][Next]_upVars

-----------------------------------------------------------------------------
(* Properties.                                                             *)

\* The binary is whole and verified, whatever fails and wherever the process
\* dies: a damaged download is refused, and a backup cut off half way is made
\* anew before it can be rolled back to (Apply).  Roll-back takes the backup
\* last in name order, and as long as that is the one just made the updater
\* knows which version it has when nothing is under way.  Once it took the
\* backup of another version, and names that version's binary by the old one,
\* a torn backup can stay behind; only a second such roll-back can take it.
BinaryIsWhole ==
  /\ strays < 2 => upBinary \in Versions
  /\ strays = 0 /\ upPc = "idle" => upBinary = upVersion
=============================================================================
