--------------------------- MODULE ConfigProvider ---------------------------
(***************************************************************************)
(* The server's configuration (core/config: config.go, checksum.go): the   *)
(* copy in memory, the file, and the checksum that vouches for the file.   *)
(* The server updates it through its API and watches the file; an          *)
(* administrator's command (set-multilistener-port) is a process of its    *)
(* own that loads the file, updates it, seals it once more and restarts    *)
(* the server.  Every write is a rename (AtomicFile), and its time a       *)
(* number that grows.                                                      *)
(*                                                                         *)
(* A configuration is the set of outbounds and extra ports it lists.       *)
(* Configurations in the file parse and validate.                          *)
(***************************************************************************)
EXTENDS Integers

CONSTANTS
  Tags, Ports, \* outbounds, extra ports
  MaxUpdates,  \* updates, of both processes
  MaxFail,     \* writes of the file that fail
  MaxCrash     \* crashes of the server

Procs == {"server", "admin"}

VARIABLES
  cfgFile, fileTime,  \* the file and its ModTime
  sumFile,     \* the configuration the checksum was computed from
  mem,         \* Provider.config of each process
  upc,         \* where its Update is; p.mu is held from "saving" on
  usum,        \* the checksum it computed and has not written yet
  wpc,         \* where the server's file watcher is
  winfo,       \* the ModTime it saw
  wsum,        \* the checksum file it read
  wread,       \* the file Load read
  lastModified,
  updates, wfails, crashes,
  collided,    \* two saves overlapped, or one was cut off or failed
  startRace    \* the file was replaced while the server was loading it first

cfgVars == <<cfgFile, fileTime, sumFile, mem, upc, usum, wpc, winfo, wsum, wread, lastModified,
             updates, wfails, crashes, collided, startRace>>

Init ==
  /\ cfgFile = {} /\ fileTime = 1 /\ sumFile = {}
  /\ mem = [p \in Procs |-> {}] /\ upc = [p \in Procs |-> "down"] /\ usum = [p \in Procs |-> {}]
  /\ wpc = "down" /\ winfo = 0 /\ wsum = {} /\ wread = {} /\ lastModified = 0
  /\ updates = 0 /\ wfails = 0 /\ crashes = 0 /\ collided = FALSE /\ startRace = FALSE

diskVars  == <<cfgFile, fileTime, sumFile>>
watchVars == <<wpc, winfo, wsum, wread, lastModified>>
noteVars  == <<wfails, crashes, collided, startRace>>

Saving(p) == upc[p] \in {"saving", "written", "summed", "reseal", "resummed"}

-----------------------------------------------------------------------------
(* Start of the processes: Load, and the server's repair of the checksum.  *)

\* Init of the server: ReadFile in Load ...
LoadAtStart ==
  /\ upc["server"] = "down" /\ wpc = "down"
  /\ mem' = [mem EXCEPT !["server"] = cfgFile]
  /\ upc' = [upc EXCEPT !["server"] = "loaded"]
  /\ UNCHANGED <<diskVars, usum, watchVars, updates, noteVars>>

\* ... then Stat, and VerifyIntegrity, whose mismatch UpdateChecksum repairs
\* here; Start runs the watcher after it.
InitServer ==
  /\ upc["server"] = "loaded"
  /\ lastModified' = fileTime
  /\ startRace' = (startRace \/ mem["server"] # cfgFile)
  /\ IF sumFile = cfgFile
       THEN upc' = [upc EXCEPT !["server"] = "idle"] /\ wpc' = "idle" /\ UNCHANGED collided
       ELSE /\ upc' = [upc EXCEPT !["server"] = "written"]
            /\ collided' = (collided \/ Saving("admin"))
            /\ UNCHANGED wpc
  /\ UNCHANGED <<diskVars, mem, usum, winfo, wsum, wread, updates, wfails, crashes>>

LoadAdmin ==
  /\ upc["admin"] = "down" /\ updates < MaxUpdates
  /\ mem' = [mem EXCEPT !["admin"] = cfgFile]
  /\ upc' = [upc EXCEPT !["admin"] = "idle"]
  /\ UNCHANGED <<diskVars, usum, watchVars, updates, noteVars>>

-----------------------------------------------------------------------------
(* Update, under the process's own mutex.                                  *)

\* The changes the API's handlers make, and the command's, which it makes
\* only where there is something to change.
AddOutbound(cfg, t) == cfg \cup {t}
DeleteOutbound(cfg, t) == cfg \ {t}
AddExtraPort(cfg) == {cfg \cup {q} : q \in Ports \ cfg}
RemoveExtraPort(cfg) == {cfg \ {q} : q \in Ports \cap cfg}

Changes(p) ==
  IF p = "server"
    THEN {AddOutbound(mem[p], t) : t \in Tags} \cup {DeleteOutbound(mem[p], t) : t \in Tags}
    ELSE AddExtraPort(mem[p]) \cup RemoveExtraPort(mem[p])

Update(p) ==
  /\ upc[p] = "idle" /\ updates < MaxUpdates
  /\ updates' = updates + 1
  /\ \E cfg \in Changes(p) : mem' = [mem EXCEPT ![p] = cfg]
  /\ upc' = [upc EXCEPT ![p] = "saving"]
  /\ collided' = (collided \/ \E q \in Procs \ {p} : Saving(q))
  /\ UNCHANGED <<diskVars, usum, watchVars, wfails, crashes, startRace>>

\* saveConfig: the file is replaced, or an error leaves it as it was while
\* the copy in memory keeps the change.
WriteConfig(p, ok) ==
  /\ upc[p] = "saving"
  /\ IF ok
       THEN /\ cfgFile' = mem[p] /\ fileTime' = fileTime + 1
            /\ upc' = [upc EXCEPT ![p] = "written"]
            /\ UNCHANGED <<wfails, collided>>
       ELSE /\ wfails < MaxFail /\ wfails' = wfails + 1 /\ collided' = TRUE
            /\ upc' = [upc EXCEPT ![p] = IF p = "admin" THEN "down" ELSE "idle"]
            /\ UNCHANGED <<cfgFile, fileTime>>
  /\ UNCHANGED <<sumFile, mem, usum, watchVars, updates, crashes, startRace>>

\* UpdateChecksum: the file is read back ...
CalculateChecksum(p) ==
  /\ upc[p] \in {"written", "reseal"}
  /\ usum' = [usum EXCEPT ![p] = cfgFile]
  /\ upc' = [upc EXCEPT ![p] = IF @ = "written" THEN "summed" ELSE "resummed"]
  /\ UNCHANGED <<diskVars, mem, watchVars, updates, noteVars>>

\* ... and its checksum written; Update returns, and the command does it again.
UpdateChecksum(p) ==
  /\ upc[p] \in {"summed", "resummed"}
  /\ sumFile' = usum[p]
  /\ upc' = [upc EXCEPT ![p] = CASE p = "server" -> "idle"
                                 [] p = "admin" /\ @ = "summed" -> "reseal"
                                 [] OTHER -> "sealed"]
  /\ wpc' = IF p = "server" /\ wpc = "down" THEN "idle" ELSE wpc
  /\ UNCHANGED <<cfgFile, fileTime, mem, usum, winfo, wsum, wread, lastModified, updates, noteVars>>

\* The end of the command: systemctl restart, or -no-restart.
Restart(restarting) ==
  /\ upc["admin"] = "sealed"
  /\ IF restarting
       THEN upc' = [p \in Procs |-> "down"] /\ wpc' = "down"
       ELSE upc' = [upc EXCEPT !["admin"] = "down"] /\ UNCHANGED wpc
  /\ UNCHANGED <<diskVars, mem, usum, winfo, wsum, wread, lastModified, updates, noteVars>>

-----------------------------------------------------------------------------
(* The watcher.                                                            *)

\* A tick: the file is newer than the one last loaded.
Tick ==
  /\ wpc = "idle" /\ fileTime > lastModified
  /\ winfo' = fileTime
  /\ wpc' = "verify"
  /\ UNCHANGED <<diskVars, mem, upc, usum, wsum, wread, lastModified, updates, noteVars>>

ReadSum ==
  /\ wpc = "verify"
  /\ wsum' = sumFile
  /\ wpc' = "compare"
  /\ UNCHANGED <<diskVars, mem, upc, usum, winfo, wread, lastModified, updates, noteVars>>

\* VerifyIntegrity's answer: AlertAndDie ends the process.
Compare ==
  /\ wpc = "compare"
  /\ IF cfgFile = wsum
       THEN wpc' = "load" /\ UNCHANGED upc
       ELSE wpc' = "dead" /\ upc' = [upc EXCEPT !["server"] = "dead"]
  /\ UNCHANGED <<diskVars, mem, usum, winfo, wsum, wread, lastModified, updates, noteVars>>

LoadRead ==
  /\ wpc = "load"
  /\ wread' = cfgFile
  /\ wpc' = "store"
  /\ UNCHANGED <<diskVars, mem, upc, usum, winfo, wsum, lastModified, updates, noteVars>>

\* Mutant of LoadStore: lastModified stays what Load's own Stat found.
LoadStore_OwnStat ==
  /\ wpc = "store" /\ ~Saving("server")
  /\ mem' = [mem EXCEPT !["server"] = wread]
  /\ lastModified' = fileTime
  /\ wpc' = "idle"
  /\ UNCHANGED <<diskVars, upc, usum, winfo, wsum, wread, updates, noteVars>>

\* The rest of Load under the mutex; then the watcher sets lastModified back
\* to the time it saw before it verified.
LoadStore ==
  /\ wpc = "store" /\ ~Saving("server")
  /\ mem' = [mem EXCEPT !["server"] = wread]
  /\ lastModified' = winfo
  /\ wpc' = "idle"
  /\ UNCHANGED <<diskVars, upc, usum, winfo, wsum, wread, updates, noteVars>>

\* The server's process is killed; a save it was in stays half done until the
\* next start.
Crash ==
  /\ upc["server"] # "dead" /\ crashes < MaxCrash
  /\ crashes' = crashes + 1
  /\ upc' = [upc EXCEPT !["server"] = "down"] /\ wpc' = "down"
  /\ UNCHANGED <<diskVars, mem, usum, winfo, wsum, wread, lastModified, updates, wfails, collided,
                 startRace>>

Next ==
  \/ LoadAtStart \/ InitServer \/ LoadAdmin
  \/ \E p \in Procs :
       \/ Update(p) \/ CalculateChecksum(p) \/ UpdateChecksum(p)
       \/ \E ok \in BOOLEAN : WriteConfig(p, ok)
  \/ \E restarting \in BOOLEAN : Restart(restarting)
  \/ Tick \/ ReadSum \/ Compare \/ LoadRead \/ LoadStore \/ Crash

Spec == Init /\ [][Next]_cfgVars

-----------------------------------------------------------------------------
(* Properties.                                                             *)

Quiet == upc["server"] = "idle" /\ wpc = "idle" /\ ~Saving("admin")

\* When the server runs and nothing is being saved, the checksum vouches for
\* the file that is there, a crash in a save included (Init repairs it) -
\* unless two processes were saving at once.
FileIsVouchedFor == Quiet /\ ~collided => sumFile = cfgFile

\* A copy in memory that is behind the file is noticed: the next tick reloads
\* it, even when an update ran between Load's read and its store - unless a
\* write failed or the file changed under the server's first Load.
StaleIsNoticed ==
  Quiet /\ wfails = 0 /\ ~startRace => mem["server"] = cfgFile \/ fileTime > lastModified

\* Memory, file and checksum follow each other.
ConfigTracks == FileIsVouchedFor /\ StaleIsNoticed
=============================================================================
