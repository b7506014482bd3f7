----------------------------- MODULE UserStore -----------------------------
(***************************************************************************)
(* The users of the server, on their way from users.json to the handler    *)
(* that looks up a ClientHello's tag: the command-line tool rewrites the   *)
(* file (core/apiserver/cli.go), the watcher and a restored backup reload  *)
(* it (core/apiserver/key_store.go, backup.go), and every handshake asks   *)
(* the selector index for a snapshot (core/protocol/selector_index.go),    *)
(* which is rebuilt when the store's version has moved.                    *)
(*                                                                         *)
(* A save replaces the file atomically (AtomicFile) and gives it a new     *)
(* modification time.  The file may also hold a document that is not a     *)
(* list of users: a backup is restored without looking into it.            *)
(***************************************************************************)
EXTENDS Naturals, FiniteSets

CONSTANTS
  Users,      \* users that may be registered
  Tools,      \* runs of the command-line tool at one time
  Handlers,   \* handshakes
  MaxSaves    \* bound: how often the file is written

\* applyUsersFromFile has two callers in the server.
Loaders == {"watcher", "restore"}
NotUsers == {"not a list of users"}
Content == (SUBSET Users) \cup {NotUsers}

VARIABLES
  file,       \* what users.json holds and its modification time
  tool,       \* the tool's runs: idle, or loaded with a copy
  loader,     \* callers of applyUsersFromFile: position, mtime and content read
  store,      \* userStore
  modTime,    \* usersFileModTime
  gen,        \* how often the store was replaced
  version,    \* userStoreVersion
  index,      \* the selector index: users, builtVer, and the store it came from
  hs          \* handshakes: position, version and users read

vars == <<file, tool, loader, store, modTime, gen, version, index, hs>>

LoaderIdle == [at |-> "idle", mtime |-> 0, data |-> {}]
HsIdle == [at |-> "idle", ver |-> 0, users |-> {}, gen |-> 0]
ToolIdle == [at |-> "idle", copy |-> {}]

\* The server starts with what the file holds (loadUsers); no index yet.
Init ==
  /\ \E u \in SUBSET Users : file = [data |-> u, mtime |-> 1] /\ store = u
  /\ modTime = 1 /\ gen = 1 /\ version = 1
  /\ tool = [p \in Tools |-> ToolIdle]
  /\ loader = [l \in Loaders |-> LoaderIdle]
  /\ index = [built |-> FALSE, users |-> {}, ver |-> 0, gen |-> 0]
  /\ hs = [h \in Handlers |-> HsIdle]

Saved(d) == file' = [data |-> d, mtime |-> file.mtime + 1]
MaySave == file.mtime <= MaxSaves

-----------------------------------------------------------------------------
(* The command-line tool, another process with a store of its own.         *)

\* loadUsers: a file it cannot parse leaves its store empty.
ToolLoads(p) ==
  /\ tool[p].at = "idle"
  /\ tool' = [tool EXCEPT ![p] = [at |-> "loaded", copy |-> IF file.data = NotUsers THEN {} ELSE file.data]]
  /\ UNCHANGED <<file, loader, store, modTime, gen, version, index, hs>>

\* CLIUpsertUser, CLIBuildConnectionKey: with the user, who may be there.
ToolUpserts(p, u) ==
  /\ tool[p].at = "loaded" /\ MaySave
  /\ Saved(tool[p].copy \cup {u})
  /\ tool' = [tool EXCEPT ![p] = ToolIdle]
  /\ UNCHANGED <<loader, store, modTime, gen, version, index, hs>>

\* CLIDeleteUser: nothing is saved if there is no such user.
ToolDeletes(p, u) ==
  /\ tool[p].at = "loaded"
  /\ IF u \in tool[p].copy THEN MaySave /\ Saved(tool[p].copy \ {u}) ELSE UNCHANGED file
  /\ tool' = [tool EXCEPT ![p] = ToolIdle]
  /\ UNCHANGED <<loader, store, modTime, gen, version, index, hs>>

-----------------------------------------------------------------------------
(* The server: applyUsersFromFile and its callers.                         *)

Put(l, r) == loader' = [loader EXCEPT ![l] = r]

\* The watcher's tick: the file's time, then a look at the one of the store.
WatchStat ==
  /\ loader["watcher"].at = "idle"
  /\ Put("watcher", [LoaderIdle EXCEPT !.at = "compare", !.mtime = file.mtime])
  /\ UNCHANGED <<file, tool, store, modTime, gen, version, index, hs>>

WatchCompare ==
  /\ loader["watcher"].at = "compare"
  /\ Put("watcher", IF loader["watcher"].mtime = modTime THEN LoaderIdle
                    ELSE [LoaderIdle EXCEPT !.at = "stat"])
  /\ UNCHANGED <<file, tool, store, modTime, gen, version, index, hs>>

\* handleRestoreBackup writes whatever the backup has, then loads.
RestoreWrites(d) ==
  /\ loader["restore"].at = "idle" /\ MaySave
  /\ Saved(d)
  /\ Put("restore", [LoaderIdle EXCEPT !.at = "stat"])
  /\ UNCHANGED <<tool, store, modTime, gen, version, index, hs>>

LoadStat(l) ==
  /\ loader[l].at = "stat"
  /\ Put(l, [LoaderIdle EXCEPT !.at = "read", !.mtime = file.mtime])
  /\ UNCHANGED <<file, tool, store, modTime, gen, version, index, hs>>

\* The file is read; one that does not parse ends the call.
LoadRead(l) ==
  /\ loader[l].at = "read"
  /\ Put(l, IF file.data = NotUsers THEN LoaderIdle
            ELSE [loader[l] EXCEPT !.at = "store", !.data = file.data])
  /\ UNCHANGED <<file, tool, store, modTime, gen, version, index, hs>>

\* Mutant of LoadStore: the time is taken after the file was read.
LoadStore_Restat(l) ==
  /\ loader[l].at = "store"
  /\ store' = loader[l].data /\ modTime' = file.mtime /\ gen' = gen + 1
  /\ Put(l, [LoaderIdle EXCEPT !.at = "bump"])
  /\ UNCHANGED <<file, tool, version, index, hs>>

\* Under the lock: the users and the time read before them.
LoadStore(l) ==
  /\ loader[l].at = "store"
  /\ store' = loader[l].data /\ modTime' = loader[l].mtime /\ gen' = gen + 1
  /\ Put(l, [LoaderIdle EXCEPT !.at = "bump"])
  /\ UNCHANGED <<file, tool, version, index, hs>>

\* The version moves once the lock is released.
LoadBump(l) ==
  /\ loader[l].at = "bump"
  /\ version' = version + 1
  /\ Put(l, LoaderIdle)
  /\ UNCHANGED <<file, tool, store, modTime, gen, index, hs>>

Load(l) == LoadStat(l) \/ LoadRead(l) \/ LoadStore(l) \/ LoadBump(l)

-----------------------------------------------------------------------------
(* selectorIndex.snapshot, in a handshake.                                 *)

Hs(h, r) == hs' = [hs EXCEPT ![h] = r]

HsVersion(h) ==
  /\ hs[h].at = "idle"
  /\ Hs(h, [HsIdle EXCEPT !.at = "check", !.ver = version])
  /\ UNCHANGED <<file, tool, loader, store, modTime, gen, version, index>>

\* Under the read lock: an index of this version is taken as it is.
HsCheck(h) ==
  /\ hs[h].at = "check"
  /\ Hs(h, IF index.built /\ index.ver = hs[h].ver
           THEN [hs[h] EXCEPT !.at = "done", !.users = index.users, !.gen = index.gen]
           ELSE [hs[h] EXCEPT !.at = "get"])
  /\ UNCHANGED <<file, tool, loader, store, modTime, gen, version, index>>

\* GetRegisteredUsers, under the store's read lock.
HsGet(h) ==
  /\ hs[h].at = "get"
  /\ Hs(h, [hs[h] EXCEPT !.at = "install", !.users = store, !.gen = gen])
  /\ UNCHANGED <<file, tool, loader, store, modTime, gen, version, index>>

\* Mutant of HsInstall: the index is stamped with the version of the moment.
HsInstall_Now(h) ==
  /\ hs[h].at = "install"
  /\ index' = [built |-> TRUE, users |-> hs[h].users, ver |-> version, gen |-> hs[h].gen]
  /\ Hs(h, [hs[h] EXCEPT !.at = "done"])
  /\ UNCHANGED <<file, tool, loader, store, modTime, gen, version>>

\* The index built outside the lock replaces the one that is there, which a
\* faster handshake may have built from newer users.
HsInstall(h) ==
  /\ hs[h].at = "install"
  /\ index' = [built |-> TRUE, users |-> hs[h].users, ver |-> hs[h].ver, gen |-> hs[h].gen]
  /\ Hs(h, [hs[h] EXCEPT !.at = "done"])
  /\ UNCHANGED <<file, tool, loader, store, modTime, gen, version>>

\* resolveBySelector looks the tag up in the snapshot it got.
HsLookup(h) ==
  /\ hs[h].at = "done" /\ Hs(h, HsIdle)
  /\ UNCHANGED <<file, tool, loader, store, modTime, gen, version, index>>

Handshake(h) == HsVersion(h) \/ HsCheck(h) \/ HsGet(h) \/ HsInstall(h) \/ HsLookup(h)

-----------------------------------------------------------------------------

Tool(p) == ToolLoads(p) \/ \E u \in Users : ToolUpserts(p, u) \/ ToolDeletes(p, u)

Next == \/ \E p \in Tools : Tool(p)
        \/ WatchStat \/ WatchCompare
        \/ \E d \in Content : RestoreWrites(d)
        \/ \E l \in Loaders : Load(l)
        \/ \E h \in Handlers : Handshake(h)

Spec == Init /\ [][Next]_vars

-----------------------------------------------------------------------------
(* Properties.                                                             *)

\* The type invariant: the version lags the store by the reloads that have
\* replaced it and not yet counted it.
TypeOK ==
  /\ file.data \in Content /\ file.mtime \in 1..(MaxSaves + 1)
  /\ store \subseteq Users /\ modTime \in 1..file.mtime
  /\ gen = version + Cardinality({l \in Loaders : loader[l].at = "bump"})
  /\ index.users \subseteq Users /\ index.ver \in 0..version
  /\ \A h \in Handlers : hs[h].ver \in 0..version /\ hs[h].users \subseteq Users

\* A store that bears the file's modification time holds the file's users, so
\* that the watcher, which compares only times, never takes an old store for
\* a current one, whatever was saved while a reload was under way.
TimeVouches == modTime = file.mtime => store = file.data

\* A handshake works with users at least as new as the last reload that was
\* complete when it began, also when slow handshakes replace the index by an
\* older one.
NotStale == \A h \in Handlers : hs[h].at = "done" => hs[h].gen >= hs[h].ver

\* Once the file is left alone and can be parsed, its users are the ones
\* every handshake works with: a key that was deleted stops working and one
\* that was added starts to, without a restart.
Served ==
  <>[](file.data # NotUsers) =>
    <>[](/\ store = file.data
         /\ \A h \in Handlers : hs[h].at = "done" => hs[h].users = file.data)
=============================================================================
