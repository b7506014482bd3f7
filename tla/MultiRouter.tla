---------------------------- MODULE MultiRouter ----------------------------
(***************************************************************************)
(* The client's choice among bridges (core/socks5/multirouter.go) and the  *)
(* API calls that add, change and remove them (app/client: api.go,         *)
(* connectBridge).  The list of bridges is a Go slice: resolve takes the   *)
(* slice under the lock and walks it without, while RemoveBridge and       *)
(* AddBridge move the entries of the same array, one after the other.      *)
(* What a walk then sees is every interleaving of its reads with those     *)
(* writes.                                                                 *)
(*                                                                         *)
(* The array keeps its place: growing it, which copies it for later walks  *)
(* and leaves earlier ones alone, is not modelled, so that walks meet the  *)
(* most writes they can.                                                   *)
(***************************************************************************)
EXTENDS Naturals, Sequences, FiniteSets

CONSTANTS
  IDs,         \* bridge identifiers
  Walkers,     \* goroutines in resolve
  MaxEntries,  \* entries ever created
  MaxRemoves

PrimaryTunnel == 0

VARIABLES
  entry,      \* BridgeEntry of each number: id, matches (a rule does), tunnel
  up,         \* entries whose tunnel is connected
  array, len, \* the backing array, the length of r.bridges
  connecting, \* entries' ids and numbers connectBridge is at work for
  move,       \* a removal under way: the next index to move, or 0
  again,      \* what AddBridge is to append after it: entries, none or one
  held,       \* the write lock is held
  removed,    \* removals so far
  walk,       \* a resolve: index, length taken, result, what it could name
  made        \* entries created

mrVars == <<entry, up, array, len, connecting, move, again, held, removed, walk, made>>

NoWalk == [at |-> 0, n |-> 0, result |-> PrimaryTunnel, may |-> {}]
Listed == {array[i] : i \in 1..len}

Init ==
  /\ entry = <<>> /\ up = {} /\ array = [i \in 1..MaxEntries |-> 0] /\ len = 0
  /\ connecting = {} /\ move = 0 /\ again = <<>> /\ held = FALSE /\ removed = 0
  /\ walk = [w \in Walkers |-> NoWalk] /\ made = 0

Index(id) == {i \in 1..len : entry[array[i]].id = id}

\* A walk may name the entries listed at some time since it began.
Sees(e) == [w \in Walkers |-> IF walk[w].at > 0 THEN [walk[w] EXCEPT !.may = @ \cup {e}] ELSE walk[w]]

-----------------------------------------------------------------------------
(* Changes, under the write lock.                                          *)

\* AddBridge of a new id: an entry without a tunnel, which connectBridge
\* goes to make.
AddBridge(id, matches) ==
  /\ ~held /\ made < MaxEntries
  /\ made' = made + 1
  /\ entry' = Append(entry, [id |-> id, matches |-> matches, tunnel |-> FALSE])
  /\ array' = [array EXCEPT ![len + 1] = made + 1] /\ len' = len + 1
  /\ connecting' = connecting \cup {id}
  /\ walk' = Sees(made + 1)
  /\ UNCHANGED <<up, move, again, held, removed>>

\* RemoveBridge, and the first half of AddBridge of a known id: the lock is
\* taken, and the entries after the bridge move down one by one.
RemoveBegins(id, new) ==
  /\ ~held /\ Index(id) # {} /\ removed < MaxRemoves /\ made + Len(new) <= MaxEntries
  /\ held' = TRUE /\ removed' = removed + 1 /\ again' = new
  /\ move' = CHOOSE i \in Index(id) : TRUE
  /\ UNCHANGED <<entry, up, array, len, connecting, walk, made>>

MoveOne ==
  /\ held /\ move < len
  /\ array' = [array EXCEPT ![move] = array[move + 1]] /\ move' = move + 1
  /\ UNCHANGED <<entry, up, len, connecting, again, held, removed, walk, made>>

\* The slice is one shorter, or its last place has the new entry.
RemoveEnds ==
  /\ held /\ move = len
  /\ held' = FALSE /\ move' = 0 /\ again' = <<>>
  /\ IF again = <<>>
       THEN len' = len - 1 /\ UNCHANGED <<array, entry, connecting, walk, made>>
       ELSE /\ array' = [array EXCEPT ![len] = made + 1] /\ made' = made + 1
            /\ entry' = entry \o again
            /\ connecting' = connecting \cup {again[1].id}
            /\ walk' = Sees(made + 1)
            /\ UNCHANGED len
  /\ UNCHANGED <<up, removed>>

\* handleUpsertBridge of the router's own handler: other rules, in place.
Rewrite(id, matches) ==
  /\ ~held
  /\ \E i \in Index(id) : entry' = [entry EXCEPT ![array[i]].matches = matches]
  /\ UNCHANGED <<up, array, len, connecting, move, again, held, removed, walk, made>>

\* The tunnel goes to the bridge that has the id now, if one has.
AttachBridgeTunnel(id) ==
  IF Index(id) = {} THEN UNCHANGED <<entry, up>>
  ELSE \E i \in Index(id) : /\ entry' = [entry EXCEPT ![array[i]].tunnel = TRUE]
                            /\ up' = up \cup {array[i]}

\* connectBridge ends.
ConnectBridge(id, ok) ==
  /\ ~held /\ id \in connecting
  /\ connecting' = connecting \ {id}
  /\ IF ok THEN AttachBridgeTunnel(id) ELSE UNCHANGED <<entry, up>>
  /\ UNCHANGED <<array, len, move, again, held, removed, walk, made>>

\* The API's POST and DELETE.
MultiBridges(id, matches) ==
  IF Index(id) = {} THEN AddBridge(id, matches)
  ELSE RemoveBegins(id, <<[id |-> id, matches |-> matches, tunnel |-> FALSE]>>)

MultiBridgeByID(id) == RemoveBegins(id, <<>>)

TunnelFlaps(e) ==
  /\ e \in 1..made /\ entry[e].tunnel
  /\ up' = IF e \in up THEN up \ {e} ELSE up \cup {e}
  /\ UNCHANGED <<entry, array, len, connecting, move, again, held, removed, walk, made>>

-----------------------------------------------------------------------------
(* resolve.                                                                *)

\* The slice is taken under the read lock.
Resolve(w) ==
  /\ ~held /\ walk[w].at = 0
  /\ walk' = [walk EXCEPT ![w] = [at |-> 1, n |-> len, result |-> PrimaryTunnel, may |-> Listed]]
  /\ UNCHANGED <<entry, up, array, len, connecting, move, again, held, removed, made>>

\* Mutant of Look: the walk goes by the length of the list now and one over.
Look_Past(w) ==
  /\ walk[w].at > 0 /\ walk[w].result = PrimaryTunnel /\ walk[w].at <= walk[w].n + 1
  /\ walk[w].at <= MaxEntries
  /\ LET e == array[walk[w].at] IN
     walk' = [walk EXCEPT ![w] = IF e # 0 /\ entry[e].tunnel /\ e \in up /\ entry[e].matches
                                   THEN [@ EXCEPT !.result = e] ELSE [@ EXCEPT !.at = walk[w].at + 1]]
  /\ UNCHANGED <<entry, up, array, len, connecting, move, again, held, removed, made>>

\* One entry: its tunnel must be up and a rule must match.
Look(w) ==
  /\ walk[w].at > 0 /\ walk[w].result = PrimaryTunnel /\ walk[w].at <= walk[w].n
  /\ LET e == array[walk[w].at] IN
     walk' = [walk EXCEPT ![w] = IF entry[e].tunnel /\ e \in up /\ entry[e].matches
                                   THEN [@ EXCEPT !.result = e] ELSE [@ EXCEPT !.at = walk[w].at + 1]]
  /\ UNCHANGED <<entry, up, array, len, connecting, move, again, held, removed, made>>

Opened(w) ==
  /\ walk[w].result # PrimaryTunnel \/ walk[w].at > walk[w].n
  /\ walk[w].at > 0
  /\ walk' = [walk EXCEPT ![w] = NoWalk]
  /\ UNCHANGED <<entry, up, array, len, connecting, move, again, held, removed, made>>

Next ==
  \/ MoveOne \/ RemoveEnds
  \/ \E id \in IDs, b \in BOOLEAN : MultiBridges(id, b) \/ Rewrite(id, b) \/ ConnectBridge(id, b)
  \/ \E id \in IDs : MultiBridgeByID(id)
  \/ \E e \in 1..MaxEntries : TunnelFlaps(e)
  \/ \E w \in Walkers : Resolve(w) \/ Look(w) \/ Opened(w)

Spec == Init /\ [][Next]_mrVars

-----------------------------------------------------------------------------
(* Properties.                                                             *)

\* An identifier is listed once, and a walk that met moving entries still
\* answers with the primary or with a bridge that was listed while it ran
\* (resolve, RemoveBridge).
ResolvesToListed ==
  /\ ~held => Cardinality(Listed) = len /\ \A id \in IDs : Cardinality(Index(id)) <= 1
  /\ \A w \in Walkers : walk[w].result # PrimaryTunnel => walk[w].result \in walk[w].may
=============================================================================
