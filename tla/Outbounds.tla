------------------------------ MODULE Outbounds ------------------------------
(***************************************************************************)
(* The server's outbounds (core/outbound/outbound.go): a map of tunnels to *)
(* further servers that a configuration change updates, and cascades that  *)
(* reach a server through a chain of others, a tunnel inside a stream of   *)
(* the tunnel before it.  One goroutine applies the configurations         *)
(* (app/server/modules.go); a tunnel with a chain dials its cascade.       *)
(***************************************************************************)
EXTENDS Naturals, FiniteSets, Sequences, SequencesExt

CONSTANTS
  Tags, Chains,   \* outbounds, and the chains a configuration can give one
  MaxUpdates, MaxDials, MaxFail

NoTunnel == <<>>

VARIABLES
  outbounds,     \* tag -> its tunnel: a pair of tag and number, or NoTunnel
  outboundCfgs,  \* tag -> chain, for the tags that have a configuration
  live,          \* tunnels that have been started and not stopped
  update, todo,  \* the configuration being applied, its tags still to add
  dial,          \* the cascade being dialled or held
  redefined,     \* some update gave a running tag another chain
  updates, dials, fails

obVars == <<outbounds, outboundCfgs, live, update, todo, dial, redefined, updates, dials, fails>>

NoUpdate == [t \in {} |-> <<>>]
Idle == [at |-> "idle", hops |-> <<>>, i |-> 0, mgr |-> NoTunnel, open |-> {}, closeFns |-> <<>>]

Init ==
  /\ outbounds = [t \in Tags |-> NoTunnel] /\ outboundCfgs = NoUpdate /\ live = {}
  /\ update = <<>> /\ todo = {} /\ dial = Idle /\ redefined = FALSE
  /\ updates = 0 /\ dials = 0 /\ fails = 0

-----------------------------------------------------------------------------
(* UpdateOutbounds.                                                        *)

\* visit: no tag is met again on the way down from it.
RECURSIVE visit(_, _, _)
visit(known, tag, stack) ==
  tag \in DOMAIN known =>
    IF tag \in stack THEN FALSE
    ELSE \A i \in DOMAIN known[tag] : visit(known, known[tag][i], stack \cup {tag})

validateChainGraph(configs) == \A t \in DOMAIN configs : visit(configs, t, {})

\* A configuration with a cycle is dropped.
UpdateOutbounds(configs) ==
  /\ update = <<>> /\ updates < MaxUpdates /\ updates' = updates + 1
  /\ validateChainGraph(configs)
  /\ update' = <<configs>> /\ todo' = DOMAIN configs
  /\ redefined' = (redefined \/ \E t \in DOMAIN configs :
                     outbounds[t] # NoTunnel /\ outboundCfgs[t] # configs[t])
  /\ UNCHANGED <<outbounds, outboundCfgs, live, dial, dials, fails>>

\* A tag that is there is left as it is.  For another one the configuration
\* is kept, and the tunnel too if it starts.
AddOutbound(t) ==
  /\ t \in todo /\ todo' = todo \ {t}
  /\ IF outbounds[t] # NoTunnel
       THEN UNCHANGED <<outbounds, outboundCfgs, live, fails>>
       ELSE /\ outboundCfgs' = [k \in DOMAIN outboundCfgs \cup {t} |->
                                  IF k = t THEN update[1][t] ELSE outboundCfgs[k]]
            /\ \/ /\ outbounds' = [outbounds EXCEPT ![t] = <<t, updates>>]
                  /\ live' = live \cup {<<t, updates>>} /\ UNCHANGED fails
               \/ /\ fails < MaxFail /\ fails' = fails + 1 /\ UNCHANGED <<outbounds, live>>
  /\ UNCHANGED <<update, dial, redefined, updates, dials>>

\* Mutant of RemoveOld: the tunnel is forgotten but not stopped.
RemoveOld_KeepsLive ==
  /\ update # <<>> /\ todo = {}
  /\ LET old == {t \in Tags : outbounds[t] # NoTunnel /\ t \notin DOMAIN update[1]} IN
     /\ outbounds' = [t \in Tags |-> IF t \in old THEN NoTunnel ELSE outbounds[t]]
     /\ outboundCfgs' = [t \in DOMAIN outboundCfgs \ old |-> outboundCfgs[t]]
  /\ update' = <<>>
  /\ UNCHANGED <<live, todo, dial, redefined, updates, dials, fails>>

\* Tunnels the configuration no longer names are stopped and forgotten.
RemoveOld ==
  /\ update # <<>> /\ todo = {}
  /\ LET old == {t \in Tags : outbounds[t] # NoTunnel /\ t \notin DOMAIN update[1]} IN
     /\ outbounds' = [t \in Tags |-> IF t \in old THEN NoTunnel ELSE outbounds[t]]
     /\ outboundCfgs' = [t \in DOMAIN outboundCfgs \ old |-> outboundCfgs[t]]
     /\ live' = live \ {outbounds[t] : t \in old}
  /\ update' = <<>>
  /\ UNCHANGED <<todo, dial, redefined, updates, dials, fails>>

-----------------------------------------------------------------------------
(* dialCascade.  open holds what the cascade has open: for each further hop *)
(* the stream to it and the tunnel in that stream, at last the stream it is *)
(* for.  closeFns holds the hops it knows how to close, in order.           *)

Inner(i) == <<"tunnel", i>>
Raw(i) == <<"conn", i>>
Final == <<"stream", 0>>

\* A tunnel of the map carries streams while it is live, one of the cascade
\* while it is open; a dial through either may also fail.
Carries(m) == m \in live \cup dial.open

Goes(d) == dial' = d /\ UNCHANGED <<outbounds, outboundCfgs, live, update, todo, redefined, updates, fails>>

\* The tunnel of an outbound with a chain dials.
dialCascade(t) ==
  /\ dial = Idle /\ dials < MaxDials /\ dials' = dials + 1
  /\ outbounds[t] # NoTunnel /\ outboundCfgs[t] # <<>>
  /\ LET hops == outboundCfgs[t]  first == outbounds[hops[1]] IN
     IF first = NoTunnel THEN Goes(dial)
     ELSE Goes([Idle EXCEPT !.at = IF Len(hops) = 1 THEN "final" ELSE "hop",
                            !.hops = hops, !.i = 2, !.mgr = first])

\* cleanupFns follows.
Fails(open) == Goes([dial EXCEPT !.at = "close", !.open = open])

\* The next hop's configuration, then a stream to it through the tunnel so far.
DialHop ==
  /\ dial.at = "hop" /\ UNCHANGED dials
  /\ \/ /\ dial.hops[dial.i] \in DOMAIN outboundCfgs /\ Carries(dial.mgr)
        /\ Goes([dial EXCEPT !.at = "inner", !.open = @ \cup {Raw(dial.i)}])
     \/ Fails(dial.open)

HopOpen ==
  Goes([dial EXCEPT !.open = @ \cup {Inner(dial.i)}, !.closeFns = Append(@, dial.i), !.mgr = Inner(dial.i),
                    !.i = @ + 1, !.at = IF dial.i = Len(dial.hops) THEN "final" ELSE "hop"])

\* A tunnel to the hop inside that stream; if it fails the stream is closed.
newHopTunnel ==
  dial.at = "inner" /\ UNCHANGED dials /\ (HopOpen \/ Fails(dial.open \ {Raw(dial.i)}))

FinalDial ==
  /\ dial.at = "final" /\ UNCHANGED dials
  /\ \/ Carries(dial.mgr) /\ Goes([dial EXCEPT !.at = "held", !.open = @ \cup {Final}])
     \/ Fails(dial.open)

\* cascadeConn.Close, by its user or because the tunnel that asked has ended.
Close == dial.at = "held" /\ UNCHANGED dials /\ Fails(dial.open \ {Final})

\* cleanupFns: from the last hop to the first, its tunnel and then its stream.
cleanupFns ==
  /\ dial.at = "close" /\ UNCHANGED dials
  /\ LET fns == dial.closeFns IN
     IF fns = <<>> THEN Goes([Idle EXCEPT !.open = dial.open])
     ELSE Goes([dial EXCEPT !.closeFns = Front(fns), !.open = @ \ {Inner(Last(fns)), Raw(Last(fns))}])

Configs == UNION {[S -> Chains] : S \in SUBSET Tags}

Next ==
  \/ \E configs \in Configs : UpdateOutbounds(configs)
  \/ \E t \in todo : AddOutbound(t)
  \/ RemoveOld
  \/ \E t \in Tags : dialCascade(t)
  \/ DialHop \/ newHopTunnel \/ FinalDial \/ Close \/ cleanupFns

Spec == Init /\ [][Next]_obVars

-----------------------------------------------------------------------------
(* Properties.                                                             *)

Running == {t \in Tags : outbounds[t] # NoTunnel}

\* The tags can be ordered so that every chain of a running outbound uses
\* only outbounds below it.
NoCycle ==
  \E rank \in [Tags -> 1..Cardinality(Tags)] :
    \A t \in Running : \A i \in DOMAIN outboundCfgs[t] :
      outboundCfgs[t][i] \in Running => rank[outboundCfgs[t][i]] < rank[t]

\* Every live tunnel is in the map and every tunnel in the map is live and has
\* a configuration; between updates no chain of running outbounds comes back
\* to itself, as long as no update changed the chain of a running one; and a
\* cascade that ends has closed all it opened, no tunnel outliving the stream
\* it runs in (UpdateOutbounds, AddOutbound,
\* validateChainGraph, dialCascade).
OutboundsAreSound ==
  /\ live = {outbounds[t] : t \in Running} /\ Running \subseteq DOMAIN outboundCfgs
  /\ update = <<>> /\ ~redefined => NoCycle
  /\ dial.at = "idle" => dial.open = {}
  /\ \A i \in 1..Len(dial.hops) : Inner(i) \in dial.open => Raw(i) \in dial.open
=============================================================================
