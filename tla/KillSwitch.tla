----------------------------- MODULE KillSwitch -----------------------------
(***************************************************************************)
(* The client's kill switch (core/killswitch): a fence in the operating    *)
(* system's firewall that lets only the tunnel's server and what was       *)
(* allowed pass.  An operation is a list of firewall commands run one      *)
(* after the other under the mutex; each may fail, and the process may die *)
(* between two of them, which leaves the firewall as it is.                *)
(*                                                                         *)
(* A rule stands for the commands of one kind ("local": loopback and       *)
(* established connections; "extra": LAN, DNS, allowed addresses, tunnel   *)
(* interfaces).  The user's own rules do not change meanwhile.             *)
(***************************************************************************)
EXTENDS Integers, Sequences

CONSTANTS
  Systems,   \* those of "linux", "darwin", "windows" to try
  MaxFail,   \* commands that fail
  MaxRuns    \* further runs of the process, after one that died or kept the rules

Hooks == {"INPUT", "OUTPUT", "FORWARD"}

VARIABLES
  os,          \* the platform implementation
  ksState,     \* ks.state
  vpnIP,       \* whether the server's address is set
  fence,       \* the firewall: the fence's rules, where it is hooked in, pf on
  savedRules,  \* savedRules, savedPolicy, wasEnabled
  op, todo,    \* the operation under way and its commands still to run
  opErr,       \* an error it will return
  lapsed,      \* UpdateConfig ran, or Disable failed, since the last Enable
  inherited,   \* an earlier run left the firewall as it was
  stuck,       \* Windows would not take its old policy back
  fails, runs

ksVars == <<os, ksState, vpnIP, fence, savedRules, op, todo, opErr, lapsed, inherited,
            stuck, fails, runs>>

Unhooked == [h \in Hooks |-> 0]
Open == [rules |-> <<>>, hooks |-> Unhooked, on |-> TRUE]

\* savedRules and savedPolicy empty, wasEnabled false.
NothingSaved == [rules |-> <<"none">>, hooks |-> Unhooked, on |-> FALSE]

Init ==
  /\ os \in Systems
  /\ ksState = "disabled" /\ vpnIP = FALSE
  /\ \E on \in (IF os = "darwin" THEN BOOLEAN ELSE {TRUE}) :
       fence = [Open EXCEPT !.on = on]
  /\ savedRules = NothingSaved
  /\ op = "none" /\ todo = <<>> /\ opErr = FALSE
  /\ lapsed = FALSE /\ inherited = FALSE /\ stuck = FALSE
  /\ fails = 0 /\ runs = 0

Has(f, r) == \E i \in 1..Len(f.rules) : f.rules[i] = r

\* Windows drops by its policy, whatever the rules: hooked means blocking.
Drops(f) == os = "windows" \/ Has(f, "drop")

\* Traffic that no rule allows is dropped on its way h.
Blocked(f, h) == f.on /\ f.hooks[h] > 0 /\ Drops(f)

\* The rule comes before the drop, so what it allows passes.
Passes(f, r) ==
  \E i \in 1..Len(f.rules) : f.rules[i] = r /\ \A j \in 1..i : f.rules[j] # "drop"

-----------------------------------------------------------------------------
(* The commands.                                                           *)

\* Those whose failure ends Enable; the others' is logged or ignored.
Must == {"create", "local", "vpn", "drop", "hookIn", "hookOut", "load", "main", "pfOn", "block"}

\* Those whose failure Disable reports (disableLocked of darwin).
Reported == {"flushAnchor", "mainBack", "pfOff"}

\* Mutant of LinuxEnable: the chain is hooked in before it is complete.
LinuxEnable_HookFirst ==
  <<"save", "create", "flush", "hookIn", "hookOut", "hookFwd", "local", "drop", "vpn", "extra">>

\* Enable with iptables: fill the chain, drop at its end, then hook it in.
LinuxEnable ==
  <<"save", "create", "flush", "local", "vpn", "extra", "drop", "hookIn", "hookOut", "hookFwd">>

LinuxDisable == <<"unhookIn", "unhookOut", "unhookFwd", "flush", "delete", "restore">>

\* Enable with pf: the whole fence is one file, loaded as an anchor.
DarwinEnable == <<"save", "load", "main", "pfOn">>

DarwinDisable ==
  <<"flushAnchor">> \o (IF savedRules = NothingSaved THEN <<>> ELSE <<"mainBack">>)
                   \o (IF savedRules.on THEN <<>> ELSE <<"pfOff">>)

\* Enable with netsh: the exceptions first, then the policy that blocks.
WindowsEnable == <<"cleanup", "save", "local", "vpn", "extra", "block">>

WindowsDisable == <<"restorePolicy", "cleanup">>

EnableScript ==
  CASE os = "linux" -> LinuxEnable [] os = "darwin" -> DarwinEnable [] OTHER -> WindowsEnable

DisableScript ==
  CASE os = "linux" -> LinuxDisable [] os = "darwin" -> DarwinDisable [] OTHER -> WindowsDisable

Hook(f, h, n) == [f EXCEPT !.hooks[h] = n]
AppendRule(f, r) == [f EXCEPT !.rules = Append(@, r)]
Unhook(f, h) == Hook(f, h, IF f.hooks[h] > 0 THEN f.hooks[h] - 1 ELSE 0)

\* What a command that succeeds does to the firewall: iptables ...
LinuxEffect(c, f) ==
  CASE c \in {"local", "vpn", "extra", "drop"} -> AppendRule(f, c)
    [] c = "flush"     -> [f EXCEPT !.rules = <<>>]
    [] c = "hookIn"    -> Hook(f, "INPUT", f.hooks["INPUT"] + 1)
    [] c = "hookOut"   -> Hook(f, "OUTPUT", f.hooks["OUTPUT"] + 1)
    [] c = "hookFwd"   -> Hook(f, "FORWARD", f.hooks["FORWARD"] + 1)
    [] c = "unhookIn"  -> Unhook(f, "INPUT")
    [] c = "unhookOut" -> Unhook(f, "OUTPUT")
    [] c = "unhookFwd" -> Unhook(f, "FORWARD")
    [] c = "restore"   -> IF savedRules = NothingSaved THEN f ELSE savedRules
    [] OTHER           -> f

\* ... pfctl ...
DarwinEffect(c, f) ==
  CASE c = "load"        -> [f EXCEPT !.rules = <<"local", "vpn", "extra", "drop">>]
    [] c = "main"        -> [f EXCEPT !.hooks = [h \in Hooks |-> 1]]
    [] c = "pfOn"        -> [f EXCEPT !.on = TRUE]
    [] c = "flushAnchor" -> [f EXCEPT !.rules = <<>>]
    [] c = "mainBack"    -> [f EXCEPT !.hooks = savedRules.hooks]
    [] c = "pfOff"       -> [f EXCEPT !.on = FALSE]
    [] OTHER             -> f

\* ... and netsh.
WindowsEffect(c, f) ==
  CASE c = "block"         -> [f EXCEPT !.hooks = [Unhooked EXCEPT !["INPUT"] = 1, !["OUTPUT"] = 1]]
    [] c = "restorePolicy" -> [f EXCEPT !.hooks = savedRules.hooks]
    [] c = "cleanup"       -> [f EXCEPT !.rules = <<>>]
    [] c \in {"local", "vpn", "extra"} -> AppendRule(f, c)
    [] OTHER               -> f

Effect(c, f) ==
  CASE os = "linux"  -> LinuxEffect(c, f)
    [] os = "darwin" -> DarwinEffect(c, f)
    [] OTHER         -> WindowsEffect(c, f)

\* The next command runs; a failure in Enable is undone by Disable's commands.
Command(ok) ==
  /\ todo # <<>>
  /\ ok \/ fails < MaxFail
  /\ fails' = IF ok THEN fails ELSE fails + 1
  /\ LET c == Head(todo)
     IN  /\ fence' = IF ok THEN Effect(c, fence) ELSE fence
         /\ savedRules' = IF ok /\ c = "save" THEN fence
                          ELSE IF c = "restorePolicy" \/ (c = "save" /\ os = "windows")
                            THEN NothingSaved ELSE savedRules
         /\ todo' = IF ~ok /\ c \in Must THEN DisableScript ELSE Tail(todo)
         /\ opErr' = (opErr \/ (~ok /\ c \in Must \cup Reported))
         /\ stuck' = (stuck \/ (~ok /\ c = "restorePolicy"))
  /\ UNCHANGED <<os, ksState, vpnIP, op, lapsed, inherited, runs>>

-----------------------------------------------------------------------------
(* The operations; ks.mu is held from the start of one to its Return.      *)

Start(name, script) ==
  /\ op' = name /\ todo' = script /\ opErr' = FALSE
  /\ UNCHANGED <<os, vpnIP, fence, savedRules, inherited, stuck, fails, runs>>

SetVPNServer ==
  /\ op = "none" /\ ~vpnIP
  /\ vpnIP' = TRUE
  /\ UNCHANGED <<os, ksState, fence, savedRules, op, todo, opErr, lapsed, inherited, stuck, fails,
                 runs>>

Enable ==
  /\ op = "none" /\ ksState # "active" /\ vpnIP
  /\ Start("enable", EnableScript)
  /\ UNCHANGED <<ksState, lapsed>>

Disable ==
  /\ op = "none" /\ ksState # "disabled"
  /\ Start("disable", DisableScript)
  /\ UNCHANGED <<ksState, lapsed>>

\* UpdateConfig takes an active fence down and, if the new configuration has
\* the switch enabled, puts it up again; ks.state is not touched.
UpdateConfig(enabled) ==
  /\ op = "none" /\ ksState = "active"
  /\ Start(IF enabled THEN "replace" ELSE "remove", DisableScript)
  /\ lapsed' = TRUE
  /\ UNCHANGED ksState

\* Shutdown removes the fence unless PersistRules is set.
Shutdown ==
  /\ op = "none"
  /\ Start("shutdown", DisableScript)
  /\ UNCHANGED <<ksState, lapsed>>

\* The last command is done: ks.state follows an operation that succeeded.
Return ==
  /\ op # "none" /\ todo = <<>>
  /\ IF op = "replace" /\ ~opErr
       THEN op' = "reenable" /\ todo' = EnableScript /\ UNCHANGED <<ksState, lapsed>>
       ELSE /\ op' = "none" /\ todo' = <<>>
            /\ ksState' = CASE op = "enable" /\ ~opErr -> "active"
                            [] op \in {"disable", "shutdown"} /\ ~opErr -> "disabled"
                            [] OTHER -> ksState
            /\ lapsed' = CASE op = "enable" /\ ~opErr -> FALSE
                           [] op \in {"disable", "shutdown"} /\ opErr -> TRUE
                           [] OTHER -> lapsed
  /\ opErr' = FALSE
  /\ UNCHANGED <<os, vpnIP, fence, savedRules, inherited, stuck, fails, runs>>

\* The process dies, or shuts down with PersistRules, and is started again:
\* the firewall keeps what it has.
Restart ==
  /\ runs < MaxRuns
  /\ runs' = runs + 1
  /\ ksState' = "disabled" /\ vpnIP' = FALSE /\ savedRules' = NothingSaved
  /\ op' = "none" /\ todo' = <<>> /\ opErr' = FALSE /\ lapsed' = TRUE /\ inherited' = TRUE
  /\ UNCHANGED <<os, fence, stuck, fails>>

Next ==
  \/ SetVPNServer \/ Enable \/ Disable \/ Return \/ Shutdown \/ Restart
  \/ \E b \in BOOLEAN : UpdateConfig(b) \/ Command(b)

Spec == Init /\ [][Next]_ksVars

-----------------------------------------------------------------------------
(* Properties.                                                             *)

\* While the switch says it is active nothing but what was allowed passes,
\* unless its configuration was replaced or taking it down has failed.
ActiveIsFenced ==
  ksState = "active" /\ op = "none" /\ ~lapsed =>
    Blocked(fence, "INPUT") /\ Blocked(fence, "OUTPUT")

\* At no point of putting the fence up or taking it down is the tunnel's own
\* server cut off: the drop comes after the exceptions, and the hook after
\* the drop (Enable).  A fence an earlier run left is rebuilt in place, so
\* that case is left out, and so is a Windows policy that cannot be put back:
\* there the exceptions are removed all the same.
ServerStaysReachable ==
  ~inherited /\ ~stuck =>
    \A h \in Hooks : Blocked(fence, h) => Passes(fence, "vpn") /\ Passes(fence, "local")

\* No single command that fails, in Enable or in Disable, leaves a machine
\* cut off when the switch says it is off (that policy apart).
OffIsOpen ==
  ksState = "disabled" /\ op = "none" /\ ~lapsed /\ ~inherited /\ ~stuck /\ fails <= 1 =>
    \A h \in Hooks : ~Blocked(fence, h)

\* The switch does what its state says, and never cuts off its own tunnel.
FenceIsTrue == ActiveIsFenced /\ ServerStaysReachable /\ OffIsOpen
=============================================================================
