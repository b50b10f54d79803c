------------------------------ MODULE Nfqueue ------------------------------
(***************************************************************************)
(* Interception on Linux (nettrap-interceptor/src/nfqueue.rs): the rules   *)
(* that redirect traffic to the listeners, installed and removed by one    *)
(* command of the firewall after the other for IPv4 and IPv6, and the      *)
(* forwarding of the kernel switched on for MultiHost.  A command can be   *)
(* refused, or be killed after its timeout with or without having acted,   *)
(* and the process can die between two of them and be started again, with  *)
(* another configuration: it knows nothing of the earlier run but what it  *)
(* finds under the names its own mode and backend use.                     *)
(*                                                                         *)
(* A command is [op, fam, err, rule]; err tells what a failure does: "try" *)
(* goes on after a refusal, "must" ends the installation, "note" is noted  *)
(* by the cleanup, "ignore" not even that.                                 *)
(***************************************************************************)
EXTENDS Integers, Sequences, SequencesExt

CONSTANTS Configs,      \* [backend, mode, listeners, all, tcp, udp]: tcp, udp the names of the default
                        \* listeners; a listener is [name, port, tcp, enabled, hidden, blacklisted]
          MaxRuns, MaxCommandFaults

Families == {4, 6}
VARIABLES conf, phase,  \* phase: "off", "installing", "running", "cleaning", "stopping", "failed", "stopped"
          cmds,         \* the commands still to run
          fw,           \* the firewall: for each family and place [chain, jumps, rules]
          forward,      \* the forwarding flag of the kernel for each family
          managed, saved, errors,   \* of the process: registered families, saved flags, failed cleanups
          before, sure, \* history of a run: [forward, fw] at its start; no refusal ignored, nothing timed out in it
          orig, left,   \* history: the flags before the first run, the families a dead run left forwarding
          runs, cmdFaults
nfVars == <<conf, phase, cmds, fw, forward, managed, saved, errors, before, sure, orig, left, runs, cmdFaults>>

(* chain_names: the chain of a mode, or the one table of nft.              *)
Places == {"single", "multi", "table"}
Place(c) == IF c.backend = "nft" THEN "table" ELSE c.mode
NoChain == [chain |-> FALSE, jumps |-> 0, rules |-> <<>>]
NfInit == /\ conf \in Configs /\ phase = "off" /\ cmds = <<>>
          /\ fw = [f \in Families |-> [p \in Places |-> NoChain]] /\ forward \in [Families -> {"0", "1"}]
          /\ managed = <<>> /\ saved = [f \in Families |-> "none"] /\ errors = FALSE
          /\ before = [forward |-> forward, fw |-> fw] /\ sure = TRUE
          /\ orig = forward /\ left = {} /\ runs = 0 /\ cmdFaults = 0

------------------------------------------------------------------------------
(* The rules (engine/interceptor.rs): one for each listener that runs, and *)
(* last those that take the rest.                                          *)
Redirect(port, tcp, target) == [port |-> port, tcp |-> tcp, target |-> target]
DefaultName(c, tcp) == IF tcp THEN c.tcp ELSE c.udp
listener_is_default_target(c, l) == l.name = DefaultName(c, l.tcp)
listener_should_spawn(c, l) ==
    l.enabled /\ (~l.hidden \/ listener_is_default_target(c, l)) /\ ~l.blacklisted
spawnable_default_listeners(c, tcp) ==
    SelectSeq(c.listeners, LAMBDA l : l.tcp = tcp /\ l.name = DefaultName(c, tcp) /\ listener_should_spawn(c, l))
(* The port of the default listener, 0 if there is none or more than one.  *)
resolve_default_listener_port(c, tcp) ==
    LET them == spawnable_default_listeners(c, tcp) IN IF Len(them) = 1 THEN them[1].port ELSE 0
(* A start with redirect_all_traffic needs a default, and no bad one.      *)
validate_redirect_defaults(c) ==
    c.all => /\ \A tcp \in BOOLEAN : DefaultName(c, tcp) # "" => Len(spawnable_default_listeners(c, tcp)) = 1
             /\ c.tcp # "" \/ c.udp # ""
Explicit(c) == LET on == SelectSeq(c.listeners, LAMBDA l : listener_should_spawn(c, l))
               IN  [i \in DOMAIN on |-> Redirect(on[i].port, on[i].tcp, on[i].port)]
CatchAllFor(c, tcp) ==
    LET p == resolve_default_listener_port(c, tcp) IN IF p # 0 THEN <<Redirect(0, tcp, p)>> ELSE <<>>
CatchAll(c) == CatchAllFor(c, TRUE) \o CatchAllFor(c, FALSE)
(* Mutant: the default listener comes first.                               *)
build_redirect_rules_first(c) == IF c.all THEN CatchAll(c) \o Explicit(c) ELSE Explicit(c)
build_redirect_rules(c) == IF c.all THEN Explicit(c) \o CatchAll(c) ELSE Explicit(c)
(* The table of ports that track_original_destination resolves a packet    *)
(* with: it knows the default targets even when they take nothing.         *)
resolve_redirect_target(c, port, tcp) ==
    IF \E r \in Range(Explicit(c)) : r.port = port /\ r.tcp = tcp THEN port
    ELSE resolve_default_listener_port(c, tcp)

------------------------------------------------------------------------------
Cmd(op, fam, err) == [op |-> op, fam |-> fam, err |-> err, rule |-> {}]
Add(fam, r) == [op |-> "rule", fam |-> fam, err |-> "must", rule |-> {r}]
Adds(c, fam) == [i \in DOMAIN build_redirect_rules(c) |-> Add(fam, build_redirect_rules(c)[i])]
Uninstall(c, fam, err) ==
    IF c.backend = "nft" THEN <<Cmd("delete table", fam, err)>>
    ELSE <<Cmd("-D", fam, err), Cmd("-F", fam, err), Cmd("-X", fam, err)>>
(* Mutant: a stale chain is not looked for.                                *)
recover_stale_chain_not(c, fam) == <<>>
recover_stale_chain(c, fam) == Uninstall(c, fam, "try")
(* A family is registered once its chain is reached (iptables), or once it *)
(* is complete (nft).                                                      *)
install_family(c, fam) ==
    recover_stale_chain(c, fam) \o
    (IF c.backend = "nft"
     THEN <<Cmd("table", fam, "must"), Cmd("hook", fam, "must")>> \o Adds(c, fam) \o <<Cmd("register", fam, "must")>>
     ELSE <<Cmd("-N", fam, "must"), Cmd("-I", fam, "must"), Cmd("register", fam, "must")>> \o Adds(c, fam))
enable_multihost_forwarding(c) ==
    IF c.mode = "multi" THEN <<Cmd("enable", 4, "must"), Cmd("enable", 6, "must")>> ELSE <<>>
install_redirect_rules(c) == install_family(c, 4) \o install_family(c, 6) \o enable_multihost_forwarding(c)
remove_redirect_rules(c, fams) == FlattenSeq([i \in DOMAIN fams |-> Uninstall(c, Reverse(fams)[i], "note")])
(* Mutant: only IPv4 forwarding is restored.                               *)
restore_forwarding_v4(c) == IF c.mode = "multi" THEN <<Cmd("restore", 4, "note")>> ELSE <<>>
restore_forwarding(c) == IF c.mode = "multi" THEN <<Cmd("restore", 4, "note"), Cmd("restore", 6, "note")>> ELSE <<>>

(* The firewall: when it accepts a command, and what the command does.     *)
Accepts(c) ==
    LET s == fw[c.fam][Place(conf)]
    IN  CASE c.op = "-D" -> s.jumps > 0
          [] c.op \in {"-F", "-I", "rule", "delete table"} -> s.chain
          [] c.op = "-X" -> s.chain /\ s.jumps = 0 /\ s.rules = <<>>
          [] c.op = "-N" -> ~s.chain
          [] c.op = "restore" -> saved[c.fam] # "none"
          [] OTHER -> TRUE
Effect(c) ==
    LET s == fw[c.fam][Place(conf)]
    IN  CASE c.op = "-D" -> [s EXCEPT !.jumps = @ - 1]
          [] c.op = "-F" -> [s EXCEPT !.rules = <<>>]
          [] c.op \in {"-X", "delete table"} -> NoChain
          [] c.op \in {"-N", "table"} -> [s EXCEPT !.chain = TRUE]
          [] c.op = "-I" -> [s EXCEPT !.jumps = @ + 1]
          [] c.op = "hook" -> [s EXCEPT !.jumps = 1]
          [] c.op = "rule" -> [s EXCEPT !.rules = @ \o SetToSeq(c.rule)]
          [] OTHER -> s
(* What follows the failure of a command.  A chain that could not be hooked *)
(* in is deleted again; IPv6 forwarding that cannot be enabled undoes that  *)
(* of IPv4; IPv4 forwarding that cannot be restored leaves IPv6 as it is.   *)
(* Mutant: only complete families are cleaned up.                          *)
Rest_complete(c) ==
    IF c.err = "must" THEN IF Len(managed) = 2 THEN remove_redirect_rules(conf, managed) ELSE <<>> ELSE Tail(cmds)
Rest(c) ==
    CASE c.err = "must" -> (CASE c.op = "-I" -> <<Cmd("-X", c.fam, "ignore")>>
                              [] c.op = "enable" /\ c.fam = 6 -> <<Cmd("restore", 4, "note")>>
                              [] OTHER -> <<>>) \o remove_redirect_rules(conf, managed)
      [] c.op = "restore" /\ phase = "stopping" -> <<>>
      [] OTHER -> Tail(cmds)

Acts(c) == fw' = [fw EXCEPT ![c.fam][Place(conf)] = Effect(c)]
           /\ forward' = CASE c.op = "enable" -> [forward EXCEPT ![c.fam] = "1"]
                           [] c.op = "restore" -> [forward EXCEPT ![c.fam] = saved[c.fam]]
                           [] OTHER -> forward
Saves(c) == saved' = IF c.op = "enable" THEN [saved EXCEPT ![c.fam] = forward[c.fam]] ELSE saved
Goes(c, ok, try) ==
    /\ cmds' = IF ok \/ try THEN Tail(cmds) ELSE Rest(c)
    /\ phase' = IF ~ok /\ ~try /\ phase = "installing" THEN "cleaning" ELSE phase
    /\ errors' = (errors \/ (~ok /\ c.err = "note"))
    /\ managed' = IF ok /\ c.op = "register" THEN Append(managed, c.fam) ELSE managed
(* run_iptables_command, run_nft_command and the writes to /proc.          *)
run_command ==
    /\ cmds # <<>>
    /\ LET c == Head(cmds)
           ok == Accepts(c)
       IN  /\ IF ok THEN Acts(c) ELSE UNCHANGED <<fw, forward>>
           /\ Saves(c) /\ Goes(c, ok, c.err = "try")
    /\ UNCHANGED <<conf, before, sure, orig, left, runs, cmdFaults>>
(* Refused though there was nothing wrong with it.                         *)
command_refused ==
    /\ cmds # <<>> /\ cmdFaults < MaxCommandFaults /\ cmdFaults' = cmdFaults + 1
    /\ LET c == Head(cmds)
       IN  /\ c.op # "register" /\ Accepts(c)
           /\ \/ Saves(c)
              \/ c.op = "enable" /\ UNCHANGED saved
           /\ Goes(c, FALSE, c.err = "try") /\ sure' = (sure /\ c.err \notin {"try", "ignore"})
    /\ UNCHANGED <<conf, fw, forward, before, orig, left, runs>>
(* Killed by wait_for_command after its 30 s.                              *)
command_times_out ==
    /\ cmds # <<>> /\ cmdFaults < MaxCommandFaults /\ cmdFaults' = cmdFaults + 1
    /\ LET c == Head(cmds)
       IN  /\ c.op \notin {"register", "enable", "restore"} /\ Accepts(c)
           /\ Acts(c) \/ UNCHANGED <<fw, forward>>
           /\ Goes([c EXCEPT !.err = IF @ = "try" THEN "must" ELSE @], FALSE, FALSE)
    /\ sure' = FALSE
    /\ UNCHANGED <<conf, saved, before, orig, left, runs>>

init ==
    /\ phase = "off" /\ runs < MaxRuns
    /\ conf' \in Configs
    /\ validate_redirect_defaults(conf') /\ build_redirect_rules(conf') # <<>>
    /\ phase' = "installing" /\ cmds' = install_redirect_rules(conf') /\ runs' = runs + 1
    /\ before' = [forward |-> forward, fw |-> fw]
    /\ UNCHANGED <<fw, forward, managed, saved, errors, sure, orig, left, cmdFaults>>
Finished ==
    /\ phase \in {"installing", "cleaning", "stopping"} /\ cmds = <<>>
    /\ phase' = CASE phase = "installing" -> "running" [] phase = "cleaning" -> "failed" [] OTHER -> "stopped"
    /\ UNCHANGED <<conf, cmds, fw, forward, managed, saved, errors, before, sure, orig, left, runs, cmdFaults>>
NfShutdown ==
    /\ phase = "running" /\ phase' = "stopping"
    /\ cmds' = remove_redirect_rules(conf, managed) \o restore_forwarding(conf)
    /\ UNCHANGED <<conf, fw, forward, managed, saved, errors, before, sure, orig, left, runs, cmdFaults>>
(* The process ends, or dies, with all it knows, and may be started again. *)
Dies ==
    /\ phase # "off" /\ phase' = "off" /\ cmds' = <<>>
    /\ managed' = <<>> /\ saved' = [f \in Families |-> "none"] /\ errors' = FALSE /\ sure' = TRUE
    /\ left' = left \cup {f \in Families : forward[f] # before.forward[f]}
    /\ UNCHANGED <<conf, fw, forward, before, orig, runs, cmdFaults>>

NfNext == init \/ run_command \/ command_refused \/ command_times_out \/ Finished \/ NfShutdown \/ Dies
NfSpec == NfInit /\ [][NfNext]_nfVars

------------------------------------------------------------------------------
(* Once it runs, each family has its chain, one jump to it and exactly the *)
(* configured rules in their order, whatever earlier runs of its mode left *)
(* behind and whichever command was refused                                *)
(* (install_iptables_redirect_rules); with nft a refused deletion goes     *)
(* unnoticed, and stale rules stay in front.  What an earlier run in the   *)
(* other mode, or with the other tool, left is not looked for: it stays.   *)
InstallExact ==
    phase = "running" =>
      \A f \in Families :
        /\ conf.backend = "iptables" \/ sure =>
             fw[f][Place(conf)] = [chain |-> TRUE, jumps |-> 1, rules |-> build_redirect_rules(conf)]
        /\ \A p \in Places \ {Place(conf)} : fw[f][p] = before.fw[f][p]

(* A shutdown that reports no error leaves nothing under its names in the  *)
(* firewall, and an initialisation that failed, at whichever command, adds *)
(* nothing to what an earlier run may have left (init,                     *)
(* remove_redirect_rules), if no command timed out; with nft a family is   *)
(* registered too late for that.                                           *)
NothingInstalled ==
    /\ phase = "stopped" /\ ~errors => \A f \in Families : fw[f][Place(conf)] = NoChain
    /\ phase = "failed" /\ ~errors /\ sure /\ conf.backend = "iptables" =>
         \A f \in Families : fw[f][Place(conf)] \in {NoChain, before.fw[f][Place(conf)]}

(* After a shutdown or a failed start without cleanup errors the kernel    *)
(* forwards as it did before the very first run (restore_forwarding), but  *)
(* for the families that a run which died, or could not restore them, left *)
(* forwarding: these stay on, for the next run takes what it finds for the *)
(* original.                                                               *)
ForwardingRestored ==
    /\ phase \in {"stopped", "failed"} /\ ~errors => \A f \in Families \ left : forward[f] = orig[f]
    /\ \A f \in left : forward[f] = "1"

(* Traffic to the port of a listener reaches that listener, and the rest   *)
(* the default one if all traffic is redirected, which then exists; the    *)
(* table that gives a connection its original destination resolves         *)
(* redirected traffic to the same listener (build_linux_redirect_rules,    *)
(* validate_redirect_defaults, configure_linux_redirect_tracking).         *)
RedirectsReachListeners ==
    phase = "installing" =>
      LET rules == build_redirect_rules(conf)
          first(port, tcp) == SelectInSeq(rules, LAMBDA r : r.port \in {0, port} /\ r.tcp = tcp)
      IN  /\ \A port \in 1 .. 9, tcp \in BOOLEAN :
               LET i   == first(port, tcp)
                   own == \E l \in Range(conf.listeners) : listener_should_spawn(conf, l) /\ l.port = port /\ l.tcp = tcp
               IN  /\ own => i # 0 /\ rules[i].target = port
                   /\ ~own => (i # 0 <=> conf.all /\ DefaultName(conf, tcp) # "")
                   /\ i # 0 => rules[i].target = resolve_redirect_target(conf, port, tcp)
          /\ conf.all => \E r \in Range(rules) : r.port = 0
=============================================================================
