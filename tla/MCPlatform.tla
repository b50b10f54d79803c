---------------------------- MODULE MCPlatform ----------------------------
(***************************************************************************)
(* Instances of the parts below and around the listeners: interception by  *)
(* rewriting packets and by rules of the firewall, the capture file of a   *)
(* run with its replay, the life of a run, and the storage of events with  *)
(* the reports made of it.  The actions of each are its own, so a          *)
(* behaviour is one of them (part) and the others idle.                    *)
(***************************************************************************)
EXTENDS WinDivert, Nfqueue, Lifecycle, Storage

CONSTANTS Traffic, MaxFaults, MAX_PCAP_RECORDS, MAX_REPLAY_FLOWS, MAX_REPLAY_FLOW_BYTES,
          MAX_REPLAY_TOTAL_PAYLOAD_BYTES, MAX_REPLAY_FLOW_CHUNKS,
          MAX_REPLAY_TOTAL_PAYLOAD_CHUNKS, MAX_REPLAY_EVENTS
VARIABLES part, todo, pending, pcapOpen, enabled, records, faults, replay, flows, events
C == INSTANCE Capture WITH open <- pcapOpen
captureVars == <<todo, pending, pcapOpen, enabled, records, faults, replay, flows, events>>
allVars == <<part, vars, nfVars, captureVars, lifeVars, storeVars>>

DivertIdle == Init /\ kind = "pcap"
NfqueueIdle == NfInit /\ conf = (CHOOSE c \in Configs : TRUE) /\ forward = [f \in Families |-> "0"]
CaptureIdle == C!Init /\ todo = CHOOSE t \in Traffic : TRUE
LifeIdle == LifeInit /\ plan = CHOOSE p \in Plans : TRUE
StoreIdle == StoreInit /\ storePhase = "running" /\ store.file /\ store.db

MCInit ==
    \E p \in {"divert", "nfqueue", "capture", "life", "storage"} :
      /\ part = p
      /\ IF p = "divert" THEN Init ELSE DivertIdle
      /\ IF p = "nfqueue" THEN NfInit ELSE NfqueueIdle
      /\ IF p = "capture" THEN C!Init ELSE CaptureIdle
      /\ IF p = "life" THEN LifeInit ELSE LifeIdle
      /\ IF p = "storage" THEN StoreInit ELSE StoreIdle
Divert(A) == part = "divert" /\ A /\ UNCHANGED <<part, nfVars, captureVars, lifeVars, storeVars>>
Life(A) == part = "life" /\ A /\ UNCHANGED <<part, vars, nfVars, captureVars, storeVars>>
DivertNext == Divert(Next)
LifecycleNext == Life(LifeNext)
NfqueueNext == part = "nfqueue" /\ NfNext /\ UNCHANGED <<part, vars, captureVars, lifeVars, storeVars>>
CaptureNext == part = "capture" /\ C!Next /\ UNCHANGED <<part, vars, nfVars, lifeVars, storeVars>>
StorageNext == part = "storage" /\ StoreNext /\ UNCHANGED <<part, vars, nfVars, captureVars, lifeVars>>
MCNext == DivertNext \/ NfqueueNext \/ CaptureNext \/ LifecycleNext \/ StorageNext
MCSpec == /\ MCInit /\ [][MCNext]_allVars
          /\ WF_allVars(Divert(ReceiveFails)) /\ WF_allVars(Divert(shutdown)) /\ SF_allVars(Divert(shutdown_takes))
          /\ WF_allVars(Life(RunnerStep))
------------------------------------------------------------------------------
Addr(fam, name, local) == [fam |-> fam, host |-> name, local |-> local, mapped |-> FALSE]
Mapped(name, local) == [fam |-> 6, host |-> name, local |-> local, mapped |-> TRUE]
Lan == Addr(4, "lan", TRUE)
Lan2 == Addr(4, "lan2", TRUE)
Public == Addr(4, "public", FALSE)
Public2 == Addr(4, "public2", FALSE)
Loop == Addr(4, "loopback", TRUE)
Public6 == Addr(6, "public6", FALSE)
Lan6 == Addr(6, "lan6", TRUE)

Tcp4(src, sport, dst, dport) ==
    [link |-> "ethernet", tags |-> 0, family |-> 4, version |-> 4, cap |-> 60, ihl |-> 20, total |-> 60,
     frag |-> FALSE, exts |-> <<>>, proto |-> 6, thl |-> 20, udp |-> 0, src |-> src, dst |-> dst,
     sport |-> sport, dport |-> dport, flags |-> {}]
In(f) == [dir |-> "in", f |-> f]
Out(f) == [dir |-> "out", f |-> f]

(* Two destinations of one client socket through one listener, a second    *)
(* client, another listener, the replies, and frames that are passed on.   *)
MCFrames == {Out(Tcp4(Lan, 5000, Public, 80)), Out(Tcp4(Lan, 5000, Public2, 81)),
             Out(Tcp4(Lan2, 5000, Public, 80)), Out(Tcp4(Lan, 5000, Loop, 80)),
             Out([Tcp4(Lan, 5000, Public, 53) EXCEPT !.proto = 17, !.udp = 30]),
             Out([Tcp4(Lan, 5000, Public, 80) EXCEPT !.frag = TRUE]),
             In(Tcp4(Loop, 8080, Lan, 5000)), In(Tcp4(Loop, 8080, Lan2, 5000)),
             In([Tcp4(Loop, 5353, Lan, 5000) EXCEPT !.proto = 17, !.udp = 90]),
             In(Tcp4(Public, 80, Lan, 5000))}
MCRedirects == <<[port |-> 0, tcp |-> TRUE, target |-> 8080], [port |-> 80, tcp |-> TRUE, target |-> 8080],
                 [port |-> 53, tcp |-> FALSE, target |-> 5353]>>

Options(len) == [kind |-> "options", len |-> len, frag |-> FALSE]
Fragment(frag) == [kind |-> "fragment", len |-> 8, frag |-> frag]
Eight == [i \in 1 .. 8 |-> Options(8)]
Shape(version, cap, ihl, total, frag, exts) ==
    [version |-> version, cap |-> cap, ihl |-> ihl, total |-> total, frag |-> frag, exts |-> exts]
Shapes == {Shape(4, cap, 20, 60, frag, <<>>) : cap \in {19, 59, 60, 70}, frag \in BOOLEAN}
          \cup {Shape(4, 60, ihl, 60, FALSE, <<>>) : ihl \in {16, 24, 48}} \cup {Shape(4, 0, 20, 60, FALSE, <<>>)}
          \cup {Shape(4, 60, 20, 19, FALSE, <<>>), Shape(5, 60, 20, 60, FALSE, <<>>)}
          \cup {Shape(6, cap, 0, 80, FALSE, exts) : cap \in {39, 80, 200},
                exts \in {<<>>, <<Options(8)>>, <<Options(48)>>, <<Fragment(FALSE)>>, <<Fragment(TRUE)>>,
                          <<Options(8), Fragment(FALSE)>>, Eight}}
          \cup {Shape(6, 200, 0, 144, FALSE, exts) : exts \in {Eight, Tail(Eight)}}
Links == {[link |-> "ethernet", tags |-> t, family |-> f] : t \in {0, 8, 9}, f \in {0, 4, 6}}
         \cup {[link |-> "sll", tags |-> 0, family |-> f] : f \in {0, 4, 6}}
         \cup {[link |-> l, tags |-> 0, family |-> 0] : l \in {"raw", "ipv4", "ipv6", "other"}}
         \cup {[link |-> l, tags |-> 0, family |-> [code |-> code, big |-> big]] :
                  l \in {"null", "loop"}, code \in {2, 7, 23, 24}, big \in BOOLEAN}
Segments == {[proto |-> 6, thl |-> t, udp |-> 0] : t \in {16, 20, 44}}
            \cup {[proto |-> 17, thl |-> 0, udp |-> u] : u \in {7, 8, 30, 90}}
            \cup {[proto |-> p, thl |-> 0, udp |-> 0] : p \in {1, 2, 58}}
MCProbes == {s @@ l @@ g @@ [src |-> Lan, dst |-> Public, sport |-> 5000, dport |-> 80, flags |-> {}] :
               s \in Shapes, l \in Links, g \in Segments}

Listener(name, port, tcp) == [name |-> name, port |-> port, tcp |-> tcp, enabled |-> TRUE, hidden |-> FALSE,
                              blacklisted |-> FALSE]
Http == Listener("http", 1, TRUE)
DnsTrap == Listener("dns", 2, FALSE)
Sink == [Listener("sink", 3, TRUE) EXCEPT !.hidden = TRUE]
Conf(backend, mode, listeners, all, tcp, udp) ==
    [backend |-> backend, mode |-> mode, listeners |-> listeners, all |-> all, tcp |-> tcp, udp |-> udp]
MCConfigs == {Conf(b, "single", <<Http, DnsTrap, Sink>>, TRUE, "sink", "dns") : b \in {"iptables", "nft"}}
             \cup {Conf(b, "multi", <<Http>>, FALSE, "http", "") : b \in {"iptables", "nft"}}
             \cup {Conf("iptables", "single", <<[Http EXCEPT !.blacklisted = TRUE], DnsTrap>>, TRUE, "http", "dns")}
             \cup {Conf("nft", "single", <<Http, [Http EXCEPT !.port = 4]>>, TRUE, "http", "")}

Message(peer, sport, dst, dport, proto, by, n, k, flags) ==
    [peer |-> peer, sport |-> sport, dst |-> dst, dport |-> dport, proto |-> proto, by |-> by, n |-> n, k |-> k,
     flags |-> flags]
Says(peer, dst, by, n, k) == Message(peer, 5000, dst, 80, "tcp", by, n, k, {})
Asks(n) == Message(Lan, 5001, Public, 53, "udp", "client", n, "dns", {})
AsksTcp(n) == Message(Lan, 5002, Public, 53, "tcp", "client", n, "dns", {})
MCTraffic == {
    <<Says(Lan, Public, "client", 6, "http"), Says(Lan, Public, "trap", 9, "raw"),
      Says(Lan, Public, "client", 6, "http"), Says(Lan, Public, "client", 2, "raw")>>,
    <<Asks(3), AsksTcp(4), Asks(3), AsksTcp(4)>>,
    <<Says(Public, Lan, "client", 4, "http"), Says(Public, Lan, "trap", 5, "raw"), Asks(3)>>,
    <<Says(Lan, Lan2, "client", 4, "http"), Says(Lan, Lan2, "trap", 5, "raw"),
      Message(Lan, 20, Lan2, 80, "tcp", "client", 3, "raw", {"SYN"})>>,
    <<Says(Mapped("lan", TRUE), Public, "client", 65495, "raw"), Says(Lan, Public, "client", 65496, "raw"),
      Says(Lan6, Public6, "client", 65475, "raw"), Says(Lan6, Public6, "trap", 65476, "raw")>>,
    <<Says(Lan, Public6, "client", 3, "raw"), Says(Lan, Addr(4, "unspecified", FALSE), "client", 3, "raw"),
      Says(Lan, Public, "client", 0, "raw"), Asks(65507)>> }

MCPlan(standard, windows, services, intercept, rules, listeners, on) ==
    [standard |-> standard, windows |-> windows, dns |-> on, service |-> on, trust |-> on, pcap |-> on, db |-> on,
     output |-> on, services |-> services, api |-> on \/ ~standard, intercept |-> intercept, rules |-> rules,
     listeners |-> listeners, allow |-> ~standard]

(* A full run on Windows, one on Linux, runs with nothing to redirect, one *)
(* without listeners, and the program's API only.                          *)
MCPlans == {MCPlan(TRUE, TRUE, {"health server", "metrics server"}, "required", TRUE, Listeners, TRUE),
            MCPlan(TRUE, FALSE, {"heartbeat", "faketime"}, "requested", TRUE, Listeners, TRUE),
            MCPlan(TRUE, FALSE, {}, "requested", FALSE, {"l1"}, FALSE),
            MCPlan(TRUE, TRUE, {}, "required", FALSE, {"l1"}, TRUE),
            MCPlan(TRUE, FALSE, {}, "off", FALSE, {}, FALSE),
            MCPlan(FALSE, TRUE, {"heartbeat"}, "off", FALSE, {}, TRUE)}

MCStores == {[file |-> TRUE, db |-> TRUE], [file |-> TRUE, db |-> FALSE], [file |-> FALSE, db |-> TRUE]}
OneRecord == {Ev(id, payload) : id \in {1, 2}, payload \in {"p", "q"}} \cup {Ev(3, "p"), Ev(4, "p")}
AtMostTwo == {<<>>} \cup {<<a>> : a \in OneRecord} \cup {<<a, b>> : a \in OneRecord, b \in OneRecord}
MCLeftovers == [events : AtMostTwo, rows : AtMostTwo, failures : {0, 1}]
MCTables == [backend : {"sqlite", "postgres"}, cols : SUBSET ToSet(Columns), alien : BOOLEAN, rows : {0, 2}]

------------------------------------------------------------------------------
(* What the writer of the capture accepts the reader gives back: the same  *)
(* endpoints and the same payload, for every length a record may have      *)
(* (PcapWriter::write_packet, PcapReader::read_file).                      *)
CaptureRoundTrips == C!CaptureRoundTrips

(* Both directions of a conversation, and only they, are one flow of the   *)
(* replay, and what it keeps is a prefix of what one side sent: no limit   *)
(* leaves a hole (group_flows_with_limits).                                *)
FlowsWhole == C!FlowsWhole

(* A replay reports every flow, and every datagram it kept, unless the     *)
(* limit on events is reached (replay_pcap).                               *)
EveryFlowReported == C!EveryFlowReported

(* Only what clients sent is derived from, where ports or addresses tell   *)
(* the two sides of a conversation apart (group_flows_with_limits).        *)
LocalClientIsOpener == C!LocalClientIsOpener

(* A shutdown of the WinDivert interceptor ends: it never waits for a      *)
(* receive that nothing will wake (WinDivertInterceptor::shutdown).        *)
MCShutdownEnds == part = "divert" => ShutdownEnds

(* A run in which a task has failed, or that was asked to stop, ends, or   *)
(* waits for the exports of an event that came too late (wait_for_shutdown,*)
(* RuntimeRunner::run).                                                    *)
MCStopEnds == part = "life" => StopEnds

(* From a frame to the report of a replay nothing is misread: the parsers  *)
(* agree, rewritten packets verify, a record is read back as written, a    *)
(* flow is whole and reported, and its client is the side that opened it   *)
(* (nfqueue.rs, pcap.rs, replay.rs).                                       *)
CaptureFaithful ==
    /\ ParsersAgree /\ ChecksumsVerify /\ CaptureRoundTrips
    /\ FlowsWhole /\ EveryFlowReported /\ LocalClientIsOpener

(* The firewall holds the rules of the run while it is up and none         *)
(* afterwards, with forwarding as it was, and a redirect leads to a port   *)
(* that listens, whatever command was refused before (NfqueueInterceptor); *)
(* its parts name what nft does not promise.                               *)
FirewallExact == InstallExact /\ NothingInstalled /\ ForwardingRestored /\ RedirectsReachListeners

(* The reports hold every event that can be read and a missing one is      *)
(* noticed, after a repair the file reads back as the reports, and an old  *)
(* table that was opened is usable, with the exceptions its parts name     *)
(* (event_resolution.rs, schema.rs).                                       *)
StorageFaithful == ReportsComplete /\ LossSignalled /\ RepairFaithful /\ SchemaUsable

(* The shutdown of the interceptor ends, and so does a run that failed or  *)
(* was asked to stop, but for the wait that an event recorded after the    *)
(* listeners are gone can cause.                                           *)
StopsEnd == MCShutdownEnds /\ MCStopEnds
=============================================================================
