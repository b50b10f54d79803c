CONSTANTS
    Frames <- MCFrames
    Probes <- MCProbes
    Redirects <- MCRedirects
    REDIRECT_FLOW_IDLE_TIMEOUT = 2
    MAX_REDIRECT_FLOWS = 2
    MAX_REDIRECT_EXPIRY_ENTRIES = 3
    MaxTime = 3
    MaxPackets = 4
    Configs <- MCConfigs
    MaxRuns = 2
    MaxCommandFaults = 2
    Traffic <- MCTraffic
    MaxFaults = 1
    MAX_PCAP_RECORDS = 3
    MAX_REPLAY_FLOWS = 2
    MAX_REPLAY_FLOW_BYTES = 10
    MAX_REPLAY_TOTAL_PAYLOAD_BYTES = 16
    MAX_REPLAY_FLOW_CHUNKS = 2
    MAX_REPLAY_TOTAL_PAYLOAD_CHUNKS = 3
    MAX_REPLAY_EVENTS = 3
    Plans <- MCPlans
    Listeners = {"l1", "l2"}
    MaxCount = 1
    MaxLifeFaults = 2
    MaxEvents = 2
    MAX_REPORT_EVENTS = 2
    MAX_REPORT_INPUT_BYTES = 7
    Stores <- MCStores
    Leftovers <- MCLeftovers
    Tables <- MCTables
    MaxStored = 3
    MaxLogged = 1
    MaxEpochs = 2
    MaxStoreFaults = 2
SPECIFICATION MCSpec
CHECK_DEADLOCK FALSE
INVARIANTS FlowTableSound CaptureFaithful FirewallExact  StorageFaithful
PROPERTIES ActiveFlowsKept StopsEnd
