CONSTANTS
    Traffic <- MCTraffic
    Data <- MCData
    UdpListeners <- MCUdpListeners
    HostWhitelist <- MCHostWhitelist
    HostBlacklist <- MCEmpty
    Filter <- MCFilter
    Processes = {"agent", "tool"}
    MaxTasks = 2
    MAX_ACTIVE_COMMANDS = 2
    MaxExpiries = 1
    CustomResponse = "echo"
    default_udp = ""
    DnsConfig <- MCDnsConfig
    MAX_DNS_CUSTOM_RESPONSE_DOMAINS = 2
    MAX_DNS_CUSTOM_RESPONSE_IPS = 2
    Clients = {c1, c2}
    Commands <- MCCommands
    MaxReads = 1
    MaxBatch = 2
    HasRoot = TRUE
    PassivePorts = {1, 2}
    MAX_FTP_PASSIVE_TRANSFERS = 1
SPECIFICATION MCSpec
CHECK_DEADLOCK FALSE
INVARIANTS DatagramsAccounted DatagramsUnderstood FtpInOrder
PROPERTIES WorkEnds
