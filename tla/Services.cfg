SPECIFICATION MCSpec
CONSTANTS
  Listeners <- MCListeners
  Packets <- MCPackets
  MaxPackets <- MCMaxPackets
  Body <- MCBody
  TelnetCredentials <- MCTelnetCredentials
  DnsConfig <- MCDnsConfig
  DnsCustom <- MCDnsCustom
  MAX_DNS_CUSTOM_RESPONSE_DOMAINS = 2
  MAX_DNS_CUSTOM_RESPONSE_IPS = 2
  CustomResponse = "echo"
  ReadFile <- MCReadFile
  HasWebroot = TRUE
  HasDefaults = TRUE
  CustomRules <- MCCustomRules
  require_auth = FALSE
  MAX_CLIENT_TRACKING_PREFIXES = 2
  PrefixOf <- MCPrefixOf
  MAX_LDAP_FILTER_DEPTH = 2
  default_tcp = "raw"
  MAX_LINE_FRAME_SIZE = 5
  MAX_SMTP_DATA_SIZE = 8
  MAX_FRAME_SIZE = 16
  MAX_HTTP_REQUEST_SIZE = 10
  Connections = {"c1", "c2"}
  Requests <- MCRequests
  PROBE_ACCEPT_RETRY_LIMIT = 3
  HEARTBEAT_FAILURE_LIMIT = 3
  MaxOutcomes = 4
  OUTPUT_LIMIT_BYTES = 3
  PipeBytes = 2
  ReadBytes = 2
  Outputs = {0, 3, 4, 5}
INVARIANTS SegmentationIndependent BytesAccounted ConversationInOrder RequestsUnderstood NodeTruthful
PROPERTIES CallsEnd
