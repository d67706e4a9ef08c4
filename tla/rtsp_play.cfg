SPECIFICATION Spec
CONSTANTS
  Starts <- MCStarts
  StartOf <- MCStartOf
  Transports = {"udp 1", "plain 2"}
  TransportOf <- MCTransportOf
  CSeqs <- MCCSeqs
  Messages <- MCMessages
  Files = {"a"}
  Ips <- MCIps
  Junk <- MCJunk
  Threads = {t1}
  MaxClients = 2
  MaxMessages <- MCMaxMessages
  MaxReplies = 4
CHECK_DEADLOCK FALSE
INVARIANTS DescribedPlays AnsweredOnce GoesToItsClient
