CONSTANTS
  Message <- MCMessage
  Authorized <- MCMessage
  None = None
  MaxTransactions = 7
  MaxChannel = 6
  MaxPending = 3
  Profiles <- MCProfiles
SPECIFICATION PairedSpec
INVARIANTS
  ChannelKeepsMessages
  InOrderChannel
  ReplayReproduces
CHECK_DEADLOCK FALSE
