SPECIFICATION TSpec
CONSTANTS
  Octets <- SmallOctets
  Commands <- SmallCommands
  Offers <- SmallOffers
  SubOptions <- SmallSubOptions
  MaxItems = 4
  MaxPayload = 2
  MaxUnread = 3
  MaxSubnegotiationBytes = 1
INVARIANTS
  ReadIsMeant
  NoNegotiationLoop
CHECK_DEADLOCK FALSE
