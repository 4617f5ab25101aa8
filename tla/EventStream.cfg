\* Two browsers come, go and stop reading; a channel holds two events.
CONSTANTS
  Clients = {c1, c2}
  Buffer = 2
  MaxEvents = 1
SPECIFICATION FairSpec
CHECK_DEADLOCK FALSE
INVARIANTS
  TypeOK
  StreamsFaithful
  ChannelsSound
  TerminalOnce
PROPERTIES
  ClosesDown
