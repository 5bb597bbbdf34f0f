SPECIFICATION PartSpec
CONSTANTS
  status = status
  signalk = signalk
  summary = summary
  event = event
  Topics = {status, signalk, summary}
  Status = status
  SnapshotTopics <- SignalkSnapshot
  Qos1 = {status, signalk, summary}
  EventTopic = event
  MaxQueued = 1
  PahoQueue = 2
  MaxVersion = 2
  MaxEvents = 2
  MaxConnects = 2
INVARIANTS
  MailboxBacked
  OneInFlight
  EventOrder
  NoStall
  CleanStopDelivers
PROPERTIES
  ChannelSpec
  PartConverges
