CONSTANTS
  Base = 2
  PREFACE <- Preface
  MaximumRecordSize = 2
  MaxFragment = 5
  MaxStream = 11
  MAX_STORED_EVENTS = 2
  Client = {c1, c2}
SYMMETRY Clients
SPECIFICATION InboundSpec
INVARIANTS StreamIsRecords BufferIsBounded CleanEndIsComplete EventsFollowStream LostOnlyToNewer
