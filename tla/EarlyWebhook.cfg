CONSTANTS
  Patterns = {"redirect"}
  MaxInits = 1
  BufferSize = 1
  MaxPublished = 1
  MaxCuts = 0
SPECIFICATION WCSpec
PROPERTY OutOfOrderTolerated
