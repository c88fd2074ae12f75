CONSTANTS
  Patterns = {"redirect"}
  MaxInits = 1
  BufferSize = 1
  MaxPublished = 2
  MaxCuts = 1
SPECIFICATION WCSpec
INVARIANT HeardOnce
PROPERTY WebhookSettles
