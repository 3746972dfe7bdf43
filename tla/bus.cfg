SPECIFICATION Spec
CONSTANTS
  Classes = {"CallEvents", "DevicesListResponse"}
  Received <- EveryType
  MaxSubscribers = 4
  MaxDepth = 2
INVARIANTS TypeOK CastIsSound ServedOnce
CHECK_DEADLOCK FALSE
