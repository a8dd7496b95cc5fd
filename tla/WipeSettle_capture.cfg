SPECIFICATION SettleSpec
CONSTANTS
  q1 = q1
  q2 = q2
  Nobody = Nobody
  Requests = {q1, q2}
  Payloads <- MCRecapture
  Calls = {"ready_for_sale"}
  MaxRequests = 3
  Window = 1
  Discards = {2}
PROPERTIES
  CaptureKeepsErasure
CHECK_DEADLOCK FALSE
