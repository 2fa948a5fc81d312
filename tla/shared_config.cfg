SPECIFICATION Spec
CONSTANTS
  Handshakes = {h1, h2}
  Configured = 1
  Capacity = 2
  WireLens = {0, 1, 2}
INVARIANT BridgesOwn
CHECK_DEADLOCK FALSE
