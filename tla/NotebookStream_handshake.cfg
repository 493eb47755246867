\* One event and a queue that holds it: no window but the handshake's can be hit.
SPECIFICATION Spec
CONSTANTS
  MaxEvents = 1
  Depth = 8
  Unknown = {}
INVARIANT HandshakeLosesNothing
