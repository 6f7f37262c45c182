SPECIFICATION FairClientSpec
CONSTANTS
  Calls = {v1}
  Unsupported = {"foreverFrame"}
  Beats = {b1, b2}
  NoBeat = NoBeat
INVARIANTS QuietWhenDisconnected OneLink TimersFitState CallsSettled
PROPERTIES ReconnectingEnds ConnectingEnds
