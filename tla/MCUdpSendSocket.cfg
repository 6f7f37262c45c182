SPECIFICATION SocketSpec
CONSTANTS
  Args = {a1, a2}
  Messages = {m1, m2, m3, m4}
  NullPeer = {m3}
  NullData = {m4}
  Null = Null
SYMMETRY Symmetry
INVARIANTS Counted OneOwner OwnPeer
\* All messages sent.
CHECK_DEADLOCK FALSE
