SPECIFICATION Spec
CONSTANTS
  Conns = {c1, c2}
  Efd = Efd
  Ln = Ln
  Epoll = Epoll
  FdLimit = 1
  Garbage = {0}
CHECK_DEADLOCK FALSE
PROPERTY SignalStops
