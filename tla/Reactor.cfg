SPECIFICATION Spec
CONSTANTS
  Conns = {c1, c2, c3}
  Efd = Efd
  Ln = Ln
  Epoll = Epoll
  FdLimit = 2
  Garbage = {1}
CHECK_DEADLOCK FALSE
INVARIANT BooksMatchKernel
INVARIANT BatchIsNotStale
INVARIANT MainReturnsLast
PROPERTY StopsOrSpins
PROPERTY FailureEndsRun
