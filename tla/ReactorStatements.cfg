\* Statements that the code does not keep.  TLC is to check one at a time; the
\* others are comments.
SPECIFICATION Spec
CONSTANTS
  Conns = {c1, c2, c3}
  Efd = Efd
  Ln = Ln
  Epoll = Epoll
  FdLimit = 2
  Garbage = {0, 1}
CHECK_DEADLOCK FALSE
INVARIANT EagainIsTemporary
\* INVARIANT NoFdLeak
