SPECIFICATION Spec
CONSTANTS
  c1 = c1
  c2 = c2
  c3 = c3
  c4 = c4
  f1 = f1
  f2 = f2
  Channels = {c1, c2, c3, c4}
  Fds = {f1, f2}
  Fd <- MCFd
  null = null
  kInitEventListSize = 2
INVARIANTS IndexAgrees NoDanglingChannel
