CONSTANTS
  Threads = {t1, t2}
  Writer = w
  Nodes = {n1, n2, n3}
  Null = null
  R = 0
  SnapshotCalls = 2
  CasCalls = 2
  ContainerCalls = 3
  Addrs = {1, 2}
  SetThreads = {u1, u2, u3}
  SetNodes = {m1, m2, m3, m4, m5}
  First = m1
  Last = m2
  Elements = {1, 2}
  SetCalls = 2
  Lists = {1, 2, 3}
  ListNodes = {1, 2, 3, 4}
  ListCalls = 7
  HeapObjects = 3
SPECIFICATION ObjectsSpec
SYMMETRY Symmetry
INVARIANT Linearizable
INVARIANT AsSpecified
INVARIANT MemorySafe
