SPECIFICATION Spec
CONSTANTS
  Connections = {c1, c2}
  Libraries = {adder}
  Modules = {m1, m2}
  None = None
INVARIANT FreshModules
\* A load that load_library refuses can leave every connection waiting.
CHECK_DEADLOCK FALSE
