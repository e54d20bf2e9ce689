SPECIFICATION SpecLock
CONSTANTS
    c1 = c1  c2 = c2
    Conns = {c1, c2}
    Listener = Listener
    NoTask = NoTask
INVARIANTS GuardsReturned StuckOnlyWhenNested
PROPERTIES EndsUnlessNested
CHECK_DEADLOCK FALSE
