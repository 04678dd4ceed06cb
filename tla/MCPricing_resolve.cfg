CONSTANTS
    Paths <- MCPaths
    Prices <- MCPrices
    MaxFaults = 1
SPECIFICATION Spec
INVARIANT ResolveAgrees
CHECK_DEADLOCK FALSE
