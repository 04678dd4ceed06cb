CONSTANTS
    Paths <- MCPaths
    Prices <- MCPrices
    MaxFaults = 0
SPECIFICATION Spec
PROPERTY DeleteOnlyNamed
CHECK_DEADLOCK FALSE
