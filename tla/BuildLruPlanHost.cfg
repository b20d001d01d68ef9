\* The constants of the source, except for the integer limits, which are low
\* enough to be met.
CONSTANTS
    kInt32PerDataBlock = 8
    kInt32PerCacheLine = 128
    kMaximumTileLength = 256
    kUbReserveBytes = 8192
    kInt32Max = 7999
    kInt64Max = 60000
    Calls <- MCCalls
    Platforms <- MCPlatforms
SPECIFICATION HostSpec
INVARIANTS HostTypeOK LaunchesAreUbSafe TilesCoverRows CoresAreBusy NoOverflow RaisedCallsTouchNothing
