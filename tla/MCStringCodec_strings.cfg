SPECIFICATION CodecSpec
CONSTANTS
    Tables <- MCTables
INVARIANTS
    ScanFollowsTable
    ResponseReadBack
    RequestReadBack
