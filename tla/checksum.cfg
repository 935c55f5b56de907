SPECIFICATION Spec
CONSTANTS
  crctab <- client_table
  server_crctab <- server_table
  Transfers <- MCTransfers
INVARIANT BurstFound
INVARIANT ChecksumIsPosix
CHECK_DEADLOCK FALSE
