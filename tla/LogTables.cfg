SPECIFICATION Spec
CONSTANTS
  LogRows = 18
  AltRows = 10
  AntilogRows = 20
  Flagged <- MCFlagged
INVARIANT LookupsFindTheirEntries
PROPERTY TablesGetDeployed
