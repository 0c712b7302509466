\* A filtered sequential scan while another transaction writes.
CONSTANTS
    RecordsPerPage <- MCRecordsPerPage
    MaxPages <- MCMaxPages
    Vals = {v1, v2}
    NoVal = NoVal
    Matches = {v1}
    GrowDuringScan = FALSE
    MaxWrites = 5
SPECIFICATION Spec
INVARIANT TypeOK
INVARIANT ScanEmitsMatches
INVARIANT ScanEmitsAllKept
PROPERTY ScanTerminates
