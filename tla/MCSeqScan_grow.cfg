\* A filtered sequential scan while another transaction writes.
CONSTANTS
    RecordsPerPage <- MCRecordsPerPage
    MaxPages <- MCMaxPages
    Vals = {v1, v2}
    NoVal = NoVal
    Matches = {v1}
    GrowDuringScan = TRUE
    MaxWrites = 5
SPECIFICATION Spec
INVARIANT ScanEmitsMatches
