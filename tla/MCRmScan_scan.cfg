\* An iterator running while other sessions insert, delete, update and
\* read through the record file with a context; their locks may be refused.
CONSTANTS
    RecordsPerPage <- MCRecordsPerPage
    MaxPages <- MCMaxPages
    Vals = {v1}
    NoVal = NoVal
    Contexts = {TRUE}
    LockMayFail = TRUE
SPECIFICATION Spec
INVARIANT TypeOK
INVARIANT ScanSeesStable
PROPERTY ScanNeverRevisits
