\* Pin discipline of the calls made without a Context (the rollback in
\* TransactionManager::abort).
CONSTANTS
    RecordsPerPage <- MCRecordsPerPage
    MaxPages <- MCMaxPages
    Vals = {v1}
    NoVal = NoVal
    Contexts = {FALSE}
    LockMayFail = FALSE
SPECIFICATION Spec
INVARIANT NoPinLeak
