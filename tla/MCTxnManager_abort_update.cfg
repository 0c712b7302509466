\* Sessions that insert and update: abort must undo both.
CONSTANTS
    Txns = {t1, t2}
    NoTxn = NoTxn
    MaxStmts <- MCMaxStmts
    RecordsPerPage <- MCRecordsPerPage
    MaxPages <- MCMaxPages
    Vals = {v1, v2, v3}
    NoVal = NoVal
    Statements = {"insert", "update"}
    LogBufferCap <- MCLogBufferCap
SPECIFICATION Spec
INVARIANT AbortRestores
