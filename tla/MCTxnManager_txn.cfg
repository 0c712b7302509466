\* Two sessions running inserts, deletes and updates, each ending with a
\* commit or abort, and a log buffer that can overflow: durability of
\* commit and the record file's free list under rollback.
CONSTANTS
    Txns = {t1, t2}
    NoTxn = NoTxn
    MaxStmts <- MCMaxStmts
    Statements = {"insert", "delete", "update"}
    RecordsPerPage <- MCRecordsPerPage
    MaxPages <- MCMaxPages
    Vals = {v1, v2, v3}
    NoVal = NoVal
    LogBufferCap <- MCLogBufferCap
SPECIFICATION Spec
INVARIANT TypeOK
INVARIANT CommitDurable
INVARIANT FreeListExact
