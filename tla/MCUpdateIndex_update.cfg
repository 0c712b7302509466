\* Three sessions each run UPDATE t SET k = c WHERE k = x and commit, or abort
\* when a lock is refused: serializability.
CONSTANTS
    Sessions = {s1, s2, s3}
    NoSession = NoSession
    NoVal = NoVal
    Keys <- MCKeys
    InitKeys <- MCInitKeys
    RecordsPerPage <- MCRecordsPerPage
    MaxPages <- MCMaxPages
SPECIFICATION Spec
INVARIANT TypeOK
INVARIANT UpdatesSerializable
