\* A lock refused in update_record after the index calls: the index keeps
\* the new key of a record that was not updated.
CONSTANTS
    Sessions = {s1, s2}
    NoSession = NoSession
    NoVal = NoVal
    Keys <- MCKeys
    InitKeys <- MCInitKeys
    RecordsPerPage <- MCRecordsPerPage
    MaxPages <- MCMaxPages
SPECIFICATION Spec
INVARIANT IndexMatchesTable
