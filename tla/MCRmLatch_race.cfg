\* Two sessions, each inserting or deleting on an unlatched RmFileHandle.
CONSTANTS
    s1 = s1
    s2 = s2
    v0 = v0
    RecordsPerPage <- MCRecordsPerPage
    MaxPages <- MCMaxPages
    Sessions <- MCSessions
    Vals <- MCVals
    InitVal = v0
    NoVal = NoVal
SPECIFICATION Spec
INVARIANT NoLostInsert
