\* Every statement of the bounded grammar whose conditions compare a
\* column with another column.
CONSTANTS
    Schema <- MCSchema
    DbTables <- MCDbTables
    Stmts <- MCStmtsCol
    IntVals <- MCIntVals
    FloatVals <- MCFloatVals
    StrVals <- MCStrVals
SPECIFICATION Spec
INVARIANT CondAgreesWithSpec
