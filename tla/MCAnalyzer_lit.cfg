\* Every statement of the bounded grammar whose conditions compare a
\* column with a literal.
CONSTANTS
    Schema <- MCSchema
    DbTables <- MCDbTables
    Stmts <- MCStmtsLit
    IntVals <- MCIntVals
    FloatVals <- MCFloatVals
    StrVals <- MCStrVals
SPECIFICATION Spec
INVARIANT TypeOK
INVARIANT CondAgreesWithSpec
INVARIANT SetAgreesWithSpec
