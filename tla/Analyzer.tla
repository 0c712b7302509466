------------------------------ MODULE Analyzer ------------------------------
(***************************************************************************)
(* The semantic analyzer (Analyze::do_analyze, analyze/analyze.cpp) and    *)
(* the two executors that consume what it produces: the condition test of  *)
(* SeqScanExecutor::nextTuple and the SET-clause loop of                   *)
(* UpdateExecutor::Next.  Analysis is a pure function of the parse tree    *)
(* and the catalog; the module analyses one statement per behaviour, so    *)
(* that TLC checks the result of every statement of Stmts.                 *)
(*                                                                         *)
(* Numbers are carried in halves: a value's field x2 is twice the number,  *)
(* so that a FLOAT literal such as -0.5 is exact.  A STRING is its rank in *)
(* byte order; every string fits its column.  A thrown error is a record   *)
(* Fail(e); Bind passes a result on, or the error, as C++ unwinding does.  *)
(***************************************************************************)
EXTENDS Integers, Sequences, FiniteSets

CONSTANTS
    Schema,     \* every ColMeta [tab, name, type] of the catalog, in order
    DbTables,   \* the table names db_.is_table accepts
    Stmts,      \* the parse trees analysed
    IntVals,    \* INT values a row may hold (in halves)
    FloatVals,  \* FLOAT values a row may hold (in halves)
    StrVals     \* STRING values a row may hold (ranks)

VARIABLES stmt, query
vars == <<stmt, query>>

Types == {"INT", "FLOAT", "STRING"}
Errors == {"TableNotFound", "ColumnNotFound", "AmbiguousColumn", "IncompatibleType"}
Pending == [err |-> "pending"]

Ok(v) == [err |-> "none", val |-> v]
Fail(e) == [err |-> e]
Bind(m, F(_)) == IF m.err = "none" THEN F(m.val) ELSE m

\* Value::raw before init_raw: a null pointer.
NoRaw == [type |-> "NONE", x2 |-> 0]
\* Condition::rhs_val and rhs_col as a default-constructed member.
DefaultValue == [type |-> "NONE", x2 |-> 0, raw |-> NoRaw]
NoTabCol == [tab |-> "", col |-> ""]

-----------------------------------------------------------------------------
(* The catalog (SmManager::db_, TabMeta), used through the spec's contract.*)

ColsOf(t) == SelectSeq(Schema, LAMBDA c : c.tab = t)

\* db_.get_table(t).get_col(c): TableNotFound, ColumnNotFound, or the ColMeta.
GetCol(tc) ==
    IF tc.tab \notin DbTables THEN Fail("TableNotFound")
    ELSE LET m == {i \in DOMAIN Schema : Schema[i].tab = tc.tab /\ Schema[i].name = tc.col}
         IN IF m = {} THEN Fail("ColumnNotFound") ELSE Ok(Schema[CHOOSE i \in m : TRUE])

\* Value::init_raw: the raw buffer holds the value in its own type.
InitRaw(v) == [v EXCEPT !.raw = [type |-> v.type, x2 |-> v.x2]]

-----------------------------------------------------------------------------
(* analyze.cpp                                                             *)

RECURSIVE ConcatCols(_)
ConcatCols(tabs) == IF tabs = <<>> THEN <<>> ELSE ColsOf(Head(tabs)) \o ConcatCols(Tail(tabs))

\* get_all_cols: the columns of the tables, concatenated in order.
GetAllCols(tabs) ==
    IF \E i \in DOMAIN tabs : tabs[i] \notin DbTables THEN Fail("TableNotFound")
    ELSE Ok(ConcatCols(tabs))

\* Mutant: a column that matches nothing is left unqualified.
CheckColumnNoNotFound(all, target) ==
    LET m == {i \in DOMAIN all : all[i].name = target.col} IN
    IF target.tab # "" THEN Ok(target)
    ELSE IF Cardinality(m) > 1 THEN Fail("AmbiguousColumn")
    ELSE IF m = {} THEN Ok(target)
    ELSE Ok([target EXCEPT !.tab = all[CHOOSE i \in m : TRUE].tab])

\* check_column: an unqualified column takes the table of its one match; a
\* qualified one is returned as it is (the existence check is a TODO).
CheckColumn(all, target) ==
    LET m == {i \in DOMAIN all : all[i].name = target.col} IN
    IF target.tab # "" THEN Ok(target)
    ELSE IF Cardinality(m) > 1 THEN Fail("AmbiguousColumn")
    ELSE IF m = {} THEN Fail("ColumnNotFound")
    ELSE Ok([target EXCEPT !.tab = all[CHOOSE i \in m : TRUE].tab])

RECURSIVE CheckColumns(_, _)
CheckColumns(all, tcs) ==
    IF tcs = <<>> THEN Ok(<<>>)
    ELSE Bind(CheckColumn(all, Head(tcs)), LAMBDA c :
           Bind(CheckColumns(all, Tail(tcs)), LAMBDA rest : Ok(<<c>> \o rest)))

\* convert_sv_value: the literal's type and value, no raw buffer yet.
ConvertSvValue(lit) == [type |-> lit.type, x2 |-> lit.x2, raw |-> NoRaw]

\* convert_sv_comp_op: the parser's operator to the executor's.
ConvertSvCompOp ==
    [SV_OP_EQ |-> "OP_EQ", SV_OP_NE |-> "OP_NE", SV_OP_LT |-> "OP_LT",
     SV_OP_GT |-> "OP_GT", SV_OP_LE |-> "OP_LE", SV_OP_GE |-> "OP_GE"]

\* Mutant: the float is cast by rounding down instead of toward zero.
CastIntFloor(x2) == 2 * (x2 \div 2)

\* static_cast<int>(float): truncation toward zero, back in halves.
CastInt(x2) ==
    2 * (IF x2 >= 0 THEN x2 \div 2 ELSE -((-x2) \div 2))

\* set_float(static_cast<float>(int)) and set_int(static_cast<int>(float)).
ToFloat(v) == [v EXCEPT !.type = "FLOAT"]
ToInt(v) == [v EXCEPT !.type = "INT", !.x2 = CastInt(v.x2)]

\* The WHERE literal's coercion to the column's type.
Coerce(lt, v) ==
    CASE lt = "FLOAT" /\ v.type = "INT" -> ToFloat(v)
      [] lt = "INT" /\ v.type = "FLOAT" -> ToInt(v)
      [] OTHER -> v

Compatible(lt, rt) == lt = rt \/ {lt, rt} = {"INT", "FLOAT"}

\* get_clause: one Condition per parsed binary expression.
GetClause(svConds) ==
    [i \in DOMAIN svConds |->
        LET e == svConds[i] IN
        [lhs_col |-> e.lhs, op |-> ConvertSvCompOp[e.op], is_rhs_val |-> e.rhsIsVal,
         rhs_val |-> IF e.rhsIsVal THEN ConvertSvValue(e.rhsVal) ELSE DefaultValue,
         rhs_col |-> IF e.rhsIsVal THEN NoTabCol ELSE e.rhsCol]]

\* One iteration of check_clause's loop.
CheckCond(all, c) ==
    Bind(CheckColumn(all, c.lhs_col), LAMBDA l :
    Bind(IF c.is_rhs_val THEN Ok(c.rhs_col) ELSE CheckColumn(all, c.rhs_col), LAMBDA r :
    Bind(GetCol(l), LAMBDA lm :
      IF c.is_rhs_val
      THEN LET v == InitRaw(Coerce(lm.type, c.rhs_val)) IN
           IF Compatible(lm.type, v.type)
           THEN Ok([c EXCEPT !.lhs_col = l, !.rhs_val = v]) ELSE Fail("IncompatibleType")
      ELSE Bind(GetCol(r), LAMBDA rm :
           IF Compatible(lm.type, rm.type)
           THEN Ok([c EXCEPT !.lhs_col = l, !.rhs_col = r]) ELSE Fail("IncompatibleType")))))

RECURSIVE CheckConds(_, _)
CheckConds(all, cs) ==
    IF cs = <<>> THEN Ok(<<>>)
    ELSE Bind(CheckCond(all, Head(cs)), LAMBDA c :
           Bind(CheckConds(all, Tail(cs)), LAMBDA rest : Ok(<<c>> \o rest)))

\* check_clause: the columns of the tables, then each condition in order.
CheckClause(tabs, conds) == Bind(GetAllCols(tabs), LAMBDA all : CheckConds(all, conds))

Query(tables, cols, conds, sets, values) ==
    Ok([tables |-> tables, cols |-> cols, conds |-> conds,
        set_clauses |-> sets, values |-> values])

\* Mutant: the SET literal's value is converted but its type tag is not.
SetCoerceValueOnly(ct, v) ==
    CASE ct = "FLOAT" /\ v.type = "INT" -> Ok(v)
      [] ct = "INT" /\ v.type = "FLOAT" -> Ok([v EXCEPT !.x2 = CastInt(v.x2)])
      [] ct # v.type -> Fail("IncompatibleType")
      [] OTHER -> Ok(v)

\* The SET literal's coercion: widen, truncate, or IncompatibleType.
SetCoerce(ct, v) ==
    CASE ct = "FLOAT" /\ v.type = "INT" -> Ok(ToFloat(v))
      [] ct = "INT" /\ v.type = "FLOAT" -> Ok(ToInt(v))
      [] ct # v.type -> Fail("IncompatibleType")
      [] OTHER -> Ok(v)

\* One iteration of the UPDATE branch's loop over the SET clauses.
SetClauseOf(all, tab, sv) ==
    Bind(CheckColumn(all, [tab |-> tab, col |-> sv.col]), LAMBDA lhs :
    Bind(GetCol(lhs), LAMBDA col :
    Bind(SetCoerce(col.type, ConvertSvValue(sv.val)), LAMBDA rhs :
      Ok([lhs |-> lhs, rhs |-> InitRaw(rhs)]))))

RECURSIVE SetClauses(_, _, _)
SetClauses(all, tab, svs) ==
    IF svs = <<>> THEN Ok(<<>>)
    ELSE Bind(SetClauseOf(all, tab, Head(svs)), LAMBDA s :
           Bind(SetClauses(all, tab, Tail(svs)), LAMBDA rest : Ok(<<s>> \o rest)))

\* do_analyze, SELECT: tables, target list (star-expanded), WHERE.
DoSelect(s) ==
    IF \E i \in DOMAIN s.tabs : s.tabs[i] \notin DbTables THEN Fail("TableNotFound")
    ELSE Bind(GetAllCols(s.tabs), LAMBDA all :
         Bind(IF s.cols = <<>>
              THEN Ok([i \in DOMAIN all |-> [tab |-> all[i].tab, col |-> all[i].name]])
              ELSE CheckColumns(all, s.cols), LAMBDA cols :
         Bind(CheckClause(s.tabs, GetClause(s.conds)), LAMBDA conds :
              Query(s.tabs, cols, conds, <<>>, <<>>))))

\* do_analyze, UPDATE: WHERE, then the SET clauses.
DoUpdate(s) ==
    Bind(CheckClause(<<s.tab>>, GetClause(s.conds)), LAMBDA conds :
    Bind(GetAllCols(<<s.tab>>), LAMBDA all :
    Bind(SetClauses(all, s.tab, s.sets), LAMBDA sets :
         Query(<<s.tab>>, <<>>, conds, sets, <<>>))))

\* do_analyze, DELETE: WHERE only (query->tables is left empty).
DoDelete(s) ==
    Bind(CheckClause(<<s.tab>>, GetClause(s.conds)), LAMBDA conds :
         Query(<<>>, <<>>, conds, <<>>, <<>>))

\* do_analyze, INSERT: the literals as Values, no table check.
DoInsert(s) ==
    Query(<<>>, <<>>, <<>>, <<>>, [i \in DOMAIN s.vals |-> ConvertSvValue(s.vals[i])])

-----------------------------------------------------------------------------
(* The executors' side.                                                    *)

\* A row of table t: each column holds a value of its type.
ValsOf(ty) == CASE ty = "INT" -> IntVals [] ty = "FLOAT" -> FloatVals [] OTHER -> StrVals
RowsOf(t) ==
    LET cs == ColsOf(t)
        TypeOf(n) == cs[CHOOSE i \in DOMAIN cs : cs[i].name = n].type
    IN {r \in [{cs[i].name : i \in DOMAIN cs} -> UNION {ValsOf(ty) : ty \in Types}] :
           \A n \in DOMAIN r : r[n] \in ValsOf(TypeOf(n))}

\* compare(lhs, rhs, op) on decoded numbers or strings.
Compare(a, op, b) ==
    CASE op = "OP_EQ" -> a = b  [] op = "OP_NE" -> a # b
      [] op = "OP_LT" -> a < b  [] op = "OP_GT" -> a > b
      [] op = "OP_LE" -> a <= b [] op = "OP_GE" -> a >= b

\* nextTuple's test of one condition on a row: the left column is read in
\* its type, the right side from rhs_val.raw in the left column's type; a
\* null raw is dereferenced (a crash), bytes of another type are garbage.
EvalCond(c, row) ==
    LET lt == GetCol(c.lhs_col).val.type
        raw == c.rhs_val.raw
    IN CASE raw = NoRaw -> [kind |-> "crash", holds |-> FALSE]
         [] raw.type # lt -> [kind |-> "garbage", holds |-> FALSE]
         [] OTHER -> [kind |-> "ok", holds |-> Compare(row[c.lhs_col.col], c.op, raw.x2)]

\* UpdateExecutor::Next's SET loop on one row: the type check, init_raw
\* and the copy of the raw bytes into the column.
RECURSIVE ApplySets(_, _)
ApplySets(sets, row) ==
    IF sets = <<>> THEN Ok(row)
    ELSE LET sc == Head(sets)
             col == GetCol(sc.lhs).val
         IN IF col.type # sc.rhs.type THEN Fail("IncompatibleType")
            ELSE ApplySets(Tail(sets), [row EXCEPT ![col.name] = InitRaw(sc.rhs).raw.x2])

-----------------------------------------------------------------------------
(* One statement analysed per behaviour.                                   *)

TypeOK ==
    /\ stmt \in Stmts
    /\ query = Pending \/ query.err \in Errors \/
       /\ query.err = "none"
       /\ \A i \in DOMAIN query.val.cols : query.val.cols[i].tab # ""
       /\ \A i \in DOMAIN query.val.conds : query.val.conds[i].lhs_col.tab # ""

Init == stmt \in Stmts /\ query = Pending

AnalyzeSelect == stmt.kind = "select" /\ query = Pending /\ query' = DoSelect(stmt) /\ UNCHANGED stmt
AnalyzeUpdate == stmt.kind = "update" /\ query = Pending /\ query' = DoUpdate(stmt) /\ UNCHANGED stmt
AnalyzeDelete == stmt.kind = "delete" /\ query = Pending /\ query' = DoDelete(stmt) /\ UNCHANGED stmt
AnalyzeInsert == stmt.kind = "insert" /\ query = Pending /\ query' = DoInsert(stmt) /\ UNCHANGED stmt

\* The statement has been analysed; nothing more happens.
Done == query # Pending /\ UNCHANGED vars

Next == AnalyzeSelect \/ AnalyzeUpdate \/ AnalyzeDelete \/ AnalyzeInsert \/ Done

Spec == Init /\ [][Next]_vars

-----------------------------------------------------------------------------
(* Reference semantics (spec 4.2, 4.3).                                    *)

Abs(n) == IF n < 0 THEN -n ELSE n

\* The integer part of a number given in halves, as an integer in halves:
\* the integer n of the number's sign with |n| <= |number| < |n| + 1.
TruncTowardZero(x2) ==
    2 * (CHOOSE n \in -Abs(x2) .. Abs(x2) :
            2 * Abs(n) <= Abs(x2) /\ Abs(x2) < 2 * Abs(n) + 2 /\ n * x2 >= 0)

\* A literal as the spec coerces it to a column type: INT to FLOAT widens,
\* FLOAT to INT truncates toward zero.
SpecCoerce(ty, lit) == IF ty = "INT" /\ lit.type = "FLOAT" THEN TruncTowardZero(lit.x2) ELSE lit.x2

\* The spec's predicate lhs op rhs on a row of the left column's table:
\* the literal coerced to the column's type, or the other column's value.
SpecHolds(pc, lt, row) ==
    Compare(row[pc.lhs.col], ConvertSvCompOp[pc.op],
            IF pc.rhsIsVal THEN SpecCoerce(lt, pc.rhsVal) ELSE row[pc.rhsCol.col])

-----------------------------------------------------------------------------
(* Properties.                                                             *)

\* WHERE conditions (check_clause's coercion and init_raw, then
\* nextTuple's raw-byte test): for every condition of an accepted SELECT or
\* DELETE that compares a column with a literal or with a column of its own
\* table, the scan's test on every row gives the spec's answer.
CondAgreesWithSpec ==
    query # Pending /\ query.err = "none" /\ stmt.kind \in {"select", "delete"} =>
        \A i \in DOMAIN query.val.conds :
            LET c == query.val.conds[i]
                t == c.lhs_col.tab
            IN c.is_rhs_val \/ c.rhs_col.tab = t =>
                 \A row \in RowsOf(t) :
                     EvalCond(c, row) =
                       [kind |-> "ok",
                        holds |-> SpecHolds(stmt.conds[i], GetCol(c.lhs_col).val.type, row)]

\* SET clauses (the analyzer's coercion, then UpdateExecutor's own type
\* check and raw copy): on every row of an accepted UPDATE's table the
\* executor neither throws nor stores anything but the spec's coerced
\* literal, although the executor checks types again after the analyzer.
SetAgreesWithSpec ==
    query # Pending /\ query.err = "none" /\ stmt.kind = "update" =>
        \A row \in RowsOf(stmt.tab) :
            ApplySets(query.val.set_clauses, row) =
                Ok([c \in DOMAIN row |->
                      LET js == {j \in DOMAIN stmt.sets : stmt.sets[j].col = c}
                      IN IF js = {} THEN row[c]
                         ELSE SpecCoerce(GetCol([tab |-> stmt.tab, col |-> c]).val.type,
                                         stmt.sets[CHOOSE j \in js : \A k \in js : k <= j].val)])

=============================================================================
