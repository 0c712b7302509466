----------------------------- MODULE MCAnalyzer -----------------------------
(* Instantiates Analyzer for TLC.  Two tables, a(id INT, p FLOAT) and      *)
(* b(id INT, s STRING), share the column name id, so that an unqualified  *)
(* id is ambiguous over both; c is not a table.  Statements have at most  *)
(* one target column, one SET clause and one condition; every referenced  *)
(* name, every operator and one literal of each kind and sign appear.     *)
(* Numbers are in halves: the FLOAT literals are -0.5 and 1.5, the INT    *)
(* literals -1 and 1, so that truncation toward zero and flooring differ. *)
EXTENDS Analyzer

MCSchema ==
    << [tab |-> "a", name |-> "id", type |-> "INT"],
       [tab |-> "a", name |-> "p",  type |-> "FLOAT"],
       [tab |-> "b", name |-> "id", type |-> "INT"],
       [tab |-> "b", name |-> "s",  type |-> "STRING"] >>

MCDbTables == {"a", "b"}
Names == {"a", "b", "c"}
Refs == [tab : {""} \cup Names, col : {"id", "p", "s"}]
Lits == {[type |-> "INT", x2 |-> -2], [type |-> "INT", x2 |-> 2],
         [type |-> "FLOAT", x2 |-> -1], [type |-> "FLOAT", x2 |-> 3],
         [type |-> "STRING", x2 |-> 1]}
SvOps == DOMAIN ConvertSvCompOp
NoLit == [type |-> "INT", x2 |-> 0]

LitConds == {[lhs |-> l, op |-> o, rhsIsVal |-> TRUE, rhsVal |-> v, rhsCol |-> NoTabCol] :
                l \in Refs, o \in SvOps, v \in Lits}
ColConds == {[lhs |-> l, op |-> o, rhsIsVal |-> FALSE, rhsVal |-> NoLit, rhsCol |-> r] :
                l \in Refs, o \in {"SV_OP_EQ", "SV_OP_LT"}, r \in Refs}

\* Statements whose conditions come from conds.
StmtsWith(conds) ==
    LET Where == {<<>>} \cup {<<c>> : c \in conds} IN
       [kind : {"select"}, tabs : {<<"a">>, <<"b">>, <<"c">>, <<"a", "b">>, <<"a", "a">>},
        cols : {<<>>} \cup {<<r>> : r \in Refs}, conds : Where]
    \cup [kind : {"update"}, tab : Names,
          sets : {<<[col |-> n, val |-> v]>> : n \in {"id", "p", "s", "zz"}, v \in Lits},
          conds : Where]
    \cup [kind : {"delete"}, tab : Names, conds : Where]
    \cup [kind : {"insert"}, tab : {"a"}, vals : {<<>>} \cup {<<v>> : v \in Lits}]

MCStmtsLit == StmtsWith(LitConds)
MCStmtsCol == StmtsWith(ColConds)

MCIntVals == {-2, 0, 2}
MCFloatVals == {-2, -1, 0, 1, 2}
MCStrVals == {0, 1, 2}
=============================================================================
