---------------------------- MODULE RecordTable ----------------------------
(***************************************************************************)
(* What a record file promises its callers (spec 4.1): a table from rids  *)
(* to records.  insert_record returns a rid that held no record;          *)
(* get_record returns the record at a live rid; update_record and         *)
(* delete_record act on a live rid.  Which free rid an insert picks is    *)
(* left open, and any call may fail (a refused lock) without effect.      *)
(***************************************************************************)
EXTENDS Integers

CONSTANTS Rids, Vals, NoRec

VARIABLES
    table,  \* the record at each rid, or NoRec
    ret     \* what the last call returned

NoRid == <<0, -1>>

\* The result of a call: its name, the rid it names and the record it
\* carries.
Ret(call, r, v) == [call |-> call, rid |-> r, val |-> v]
Failed == Ret("error", NoRid, NoRec)
NoCall == Ret("none", NoRid, NoRec)

Results == [call : {"none", "error", "get", "insert", "delete", "update"},
            rid : Rids \cup {NoRid}, val : Vals \cup {NoRec}]

Init ==
    /\ table = [r \in Rids |-> NoRec]
    /\ ret = NoCall

Live(r) == table[r] # NoRec

Get(r) ==
    /\ Live(r)
    /\ ret' = Ret("get", r, table[r])
    /\ UNCHANGED table

Insert(r, v) ==
    /\ ~Live(r)
    /\ table' = [table EXCEPT ![r] = v]
    /\ ret' = Ret("insert", r, v)

Delete(r) ==
    /\ Live(r)
    /\ table' = [table EXCEPT ![r] = NoRec]
    /\ ret' = Ret("delete", r, NoRec)

Update(r, v) ==
    /\ Live(r)
    /\ table' = [table EXCEPT ![r] = v]
    /\ ret' = Ret("update", r, v)

Fail ==
    /\ ret' = Failed
    /\ UNCHANGED table

Next ==
    \/ Fail
    \/ \E r \in Rids :
        \/ Get(r) \/ Delete(r)
        \/ \E v \in Vals : Insert(r, v) \/ Update(r, v)

Spec == Init /\ [][Next]_<<table, ret>>

=============================================================================
