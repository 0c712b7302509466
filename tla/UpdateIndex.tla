---------------------------- MODULE UpdateIndex ----------------------------
(***************************************************************************)
(* Concurrent UPDATE statements on a table with one index                  *)
(* (execution/executor_update.h), composed with the record file (RmFile),  *)
(* the lock manager's record locks and the index.                          *)
(*                                                                         *)
(* Each session runs one statement UPDATE t SET k = c WHERE k = x, with k  *)
(* the indexed column, in its own transaction, then commits, or aborts     *)
(* when a call threw.  The planner's scan reads every live record with     *)
(* get_record under the transaction, which takes a shared lock on each     *)
(* (spec 4.1), and hands the executor the rids that match.  For each rid   *)
(* UpdateExecutor::Next reads the record, builds the new image, deletes    *)
(* the old key from the index, inserts the new one, and calls              *)
(* update_record, which asks for an exclusive lock.  Each of these calls   *)
(* is one step: another session can run between any two of them.          *)
(*                                                                         *)
(* A record image is its key: the other columns play no part in what is    *)
(* checked here.  The index is the spec's opaque associative index         *)
(* (spec 1): a function from keys to rids.  Record locks follow the lock   *)
(* manager's contract (spec 4.4, 5): shared and exclusive per rid,         *)
(* re-entrant, and a conflicting request throws.  The log calls of commit  *)
(* and abort are left to TxnManager.                                       *)
(***************************************************************************)
EXTENDS Integers, Sequences, FiniteSets, SequencesExt

CONSTANTS
    Sessions,        \* one transaction each
    NoSession,       \* no exclusive lock holder
    Keys,            \* values of the indexed column, as model values
    NoVal,           \* contents of a slot never written
    InitKeys,        \* the records of the table, in slot order on page 1
    RecordsPerPage, MaxPages

ASSUME InitKeys \in Seq(Keys) /\ Len(InitKeys) <= RecordsPerPage
ASSUME Cardinality(Range(InitKeys)) = Len(InitKeys)   \* k is unique

VARIABLES
    num_pages, first_free_page_no, next_free_page_no, num_records,
    bitmap, slot, pin_delta, ret,   \* RmFile
    slock,       \* holders of the shared lock of each rid
    xlock,       \* holder of the exclusive lock of each rid
    index,       \* the index on k: key -> rid
    pc,          \* where each session is
    stmt,        \* the statement each session runs: WHERE k = x, SET k = c
    rids_,       \* UpdateExecutor::rids_, the rids not yet updated
    rec,         \* the record image get_record returned for the current rid
    used,        \* keys written so far, so that every SET value is fresh
    committed    \* history: the statements of committed transactions, in order

rmVars == <<num_pages, first_free_page_no, next_free_page_no, num_records,
            bitmap, slot, pin_delta, ret>>
lockVars == <<slock, xlock>>
vars == <<rmVars, lockVars, index, pc, stmt, rids_, rec, used, committed>>

Rm == INSTANCE RmFile WITH Vals <- Keys, Contexts <- BOOLEAN, LockMayFail <- TRUE

Rids == Rm!Rids
NoRid == Rm!Table!NoRid   \* the index holds no rid for a key
NoStmt == [x |-> NoVal, c |-> NoVal]
Pcs == {"idle", "get", "ix_delete", "ix_insert", "update", "commit", "abort", "done"}

\* The rid of the record at position i of InitKeys.
InitRid(i) == <<1, i - 1>>
InitTable == [r \in Rids |-> IF r[1] = 1 /\ r[2] < Len(InitKeys)
                             THEN InitKeys[r[2] + 1] ELSE NoVal]

TypeOK ==
    /\ Rm!TypeOK
    /\ slock \in [Rids -> SUBSET Sessions]
    /\ xlock \in [Rids -> Sessions \cup {NoSession}]
    /\ index \in [Keys -> Rids \cup {NoRid}]
    /\ pc \in [Sessions -> Pcs]
    /\ stmt \in [Sessions -> [x : Keys \cup {NoVal}, c : Keys \cup {NoVal}]]
    /\ rids_ \in [Sessions -> Seq(Rids)]
    /\ rec \in [Sessions -> Keys \cup {NoVal}]
    /\ used \subseteq Keys
    /\ committed \in Seq([x : Keys, c : Keys])
    \* the executor only works on a rid while rids_ holds one
    /\ \A t \in Sessions :
         pc[t] \in {"get", "ix_delete", "ix_insert", "update"} => rids_[t] # <<>>

\* The table after InitKeys were inserted into a fresh file and committed:
\* page 1 holds them in slots 0 .. Len(InitKeys)-1, the index maps each to
\* its rid, and no lock is held.
Init ==
    LET n == Len(InitKeys) IN
    /\ num_pages = 2
    /\ first_free_page_no = IF n < RecordsPerPage THEN 1 ELSE Rm!NO_PAGE
    /\ next_free_page_no = [p \in Rm!Pages |-> Rm!NO_PAGE]
    /\ num_records = [p \in Rm!Pages |-> IF p = 1 THEN n ELSE 0]
    /\ bitmap = [p \in Rm!Pages |-> IF p = 1 THEN 0 .. n - 1 ELSE {}]
    /\ slot = [p \in Rm!Pages |-> [s \in Rm!Slots |-> InitTable[<<p, s>>]]]
    /\ pin_delta = Rm!NoPins
    /\ ret = Rm!Table!NoCall
    /\ slock = [r \in Rids |-> {}]
    /\ xlock = [r \in Rids |-> NoSession]
    /\ index = [k \in Keys |-> IF \E i \in 1 .. n : InitKeys[i] = k
                               THEN InitRid(CHOOSE i \in 1 .. n : InitKeys[i] = k)
                               ELSE NoRid]
    /\ pc = [t \in Sessions |-> "idle"]
    /\ stmt = [t \in Sessions |-> NoStmt]
    /\ rids_ = [t \in Sessions |-> <<>>]
    /\ rec = [t \in Sessions |-> NoVal]
    /\ used = Range(InitKeys)
    /\ committed = <<>>

-----------------------------------------------------------------------------
(* The lock manager (spec 4.4, 5): re-entrant shared and exclusive record  *)
(* locks; a request that conflicts is refused.                             *)

CanShare(t, r) == xlock[r] \in {NoSession, t}
CanExclusive(t, r) == CanShare(t, r) /\ slock[r] \subseteq {t}

\* The lock_set loop of commit and abort: every lock of t is released.
ReleaseAll(t) ==
    /\ slock' = [r \in Rids |-> slock[r] \ {t}]
    /\ xlock' = [r \in Rids |-> IF xlock[r] = t THEN NoSession ELSE xlock[r]]

Live == {r \in Rids : Rm!TableOf[r] # NoVal}

\* The record-file call of this step threw.
CallFailed == ret'.call = "error"

\* The new image UpdateExecutor::Next builds from the record read: a copy
\* with every set clause written in, here SET k = c.
NewRec(t) == stmt[t].c

-----------------------------------------------------------------------------
(* Session steps.                                                          *)

\* The planner's scan under the transaction: get_record with the context on
\* every live record, each taking a shared lock (spec 4.1); a record another
\* session holds exclusively makes the lock manager throw, and the session
\* aborts.  Otherwise the executor gets the rids whose k is x, which is at
\* most one as k is unique.  Next() on an empty rids_ returns at once.
Plan(t, x, c) ==
    LET match == {r \in Live : Rm!TableOf[r] = x} IN
    /\ pc[t] = "idle"
    /\ c \notin used
    /\ stmt' = [stmt EXCEPT ![t] = [x |-> x, c |-> c]]
    /\ used' = used \cup {c}
    /\ IF \A r \in Live : CanShare(t, r)
       THEN /\ slock' = [r \in Rids |-> IF r \in Live THEN slock[r] \cup {t} ELSE slock[r]]
            /\ rids_' = [rids_ EXCEPT ![t] = SetToSeq(match)]
            /\ pc' = [pc EXCEPT ![t] = IF match = {} THEN "commit" ELSE "get"]
       ELSE /\ pc' = [pc EXCEPT ![t] = "abort"]
            /\ UNCHANGED <<slock, rids_>>
    /\ UNCHANGED <<rmVars, xlock, index, rec, committed>>

\* get_record(rid, context): a shared lock, then the record.
GetRow(t) ==
    LET r == Head(rids_[t]) IN
    /\ pc[t] = "get"
    /\ Rm!GetRecord(r, TRUE, CanShare(t, r))
    /\ IF CallFailed
       THEN /\ pc' = [pc EXCEPT ![t] = "abort"]
            /\ UNCHANGED <<slock, rec>>
       ELSE /\ slock' = [slock EXCEPT ![r] = @ \cup {t}]
            /\ rec' = [rec EXCEPT ![t] = ret'.val]
            /\ pc' = [pc EXCEPT ![t] = "ix_delete"]
    /\ UNCHANGED <<xlock, index, stmt, rids_, used, committed>>

\* ih->delete_entry(old_key): the key built from the record read.
IndexDelete(t) ==
    /\ pc[t] = "ix_delete"
    /\ index' = [index EXCEPT ![rec[t]] = NoRid]
    /\ pc' = [pc EXCEPT ![t] = "ix_insert"]
    /\ UNCHANGED <<rmVars, lockVars, stmt, rids_, rec, used, committed>>

\* ih->insert_entry(new_key, rid): the key built from the new image.
IndexInsert(t) ==
    /\ pc[t] = "ix_insert"
    /\ index' = [index EXCEPT ![NewRec(t)] = Head(rids_[t])]
    /\ pc' = [pc EXCEPT ![t] = "update"]
    /\ UNCHANGED <<rmVars, lockVars, stmt, rids_, rec, used, committed>>

\* Mutant: the loop goes back to get_record after the last rid.
UpdateRowLoopPastEnd(t) ==
    LET r == Head(rids_[t]) IN
    /\ pc[t] = "update"
    /\ Rm!UpdateRecord(r, NewRec(t), TRUE, CanExclusive(t, r))
    /\ IF CallFailed
       THEN /\ pc' = [pc EXCEPT ![t] = "abort"]
            /\ UNCHANGED <<xlock, rids_>>
       ELSE /\ xlock' = [xlock EXCEPT ![r] = t]
            /\ rids_' = [rids_ EXCEPT ![t] = Tail(@)]
            /\ pc' = [pc EXCEPT ![t] = "get"]
    /\ UNCHANGED <<slock, index, stmt, rec, used, committed>>

\* Mutant: update_record takes no exclusive lock.
UpdateRowNoLock(t) ==
    LET r == Head(rids_[t]) IN
    /\ pc[t] = "update"
    /\ Rm!UpdateRecord(r, NewRec(t), TRUE, TRUE)
    /\ rids_' = [rids_ EXCEPT ![t] = Tail(@)]
    /\ pc' = [pc EXCEPT ![t] = IF Tail(rids_[t]) = <<>> THEN "commit" ELSE "get"]
    /\ UNCHANGED <<lockVars, index, stmt, rec, used, committed>>

\* update_record(rid, new_rec, context): an exclusive lock, then the write.
\* A refused lock throws out of Next(), after the index calls; the session
\* aborts.  After the last rid, Next() clears rids_ and returns.
UpdateRow(t) ==
    LET r == Head(rids_[t]) IN
    /\ pc[t] = "update"
    /\ Rm!UpdateRecord(r, NewRec(t), TRUE, CanExclusive(t, r))
    /\ IF CallFailed
       THEN /\ pc' = [pc EXCEPT ![t] = "abort"]
            /\ UNCHANGED <<xlock, rids_>>
       ELSE /\ xlock' = [xlock EXCEPT ![r] = t]
            /\ rids_' = [rids_ EXCEPT ![t] = Tail(@)]
            /\ pc' = [pc EXCEPT ![t] = IF Tail(rids_[t]) = <<>> THEN "commit" ELSE "get"]
    /\ UNCHANGED <<slock, index, stmt, rec, used, committed>>

\* commit: release every lock; the statement's writes stand.
Commit(t) ==
    /\ pc[t] = "commit"
    /\ ReleaseAll(t)
    /\ committed' = Append(committed, stmt[t])
    /\ pc' = [pc EXCEPT ![t] = "done"]
    /\ UNCHANGED <<rmVars, index, stmt, rids_, rec, used>>

\* abort: the write set is empty (neither the scan nor the update executor
\* appends to it), so abort only releases every lock.  The index is not
\* touched.
Abort(t) ==
    /\ pc[t] = "abort"
    /\ ReleaseAll(t)
    /\ pc' = [pc EXCEPT ![t] = "done"]
    /\ UNCHANGED <<rmVars, index, stmt, rids_, rec, used, committed>>

\* Every session has ended its transaction.
Terminated ==
    /\ \A t \in Sessions : pc[t] = "done"
    /\ UNCHANGED vars

\* The steps of a session once its statement has started.
Step(t) ==
    \/ GetRow(t) \/ IndexDelete(t) \/ IndexInsert(t) \/ UpdateRow(t)
    \/ Commit(t) \/ Abort(t)

Next ==
    \/ \E t \in Sessions :
        \/ \E x, c \in Keys : Plan(t, x, c)
        \/ Step(t)
    \/ Terminated

Spec == Init /\ [][Next]_vars

-----------------------------------------------------------------------------
(* Properties.                                                             *)

\* The statement UPDATE t SET k = s.c WHERE k = s.x run alone on tbl.
ApplyUpdate(tbl, s) == [r \in Rids |-> IF tbl[r] = s.x THEN s.c ELSE tbl[r]]

\* No session is running a statement.
Quiescent == \A t \in Sessions : pc[t] \in {"idle", "done"}

\* Serializability of the update statements under record locking: whenever
\* no statement is running, the table is what the committed statements give
\* when run one after another in commit order from the initial table, and a
\* statement that threw (a refused lock in the scan or in update_record)
\* left no trace in it.  The shared locks of the planner's scan and the
\* exclusive lock of update_record are what keep another session's update
\* from landing between a statement's read and its write.
UpdatesSerializable ==
    Quiescent => Rm!TableOf = FoldLeft(ApplyUpdate, InitTable, committed)

\* The index matches the table whenever no session is between its index
\* calls and update_record for a row: each key of a live record leads to
\* that record's rid, and no other key leads anywhere.  This is the spec's
\* failure policy for the update executor: a row is either updated in the
\* index and the record, or left untouched.
IndexMatchesTable ==
    (\A t \in Sessions : pc[t] \notin {"ix_insert", "update"}) =>
        \A k \in Keys :
            index[k] = IF \E r \in Live : Rm!TableOf[r] = k
                       THEN CHOOSE r \in Live : Rm!TableOf[r] = k
                       ELSE NoRid

=============================================================================
