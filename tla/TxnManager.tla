----------------------------- MODULE TxnManager -----------------------------
(***************************************************************************)
(* Transactions over one record file (transaction/transaction_manager.cpp)*)
(* composed with the record file (RmFile) and the log manager             *)
(* (LogManager).  Each transaction runs on its own session thread:        *)
(* begin, statements, then commit or abort, where commit and abort are    *)
(* split at the points where another thread can run in between (each log  *)
(* call takes latch_, each record-file call is one step).                 *)
(*                                                                         *)
(* Statements are the executors' record writes.  The insert and delete    *)
(* executors are not in src/: as the spec says (4.4), they append an      *)
(* INSERT or DELETE write record to the write set.  The update executor   *)
(* (execution/executor_update.h) reads and updates the record and appends *)
(* nothing.  Record locks follow the lock manager's contract (spec 4.4,   *)
(* 5): exclusive per (file, rid), re-entrant, and a conflicting request    *)
(* throws, which aborts the transaction.                                  *)
(*                                                                         *)
(* Every record image written is fresh (a distinct record), so that       *)
(* "which record is where" can be observed after a rollback.              *)
(***************************************************************************)
EXTENDS Integers, Sequences, FiniteSets

CONSTANTS
    Txns,            \* transactions, one per session thread
    NoTxn,           \* no lock holder
    MaxStmts,        \* bound: statements per transaction
    Statements,      \* which executors the sessions run
    RecordsPerPage, MaxPages, Vals, NoVal,   \* of the record file
    LogBufferCap                             \* of the log manager

ASSUME Statements \subseteq {"insert", "delete", "update"}
ASSUME MaxStmts \in Nat

VARIABLES
    num_pages, first_free_page_no, next_free_page_no, num_records,
    bitmap, slot, pin_delta, ret,                 \* RmFile
    global_lsn, persist_lsn, buf_len, latch_stuck, \* LogManager
    pc,          \* where each session thread is
    txn_state,   \* Transaction::state_
    write_set,   \* Transaction::write_set_, oldest first
    xlock,       \* the exclusive record locks: holder of each rid
    prev_lsn,    \* Transaction::prev_lsn_
    stmts,       \* statements run by each transaction
    logical,     \* history: the records the table should hold
    added,       \* history: records each transaction put in the table
    removed,     \* history: records each transaction took out of it
    used         \* history: record images written so far

rmVars == <<num_pages, first_free_page_no, next_free_page_no, num_records,
            bitmap, slot, pin_delta, ret>>
logVars == <<global_lsn, persist_lsn, buf_len, latch_stuck>>
histVars == <<logical, added, removed, used>>
vars == <<rmVars, logVars, pc, txn_state, write_set, xlock, prev_lsn, stmts,
          histVars>>

Rm == INSTANCE RmFile WITH Contexts <- BOOLEAN, LockMayFail <- FALSE
Log == INSTANCE LogManager

Rids == Rm!Rids
INVALID_LSN == -1

WriteRecords == [wtype : {"INSERT", "DELETE", "UPDATE"}, rid : Rids, rec : Vals]

Pcs == {"idle", "active", "commit_log", "commit_flush", "abort_undo",
        "abort_log", "abort_flush", "done", "hung", "stuck"}

TypeOK ==
    /\ Rm!TypeOK
    /\ Log!LogTypeOK
    /\ pc \in [Txns -> Pcs]
    /\ txn_state \in [Txns -> {"DEFAULT", "GROWING", "COMMITTED", "ABORTED"}]
    /\ write_set \in [Txns -> Seq(WriteRecords)]
    /\ xlock \in [Rids -> Txns \cup {NoTxn}]
    /\ prev_lsn \in [Txns -> Int]
    /\ stmts \in [Txns -> 0 .. MaxStmts]
    /\ logical \subseteq Vals /\ used \subseteq Vals
    /\ added \in [Txns -> SUBSET Vals] /\ removed \in [Txns -> SUBSET Vals]

Init ==
    /\ Rm!Init
    /\ Log!LogInit
    /\ pc = [t \in Txns |-> "idle"]
    /\ txn_state = [t \in Txns |-> "DEFAULT"]
    /\ write_set = [t \in Txns |-> <<>>]
    /\ xlock = [r \in Rids |-> NoTxn]
    /\ prev_lsn = [t \in Txns |-> INVALID_LSN]
    /\ stmts = [t \in Txns |-> 0]
    /\ logical = {} /\ used = {}
    /\ added = [t \in Txns |-> {}] /\ removed = [t \in Txns |-> {}]

-----------------------------------------------------------------------------
(* Helpers.                                                                *)

\* The lock manager grants t an exclusive lock on r.
CanLock(t, r) == xlock[r] \in {NoTxn, t}

\* Release every lock t holds (the lock_set loop of commit and abort).
ReleaseLocks(t) == xlock' = [r \in Rids |-> IF xlock[r] = t THEN NoTxn ELSE xlock[r]]

\* The record-file call of this step threw.
CallFailed == ret'.call = "error"

\* A log call: the thread either returns (to pc ok) or blocks for ever.
AfterLog(t, ok) == pc' = [pc EXCEPT ![t] = IF latch_stuck' THEN "hung" ELSE ok]

\* A statement's effect on the history: record o (or NoVal) taken out of
\* the table and record n (or NoVal) put in, by t.
Logically(t, o, n) ==
    LET out == {o} \ {NoVal}  in == {n} \ {NoVal} IN
    /\ logical' = (logical \ out) \cup in
    /\ added' = [added EXCEPT ![t] = (@ \ out) \cup in]
    /\ removed' = [removed EXCEPT ![t] = @ \cup (out \ added[t])]
    /\ used' = used \cup in

\* A statement that threw: the session aborts the transaction.
StatementFailed(t) ==
    /\ pc' = [pc EXCEPT ![t] = "abort_undo"]
    /\ UNCHANGED <<write_set, xlock, histVars>>

Stmt(t) ==
    /\ pc[t] = "active"
    /\ stmts[t] < MaxStmts
    /\ stmts' = [stmts EXCEPT ![t] = @ + 1]
    /\ UNCHANGED <<logVars, txn_state, prev_lsn>>

-----------------------------------------------------------------------------
(* Session steps.                                                          *)

\* TransactionManager::begin with no transaction passed in: new id, state
\* GROWING, a BEGIN record with prev_lsn INVALID, its LSN kept as prev_lsn.
Begin(t) ==
    /\ pc[t] = "idle"
    /\ Log!AddLogToBuffer
    /\ txn_state' = [txn_state EXCEPT ![t] = "GROWING"]
    /\ prev_lsn' = [prev_lsn EXCEPT ![t] = global_lsn']
    /\ AfterLog(t, "active")
    /\ UNCHANGED <<rmVars, write_set, xlock, stmts, histVars>>

\* Insert executor (spec 4.4): insert_record with the context, which locks
\* the rid it picked, then an INSERT write record.
InsertExec(t, v) ==
    LET r == Rm!InsertTarget IN
    /\ "insert" \in Statements
    /\ Stmt(t)
    /\ v \notin used
    /\ r \in Rids
    /\ Rm!InsertRecord(v, TRUE, CanLock(t, r))
    /\ IF CallFailed
       THEN StatementFailed(t)
       ELSE /\ xlock' = [xlock EXCEPT ![r] = t]
            /\ write_set' = [write_set EXCEPT ![t] =
                               Append(@, [wtype |-> "INSERT", rid |-> r, rec |-> v])]
            /\ Logically(t, NoVal, v)
            /\ UNCHANGED pc

\* Delete executor (spec 4.4), on a rid its scan produced: read the record,
\* delete_record with the context, then a DELETE write record holding the
\* record read.
DeleteExec(t, r) ==
    LET old == slot[r[1]][r[2]] IN
    /\ "delete" \in Statements
    /\ Stmt(t)
    /\ Rm!TableOf[r] # NoVal
    /\ Rm!DeleteRecord(r, TRUE, CanLock(t, r))
    /\ IF CallFailed
       THEN StatementFailed(t)
       ELSE /\ xlock' = [xlock EXCEPT ![r] = t]
            /\ write_set' = [write_set EXCEPT ![t] =
                               Append(@, [wtype |-> "DELETE", rid |-> r, rec |-> old])]
            /\ Logically(t, old, NoVal)
            /\ UNCHANGED pc

\* UpdateExecutor::Next for one rid of its scan (executor_update.h):
\* get_record, build the new image, update_record.  No write record.
UpdateExec(t, r, v) ==
    LET old == slot[r[1]][r[2]] IN
    /\ "update" \in Statements
    /\ Stmt(t)
    /\ v \notin used
    /\ Rm!TableOf[r] # NoVal
    /\ Rm!UpdateRecord(r, v, TRUE, CanLock(t, r))
    /\ IF CallFailed
       THEN StatementFailed(t)
       ELSE /\ xlock' = [xlock EXCEPT ![r] = t]
            /\ Logically(t, old, v)
            /\ UNCHANGED <<write_set, pc>>

\* The session ends the transaction with abort.
ClientAbort(t) ==
    /\ pc[t] = "active"
    /\ pc' = [pc EXCEPT ![t] = "abort_undo"]
    /\ UNCHANGED <<rmVars, logVars, txn_state, write_set, xlock, prev_lsn,
                   stmts, histVars>>

\* commit, up to the COMMIT record: release every lock, clear the sets.
CommitRelease(t) ==
    /\ pc[t] = "active"
    /\ ReleaseLocks(t)
    /\ write_set' = [write_set EXCEPT ![t] = <<>>]
    /\ pc' = [pc EXCEPT ![t] = "commit_log"]
    /\ UNCHANGED <<rmVars, logVars, txn_state, prev_lsn, stmts, histVars>>

\* commit: append the COMMIT record, chained to prev_lsn.
CommitLog(t) ==
    /\ pc[t] = "commit_log"
    /\ Log!AddLogToBuffer
    /\ prev_lsn' = [prev_lsn EXCEPT ![t] = global_lsn']
    /\ AfterLog(t, "commit_flush")
    /\ UNCHANGED <<rmVars, txn_state, write_set, xlock, stmts, histVars>>

\* Mutant: commit sets COMMITTED without flushing the log.
CommitFlushNoFlush(t) ==
    /\ pc[t] = "commit_flush"
    /\ txn_state' = [txn_state EXCEPT ![t] = "COMMITTED"]
    /\ pc' = [pc EXCEPT ![t] = "done"]
    /\ UNCHANGED <<rmVars, logVars, write_set, xlock, prev_lsn, stmts, histVars>>

\* commit: flush the log, then state COMMITTED.
CommitFlush(t) ==
    /\ pc[t] = "commit_flush"
    /\ Log!FlushLogToDisk
    /\ txn_state' = [txn_state EXCEPT ![t] = "COMMITTED"]
    /\ pc' = [pc EXCEPT ![t] = "done"]
    /\ UNCHANGED <<rmVars, write_set, xlock, prev_lsn, stmts, histVars>>

\* The inverse abort applies for a write record, with a null context.
Undo(w) ==
    CASE w.wtype = "INSERT" -> Rm!DeleteRecord(w.rid, FALSE, TRUE)
      [] w.wtype = "DELETE" -> Rm!InsertRecord(w.rec, FALSE, TRUE)
      [] w.wtype = "UPDATE" -> Rm!UpdateRecord(w.rid, w.rec, FALSE, TRUE)

\* abort: undo the newest remaining write record.  A call that throws
\* leaves abort, and the transaction, where they are.
AbortUndo(t) ==
    /\ pc[t] = "abort_undo"
    /\ write_set[t] # <<>>
    /\ Undo(write_set[t][Len(write_set[t])])
    /\ write_set' = [write_set EXCEPT ![t] = SubSeq(@, 1, Len(@) - 1)]
    /\ pc' = [pc EXCEPT ![t] = IF CallFailed THEN "stuck" ELSE "abort_undo"]
    /\ UNCHANGED <<logVars, txn_state, xlock, prev_lsn, stmts, histVars>>

\* abort, once the write set is undone: release every lock, clear the
\* sets.  The transaction's statements no longer count.
AbortRelease(t) ==
    /\ pc[t] = "abort_undo"
    /\ write_set[t] = <<>>
    /\ ReleaseLocks(t)
    /\ pc' = [pc EXCEPT ![t] = "abort_log"]
    /\ logical' = (logical \ added[t]) \cup removed[t]
    /\ UNCHANGED <<rmVars, logVars, txn_state, write_set, prev_lsn, stmts,
                   added, removed, used>>

\* abort: append the ABORT record.
AbortLog(t) ==
    /\ pc[t] = "abort_log"
    /\ Log!AddLogToBuffer
    /\ prev_lsn' = [prev_lsn EXCEPT ![t] = global_lsn']
    /\ AfterLog(t, "abort_flush")
    /\ UNCHANGED <<rmVars, txn_state, write_set, xlock, stmts, histVars>>

\* abort: flush the log, then state ABORTED.
AbortFlush(t) ==
    /\ pc[t] = "abort_flush"
    /\ Log!FlushLogToDisk
    /\ txn_state' = [txn_state EXCEPT ![t] = "ABORTED"]
    /\ pc' = [pc EXCEPT ![t] = "done"]
    /\ UNCHANGED <<rmVars, write_set, xlock, prev_lsn, stmts, histVars>>

\* Every session has finished its transaction (or its abort threw), or a
\* thread hangs on latch_, which stops every later log call: the system
\* stops.
Terminated ==
    /\ latch_stuck \/ \A t \in Txns : pc[t] \in {"done", "stuck"}
    /\ UNCHANGED vars

\* The steps a session thread takes on its own once it has started to
\* commit or abort.
Progress(t) ==
    \/ CommitLog(t) \/ CommitFlush(t)
    \/ AbortUndo(t) \/ AbortRelease(t) \/ AbortLog(t) \/ AbortFlush(t)

Next ==
    \/ \E t \in Txns :
        \/ Begin(t) \/ ClientAbort(t) \/ CommitRelease(t) \/ Progress(t)
        \/ \E v \in Vals : InsertExec(t, v)
        \/ \E r \in Rids : DeleteExec(t, r)
        \/ \E r \in Rids, v \in Vals : UpdateExec(t, r, v)
    \/ Terminated

Spec == Init /\ [][Next]_vars

-----------------------------------------------------------------------------
(* Properties.                                                             *)

\* The records in the table.
LiveRids == {r \in Rids : Rm!TableOf[r] # NoVal}
LiveRecords == {Rm!TableOf[r] : r \in LiveRids}

\* Write-ahead durability of commit: once commit has set a transaction
\* COMMITTED, its COMMIT record (its last LSN) is on disk, whatever the
\* other sessions' log calls did in between.
CommitDurable ==
    \A t \in Txns : txn_state[t] = "COMMITTED" => prev_lsn[t] <= persist_lsn

\* Atomicity of abort: whenever no abort is part-way through its rollback,
\* the table holds exactly the records of the statements that were not
\* rolled back, each once; so abort's inverse calls on the write set undo
\* every write of the transaction and nothing else.
AbortRestores ==
    (\A t \in Txns : pc[t] # "abort_undo") =>
        /\ LiveRecords = logical
        /\ Cardinality(LiveRids) = Cardinality(logical)

\* The record file's free list stays exact under the transactional
\* workload, the rollback's null-context calls included.
FreeListExact == Rm!FreeListExact

=============================================================================
