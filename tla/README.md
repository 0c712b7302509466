# TLA+ models of RMDB's storage and transaction layers

This directory holds TLA+ models of the parts of RMDB (the repository's
`src/`) that change shared state: the slotted record file, its scan
iterator, the sequential-scan executor, the log manager and the
transaction manager, the update executor with its index maintenance, and
the analyzer whose output the executors consume. It also holds the TLC configurations
that check them. Every definition is translated from the source.
`PROJECT.json` maps each definition to the lines it models.

## The system

| Part | Source | What it does |
|---|---|---|
| Record file | `record/rm_file_handle.cpp` | A file of fixed-size records in slotted pages. The file header holds `num_pages` and `first_free_page_no`. Each page has `num_records`, `next_free_page_no`, a bitmap and the slots. Pages with a free slot form a list threaded through `next_free_page_no`. Every call fetches (pins) a page through the buffer pool and is meant to unpin it once. |
| Record scan | `record/rm_scan.cpp` | A rid cursor over the live records. `next()` walks the pages from the cursor, fetching each one, to the next set bit; at the end the cursor is `(num_pages, 0)`. `is_end` compares the cursor with the live `num_pages`. |
| Log manager | `recovery/log_manager.cpp` | One log buffer under `latch_`. `add_log_to_buffer` assigns `++global_lsn_`. `flush_log_to_disk` writes the buffer and sets `persist_lsn_`. |
| Transaction manager | `transaction/transaction_manager.cpp` | `begin` writes a BEGIN record. `commit` releases the locks, then writes and flushes a COMMIT record. `abort` walks the write set backwards, undoing each write through the record file with a null context. It then releases the locks and writes and flushes an ABORT record. |
| Update executor | `execution/executor_update.h` | For each rid: `get_record`, the new image, the index entries, then `update_record`. |
| Seq-scan executor | `execution/executor_seq_scan.h` | `beginTuple` opens an `RmScan`; `nextTuple` reads records until one satisfies the WHERE conditions (evaluated on raw bytes) and keeps its rid in `rid_`; `Next` reads `rid_` again and moves the scan on. The caller loops `for (beginTuple(); !is_end(); nextTuple())`. |
| Analyzer | `analyze/analyze.cpp` | Turns a parse tree into a `Query`. It checks that tables exist and resolves unqualified columns (an ambiguous or missing one throws). It coerces WHERE and SET literals between INT and FLOAT, truncating a float with `static_cast<int>`. It encodes each literal into its `raw` buffer, and rejects other type mismatches. |

Several collaborators are not under `src/`: the lock manager, the buffer
pool, the insert and delete executors, and the session loop. They are
used through the contract the spec gives them.

How the parts interact:
- A session thread runs one transaction at a time.
- Executors call the record file with the transaction's context. The
  context carries the lock manager, which is no-wait: a conflicting request
  throws, and the session aborts the transaction.
- Commit and abort call the log manager.
- Abort calls the record file again, without a context.
- Sessions run concurrently.

## Modules

- **`RecordTable`** is the abstract specification of the record file. It is
  a map from rid to record (or `NoRec`), plus the result of the last call.
  Its actions are Get, Insert (only at a rid that is not live), Delete,
  Update and Fail, a call that throws and changes nothing.
- **`RmFile`** models the record file.
  - **State.** The file and page headers: `num_pages`,
    `first_free_page_no`, `next_free_page_no`, `num_records`. Also `bitmap`,
    `slot`, `pin_delta` (the net pins the last call left on each page) and
    `ret` (the call's result).
  - **Actions.** One per public call: `GetRecord`, `InsertRecord`,
    `InsertRecordAt` (the recovery form `insert_record(rid, buf)`),
    `DeleteRecord` and `UpdateRecord`. Each has the context as a parameter
    (`ctx`, a Boolean), and the lock outcome comes from `LockOutcomes`.
  - **Helpers.** Each helper is a definition named after its C++ function:
    `FreeHead` for `create_page_handle`, `CreateNewPage`,
    `ReleasePageHandle` and `PageExists` (`fetch_page_handle`).
  - **Exceptions.** The throwing paths are separate disjuncts (`Throw`,
    `OnLiveRecord`). They keep the pins the code leaves behind.
  - **Abstract table.** `Table == INSTANCE RecordTable WITH table <- TableOf`
    names the calls' results. `TableOf` reads the bitmap and the slots the
    way `get_record` does.
- **`RmLatch`** models concurrent calls on one record file. The server runs
  statements on parallel threads (spec section 5), and `RmFileHandle` takes
  no latch.
  - **State.** The file variables of `RmFile`, shared (`slock`) and
    exclusive (`xlock`) record locks, and per session a `pc`, the rid it
    works on (`rid_`) and the bitmap (`ldb`) or count (`ldn`) it loaded and
    will store from. `inserted` is a history of committed inserts.
  - **Actions.** `insert_record` is split at its accesses: `InsPick`
    (`create_page_handle` and `first_bit`, one step), `InsLock`, `InsCopy`
    (memcpy, then the load of `Bitmap::set`), `InsSet` (its store, then the
    load of `num_records++`), `InsInc` (its store) and `InsFull` (the
    free-list unlink of a full page). `delete_record` is split the same way:
    `DelCheck`, `DelLock`, `DelReset`, `DelDec` and `DelRelease`
    (`release_page_handle`). A DELETE first reads its record with
    `get_record` under a shared lock (`DelScan`). `Commit` and `Abort`
    release the locks.
  - **Abstraction.** Each session runs one statement in its own
    transaction: INSERT of its own value, or DELETE of the initial record.
    Every failure (a refused lock, `RecordNotFoundError`) comes before the
    call's first write, so `Abort` has nothing to undo.
- **`LogManager`** models the log manager.
  - **State.** `global_lsn`, `persist_lsn`, `buf_len` (records in the buffer,
    since BEGIN, COMMIT and ABORT records have one size) and `latch_stuck`.
  - **`AddLogToBuffer`.** The re-lock of `latch_` inside
    `add_log_to_buffer` is modelled as what it does: the thread never
    returns (`latch_stuck`), and every later log call is disabled.
- **`TxnManager`** composes `RmFile` (through `INSTANCE`, sharing its
  variables) and `LogManager`.
  - **Sessions.** Each transaction has a session `pc`. Commit is split
    into `CommitRelease`, `CommitLog` and `CommitFlush`. Abort is split into
    `AbortUndo` (one write record per step), `AbortRelease`, `AbortLog` and
    `AbortFlush`. Another session can act between any two of these steps,
    as it can between the code's calls.
  - **Statements.** `InsertExec` and `DeleteExec` follow the spec: they
    call the record file and append a write record. `UpdateExec` follows
    `executor_update.h`: it appends nothing.
  - **Locks.** They are exclusive, re-entrant and no-wait (`CanLock`,
    `xlock`).
  - **History.** The variables `logical`, `added`, `removed` and `used`
    record what the table should hold. Every record image written is fresh,
    so that where each record went after a rollback can be observed.
- **`RmScan`** composes `RmFile` (sharing its variables) with the
  iterator.
  - **State.** `scan_rid` is `rid_`; `scan_pins` counts the pins its
    fetches left per page. The history variables `seen` (rids the cursor
    stopped at) and `stable` (rids live at open and ever since) exist only
    for the properties.
  - **Actions.** `ScanOpen` is the constructor (cursor `(1, -1)`, then
    `next()`); `ScanNext` is `next()` as the executors call it, only while
    not `is_end`; `Write` is any record-file call of another session
    (`RmFile`'s `Next`), between any two iterator calls.
  - **`NextPos`** is `next()`'s double loop as a set: the first set bit
    after the cursor in (page, slot) order, or `(num_pages, 0)`.
    `Fetched` is the pages the loop fetches on its way.
- **`SeqScan`** composes `RmScan` with `SeqScanExecutor` and its caller's
  loop, in one transaction, while a writer session runs inserts, deletes
  and updates in its own transaction.
  - **State.** `phase` is where the executor and its caller are;
    `exec_rid` is `rid_`; `slocked` and `xlocked` are the two
    transactions' record locks. `emitted` (what `Next` returned) and
    `kept` (rids live at `beginTuple` and never written since) are history.
  - **Actions.** `BeginTuple`; `FilterStep`, one turn of `nextTuple`'s
    loop; `Finish`, the caller's `is_end` test; `ExecNext`, `Next`.
    `RidRead` is the rid `Next` reads: `rid_`, or, when `nextTuple` never
    set it, any rid, since the member is then uninitialised.
  - **Conditions.** They are abstracted to `Matches`, the set of record
    images they accept. How they are evaluated on bytes is not modelled.
  - **Locks.** They follow the lock manager's contract from the spec:
    `get_record` under a context takes a shared lock, writes take an
    exclusive one, a conflict throws (no-wait), and locks are held to
    commit. `GrowDuringScan` says whether the writer may append a page
    while the scan runs.
- **`Analyzer`** translates `do_analyze` and its helpers into pure
  operators. A thrown error is a record `Fail(e)`, and `Bind` passes a result
  or the error on, as unwinding does.
  - **Other parts of the pipeline.** It also holds the parts of the
    executors that consume the analyzer's output. `EvalCond` is
    `nextTuple`'s test of one condition: the left column is decoded in its
    type, and the right side is read from `rhs_val.raw`. `ApplySets` is
    `UpdateExecutor::Next`'s SET loop, with its second type check and raw
    copy.
  - **One statement per behaviour.** `Init` picks a statement from
    `Stmts`. One action per statement kind (`AnalyzeSelect`,
    `AnalyzeUpdate`, `AnalyzeDelete`, `AnalyzeInsert`) computes the
    result, and then the state stutters.
  - **Reference.** `SpecHolds` and `SpecCoerce` state the spec's semantics
    (4.2, 4.3). A FLOAT literal becomes the integer of its sign with
    `|n| <= |x| < |n| + 1`; an INT literal is widened; a column operand is
    compared with the other column of the same row.
  - **Values.** Numbers are exact halves, and strings are ranks that fit
    their column.
- **`UpdateIndex`** composes `RmFile` (sharing its variables) with record
  locks, one index and sessions that each run
  `UPDATE t SET k = c WHERE k = x`, with `k` the indexed column, then
  commit, or abort when a call threw.
  - **State.** `slock` and `xlock` are the shared and exclusive record
    locks. `index` maps each key to a rid or `NoRid`. `rids_` is the
    executor's `rids_`, the rids still to update. `rec` is the image
    `get_record` returned. `stmt`, `used` and `committed` (the statements
    of committed transactions, in commit order) are history.
  - **Actions.** `Plan` is the planner's scan, which takes a shared lock on
    every live record and hands the executor the matching rids. Then, per
    rid, `GetRow` (`get_record`), `IndexDelete` (`delete_entry` of the old
    key), `IndexInsert` (`insert_entry` of the new key) and `UpdateRow`
    (`update_record`, which asks for the exclusive lock). `Commit` and
    `Abort` release the locks. The write set is empty, because neither the
    scan nor the update executor appends to it.
  - **Abstraction.** A record image is its key. Every SET value is fresh
    and `k` is unique, so a statement matches at most one row.
- **`MCRmFile`, `MCRmLatch`, `MCTxnManager`, `MCRmScan`, `MCSeqScan`, `MCAnalyzer`,
  `MCUpdateIndex`** give the bounds.

## Runs

| Run | Checks | Result |
|---|---|---|
| `rm_pin_leak` | `NoPinLeak` | **violated**: calls without a context, the ones abort makes, never unpin |
| `txn` | `TypeOK`, `CommitDurable`, `FreeListExact` under transactions and rollback, with a log buffer small enough that `add_log_to_buffer` can hang | passes |
| `rm_latch_race` | `NoLostInsert` with two sessions inserting and deleting at once | **violated**: two inserts pick the same free slot before either sets its bit. The first locks, writes and commits. The second's lock is then granted, and it overwrites the committed record. A delete's stale bitmap store loses a committed insert in the same way |
| `txn_abort_update` | `AbortRestores` with inserts and updates | **violated**: an update is never undone, because there is no UPDATE write record |
| `txn_abort_delete` | `AbortRestores` with inserts and deletes | **violated**: undoing DELETE re-inserts at a new rid (possibly one locked by another transaction), then undoing the earlier INSERT deletes by the old rid and throws |
| `rm_scan` | `TypeOK`, `ScanSeesStable`, `ScanNeverRevisits`: with every record-file call of other sessions between iterator calls | passes |
| `seqscan` | `TypeOK`, `ScanEmitsMatches`, `ScanEmitsAllKept`, `ScanTerminates`, with a writer that does not append pages mid-scan | passes |
| `seqscan_grow` | `ScanEmitsMatches` with a writer that may append pages | **violated**: `nextTuple` reaches `is_end`; the writer appends a page; the caller's `is_end` test is now false and `Next` reads a `rid_` never checked (uninitialised, or the last rejected record) |
| `analyze` | `TypeOK`, `CondAgreesWithSpec`, `SetAgreesWithSpec` over every statement of a bounded grammar whose conditions have literal operands (46k statements) | passes |
| `update_index` | `TypeOK`, `UpdatesSerializable` with three sessions updating the same table | passes |
| `update_partial` | `IndexMatchesTable` | **violated**: both sessions' scans hold a shared lock on a record. The first `update_record` is refused after `delete_entry` and `insert_entry`, so the index keeps the new key of a record still holding the old one |
| `analyze_colref` | `CondAgreesWithSpec` with column operands | **violated**: `WHERE id = id` is accepted, and `nextTuple` then reads `rhs_val.raw` of a condition whose `rhs_val` was never set, a null pointer |

What the properties state:
- **`NoLostInsert`:** every committed insert's record is still at the rid
  `insert_record` returned. The model's deletes target only the initial
  record.
- **`CommitDurable`:** once COMMITTED, a transaction's last LSN is at or
  below `persist_lsn`, whichever session flushed.
- **`AbortRestores`:** whenever no rollback is in progress, the table holds
  exactly the records of the statements that were not rolled back, each
  once.
- **`FreeListExact`:** the free list, walked from `first_free_page_no`,
  visits each page with a clear bit exactly once and nothing else.
- **`ScanSeesStable`:** once the iterator is at its end, it has stopped at
  every record live at open and live ever since.
- **`ScanNeverRevisits`:** no `next()` stops at a rid it stopped at before.
- **`CondAgreesWithSpec`:** for every condition of an accepted SELECT or
  DELETE, the scan's raw-byte test gives the spec's answer on every row.
- **`SetAgreesWithSpec`:** on every row of an accepted UPDATE's table,
  the update executor neither throws nor stores anything but the spec's
  coerced literal. Spec open question 4 says the executor's second type
  check rejects INT/FLOAT coercions that the analyzer permits. This
  property shows that it does not, because the analyzer changes the
  value's type tag as well as its value.
- **`ScanEmitsMatches`:** every record `Next` returned satisfies the
  conditions and is what its rid holds now.
- **`ScanEmitsAllKept`:** when the loop ends, every matching record left
  untouched since `beginTuple` has been returned.
- **`ScanTerminates`:** the statement reaches `is_end` or throws.
- **`UpdatesSerializable`:** whenever no statement is running, the table
  is what the committed statements give when run one after another in
  commit order. A statement that threw left no trace in it.
- **`IndexMatchesTable`:** whenever no session is between its index calls
  and `update_record`, each key of a live record leads to that record's
  rid, and no other key leads anywhere.

Each property of a passing run has a mutant in `PROJECT.json`: a plausible
bug in a mapped definition that TLC shows the property catches.

## Bounds

- **Record file.** Two slots per page let a page fill and empty in two
  calls. Three data pages let the free list hold pages in both orders. One record value suffices
  for the free list. Two values are needed for the table, so that an
  overwrite can be seen.
- **Transactions.** Two sessions, so that one acts inside the other's
  commit or abort. Two statements each, enough for "insert then delete the
  same record" and "delete then insert into the freed slot". Two pages of
  two slots. Three record values.
- **Scans.** Two pages of two slots: the cursor crosses a page and a
  slot, and a writer can empty a page behind or ahead of it. Three pages
  made `rm_scan` run for more than ten minutes. `SeqScan` has two record
  images, one matching and one not, so an update can turn a record from
  one into the other, and a writer bounded to five calls (`MaxWrites`),
  enough to fill a page, append another and update behind the cursor.
- **Analyzer.** Two tables, `a(id INT, p FLOAT)` and `b(id INT, s STRING)`,
  share the column `id`, so an unqualified `id` over both is ambiguous.
  `c` is not a table. Statements have at most one target column, one SET
  clause and one condition, with every operator. The literals are -1 and
  1 (INT), -0.5 and 1.5 (FLOAT) and one string. This is enough for
  truncation toward zero and rounding down to disagree, and for every
  error of the analyzer to be reached.
- **Log buffer.** The pass run's buffer holds 3 records. Two sessions
  can append 4 (both BEGINs and both COMMIT/ABORT records) before the
  first flush. So the third record fills the buffer exactly, which is
  `is_full`'s boundary case, and a fourth makes `add_log_to_buffer` hang.

- **Concurrent record file.** Two sessions, two slots per page, and a
  first page that holds one record. One more insert fills the page, so two
  inserts race for the last slot. A delete empties the page while an insert
  fills it. A second data page lets an insert that finds the list empty
  create a page. The whole space has 694 states.

- **Updates.** Three sessions in the pass run: two can scan a record
  before either updates it, while the third commits between their steps.
  The violation run needs only two. One page of two records, `k1` and `k2`,
  and three fresh keys `k3` to `k5` for the SET values. A statement on a missing key takes the
  executor's empty-`rids_` return.

## Fairness

`TxnManager` and `UpdateIndex` assume no fairness: none of their runs
checks a liveness property (see "Not modelled"). `Terminated` lets the
`TxnManager` system stop when every session is done, or when `latch_` is
held by a thread blocked for ever.

`SeqScan` assumes weak fairness of the scanning session (`ScanStep`): its
thread runs whenever it can. The writer is not fair; it is bounded by
`MaxWrites`, and `Terminated` lets the system stop once the statement has
ended and the writer has made its calls.


## Not modelled, and the plan

Outside `RmLatch`, each record-file call is one atomic step. `RmLatch`
covers only `insert_record` and `delete_record`. The race between
`update_record` and a concurrent call on the same page is not modelled.

`RecordTable` is the abstract table that `RmFile`'s results are stated
in (`Table!Ret`). No run checks `RmFile` against `Table!Spec`. Inserts
take a clear bit and every other call is guarded by the bitmap test, so
that refinement holds by the shape of the definitions. The unlatched
case, where it fails, is `NoLostInsert`. `insert_record(rid, buf)`
(`InsertRecordAt`) has no caller under `src/`, so no run reaches it.

Two liveness properties were dropped because under this model they hold
by construction:
- **Termination of UPDATE.** The model takes the no-wait reading of the
  lock-manager contract, where every conflict throws, so a statement
  cannot wait. Spec section 5 also allows a lock manager that blocks,
  with deadlock detection only "if any". Under that reading, two sessions
  that scanned the same record and both upgrade it wait for each other
  for ever. The lock manager is not under `src/`.
- **Completion of a commit or abort that has reached its log record.**
  This is exactly what the `latch_` self-deadlock breaks.

These defects are known, but no run checks them:
- **`delete_record` on a full page unpins it twice**, once in
  `release_page_handle` and once at line 165. `NoDoubleUnpin` in `RmFile`
  states the discipline, but one call shows the defect, and a unit test
  reaches it.
- **`add_log_to_buffer` re-locks `latch_` when the buffer is full** (spec
  open question 2). `LogManager` models this as a thread that never returns
  (`latch_stuck`). The `txn` run's buffer holds three records, so both
  the exact fill and the hang are reached. `CommitDurable` and
  `FreeListExact` hold in the states after the hang. The run limit leaves
  no violation run for the hang itself.
- **`insert_record(rid, buf)` leaves a full page on the free list.** It
  fills a page without unlinking it. No caller under `src/` uses it, and
  recovery replay, its only user, is out of scope in the spec.
- **`RmScan::next` never unpins.** It fetches pages and never releases
  them (spec open question 3). `RmScan` still counts these pins in
  `scan_pins`.
- **`check_column` accepts unknown qualified columns.** It returns a
  qualified column unchecked, so `SELECT c.s FROM a` is accepted (spec
  open question 1). The `analyze_colref` trace shows such a query.

The planned modules, in order:

1. **A crash step** with the log's durable prefix: early lock release in
   `commit`. Spec section 4.4 itself orders `commit` to release the locks
   before it writes and flushes COMMIT, so a run there would report a gap
   in the spec, not a divergence of the code from it.

The buffer pool, lock manager, indexes, parser and planner are not under
`src/` and appear only through their contracts. `UPDATE ... SET k = c` over several rows gives each the same key; what
`insert_entry` does with a key already present is left open by the spec,
so `UpdateIndex` keeps SET values fresh. Float rounding of INT
values beyond 2^24 is not modelled: every value in the model is exact.
