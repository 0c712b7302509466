----------------------------- MODULE LogManager -----------------------------
(***************************************************************************)
(* The write-ahead log manager (recovery/log_manager.cpp): one in-memory  *)
(* buffer guarded by latch_, the LSN counter global_lsn_ and persist_lsn_. *)
(* Log records here are the BEGIN, COMMIT and ABORT records the           *)
(* transaction manager emits; they have the same size, so the buffer      *)
(* capacity is counted in records.                                        *)
(*                                                                         *)
(* add_log_to_buffer holds latch_ and, when the record does not fit,      *)
(* calls flush_log_to_disk, which locks latch_ again: a std::mutex locked *)
(* twice by one thread never returns.  latch_stuck records that this has  *)
(* happened; from then on no other log call can take latch_.              *)
(***************************************************************************)
EXTENDS Naturals

CONSTANT LogBufferCap   \* records that fit in log_buffer_ (LOG_BUFFER_SIZE)

ASSUME LogBufferCap \in Nat \ {0}

VARIABLES
    global_lsn,    \* global_lsn_
    persist_lsn,   \* persist_lsn_
    buf_len,       \* records in log_buffer_ (its offset_)
    latch_stuck    \* a thread is blocked forever on latch_ while holding it

logVars == <<global_lsn, persist_lsn, buf_len, latch_stuck>>

LogTypeOK ==
    /\ global_lsn \in Nat
    /\ persist_lsn \in Nat
    /\ buf_len \in 0 .. LogBufferCap
    /\ latch_stuck \in BOOLEAN

LogInit ==
    /\ global_lsn = 0
    /\ persist_lsn = 0
    /\ buf_len = 0
    /\ latch_stuck = FALSE

\* add_log_to_buffer: take latch_, assign lsn = ++global_lsn_, and either
\* serialize the record into the buffer or, when it is full, call
\* flush_log_to_disk and block on latch_ for ever.  The caller reads the
\* assigned LSN as global_lsn' and whether the call returned as ~latch_stuck'.
AddLogToBuffer ==
    /\ ~latch_stuck
    /\ global_lsn' = global_lsn + 1
    /\ IF buf_len + 1 > LogBufferCap
       THEN /\ latch_stuck' = TRUE
            /\ UNCHANGED <<persist_lsn, buf_len>>
       ELSE /\ buf_len' = buf_len + 1
            /\ UNCHANGED <<persist_lsn, latch_stuck>>

\* flush_log_to_disk: take latch_; an empty buffer returns at once,
\* otherwise write it, set persist_lsn_ = global_lsn_ and empty it.
FlushLogToDisk ==
    /\ ~latch_stuck
    /\ IF buf_len = 0
       THEN UNCHANGED logVars
       ELSE /\ persist_lsn' = global_lsn
            /\ buf_len' = 0
            /\ UNCHANGED <<global_lsn, latch_stuck>>

=============================================================================
