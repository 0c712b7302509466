---------------------------- MODULE MCTxnManager ----------------------------
(* Instantiates TxnManager for TLC: two sessions, so that one can act     *)
(* between the steps of the other's commit or abort; two slots per page   *)
(* and two data pages, so that a rollback's re-insert can land on another  *)
(* page than the record came from.                                        *)
EXTENDS TxnManager

MCRecordsPerPage == 2
MCMaxPages == 2

\* Two statements per transaction: enough for a delete and an insert
\* that reuses its slot, or an insert and a delete of that record.
MCMaxStmts == 2

\* The log buffer holds three records, one fewer than the four BEGIN,
\* COMMIT and ABORT records two sessions can append before the first
\* flush: the third fills it exactly, and a fourth makes add_log_to_buffer
\* flush from under latch_ and hang.
MCLogBufferCap == 3
=============================================================================
