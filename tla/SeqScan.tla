------------------------------ MODULE SeqScan ------------------------------
(***************************************************************************)
(* The sequential-scan executor (SeqScanExecutor,                          *)
(* execution/executor_seq_scan.h) over an RmScan (RmScan), driven by the   *)
(* iterator loop of its caller (spec 4.3):                                 *)
(*     for (beginTuple(); !is_end(); nextTuple()) { rec = Next(); ... }    *)
(* in one transaction, while one other session inserts, deletes and        *)
(* updates records in its own transaction.  Record locks are the lock      *)
(* manager's contract (spec 5): get_record under a context takes a shared  *)
(* lock, writes an exclusive one, a conflicting request throws, and locks  *)
(* are held until the holder commits.                                      *)
(*                                                                         *)
(* The scan's conjunctive conditions are abstracted to the set Matches of  *)
(* record images that satisfy them.                                        *)
(***************************************************************************)
EXTENDS Integers, FiniteSets

CONSTANTS RecordsPerPage, MaxPages, Vals, NoVal,
          Matches,       \* the records the scan's conditions accept
          GrowDuringScan, \* whether the writer may append pages mid-scan
          MaxWrites       \* bound on the writer's calls

ASSUME Matches \subseteq Vals
ASSUME GrowDuringScan \in BOOLEAN

VARIABLES
    num_pages, first_free_page_no, next_free_page_no, num_records,
    bitmap, slot, pin_delta, ret,                   \* RmFile
    scan_open, scan_rid, scan_pins, seen, stable,   \* RmScan
    phase,      \* where the executor and its caller are
    exec_rid,   \* SeqScanExecutor::rid_
    slocked,    \* shared locks of the scanning transaction
    xlocked,    \* exclusive locks of the writing transaction
    emitted,    \* history: <<rid, record>> pairs Next() returned
    kept,       \* history: rids live at beginTuple and not written since
    writes      \* the writer's calls so far (bounded by MaxWrites)

Rm == INSTANCE RmFile WITH Contexts <- {TRUE}, LockMayFail <- TRUE
Sc == INSTANCE RmScan WITH Contexts <- {TRUE}, LockMayFail <- TRUE

rmVars == <<num_pages, first_free_page_no, next_free_page_no, num_records,
            bitmap, slot, pin_delta, ret>>
scanVars == <<scan_open, scan_rid, scan_pins, seen, stable>>
execVars == <<phase, exec_rid, slocked, xlocked, emitted, kept, writes>>
vars == <<rmVars, scanVars, execVars>>

Rids == Rm!Rids
Phases == {"begin", "filter", "ready", "done", "failed"}

TypeOK ==
    /\ Sc!TypeOK
    /\ phase \in Phases
    /\ exec_rid \in Rids \cup {<<0, -1>>}
    /\ slocked \subseteq Rids /\ xlocked \subseteq Rids
    /\ emitted \subseteq Rids \X Vals
    /\ kept \subseteq Rids
    /\ writes \in 0 .. MaxWrites

Init ==
    /\ Sc!Init
    /\ phase = "begin"
    /\ exec_rid = <<0, -1>>
    /\ slocked = {} /\ xlocked = {}
    /\ emitted = {} /\ kept = {}
    /\ writes = 0

-----------------------------------------------------------------------------
(* The scanning session.                                                   *)

\* Mutant: get_record takes no shared lock (or releases it at once).
ReadRecordNoLock(r) ==
    /\ Rm!GetRecord(r, TRUE, r \notin xlocked)
    /\ UNCHANGED slocked

\* get_record(rid, context_) by the scanner: the shared lock is refused
\* while the writer holds rid exclusively; a refused lock or a cleared bit
\* throws, which ends the statement.
ReadRecord(r) ==
    /\ Rm!GetRecord(r, TRUE, r \notin xlocked)
    /\ slocked' = IF ret'.call = "get" THEN slocked \cup {r} ELSE slocked

\* beginTuple: construct the RmScan (rid_ = (1, -1), then next()); its
\* nextTuple() runs as FilterStep.
BeginTuple ==
    /\ phase = "begin"
    /\ Sc!ScanOpen
    /\ phase' = "filter"
    /\ kept' = Sc!Live
    /\ UNCHANGED <<exec_rid, slocked, xlocked, emitted, writes>>

\* Mutant: the conditions are not checked, every record is accepted.
FilterStepNoCheck ==
    /\ phase = "filter"
    /\ IF Sc!IsEnd
       THEN /\ phase' = "ready"
            /\ UNCHANGED <<rmVars, scanVars, exec_rid, slocked>>
       ELSE /\ exec_rid' = scan_rid
            /\ ReadRecord(scan_rid)
            /\ phase' = IF ret'.call = "get" THEN "ready" ELSE "failed"
            /\ UNCHANGED scanVars
    /\ UNCHANGED <<xlocked, emitted, kept, writes>>

\* One turn of nextTuple()'s loop: at is_end it returns; otherwise rid_ =
\* scan_->rid(), the record is read, and if every condition holds it
\* returns, else scan_->next() and the loop goes on.
FilterStep ==
    /\ phase = "filter"
    /\ IF Sc!IsEnd
       THEN /\ phase' = "ready"
            /\ UNCHANGED <<rmVars, scanVars, exec_rid, slocked>>
       ELSE /\ exec_rid' = scan_rid
            /\ ReadRecord(scan_rid)
            /\ IF ret'.call # "get"
               THEN phase' = "failed" /\ UNCHANGED scanVars
               ELSE IF ret'.val \in Matches
                    THEN phase' = "ready" /\ UNCHANGED scanVars
                    ELSE /\ phase' = "filter"
                         /\ Sc!Advance
                         /\ UNCHANGED <<scan_open, stable>>
    /\ UNCHANGED <<xlocked, emitted, kept, writes>>

\* The caller's loop test: is_end() ends the loop.
Finish ==
    /\ phase = "ready"
    /\ Sc!IsEnd
    /\ phase' = "done"
    /\ UNCHANGED <<rmVars, scanVars, exec_rid, slocked, xlocked, emitted, kept, writes>>

\* The rid Next() passes to get_record: rid_ as nextTuple() last set it.
\* When nextTuple() never set it (the scan was at its end at once) the
\* member is uninitialised: any rid, a read of a missing page throwing.
RidRead == IF exec_rid \in Rids THEN {exec_rid} ELSE Rids

\* Mutant: Next() returns the record without moving the scan on.
ExecNextNoAdvance ==
    /\ phase = "ready"
    /\ ~Sc!IsEnd
    /\ \E r \in RidRead :
       /\ ReadRecord(r)
       /\ IF ret'.call = "get"
          THEN /\ emitted' = emitted \cup {<<r, ret'.val>>}
               /\ phase' = "filter"
          ELSE phase' = "failed" /\ UNCHANGED emitted
    /\ UNCHANGED <<scanVars, exec_rid, xlocked, kept, writes>>

\* Next() (not at is_end): get_record(rid_), scan_->next(), return the
\* record; the caller's loop then calls nextTuple().
ExecNext ==
    /\ phase = "ready"
    /\ ~Sc!IsEnd
    /\ \E r \in RidRead :
       /\ ReadRecord(r)
       /\ IF ret'.call = "get"
          THEN /\ emitted' = emitted \cup {<<r, ret'.val>>}
               /\ Sc!Advance
               /\ phase' = "filter"
               /\ UNCHANGED <<scan_open, stable>>
          ELSE phase' = "failed" /\ UNCHANGED <<emitted, scanVars>>
    /\ UNCHANGED <<exec_rid, xlocked, kept, writes>>

-----------------------------------------------------------------------------
(* The writing session: one transaction of no-wait exclusive locks.        *)

\* A write of rid w that the lock manager granted or refused.
Wrote(w) ==
    /\ writes < MaxWrites
    /\ writes' = writes + 1
    /\ xlocked' = IF ret'.call = "error" THEN xlocked ELSE xlocked \cup {w}
    /\ kept' = IF ret'.call = "error" THEN kept ELSE kept \ {w}
    /\ stable' = stable \cap Sc!Live'
    /\ UNCHANGED <<scan_open, scan_rid, scan_pins, seen, phase, exec_rid,
                   slocked, emitted>>

WriterInsert(v) ==
    LET w == Rm!InsertTarget IN
    /\ w \in Rids
    /\ w[1] = num_pages => GrowDuringScan \/ phase = "begin"
    /\ \E fate \in BOOLEAN : Rm!InsertRecord(v, TRUE, w \notin slocked /\ fate)
    /\ Wrote(w)

WriterDelete(r) ==
    /\ Rm!DeleteRecord(r, TRUE, r \notin slocked)
    /\ Wrote(r)

WriterUpdate(r, v) ==
    /\ Rm!UpdateRecord(r, v, TRUE, r \notin slocked)
    /\ Wrote(r)

\* The writer commits and releases its locks; a new transaction follows.
WriterCommit ==
    /\ xlocked # {}
    /\ xlocked' = {}
    /\ UNCHANGED <<rmVars, scanVars, phase, exec_rid, slocked, emitted, kept, writes>>

\* The statement has ended and the writer has made its calls: the system
\* may stop here.
Terminated ==
    /\ phase \in {"done", "failed"}
    /\ writes = MaxWrites
    /\ UNCHANGED vars

ScanStep == BeginTuple \/ FilterStep \/ Finish \/ ExecNext

Next ==
    \/ ScanStep
    \/ \E v \in Vals : WriterInsert(v)
    \/ \E r \in Rids : WriterDelete(r) \/ \E v \in Vals : WriterUpdate(r, v)
    \/ WriterCommit
    \/ Terminated

\* The scanning session's thread runs whenever it can.
Spec == Init /\ [][Next]_vars /\ WF_vars(ScanStep)

-----------------------------------------------------------------------------
(* Properties.                                                             *)

\* Soundness under a concurrent writer: every record Next() returned
\* satisfies the conditions and is still what its rid holds, although the
\* filter's read and Next()'s read of it are two calls the writer can act
\* between: the scan's shared locks keep the writer off them.
ScanEmitsMatches ==
    \A e \in emitted : e[2] \in Matches /\ Rm!TableOf[e[1]] = e[2]

\* Completeness: when the loop ends at is_end, every record that was there
\* at beginTuple, was not written since and satisfies the conditions has
\* been returned.
ScanEmitsAllKept ==
    phase = "done" =>
        \A r \in kept : Rm!TableOf[r] \in Matches => <<r, Rm!TableOf[r]>> \in emitted

\* The statement ends: the loop reaches is_end or a call throws, however
\* the writer inserts, deletes and updates meanwhile.
ScanTerminates == <>(phase \in {"done", "failed"})

=============================================================================
