------------------------------ MODULE RmLatch ------------------------------
(***************************************************************************)
(* Concurrent calls on one RmFileHandle (record/rm_file_handle.cpp).  The  *)
(* server runs statements on parallel threads, and RmFileHandle takes no   *)
(* latch: insert_record and delete_record read and write the file header,  *)
(* the page header and the bitmap with plain loads and stores.  Here each  *)
(* call is split at those accesses, so that another session can step in    *)
(* between a load and the store that uses it (a data race, whose outcomes  *)
(* on this build are the interleavings of the loads and stores).           *)
(*                                                                         *)
(* Each session runs one statement in its own transaction: either          *)
(* INSERT of its own value (insert_record(buf, context)) or DELETE of the  *)
(* table's first record, found by a scan that takes a shared lock and then *)
(* delete_record(rid, context) with its exclusive lock.  The lock manager  *)
(* is no-wait: a refused lock throws and the transaction aborts.  A        *)
(* statement that fails does so before it writes, so its abort releases    *)
(* its locks and undoes nothing.  Finding a page (create_page_handle and   *)
(* create_new_page_handle) is one step, which only removes races.          *)
(***************************************************************************)
EXTENDS Integers, FiniteSets, FiniteSetsExt

CONSTANTS
    RecordsPerPage,  \* file_hdr_.num_records_per_page
    MaxPages,        \* bound: largest data page number the file may grow to
    Vals,            \* record images, as model values
    NoVal,           \* contents of a slot that was never written
    Sessions,        \* the client threads; session t inserts the value t
    InitVal          \* the record the table holds at the start

ASSUME Sessions \subseteq Vals /\ InitVal \in Vals \ Sessions

VARIABLES
    num_pages, first_free_page_no, next_free_page_no, num_records,
    bitmap, slot,    \* the record file, as in RmFile
    xlock,           \* holder of the exclusive lock on each rid, or None
    slock,           \* holders of the shared lock on each rid
    pc,              \* where each session is in its statement
    rid_,            \* the rid each session's call works on
    ldb,             \* the bitmap a session loaded and will store from
    ldn,             \* the num_records a session loaded and will store from
    inserted         \* history: <<t, rid>> for each committed insert

Rm == INSTANCE RmFile WITH pin_delta <- [p \in 1 .. MaxPages |-> 0],
                           ret <- NoVal, Contexts <- {TRUE},
                           LockMayFail <- TRUE

fileVars == <<num_pages, first_free_page_no, next_free_page_no,
              num_records, bitmap, slot>>
vars == <<fileVars, xlock, slock, pc, rid_, ldb, ldn, inserted>>

NO_PAGE == Rm!NO_PAGE
Slots   == Rm!Slots
Pages   == Rm!Pages
Rids    == Rm!Rids
None    == <<0, 0>>            \* no rid, no lock holder
InitRid == <<1, 0>>

PC == {"idle", "i_lock", "i_copy", "i_set", "i_inc", "i_full",
       "d_check", "d_lock", "d_reset", "d_dec", "d_release",
       "i_commit", "commit", "abort", "oob", "done"}

TypeOK ==
    /\ num_pages \in 1 .. MaxPages + 1
    /\ first_free_page_no \in Pages \cup {NO_PAGE}
    /\ next_free_page_no \in [Pages -> Pages \cup {NO_PAGE}]
    /\ num_records \in [Pages -> Int]
    /\ bitmap \in [Pages -> SUBSET Slots]
    /\ slot \in [Pages -> [Slots -> Vals \cup {NoVal}]]
    /\ xlock \in [Rids -> Sessions \cup {None}]
    /\ slock \in [Rids -> SUBSET Sessions]
    /\ pc \in [Sessions -> PC]
    /\ rid_ \in [Sessions -> Rids \cup {None}]
    /\ ldb \in [Sessions -> SUBSET Slots]
    /\ ldn \in [Sessions -> Int]
    /\ inserted \subseteq Sessions \X Rids

\* A file after one insert into a fresh file: page 1 holds InitVal at slot 0.
Init ==
    /\ num_pages = 2
    /\ first_free_page_no = 1
    /\ next_free_page_no = [p \in Pages |-> NO_PAGE]
    /\ num_records = [p \in Pages |-> IF p = 1 THEN 1 ELSE 0]
    /\ bitmap = [p \in Pages |-> IF p = 1 THEN {0} ELSE {}]
    /\ slot = [p \in Pages |-> [s \in Slots |->
                  IF <<p, s>> = InitRid THEN InitVal ELSE NoVal]]
    /\ xlock = [r \in Rids |-> None]
    /\ slock = [r \in Rids |-> {}]
    /\ pc = [t \in Sessions |-> "idle"]
    /\ rid_ = [t \in Sessions |-> None]
    /\ ldb = [t \in Sessions |-> {}]
    /\ ldn = [t \in Sessions |-> 0]
    /\ inserted = {}

-----------------------------------------------------------------------------
(* Locks: no-wait, re-entrant, shared and exclusive on a rid.              *)

CanShare(t, r)     == xlock[r] \in {None, t}
CanExclusive(t, r) == CanShare(t, r) /\ slock[r] \subseteq {t}

\* Move session t to label l.
Goto(t, l) == pc' = [pc EXCEPT ![t] = l]

\* Session t loads a bitmap, or a count.
LoadBits(t, b)  == ldb' = [ldb EXCEPT ![t] = b] /\ UNCHANGED ldn
LoadCount(t, n) == ldn' = [ldn EXCEPT ![t] = n] /\ UNCHANGED ldb

\* The lock request threw: the statement fails and the transaction aborts.
Refused(t) ==
    /\ Goto(t, "abort")
    /\ UNCHANGED <<fileVars, xlock, slock, rid_, ldb, ldn, inserted>>

-----------------------------------------------------------------------------
(* insert_record(buf, context)                                             *)

\* create_page_handle (the free-list walk, or a new page when the list is
\* empty) and Bitmap::first_bit on the page it returns.  A full bitmap on a
\* page whose num_records says otherwise gives slot num_records_per_page,
\* past the page's slots: the thread writes outside the page ("oob").
InsPick(t) ==
    LET h   == Rm!FreeHead(first_free_page_no, MaxPages)
        new == h = NO_PAGE
        p   == IF new THEN num_pages ELSE h
        bm  == IF new THEN {} ELSE bitmap[p]
    IN /\ pc[t] = "idle"
       /\ new => num_pages <= MaxPages
       /\ first_free_page_no' = p
       /\ num_pages' = IF new THEN num_pages + 1 ELSE num_pages
       /\ next_free_page_no' = IF new THEN [next_free_page_no EXCEPT ![p] = NO_PAGE]
                                      ELSE next_free_page_no
       /\ num_records' = IF new THEN [num_records EXCEPT ![p] = 0] ELSE num_records
       /\ bitmap' = [bitmap EXCEPT ![p] = bm]
       /\ \/ bm = Slots /\ Goto(t, "oob") /\ UNCHANGED rid_
          \/ /\ bm # Slots
             /\ Goto(t, "i_lock")
             /\ rid_' = [rid_ EXCEPT ![t] = <<p, Min(Slots \ bm)>>]
       /\ UNCHANGED <<slot, xlock, slock, ldb, ldn, inserted>>

\* lock_exclusive_on_record on the slot just picked.
InsLock(t) ==
    LET r == rid_[t] IN
    /\ pc[t] = "i_lock"
    /\ \/ /\ CanExclusive(t, r)
          /\ xlock' = [xlock EXCEPT ![r] = t]
          /\ Goto(t, "i_copy")
          /\ UNCHANGED <<fileVars, slock, rid_, ldb, ldn, inserted>>
       \/ ~CanExclusive(t, r) /\ Refused(t)

\* memcpy into the slot; Bitmap::set loads the bitmap ...
InsCopy(t) ==
    LET p == rid_[t][1]  s == rid_[t][2] IN
    /\ pc[t] = "i_copy"
    /\ slot' = [slot EXCEPT ![p][s] = t]
    /\ LoadBits(t, bitmap[p])
    /\ Goto(t, "i_set")
    /\ UNCHANGED <<num_pages, first_free_page_no, next_free_page_no,
                   num_records, bitmap, xlock, slock, rid_, inserted>>

\* ... and stores it with the slot's bit set; num_records++ loads the count.
InsSet(t) ==
    LET p == rid_[t][1] IN
    /\ pc[t] = "i_set"
    /\ bitmap' = [bitmap EXCEPT ![p] = ldb[t] \cup {rid_[t][2]}]
    /\ LoadCount(t, num_records[p])
    /\ Goto(t, "i_inc")
    /\ UNCHANGED <<num_pages, first_free_page_no, next_free_page_no,
                   num_records, slot, xlock, slock, rid_, inserted>>

\* num_records++ stores the count it loaded plus one.
InsInc(t) ==
    /\ pc[t] = "i_inc"
    /\ num_records' = [num_records EXCEPT ![rid_[t][1]] = ldn[t] + 1]
    /\ Goto(t, "i_full")
    /\ UNCHANGED <<num_pages, first_free_page_no, next_free_page_no,
                   bitmap, slot, xlock, slock, rid_, ldb, ldn, inserted>>

\* A page that is now full leaves the free list.
InsFull(t) ==
    LET p == rid_[t][1] IN
    /\ pc[t] = "i_full"
    /\ first_free_page_no' = IF num_records[p] = RecordsPerPage
                             THEN next_free_page_no[p] ELSE first_free_page_no
    /\ Goto(t, "i_commit")
    /\ UNCHANGED <<num_pages, next_free_page_no, num_records, bitmap, slot,
                   xlock, slock, rid_, ldb, ldn, inserted>>

-----------------------------------------------------------------------------
(* DELETE of the first record: the scan, then delete_record(rid, context)  *)

\* The scan finds InitVal at InitRid and locks it shared; when the record
\* is gone the statement deletes nothing and commits.
DelScan(t) ==
    LET r == InitRid IN
    /\ pc[t] = "idle"
    /\ rid_' = [rid_ EXCEPT ![t] = r]
    /\ \/ /\ Rm!TableOf[r] = InitVal
          /\ CanShare(t, r)
          /\ slock' = [slock EXCEPT ![r] = @ \cup {t}]
          /\ Goto(t, "d_check")
       \/ Rm!TableOf[r] = InitVal /\ ~CanShare(t, r) /\ Goto(t, "abort")
                                  /\ UNCHANGED slock
       \/ Rm!TableOf[r] # InitVal /\ Goto(t, "commit") /\ UNCHANGED slock
    /\ UNCHANGED <<fileVars, xlock, ldb, ldn, inserted>>

\* fetch_page_handle and the bitmap test: RecordNotFoundError if clear.
DelCheck(t) ==
    LET p == rid_[t][1]  s == rid_[t][2] IN
    /\ pc[t] = "d_check"
    /\ Goto(t, IF s \in bitmap[p] THEN "d_lock" ELSE "abort")
    /\ UNCHANGED <<fileVars, xlock, slock, rid_, ldb, ldn, inserted>>

\* lock_exclusive_on_record; Bitmap::reset loads the bitmap.
DelLock(t) ==
    LET r == rid_[t] IN
    /\ pc[t] = "d_lock"
    /\ \/ /\ CanExclusive(t, r)
          /\ xlock' = [xlock EXCEPT ![r] = t]
          /\ LoadBits(t, bitmap[r[1]])
          /\ Goto(t, "d_reset")
          /\ UNCHANGED <<fileVars, slock, rid_, inserted>>
       \/ ~CanExclusive(t, r) /\ Refused(t)

\* Bitmap::reset stores the bitmap it loaded without the bit;
\* num_records-- loads the count.
DelReset(t) ==
    LET p == rid_[t][1] IN
    /\ pc[t] = "d_reset"
    /\ bitmap' = [bitmap EXCEPT ![p] = ldb[t] \ {rid_[t][2]}]
    /\ LoadCount(t, num_records[p])
    /\ Goto(t, "d_dec")
    /\ UNCHANGED <<num_pages, first_free_page_no, next_free_page_no,
                   num_records, slot, xlock, slock, rid_, inserted>>

\* num_records-- stores the count it loaded minus one.
DelDec(t) ==
    /\ pc[t] = "d_dec"
    /\ num_records' = [num_records EXCEPT ![rid_[t][1]] = ldn[t] - 1]
    /\ Goto(t, "d_release")
    /\ UNCHANGED <<num_pages, first_free_page_no, next_free_page_no,
                   bitmap, slot, xlock, slock, rid_, ldb, ldn, inserted>>

\* release_page_handle: a page that was full goes back on the free list.
DelRelease(t) ==
    LET p == rid_[t][1] IN
    /\ pc[t] = "d_release"
    /\ \/ /\ num_records[p] = RecordsPerPage - 1
          /\ next_free_page_no' = [next_free_page_no EXCEPT ![p] = first_free_page_no]
          /\ first_free_page_no' = p
       \/ /\ num_records[p] # RecordsPerPage - 1
          /\ UNCHANGED <<next_free_page_no, first_free_page_no>>
    /\ Goto(t, "commit")
    /\ UNCHANGED <<num_pages, num_records, bitmap, slot, xlock, slock,
                   rid_, ldb, ldn, inserted>>

-----------------------------------------------------------------------------
(* End of the transaction.                                                 *)

\* Release every lock the session holds, shared or exclusive.
Unlock(t) ==
    /\ xlock' = [r \in Rids |-> IF xlock[r] = t THEN None ELSE xlock[r]]
    /\ slock' = [r \in Rids |-> slock[r] \ {t}]

\* TransactionManager::commit: the writes are already in place; it releases
\* every lock.  A committed insert joins the history.
Commit(t) ==
    /\ pc[t] \in {"commit", "i_commit"}
    /\ Unlock(t)
    /\ inserted' = IF pc[t] = "i_commit" THEN inserted \cup {<<t, rid_[t]>>}
                   ELSE inserted
    /\ Goto(t, "done")
    /\ UNCHANGED <<fileVars, rid_, ldb, ldn>>

\* TransactionManager::abort: the write set is empty, since every failure
\* comes before the call's first write; it releases every lock.
Abort(t) ==
    /\ pc[t] = "abort"
    /\ Unlock(t)
    /\ Goto(t, "done")
    /\ UNCHANGED <<fileVars, rid_, ldb, ldn, inserted>>

\* Every session has ended, or wrote past its page.
Terminated ==
    /\ \A t \in Sessions : pc[t] \in {"done", "oob"}
    /\ UNCHANGED vars

Next ==
    \/ \E t \in Sessions :
          \/ InsPick(t) \/ InsLock(t) \/ InsCopy(t) \/ InsSet(t)
          \/ InsInc(t) \/ InsFull(t)
          \/ DelScan(t) \/ DelCheck(t) \/ DelLock(t) \/ DelReset(t)
          \/ DelDec(t) \/ DelRelease(t)
          \/ Commit(t) \/ Abort(t)
    \/ Terminated

Spec == Init /\ [][Next]_vars

-----------------------------------------------------------------------------
(* Properties.                                                             *)

\* A committed insert is durable in the table: the record a session's
\* insert_record wrote and committed is still at the rid the call returned.
\* (Deletes only target the initial record, found under a shared lock, so
\* no statement here may remove an inserted record.)  insert_record picks
\* its slot before it locks it, and Bitmap::set, Bitmap::reset and the
\* num_records updates are unlatched read-modify-writes.
NoLostInsert ==
    \A e \in inserted : Rm!TableOf[e[2]] = e[1]

====
