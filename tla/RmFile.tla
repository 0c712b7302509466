------------------------------- MODULE RmFile -------------------------------
(***************************************************************************)
(* The record file of one table (RmFileHandle, record/rm_file_handle.cpp): *)
(* the file header (num_pages, first_free_page_no), and per data page its  *)
(* header (num_records, next_free_page_no), its slot bitmap and its slots. *)
(* Every public operation is one atomic action, with all of its paths:     *)
(* the page check of fetch_page_handle, the bitmap check, a lock request   *)
(* that may be refused (the lock manager throws), and the successful path  *)
(* including the free-list maintenance done inside the call.               *)
(*                                                                         *)
(* pin_delta records, for the last call, the pins it left on each page     *)
(* (fetches minus unpins): the buffer-pool discipline is that every call   *)
(* leaves 0 on every page.                                                 *)
(***************************************************************************)
EXTENDS Integers, FiniteSets, Sequences, FiniteSetsExt, Functions

CONSTANTS
    RecordsPerPage,  \* file_hdr_.num_records_per_page
    MaxPages,        \* bound: largest data page number the file may grow to
    Vals,            \* record images (the bytes of a record), as model values
    NoVal,           \* contents of a slot that was never written
    Contexts,        \* which callers: TRUE = with a Context, FALSE = nullptr
    LockMayFail      \* whether the lock manager may refuse a record lock

ASSUME RecordsPerPage \in Nat \ {0}
ASSUME MaxPages \in Nat \ {0}
ASSUME NoVal \notin Vals
ASSUME Contexts \subseteq BOOLEAN /\ Contexts # {}
ASSUME LockMayFail \in BOOLEAN

NO_PAGE == -1                      \* RM_NO_PAGE
Slots   == 0 .. RecordsPerPage - 1
Pages   == 1 .. MaxPages           \* page 0 holds the file header
Rids    == Pages \X Slots

VARIABLES
    num_pages,          \* file_hdr_.num_pages (header page included)
    first_free_page_no, \* file_hdr_.first_free_page_no
    next_free_page_no,  \* page_hdr->next_free_page_no, per page
    num_records,        \* page_hdr->num_records, per page
    bitmap,             \* the set bits of each page's bitmap
    slot,               \* the bytes of each slot
    pin_delta,          \* pins left on each page by the last call
    ret                 \* what the last call returned

rmVars == <<num_pages, first_free_page_no, next_free_page_no, num_records,
            bitmap, slot, pin_delta, ret>>

\* fetch_page_handle throws PageNotExistError unless 0 <= page_no < num_pages.
PageExists(p) == p < num_pages

\* The contents of the table as the bitmaps and slots give them.
TableOf == [r \in Rids |-> IF PageExists(r[1]) /\ r[2] \in bitmap[r[1]]
                           THEN slot[r[1]][r[2]] ELSE NoVal]

\* The record file implements an associative table from rids to records,
\* in which an insert takes a free rid and delete and update act on a live
\* one.
Table == INSTANCE RecordTable WITH table <- TableOf, ret <- ret, NoRec <- NoVal

TypeOK ==
    /\ num_pages \in 1 .. MaxPages + 1
    /\ first_free_page_no \in Pages \cup {NO_PAGE}
    /\ next_free_page_no \in [Pages -> Pages \cup {NO_PAGE}]
    /\ num_records \in [Pages -> 0 .. RecordsPerPage]
    /\ bitmap \in [Pages -> SUBSET Slots]
    /\ slot \in [Pages -> [Slots -> Vals \cup {NoVal}]]
    /\ pin_delta \in [Pages -> -2 .. 1]
    /\ ret \in Table!Results

\* A freshly created file: only the header page, no free page.
Init ==
    /\ num_pages = 1
    /\ first_free_page_no = NO_PAGE
    /\ next_free_page_no = [p \in Pages |-> NO_PAGE]
    /\ num_records = [p \in Pages |-> 0]
    /\ bitmap = [p \in Pages |-> {}]
    /\ slot = [p \in Pages |-> [s \in Slots |-> NoVal]]
    /\ pin_delta = [p \in Pages |-> 0]
    /\ ret = Table!NoCall

-----------------------------------------------------------------------------
(* Helpers of RmFileHandle.                                                *)

\* The pins a call leaves: n on page p, none elsewhere.
PinsLeft(p, n) == [q \in Pages |-> IF q = p THEN n ELSE 0]
NoPins == [q \in Pages |-> 0]

\* create_page_handle: while the head of the free list is full, unlink it
\* and look again.  The fuel only stops the walk on a cyclic list, where the
\* code would recurse without end.
RECURSIVE FreeHead(_, _)
FreeHead(h, fuel) ==
    IF h = NO_PAGE \/ fuel = 0 THEN h
    ELSE IF num_records[h] = RecordsPerPage
         THEN FreeHead(next_free_page_no[h], fuel - 1)
         ELSE h

\* The outcomes of a lock request under the given context.
LockOutcomes(ctx) == IF ctx /\ LockMayFail THEN BOOLEAN ELSE {TRUE}

-----------------------------------------------------------------------------
(* Operations.  ctx is Context != nullptr; lockOk is whether the record    *)
(* lock was granted (only requested when there is a context).  ret is what *)
(* the call returns to its caller, or that it threw.                       *)

Ret(call, r, v) == Table!Ret(call, r, v)
Failed == Table!Failed

\* A call that throws after its checks: the file is untouched, but a page
\* fetched before the throw stays pinned.
Throw(pins) ==
    /\ pin_delta' = pins
    /\ ret' = Failed
    /\ UNCHANGED <<num_pages, first_free_page_no, next_free_page_no,
                   num_records, bitmap, slot>>

\* The checks every call on an existing rid makes before it acts:
\* fetch_page_handle, the bitmap test (RecordNotFoundError) and the record
\* lock.  Act is the rest of the call.
OnLiveRecord(r, lockOk, Act) ==
    LET p == r[1]  s == r[2] IN
    \/ ~PageExists(p) /\ Throw(NoPins)
    \/ PageExists(p) /\ s \notin bitmap[p] /\ Throw(PinsLeft(p, 1))
    \/ PageExists(p) /\ s \in bitmap[p] /\ ~lockOk /\ Throw(PinsLeft(p, 1))
    \/ PageExists(p) /\ s \in bitmap[p] /\ lockOk /\ Act

\* get_record: copy the slot, unpin only when there is a context.
GetRecord(r, ctx, lockOk) ==
    OnLiveRecord(r, lockOk,
        /\ pin_delta' = PinsLeft(r[1], IF ctx THEN 0 ELSE 1)
        /\ ret' = Ret("get", r, slot[r[1]][r[2]])
        /\ UNCHANGED <<num_pages, first_free_page_no, next_free_page_no,
                       num_records, bitmap, slot>>)

\* Writes record v to slot s of page p: set the bit and count.
Place(p, s, v) ==
    /\ slot' = [slot EXCEPT ![p][s] = v]
    /\ bitmap' = [bitmap EXCEPT ![p] = @ \cup {s}]
    /\ num_records' = [num_records EXCEPT ![p] = @ + 1]

\* insert_record(buf, ctx) into slot s of the page create_page_handle gave.
\* If the page became full it is unlinked from the head of the free list.
InsertInto(p, s, v, ctx) ==
    /\ Place(p, s, v)
    /\ first_free_page_no' = IF num_records[p] + 1 = RecordsPerPage
                             THEN next_free_page_no[p] ELSE p
    /\ pin_delta' = PinsLeft(p, IF ctx THEN 0 ELSE 1)
    /\ ret' = Ret("insert", <<p, s>>, v)

\* create_new_page_handle, when the free list had no usable page: page
\* num_pages is created empty (its header and bitmap are those of Init) and
\* becomes the free-list head, which InsertRecord sets.
CreateNewPage(fresh) ==
    /\ fresh => num_pages <= MaxPages
    /\ num_pages' = IF fresh THEN num_pages + 1 ELSE num_pages

\* The rid insert_record(buf, ctx) will lock and write, when it can insert.
InsertTarget ==
    LET h == FreeHead(first_free_page_no, MaxPages + 1)
        p == IF h = NO_PAGE THEN num_pages ELSE h
    IN <<p, IF p \in Pages /\ bitmap[p] # Slots THEN Min(Slots \ bitmap[p]) ELSE 0>>

\* insert_record(buf, ctx): take the free-list head (create_page_handle,
\* which unlinks full heads and creates page num_pages when the list is
\* empty), its lowest clear bit, lock the new rid, then write.  A refused
\* lock leaves the page creation and the unlinking done, and the page
\* pinned.
InsertRecord(v, ctx, lockOk) ==
    LET h     == FreeHead(first_free_page_no, MaxPages + 1)
        fresh == h = NO_PAGE
        p     == IF fresh THEN num_pages ELSE h
    IN
    /\ ~fresh => num_records[h] < RecordsPerPage
    /\ CreateNewPage(fresh)
    /\ UNCHANGED next_free_page_no
    /\ IF lockOk
       THEN InsertInto(p, Min(Slots \ bitmap[p]), v, ctx)
       ELSE /\ first_free_page_no' = p
            /\ pin_delta' = PinsLeft(p, 1)
            /\ ret' = Failed
            /\ UNCHANGED <<slot, bitmap, num_records>>

\* insert_record(rid, buf): write at a given rid (recovery and undo).  It
\* sets the bit and counts, and does nothing to the free list.
InsertRecordAt(r, v) ==
    LET p == r[1]  s == r[2] IN
    \/ ~PageExists(p) /\ Throw(NoPins)
    \/ PageExists(p) /\ s \in bitmap[p] /\ Throw(PinsLeft(p, 1))
    \/ /\ PageExists(p) /\ s \notin bitmap[p]
       /\ Place(p, s, v)
       /\ pin_delta' = NoPins
       /\ ret' = Ret("insert", r, v)
       /\ UNCHANGED <<num_pages, first_free_page_no, next_free_page_no>>

\* release_page_handle: on the edge, link page p at the free-list head.
ReleasePageHandle(p, edge) ==
    /\ next_free_page_no' = IF edge
                            THEN [next_free_page_no EXCEPT ![p] = first_free_page_no]
                            ELSE next_free_page_no
    /\ first_free_page_no' = IF edge THEN p ELSE first_free_page_no

\* delete_record after its checks: clear the bit and count down; when
\* release_page_handle sees the edge it links the page at the free-list
\* head and unpins it; the call unpins again when there is a context.
Remove(r, ctx, edge) ==
    LET p == r[1] IN
    /\ bitmap' = [bitmap EXCEPT ![p] = @ \ {r[2]}]
    /\ num_records' = [num_records EXCEPT ![p] = @ - 1]
    /\ ReleasePageHandle(p, edge)
    /\ pin_delta' = PinsLeft(p, 1 - (IF edge THEN 1 ELSE 0)
                                  - (IF ctx THEN 1 ELSE 0))
    /\ ret' = Ret("delete", r, NoVal)
    /\ UNCHANGED <<num_pages, slot>>

\* Mutant of DeleteRecord: release_page_handle tests the count before it
\* is decremented.
DeleteRecordEdgeBeforeDecrement(r, ctx, lockOk) ==
    OnLiveRecord(r, lockOk,
        Remove(r, ctx, num_records[r[1]] = RecordsPerPage - 1))

\* Mutant of DeleteRecord: the bitmap check before the delete dropped.
DeleteRecordNoBitCheck(r, ctx, lockOk) ==
    \/ ~PageExists(r[1]) /\ Throw(NoPins)
    \/ PageExists(r[1]) /\ Remove(r, ctx, num_records[r[1]] - 1 = RecordsPerPage - 1)

\* delete_record: the edge is the count having just dropped to
\* num_records_per_page - 1.
DeleteRecord(r, ctx, lockOk) ==
    OnLiveRecord(r, lockOk,
        Remove(r, ctx, num_records[r[1]] - 1 = RecordsPerPage - 1))

\* update_record: overwrite the slot in place.
UpdateRecord(r, v, ctx, lockOk) ==
    OnLiveRecord(r, lockOk,
        /\ slot' = [slot EXCEPT ![r[1]][r[2]] = v]
        /\ pin_delta' = PinsLeft(r[1], IF ctx THEN 0 ELSE 1)
        /\ ret' = Ret("update", r, v)
        /\ UNCHANGED <<num_pages, first_free_page_no, next_free_page_no,
                       num_records, bitmap>>)

-----------------------------------------------------------------------------
(* The calls the executors and the transaction manager make.              *)
Next ==
    \E ctx \in Contexts :
      \E lockOk \in LockOutcomes(ctx) :
        \/ \E v \in Vals : InsertRecord(v, ctx, lockOk)
        \/ \E r \in Rids : GetRecord(r, ctx, lockOk)
        \/ \E r \in Rids : DeleteRecord(r, ctx, lockOk)
        \/ \E r \in Rids, v \in Vals : UpdateRecord(r, v, ctx, lockOk)

\* The same, plus writes at a given rid as recovery performs them.
NextWithRecovery ==
    \/ Next
    \/ \E r \in Rids, v \in Vals : InsertRecordAt(r, v)

Spec == Init /\ [][Next]_rmVars
SpecWithRecovery == Init /\ [][NextWithRecovery]_rmVars

-----------------------------------------------------------------------------
(* Properties.                                                             *)

\* The free list as the code walks it, from first_free_page_no through
\* next_free_page_no, cut off after MaxPages + 1 pages.
RECURSIVE Walk(_, _)
Walk(h, fuel) ==
    IF h = NO_PAGE \/ fuel = 0 THEN <<>>
    ELSE <<h>> \o Walk(next_free_page_no[h], fuel - 1)

FreeChain == Walk(first_free_page_no, MaxPages + 1)

\* Pages of the file that have a clear bit, counted from the bitmap.
PagesWithRoom == {p \in Pages : PageExists(p) /\ Cardinality(bitmap[p]) < RecordsPerPage}

\* Free-list discipline (insert_record, delete_record/release_page_handle,
\* create_page_handle): following first_free_page_no never meets a page
\* twice, and it meets exactly the pages whose bitmap has a clear bit.
FreeListExact ==
    /\ IsInjective(FreeChain)
    /\ Range(FreeChain) = PagesWithRoom

\* Pin discipline: no call of RmFileHandle leaves a page it fetched pinned.
NoPinLeak == \A p \in Pages : pin_delta[p] <= 0

\* Pin discipline: no call unpins a page more often than it fetched it.
NoDoubleUnpin == \A p \in Pages : pin_delta[p] >= 0

=============================================================================
