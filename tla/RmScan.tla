------------------------------- MODULE RmScan -------------------------------
(***************************************************************************)
(* The record-file iterator (RmScan, record/rm_scan.cpp) running while     *)
(* other sessions call the record file (RmFile).  The iterator keeps a rid *)
(* cursor; each next() is one step, and writers may act between two of     *)
(* them, as another session's calls may run between the executor's calls. *)
(*                                                                         *)
(* scan_pins counts the pins the iterator's fetches left on each page;     *)
(* seen and stable are history: the rids the cursor stopped at, and the    *)
(* rids live when the scan was opened that have stayed live since.         *)
(***************************************************************************)
EXTENDS Integers, FiniteSets

CONSTANTS RecordsPerPage, MaxPages, Vals, NoVal, Contexts, LockMayFail

VARIABLES
    num_pages, first_free_page_no, next_free_page_no, num_records,
    bitmap, slot, pin_delta, ret,    \* RmFile
    scan_open,   \* an RmScan has been constructed
    scan_rid,    \* RmScan::rid_
    scan_pins,   \* pins left by the iterator's fetches, per page
    seen,        \* history: rids the cursor has stopped at
    stable       \* history: rids live at open and live ever since

Rm == INSTANCE RmFile

rmVars == <<num_pages, first_free_page_no, next_free_page_no, num_records,
            bitmap, slot, pin_delta, ret>>
scanVars == <<scan_open, scan_rid, scan_pins, seen, stable>>
vars == <<rmVars, scanVars>>

Slots == Rm!Slots
Pages == Rm!Pages
Live == {r \in Rm!Rids : Rm!TableOf[r] # NoVal}

\* RmScan::is_end
IsEnd == scan_rid[1] >= num_pages

TypeOK ==
    /\ Rm!TypeOK
    /\ scan_open \in BOOLEAN
    /\ scan_rid \in (1 .. MaxPages + 1) \X (-1 .. RecordsPerPage - 1)
    /\ scan_pins \in [Pages -> 0 .. RecordsPerPage + 1]
    /\ seen \subseteq Rm!Rids /\ stable \subseteq Rm!Rids

Init ==
    /\ Rm!Init
    /\ scan_open = FALSE
    /\ scan_rid = <<1, -1>>
    /\ scan_pins = [p \in Pages |-> 0]
    /\ seen = {} /\ stable = {}

\* Rid a comes before rid b in the iterator's order: page, then slot.
Before(a, b) == a[1] < b[1] \/ (a[1] = b[1] /\ a[2] < b[2])

\* Mutant: the end cursor one page past num_pages.
FirstOfPastEnd(rs) ==
    IF rs = {} THEN <<num_pages + 1, 0>>
    ELSE CHOOSE r \in rs : \A q \in rs \ {r} : Before(r, q)

\* The first of a set of rids in that order, or the end cursor.
FirstOf(rs) ==
    IF rs = {} THEN <<num_pages, 0>>
    ELSE CHOOSE r \in rs : \A q \in rs \ {r} : Before(r, q)

\* The rids whose bit is set on an existing page.
SetBits == {r \in Rm!Rids : r[1] < num_pages /\ r[2] \in bitmap[r[1]]}

\* Mutant: the slot search starts at the cursor's own slot.
NextPosFromCurrent(p, s) ==
    FirstOf({r \in SetBits : ~Before(r, <<p, s>>)})

\* Mutant: moving to the next page keeps the slot number.
NextPosNoSlotReset(p, s) ==
    FirstOf({r \in SetBits : r[1] >= p /\ r[2] > s})

\* RmScan::next from cursor (p, s): the first set bit after s on page p, or
\* on a later page from slot 0 (the slot reset to -1); (num_pages, 0) when
\* the pages run out.
NextPos(p, s) ==
    FirstOf({r \in SetBits : Before(<<p, s>>, r)})

\* The pages next() fetches on its way from page `from` to cursor `to`:
\* each one once, and none of them unpinned.
Fetched(from, to) == {q \in Pages : from <= q /\ q <= to[1] /\ q < num_pages}

\* One call of next() from the current cursor.
Advance ==
    LET to == NextPos(scan_rid[1], scan_rid[2]) IN
    /\ scan_rid' = to
    /\ scan_pins' = [q \in Pages |->
                       scan_pins[q] + IF q \in Fetched(scan_rid[1], to) THEN 1 ELSE 0]
    /\ seen' = IF to[1] < num_pages THEN seen \cup {to} ELSE seen

\* The RmScan constructor: rid_ = (1, -1), then next().
ScanOpen ==
    /\ ~scan_open
    /\ scan_open' = TRUE
    /\ Advance
    /\ stable' = Live
    /\ UNCHANGED rmVars

\* next(), as the executor calls it: only while not is_end.
ScanNext ==
    /\ scan_open
    /\ ~IsEnd
    /\ Advance
    /\ UNCHANGED <<rmVars, scan_open, stable>>

\* Another session calls the record file.
Write ==
    /\ Rm!Next
    /\ stable' = stable \cap {r \in Rm!Rids : r[1] < num_pages' /\ r[2] \in bitmap'[r[1]]}
    /\ UNCHANGED <<scan_open, scan_rid, scan_pins, seen>>

Next == ScanOpen \/ ScanNext \/ Write

Spec == Init /\ [][Next]_vars

-----------------------------------------------------------------------------
(* Properties.                                                             *)

\* Completeness under concurrent writers: once the iterator reports
\* is_end, it has stopped at every record that was live when it was opened
\* and stayed live throughout, whatever pages and slots other sessions'
\* inserts and deletes changed meanwhile.
ScanSeesStable == scan_open /\ IsEnd => stable \subseteq seen

\* No record twice (spec 4.1): each next() that stops at a record stops at
\* one the iterator has not stopped at before, even when deletes and
\* re-inserts behind or ahead of the cursor change the bitmaps.
ScanNeverRevisits ==
    [][ScanNext /\ scan_rid'[1] < num_pages => scan_rid' \notin seen]_vars

=============================================================================
