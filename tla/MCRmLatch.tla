------------------------------ MODULE MCRmLatch -----------------------------
(* Instantiates RmLatch for TLC: two slots per page and a page that holds  *)
(* one record, so that one more insert fills it; two data pages, so that a *)
(* full first page sends the next insert to a new page.                    *)
EXTENDS RmLatch

CONSTANTS s1, s2, v0

MCRecordsPerPage == 2
MCMaxPages == 2
MCSessions == {s1, s2}
MCVals == {s1, s2, v0}
=============================================================================
