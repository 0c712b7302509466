------------------------------ MODULE MCRmFile ------------------------------
(* Instantiates RmFile for TLC: two slots per page, so that a page fills  *)
(* and empties within a few calls, and three data pages, so that the free *)
(* list can hold two pages in either order behind a third.                *)
EXTENDS RmFile

MCRecordsPerPage == 2
MCMaxPages == 3
=============================================================================
