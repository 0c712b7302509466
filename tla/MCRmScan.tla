------------------------------- MODULE MCRmScan -------------------------------
(* Instantiates RmScan for TLC: two slots per page and two data pages,    *)
(* so that the cursor can cross pages while writers empty, refill and      *)
(* append pages ahead of it and behind it.                                 *)
EXTENDS RmScan

MCRecordsPerPage == 2
MCMaxPages == 2
=============================================================================
