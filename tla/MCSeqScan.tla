------------------------------ MODULE MCSeqScan ------------------------------
(* Instantiates SeqScan for TLC: two slots per page and two data pages,   *)
(* so that the scan crosses a page; two record images, one that the       *)
(* conditions accept and one they reject, so that the writer's updates     *)
(* can turn a record from one into the other.                              *)
EXTENDS SeqScan

MCRecordsPerPage == 2
MCMaxPages == 2
=============================================================================
