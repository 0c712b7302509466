--------------------------- MODULE MCUpdateIndex ---------------------------
(* Instantiates UpdateIndex for TLC: up to three sessions, so that two can *)
(* scan the same record before either updates it while a third commits in *)
(* between; a table of two records on one page, and a fresh key for the   *)
(* SET value of each statement.                                            *)
EXTENDS UpdateIndex

MCRecordsPerPage == 2
MCMaxPages == 1

\* k1 and k2 are in the table; k3, k4 and k5 are fresh SET values.
MCInitKeys == <<"k1", "k2">>
MCKeys == {"k1", "k2", "k3", "k4", "k5"}
=============================================================================
