------------------------------ MODULE MCBrowsing ------------------------------
(***************************************************************************)
(* Browsing for TLC: a registration, and one that is made meanwhile, on    *)
(* two pages.                                                              *)
(***************************************************************************)
EXTENDS Browsing

MCRows == 1 .. 2
MCFirst == <<1>>
MCWaiting == {}
MCFilters == {"CONFIRMED"}
MCPages == {1, 2}
=============================================================================
