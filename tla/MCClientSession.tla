--------------------------- MODULE MCClientSession ---------------------------
(***************************************************************************)
(* An instance of ClientSession for TLC: two tabs, two calls to protected  *)
(* routes and a form.                                                      *)
(***************************************************************************)
EXTENDS ClientSession, TLC

CONSTANTS t1, t2, c1, c2, f1

MCTabOf == (c1 :> t1 @@ f1 :> t1 @@ c2 :> t2)
=============================================================================
