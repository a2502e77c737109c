------------------------------- MODULE MCFill -------------------------------
(***************************************************************************)
(* Two takers want all of one order.                                       *)
(***************************************************************************)
EXTENDS Fill, TLC

MCOrderOf == "r1" :> "o1" @@ "r2" :> "o1"
MCBy      == "r1" :> "tim" @@ "r2" :> "tia"
MCAmount  == "r1" :> 1 @@ "r2" :> 1
MCSize    == "o1" :> 1
Everybody == SUBSET Thread \ {{}}
=============================================================================
