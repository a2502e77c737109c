----------------------------- MODULE MCSwapTrade -----------------------------
(***************************************************************************)
(* A swap in two steps, so that both traders move first once.              *)
(***************************************************************************)
EXTENDS SwapTrade
=============================================================================
