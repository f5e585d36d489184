----------------------------- MODULE MCErpSeed -----------------------------
(* ErpSeed for TLC: random.randint yields the ends of its range and every    *)
(* Grain-th number between them; the cfg file gives the bounds.              *)
EXTENDS ErpSeed
=============================================================================
