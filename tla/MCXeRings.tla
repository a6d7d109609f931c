----------------------------- MODULE MCXeRings -----------------------------
(* Instances of XeRings: two descriptors in each ring, or one to receive.  *)
EXTENDS XeRings

McModes == {{"LOOP"}, {"DRDC", "PROM"}}
McGiven == Commands \ {"COUNT"}
McPlain == {"START", "WRF", "PDMD"}
=============================================================================
