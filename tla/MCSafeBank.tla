----------------------------- MODULE MCSafeBank -----------------------------
(* SafeBank on small sets of model values.                                 *)
EXTENDS SafeBank
=============================================================================
