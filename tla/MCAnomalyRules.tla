--------------------------- MODULE MCAnomalyRules ---------------------------
(***************************************************************************)
(* Times within, at and beyond the velocity window of each other; amounts  *)
(* at uneven distances, so that an interpolated percentile falls between.  *)
(***************************************************************************)
EXTENDS AnomalyRules

SomePayloads == {<<0, 1>>, <<1, 7>>, <<2, 2>>}
=============================================================================
