--------------------------- MODULE MCRiskControls ---------------------------
(***************************************************************************)
(* RiskControls with a 4-bit uint64_t, so that products wrap.              *)
(***************************************************************************)
EXTENDS RiskControlsProps

CONSTANTS o1, o2

MCOrders == [id : {o1, o2}, price : {-1, 2, 5}, quantity : {0, 2, 4}]

MCReferences == {NoReference, 0, 2, 3}
=============================================================================
