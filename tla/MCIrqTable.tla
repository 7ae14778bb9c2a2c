----------------------------- MODULE MCIrqTable -----------------------------
(* Constants for model-checking IrqTable.                                  *)
EXTENDS IrqTable

CONSTANTS t1, t2, t3, h1, h2

TwoCallers == {t1, t2}
ThreeCallers == {t1, t2, t3}
TwoHandlers == {h1, h2}
=============================================================================
