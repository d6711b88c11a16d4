----------------------------- MODULE MCScanStore -----------------------------
(* Constants for model-checking ScanStore: two items, found once, both, or one *)
(* of them twice.                                                              *)
EXTENDS ScanStore, TLC

CONSTANTS i1, i2
MCItem == {i1, i2}
MCFound == {i1 :> 1 @@ i2 :> 0, i1 :> 1 @@ i2 :> 1, i1 :> 2 @@ i2 :> 0}
=============================================================================
