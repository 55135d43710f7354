----------------------------- MODULE MCTaskQueue -----------------------------
(* TaskQueue with small sets of task ids.                                  *)
EXTENDS TaskQueue

CONSTANTS t1, t2, t3, t4

ThreeIds == {t1, t2, t3}
FourIds == {t1, t2, t3, t4}
=============================================================================
