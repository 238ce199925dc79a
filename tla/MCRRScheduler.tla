--------------------------- MODULE MCRRScheduler ---------------------------
(* Three threads: one that may return, as fun1 and fun2 do, one that others *)
(* may terminate, and one that runs for ever, as fun3 and fun4 do.          *)
EXTENDS RRScheduler

CONSTANTS t1, t2, t3

MCThreads == {t1, t2, t3}
MCOrder == <<t1, t2, t3>>
MCTerminating == {t1}
MCKillable == {t2}
=============================================================================
