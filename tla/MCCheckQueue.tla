---------------------------- MODULE MCCheckQueue ----------------------------
EXTENDS CheckQueue

CONSTANTS w1, w2, m1, m2

MCWorkers == {w1, w2}
MCMasters == {m1, m2}
\* m1 is ThreadImport; m2, a message handler, is not interrupted.
MCGroup == {w1, w2, m1}
\* One bad check (notify_one), two good ones, and enough at once for a batch of two.
MCBatches == {<<FALSE>>, <<TRUE, TRUE>>, <<TRUE, TRUE, TRUE, TRUE>>}
=============================================================================
