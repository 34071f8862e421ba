------------------------------ MODULE MCLogRing ------------------------------
(* TLC instance of LogRing: see MCLogRing.cfg. *)
EXTENDS LogRing

Mode(type, hot, shm, len, l, s) ==
    [type |-> type, hot_update |-> hot, shm |-> shm, len |-> len, logs |-> l, starts |-> s]

\* Three slots: several logs held at once, the ring full with the third.  Two
\* slots and three logs: a thread can sleep through a lap.  Two starts: a
\* restart after a stop, and the recovery of a crashed process's ring.
MCModes == {Mode("ASYNC", TRUE, FALSE, 3, 3, 1), Mode("SYNC", FALSE, FALSE, 3, 3, 1),
            Mode("ASYNC", FALSE, FALSE, 2, 3, 1), Mode("SYNC", FALSE, FALSE, 2, 3, 1),
            Mode("ASYNC", FALSE, FALSE, 3, 2, 2), Mode("ASYNC", FALSE, TRUE, 3, 2, 2),
            Mode("SYNC", FALSE, TRUE, 3, 2, 2)}
=============================================================================
