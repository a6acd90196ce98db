----------------------------- MODULE MCTimeout -----------------------------
(* Instances of Timeout for TLC.                                           *)
EXTENDS Timeout

CONSTANTS t1, t2, t3, u1, m1, m2

MCFlags == [t \in To |-> IF t = t2 THEN "proc" ELSE IF t = t3 THEN "proc_mp" ELSE "si"]
MCKclock == [t \in To |-> IF t = u1 THEN "uptime" ELSE "none"]

Quiet == [callers |-> {m1}, start |-> INT_MAX - 2, timeouts |-> {}, ticks |-> {},
          abs |-> {}, deleted |-> {}, steps |-> {1}, until |-> 0,
          adjust |-> {}, adds |-> 0]

\* The contexts, their callers and the clock interleave; a few ticks.
Race == [Quiet EXCEPT !.timeouts = {t1, t2}, !.ticks = {0, 1}, !.deleted = {t1, t2},
                      !.until = 2, !.adds = 3]
RaceProc == [Race EXCEPT !.timeouts = {t2, t3}, !.deleted = {t3}, !.ticks = {0},
                         !.adds = 2]
RaceTwo == [Race EXCEPT !.callers = {m1, m2}, !.timeouts = {t2}, !.deleted = {t2},
                        !.ticks = {0}, !.adds = 2]

\* One timeout goes down the levels of the wheel, around the wrap of ticks.
Wheel == [Quiet EXCEPT !.timeouts = {t1}, !.start = INT_MAX - 40,
                       !.ticks = {4, 5, 17, 65, INT_MAX},
                       !.until = 135, !.adds = 1]

\* One timeout of the uptime clock, which may be moved. The steps are shorter
\* than a lap of a level, or longer, by more than a bucket of the level.
Uptime == [Quiet EXCEPT !.timeouts = {u1}, !.abs = {2, 7, 8, 31, 33, 100, 130},
                        !.steps = {3, 20}, !.until = 140, !.adds = 2]

\* The machine is suspended.
Suspend == [Quiet EXCEPT !.timeouts = {t1, u1}, !.ticks = {30}, !.abs = {33},
                         !.until = 36, !.adjust = {20}, !.adds = 2]

MCWorkloads == {Race, RaceProc, RaceTwo, Wheel, Uptime, Suspend}

\* A suspend that is shorter than the width of a level by less than a bucket.
MCLap == {[Suspend EXCEPT !.timeouts = {u1}, !.abs = {5, 20}, !.steps = {1, 3},
                          !.adjust = {30}, !.adds = 1]}
=============================================================================
