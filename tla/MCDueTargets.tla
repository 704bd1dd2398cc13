----------------------------- MODULE MCDueTargets -----------------------------
(* Values of the constants of DueTargets for model checking.               *)
EXTENDS DueTargets, TLC

CONSTANTS p1, p2, t1, t2, t3, t4, h1, h2

MCProjectRank == [p \in Projects |-> IF p = p1 THEN 1 ELSE 2]
MCTargetRank == [t \in Targets |-> IF t = t1 THEN 1 ELSE IF t = t2 THEN 2
                                ELSE IF t = t3 THEN 3 ELSE 4]

(* t1 and t2 are targets of p1, t3 and t4 are targets of p2.               *)
TwoEach == [t \in Targets |-> IF t \in {t1, t2} THEN p1 ELSE p2]

(* Every target is crawled each minute, as often as the service can.       *)
EachMinute == [t \in Targets |-> 1]

TickSymmetry == Permutations(Ticks)
===============================================================================
