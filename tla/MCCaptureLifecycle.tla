------------------------ MODULE MCCaptureLifecycle ------------------------
(* Three drops: the first two cover one day and differ in nothing but their *)
(* fingerprint, the third covers no period.                                 *)
EXTENDS CaptureLifecycle, TLC

CONSTANTS p1, p2, p3

MCDrops == {[print |-> p1, period |-> << 1, 1 >>],
            [print |-> p2, period |-> << 1, 1 >>],
            [print |-> p3, period |-> NoPeriod]}

SamePeriod == Permutations({p1, p2})
=============================================================================
