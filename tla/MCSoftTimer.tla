---------------------------- MODULE MCSoftTimer ----------------------------
(* SoftTimer with three timers, or with the single one timer_init adds.    *)
EXTENDS SoftTimer

CONSTANTS timer1, timer2, timer3

ThreeTimers == {timer1, timer2, timer3}
OneTimer == {timer1}
MCExpiries == 2 .. 4
MCLimits == {1, 2}
Nested == {2}

=============================================================================
