-------------------------- MODULE MCDayStartRecovery -------------------------
EXTENDS DayStartRecovery

CONSTANTS s1, s2

Two == {s1, s2}
=============================================================================
