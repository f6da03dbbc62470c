---------------------------- MODULE MCDepartures ----------------------------
EXTENDS Departures

CONSTANTS m1, m2

\* Two Macs, or one Mac under two records; the other two choices are renamings.
TwoMacs == {<<m1, m2>>}
OneMacTwice == {<<m1, m1>>}
=============================================================================
