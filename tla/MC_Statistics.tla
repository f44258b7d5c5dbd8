---------------------------- MODULE MC_Statistics ----------------------------
EXTENDS Statistics

CONSTANTS c0, c1, i0, i1, a

Two_CPUs == {c0, c1}
One_Perf == 1
Pool == {i0, i1, a}
Idles == {i0, i1}
Interval_Two == 2
Width_Wide == 8
Time_Four == 4
=============================================================================
