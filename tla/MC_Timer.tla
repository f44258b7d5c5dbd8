------------------------------ MODULE MC_Timer ------------------------------
EXTENDS Timer

CONSTANTS t1, t2

Two_Sleepers == {t1, t2}
Short_Durations == {1, 2}
Sleep_And_WaitFor == {"sleep", "wait_for"}
Time_Three == 3
Cap_One == 1
Events_Three == 3
Signals_Two == 2
Events_Two == 2
One_Sleeper == {t1}
=============================================================================
