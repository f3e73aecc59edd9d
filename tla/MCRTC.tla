--------------------------------- MODULE MCRTC ---------------------------------
EXTENDS RTC, TLC

MCChips == DOMAIN Features
MCDates == {[day |-> 0, time |-> 1]}
Symmetry == Permutations(Procs)
===============================================================================
