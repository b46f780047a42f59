SPECIFICATION UblkSpec
CONSTANTS
 Disks = {b1, b2}
 Counted = {b1}
 SlowDisks = {b1}
 Tags = {t1, t2}
 UblksMax = 1
 MaxIO = 2
 MaxUblkFaults = 1
INVARIANT DevicesSound
PROPERTY RequestsAnswered
CHECK_DEADLOCK FALSE
