\* The programs on threads and processes; lines in turn are ten each, as in the code.
CONSTANTS
  Lines = 10
  MaxRuns = 3
  Threads = {t1, t2, t3, t4}
  Arguments = {1, 2, 3, 4}
  NUM_STEP = 7
  MaxLines = 4
  Lengths = {1, 2, 3}
  MaxStart = 3
SPECIFICATION MCSpec
INVARIANTS TypeOK LeavesNothing RightsAccountedFor RoundsTogether SleepSorted DoneOnce
PROPERTIES Alternates EverybodyFinishes
CHECK_DEADLOCK FALSE
