\* Two machines, two runs, one fault.
CONSTANTS
  t1 = t1  t2 = t2  t3 = t3  s1 = s1  s2 = s2
  kernel = kernel  initrd = initrd  none = none
  Machine = {1, 2}
  Local = {1}
  Toplevel = {t1, t2, t3, s1, s2}
  Revision <- MCRevision
  NeedleIn <- MCNeedleIn
  Link = {kernel, initrd}
  Absent = none
  Dest <- MCDest
  Matched <- MCMatched
  Timeout = 2
  MaxRuns = 2
  MaxFaults = 1
  MaxBoots = 2
SPECIFICATION FairSpec
INVARIANTS MachineByMachine SilentSwitchIsSafe
PROPERTIES RebootVerdict RunEnds
CHECK_DEADLOCK FALSE
