\* Three presses and a note beside the pipeline; two questions; two clients of the settings,
\* who flip switches or allow a tier other actions.
CONSTANTS
  Diagnoses <- MCDiagnoses
  Casts <- MCCasts
  Lists <- MCLists
  Click = {c1, c2, c3}
  Note = {w1}
  Ask = {q1, q2}
  Tab = {t1, t2}
  MaxToggles = 2
  MaxCrashes = 1
SPECIFICATION RecordFairSpec
INVARIANTS
  OnlyOverlapsLose
  ApprovesWhatWasShown
  RunsOnceAndWithApproval
PROPERTY RunsAreReported
CHECK_DEADLOCK FALSE
