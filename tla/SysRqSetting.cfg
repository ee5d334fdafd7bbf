\* Two tasks, both kinds of file, other programs' assignments.
SPECIFICATION Spec
CONSTANTS
  t1 = t1
  t2 = t2
  Tasks <- MCTasks
  Settings <- MCSettings
  Numbers <- MCNumbers
SYMMETRY MCSymmetry
INVARIANTS
  SettingTypeOK
  AnswersInForce
  LastSetIsRead
  BuildStringRead
  SemaphoreLimitsWhole
