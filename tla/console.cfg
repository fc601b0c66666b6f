\* Clicks and answers in any order.
SPECIFICATION Spec
CONSTANTS
  Project = {p1, p2}
  Listed = {p1}
  NoProject = NoProject
  Job = {j1, j2, j3, j4}
  MaxInFlight = 2
  BatchSize = 2
  Null = Null
SYMMETRY Symmetric
INVARIANTS
  SavesFitTarget
  ConfirmLockHeld
  PatientScreenRenders
  PatientReportFits
PROPERTIES
  OnlyAnswersMixProjects
  PatientScreenFits
  LoadingEnds
