SPECIFICATION Spec
CONSTANTS
  Sheets <- MCSheets
  ImportIds = {j1, j2}
  ExportIds = {e1}
  TemplateIds = {x1}
  Names = {"Ann", "Bob"}
  Terms = {"t"}
  Homerooms = {"h"}
  None = None
  Faults = {"raise", "export"}
  MaxTransfers = 2
  MaxRevision = 2
  Staff = {"Ann"}
  MaxCrashes = 1
SYMMETRY MCSymmetry
CHECK_DEADLOCK FALSE
INVARIANTS
  RowsHaveFiles LessonsCoverTask
PROPERTIES
  ImportAddsNoDuplicate ImportsWhatWasShown
