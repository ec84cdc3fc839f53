SPECIFICATION Spec
CONSTANTS
  Sheets <- MCSheets
  ImportIds = {j1}
  ExportIds = {e1}
  TemplateIds = {x1}
  Names = {"Ann", "Bob"}
  Terms = {"t"}
  Homerooms = {"h"}
  None = None
  Faults = {}
  MaxTransfers = 1
  MaxRevision = 1
  Staff = {"Ann"}
  MaxCrashes = 0
CHECK_DEADLOCK FALSE
PROPERTY ImportsWhatWasShownLast
