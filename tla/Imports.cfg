SPECIFICATION ImportSpec
CONSTANTS
  t1 = t1
  t2 = t2
  scan = scan
  csv = csv
  Commits = {t1, t2}
  Scans = {scan}
  Csvs = {csv}
  Entries = {1, 2}
  Nobody = Nobody
  Ttl = 1
  MaxImportFaults = 2
  MaxEdits = 3
  MaxImportRestarts = 1
SYMMETRY Symmetry
INVARIANTS
  ImportedOnce
  ReportedIsSaved
