CONSTANTS
  Names = {t1, t2}
  None = None
  ViewDeps = {{}}
  RowCounts = {1}
  MaxVersion = 2
  MaxTableId = 3
  MaxTableVersion = 2
  MaxRows = 1
  MaxFiles = 2
SPECIFICATION Spec
INVARIANTS SnapshotsIntact WorkIntact WriterAtCurrent StatisticsExact
PROPERTIES TimeTravel StoreSpec
SYMMETRY Symmetry
CONSTRAINT Small
