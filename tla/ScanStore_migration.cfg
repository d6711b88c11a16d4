\* A backend killed between the two transactions of the migration.
CONSTANTS
    i1 = i1  i2 = i2
    Client = {c1, c2}
    Item <- MCItem
    Found <- MCFound
    Keep = 2
    Foreign = Foreign
    NoTable = NoTable
    None = None
    MaxScans = 1
    MaxTime = 0
    MaxCrashes = 1
SPECIFICATION Spec
INVARIANTS MigrationKeepsRows
