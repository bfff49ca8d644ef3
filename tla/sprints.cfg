SPECIFICATION Spec
CONSTANTS
    MaxId = 3
    Days = {0, 1, 2}
    MaxLength = 1
    Lengths = {1, 6}
    Width = 6
    Tasks = {t1}
    Requests = {r1, r2}
    MaxShared = 2
    MaxFields = 2
    NULL = NULL
SYMMETRY Symmetry
INVARIANTS TypeOK OneActive DatesInOrder NamesApart
PROPERTIES NewSprintsEmpty
