SPECIFICATION FilesSpec
CONSTANTS
    Docs = {d1}
    Recipients = {1, 2}
    Emails = {x, y}
    Archives = {k1, k2}
    Sessions = {s1, s2}
    MaxTime = 1
    Files = {f1, f2, f3}
    Titles = {t1}
    Writers = {w1, w2}
    None = None
ACTION_CONSTRAINT Apart
SYMMETRY Interchangeable
INVARIANTS
    TypeOK
    StatusBacked
    ArchiveWhole
    OneArchive
    AnsweredIsRecorded
    FilesTypeOK
    SourceKept
    StoresAgree
    VersionsTell
CHECK_DEADLOCK FALSE
