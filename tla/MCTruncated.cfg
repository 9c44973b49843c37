SPECIFICATION Spec
CONSTANTS
    p1 = p1
    p2 = p2
    joe = joe
    ann = ann
    Proc = {p1, p2}
    User = {joe, ann}
    Roles <- MCRoles
    Denied = {}
    NoFile = NoFile
    Text = {"new", "bad", "template"}
    Good = {"new", "template"}
    Template = "template"
    Errors = {"ENOSPC", "EACCES"}
    LostWrites = TRUE
INVARIANTS OnlyCheckedInstalled
\* Every process ends.
CHECK_DEADLOCK FALSE
