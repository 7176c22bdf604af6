\* Three rows of one owner, domain or source and one of another.  To see the
\* document library leave the stable order, check WritesMoveNoRow instead.
SPECIFICATION ListsSpec
CONSTANTS
    Rows = {1, 2, 3, 4}
    Elsewhere = {2}
    Lists = {"users", "conversations", "domains", "domain operations", "sources",
             "source operations", "documents"}
    Limit = 1
    MaxTime = 1
    None = None
INVARIANT WalksShowWhatStayed
CONSTRAINT WalkGoesOn
CHECK_DEADLOCK FALSE
