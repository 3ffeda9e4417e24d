SPECIFICATION Spec
CONSTANTS
    Slas = {sla1}
    Blocks = {track1}
    Banners = {motd}
    Facts = {f1, now}
    Schedules = {now}
    MaxLines = 5
INVARIANTS
    TypeOK
    ReplayedPresence
    ReplayedBlocks
    LegacyMergeAgrees
CHECK_DEADLOCK FALSE
