SPECIFICATION Spec
CONSTANTS
    Slas = {sla1}
    Blocks = {track1}
    Banners = {motd}
    Facts = {f1, f2, now}
    Schedules = {now}
    MaxLines = 4
INVARIANT ReplayedBanners
CHECK_DEADLOCK FALSE
