\* Starts on every day of the week.
CONSTANTS
    Starts = {0, 1, 2, 3, 4, 5, 6}
    Counts = {5, 13}
    Paces = {1, 2}
SPECIFICATION SpreadSpec
INVARIANTS
    PerDayKept
