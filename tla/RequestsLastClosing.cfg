SPECIFICATION Spec
CONSTANTS
    p1 = p1
    p2 = p2
    saw1 = saw1
    bench1 = bench1
    bench2 = bench2
    office = office
    Pieces <- TwoPieces
    Banded <- TwoPieces
    Worked <- Second
    Operators <- TheSaw
    Banders <- TheBench
    Admins = {}
    MaxCrew = 2
    MaxPauses = 0
INVARIANT LastClosingFinishes
CHECK_DEADLOCK FALSE
