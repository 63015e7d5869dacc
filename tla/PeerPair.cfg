SPECIFICATION MCFairSpec
CONSTANTS
    e1 = e1
    e2 = e2
    t1 = t1
    t2 = t2
    Polite = e1
    Impolite = e2
    Track = {t1, t2}
    MaxOutages = 2
    Camera = {e1}
    Screens <- MCScreens
    Cam = Cam
    NoTrack = NoTrack
INVARIANTS
    ScreenTypeOK
    QuietIsSettled
    OrphansOnlyByRace
PROPERTIES
    GivesUp
    NoLimbo
\* Both ends may have given up, or have settled.
CHECK_DEADLOCK FALSE
