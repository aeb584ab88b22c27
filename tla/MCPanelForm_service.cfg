\* Two fields, a refresh and the one that follows a PATCH at the same time, under
\* fairness; no symmetry, it is unsound for liveness.
SPECIFICATION FairSpec
CONSTANTS
    Fields = {f1, f2}
    Spokes = f1
    One = v1
    Values = {v1, v2}
    Blank = Blank
    Gets = {g1}
    Own = Own
    NoGet = NoGet
    Asked = Asked
    NoSettings = NoSettings
INVARIANTS TypeOK NoSilentRevert
PROPERTIES EditsKept Shown
