SPECIFICATION Spec
CONSTANTS
    Connections = {c1, c2}
    Sessions = {s1, s2}
    Requests = {r1, r2}
    MaxRuns = 1
    None = None
SYMMETRY Symmetry
INVARIANT OneOperation PurgeAlone ToolsOfOwner NothingLeftBehind
PROPERTY NoResurrection
