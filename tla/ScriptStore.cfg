CONSTANTS
    Names = {n1}
    Calls = {c1, c2}
    Operations = {"save", "run"}
    Torn = Torn
    None = None

SPECIFICATION ScriptSpec

INVARIANT SavedIsStored

CHECK_DEADLOCK FALSE
