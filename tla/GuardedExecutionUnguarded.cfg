\* A statement over the budget, and what the optimizer's model makes of it.
SPECIFICATION ExecSpec
CONSTANTS
    r1 = r1  r2 = r2  r3 = r3
    Answers = {r1}
    Columns <- MCColumns
    NameOf <- MCNameOf
    KeyAt <- MCKeyAt
    Projections <- MCOneColumn
    RowCap = 1
    Budget = 1
    Costs = {1, 2}
    TimeoutMs = 30000
    Written = {"other_kind", "unlisted_object"}
CHECK_DEADLOCK FALSE
INVARIANT
    NothingRunsUnguarded
