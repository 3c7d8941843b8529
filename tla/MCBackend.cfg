\* The semantic store over two slices, with a failure and two changes of its schemas; two
\* editors and one connector of a datasource; golden cases over three rows and a cap of two;
\* five runs of the tunnel's job; three threads and three questions over a cache of one.
SPECIFICATION Spec
CONSTANTS
    o1 = o1  o2 = o2  o3 = o3  p1 = p1  A = A  B = B
    e1 = e1  e2 = e2  r1 = r1  r2 = r2  r3 = r3
    Objects <- MCObjects
    SchemaOf <- MCSchemaOf
    Refs <- MCRefs
    Overlaid = {o1}
    Hinted <- MCHinted
    MaxSlices = 2
    MaxChanges = 2
    MaxFailures = 1
    Editors = {e1, e2}
    Connectors = {"c1"}
    Patches <- MCPatches
    MaxEdits = 3
    Answers = {r1, r2, r3}
    Columns <- MCColumns
    NameOf <- MCNameOf
    KeyAt <- MCKeyAt
    Projections <- MCProjections
    RowCap = 2
    Budget = 1
    Costs = {1, 2, 3}
    TimeoutMs = 30000
    Written = {"unparsable", "other_kind", "forbidden_call", "unlisted_object", "key_as_date", "placeholder"}
    MaxStarts = 3
    MaxRuns = 5
    Searchers = {"s1", "s2", "s3"}
    Questions = {"q1", "q2", "q3"}
    CacheMax = 1
    MaxSearches = 4
CONSTRAINT OneVariety
SYMMETRY BackendSymmetry
CHECK_DEADLOCK FALSE
INVARIANTS
    BackendTypeOK
    SuccessIsServed
    OneWayToConnect
    StaleOnlyIfOvertaken
    OnlyGuardedRuns
    PassedMeansAgreed
    DeployedUnlessTorn
    CacheIsBounded
