SPECIFICATION MCSpec
CONSTANTS
    c1 = c1
    c2 = c2
    e1 = e1
    e2 = e2
    ann = ann
    bob = bob
    draft = draft
    rewrite = rewrite
    p1 = p1
    p2 = p2
    k1 = k1
    k2 = k2
    proof1 = proof1
    Absent = Absent
    Empty = Empty
    NotSure = NotSure
    NoAnswer = NoAnswer
    NoControl = NoControl
    Nobody = Nobody
    Paths = {p1, p2}
    Values = {NotSure, 0, 1}
    Controls = {k1, k2}
    Proofs = {proof1}
    RulePack <- MCPack
    Conditions <- MCConditions
    Depth <- MCDepth
    Results = 2
    Callers = {c1, c2}
    MaxRows = 2
    MaxEvents = 2
    Actors = {ann, bob}
    Contents = {draft, rewrite}
    Editors = {e1, e2}
    MaxVersions = 4
SYMMETRY Symmetry
INVARIANT TypeOK
INVARIANT TrailHasNoGaps
INVARIANT ApprovedWasReviewed
INVARIANT NewestIsCurrent
INVARIANT ForkHasACause
PROPERTY VersionsAreOneDocument
PROPERTY LearningOverturnsNothing
PROPERTY OnlyStaleWritesBreakTheTable
PROPERTY FailuresAreTracked
CHECK_DEADLOCK FALSE
