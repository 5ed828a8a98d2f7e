SPECIFICATION Spec
CONSTANTS
    LineCounts = {2, 3}
    ColumnCounts = {2, 4}
    TabWidth = 2
    MaxParam = 3
    MaxChanges = 2
INVARIANTS ApplicationKnowsPage FastPathAgrees
PROPERTIES VerifyStateKept ModesStayInStep
