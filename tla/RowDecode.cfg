SPECIFICATION Spec
CONSTANTS
    Words = {"M", "B"}
    Columns <- ListColumns
    Properties <- ListProperties
    Items <- ListItems
    Servings <- ListServings
INVARIANTS Consistent RoundTrip WarnedOrWhole BackendsAgree NoColumnLost
CHECK_DEADLOCK FALSE
