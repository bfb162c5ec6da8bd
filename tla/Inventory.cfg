\* Three items in any state of reporting, any paging, deletions in between.
SPECIFICATION Spec
CONSTANTS
    Last = 3
    Reports <- MCReports
INVARIANTS TypeOK CompleteListsAll OnlyOwnProject
CHECK_DEADLOCK FALSE
