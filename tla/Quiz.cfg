SPECIFICATION Spec
CONSTANT Submissions <- MCSubmissions
INVARIANTS AcceptsCompleteLists WinnerIsFavourite
CHECK_DEADLOCK FALSE
