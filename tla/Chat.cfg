SPECIFICATION Spec
CONSTANTS
    Sessions = {s1, s2}
    Turns = {t1, t2}
    MaxClock = 2
INVARIANTS RepliesMatchQuestions OutageIsHidden ActivityIsRecent
PROPERTIES QuestionIsAnswered
CHECK_DEADLOCK FALSE
