SPECIFICATION Spec
CONSTANTS
    SuggestsDifficulty = FALSE
    None = None
    MaxSubmits = 0
    MaxNotifies = 0
    MaxUnasked = 0
CHECK_DEADLOCK FALSE
PROPERTIES
    GrantedRequestsDoNotTimeOut
