SPECIFICATION Spec
CONSTANTS
    q = q
    tool = tool
    call = call
    ran = ran
    py = py
    s = s
    json = json
    a = a
    b = b
    doc = doc
    Tick <- q
    Tool1 <- tool
    Tool2 <- call
    Ran <- ran
    Python <- py
    Blank <- s
    Json <- json
    Doc <- doc
    Other <- MCOther
    Answers <- MCAnswers
    Requests <- AllRequests
INVARIANT WholeAnswer
CHECK_DEADLOCK FALSE
