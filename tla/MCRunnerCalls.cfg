CONSTANTS
    c1 = c1
    c2 = c2
    Calls <- MCCalls
    Threshold = 2
    Deployments <- MCDeployments

SPECIFICATION Spec

INVARIANTS
    AnswerIsTruthful
    ReceiptIsTruthful

PROPERTIES
    MovedIsRecorded
    RunnerReturns

CHECK_DEADLOCK FALSE
