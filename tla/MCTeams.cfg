SPECIFICATION Spec
CONSTANTS
    Users = {u1, u2, u3, guest}
    Certified = {u1, u2, u3}
    TeamIds = {t1, t2}
    LogIds = {l1, l2, l3}
    Names = {n1, blank}
    Blank = blank
    NoName = NoName
INVARIANTS
    AtMostOneLeader
    LeadersLeadLiveTeams
    LeaderlessOnlyByLeave
    OneWaitingLog
    DistinctNames
    OnlyCertified
PROPERTIES
    AnswerIsFinal
    LeadershipIsHandedOver
SYMMETRY Symmetry
CHECK_DEADLOCK FALSE
