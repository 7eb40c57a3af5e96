SPECIFICATION Md5Spec
CONSTANTS
    Jobs <- MCJobs
    Known <- MCKnown
INVARIANTS
    WordsFillBlocks
    PaddingFillsBlocks
    DigestIsKnown
CHECK_DEADLOCK FALSE
