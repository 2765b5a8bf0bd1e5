CONSTANTS
    None = None
    Image = {old, new, other}
    Repository = {old, new}
    Candidate = new
    CommitOf <- MCCommitOf
    CandidateCommit <- MCCandidateCommit
    MaxBoot = 4
    Polls = 1
    MaxMeddling = 2
    MaxStray = 1
    Patience = 1
SPECIFICATION FairSpec
INVARIANTS
    DrainedStaysIdle
    ReplacesWhatItDrained
    OutcomeHolds
PROPERTIES
    OpensOnlyVerified
    Finishes
CHECK_DEADLOCK FALSE
