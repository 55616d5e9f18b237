\* The worker's two threads, its App Server and the provider's control files.
SPECIFICATION FairSpec
CHECK_DEADLOCK FALSE
INVARIANTS RecordAnswersRequests SuccessIsEarned
PROPERTY WorkerEnds
