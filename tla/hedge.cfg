SPECIFICATION FairSpec
INVARIANTS IInv NoOrphanAttempt HealthyAnswerKept OwnFailureSurfaces
PROPERTIES NoHedgeOnceSettled TailCovered
