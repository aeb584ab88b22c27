\* Two requests, two readers, a restart at any time, under fairness; no symmetry, it is
\* unsound for liveness.
SPECIFICATION FairSpec
CONSTANTS
    Requests = {r1, r2}
    Readers = {x1, x2}
    MaxVersion = 4
    FailAt = {"first", "later"}
    Watcher = Watcher
    Nobody = Nobody
INVARIANTS PublishedIsApplied QueueIsNews
PROPERTIES FollowsFeed LastVersionTold
