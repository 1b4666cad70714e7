CONSTANTS
    Missing = Missing
    Garbage = Garbage
    Kept = Kept
    Removed = Removed
    Skipped = Skipped
    Modules <- MCModules
    Stem <- MCStem
    Start <- MCStart
    Edits <- MCEdits
    Requests <- MCRequests
    Plumbing = {"p"}
    Keys = {"k"}
    MaxKeys = 1
    MaxEnum = 2
    Seats = {"plan", "self_improve", "evaluate"}
    Arms = {"none", "deny_deep", "deep_view_only", "shallow_prompt_only", "disable_shallow"}
    MaxToolCalls <- MCCalls
    RetryK = 1
    MaxSessions = 2
SPECIFICATION SurfaceFairSpec
INVARIANTS ComponentsSound
PROPERTIES EditsSound SessionEnds
CHECK_DEADLOCK FALSE
