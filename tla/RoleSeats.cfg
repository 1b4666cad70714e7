SPECIFICATION FairSpec
CONSTANTS
    None = None
    MaxOuter = 2
    Slots = 2
    Retries = 1
    MaxCalls = 2
    MaxEvents = 1
    FaultSets = {{"acl", "revoke"}, {"spawn", "boot", "child", "event"}, {"outer", "pipe"}, {"control"}}
INVARIANTS WorkersServed TokensDieWithOuter
PROPERTIES OrphanReaped
