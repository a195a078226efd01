\* A client fetches a Gemini or Vertex task while the pollers run.
SPECIFICATION Spec
CONSTANTS
    t1 = t1
    w1 = w1
    w2 = w2
    Tasks <- OneTask
    Workers <- TwoWorkers
    Quotas = {1, 2}
    RealtimeTasks <- OneTask
    OrphanTasks = {}
    MaxPollFailures = 2
    MaxPolls = 2
    MaxFaults = 0
    MaxCrashes = 0
INVARIANT TerminalIsBilled
