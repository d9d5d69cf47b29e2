SPECIFICATION Spec
CONSTANTS
  Workers = {w1, w2}
  Reported = {"active", "succeeded", "missing", "stopped", "pending"}
  Verdicts = {"ok", "uncertain"}
  MaxFrames = 1
INVARIANTS SameView SameWorkerFacts SameCondition
