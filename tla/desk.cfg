SPECIFICATION Spec
CONSTANTS
  Admins = {a1, a2, a3}
  MaxRequests = 4
  Alerts = {"x"}
  Statuses = {"open", "resolved"}
  Analysts = {"", "eve"}
  BaselineSources <- MCBaselineSources
  Slots = {1, 2}
  Observed = {0, 4, 9}
  MinSamples = 2
  Threshold = 3
  MaxCounts = 4
  a1 = a1
  a2 = a2
  a3 = a3
  Tools = {a3}
  Providers = {"openai", "opencode"}
  Keyed = {"openai"}
  DailyLimit = 1
  Day = 1
  LastTime = 2
  Areas = {"triage", "baselines", "sandbox", "assistant"}
SYMMETRY Symm
INVARIANTS TriageKept BaselineOfSamples DeviationsReported OwnRows KeysStayHome CallsCapped
CHECK_DEADLOCK FALSE
