\* Two requests at once, two jobs, two codes
CONSTANTS
  ProviderOrder <- MCProviderOrder
  Local = "codex-cli"
  Automatic = "auto"
  MaxCode = 2
  Texts = {t1, t2}
  Wordings = {w1, w2}
  FirstDrafts = {w1}
  Redrafts = {w2}
  None = None
  MaxJobs = 2
  MaxBatch = 1
  Modes <- MCModes
  Wanted = {"auto"}
  Rewrites = {}
  Interrupted = TRUE
  Requests = {r1, r2}
  Shells = {r2}
SPECIFICATION Spec
INVARIANTS
  PaidOnlyConfirmed
  PublishedIsWritten
  DamageIsOneApproval
PROPERTIES
  PublishesAtOnce
  RequestsEnd
CHECK_DEADLOCK TRUE
