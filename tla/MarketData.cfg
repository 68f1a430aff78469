CONSTANTS
  DownloadIds = {d1, d2}
  Providers = {p1, p2}
  ProviderOf <- OneSlowProvider
  Concurrency <- Permits1
  Symbols <- Symbols2
  Cancellers = {c1, c2}
  NoDownload = NoDownload
  d1 = d1
  d2 = d2
  d3 = d3
  p1 = p1
  p2 = p2
  None = None
  Trades = {t1, t2, t3}
  Minutes = 2
SPECIFICATION MCSpec
INVARIANTS MCTypeOK DownloadsEnd FeedsAreRight CountedOnce
PROPERTIES EveryDownloadEnds TradesAreKept
CHECK_DEADLOCK FALSE
