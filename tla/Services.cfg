SPECIFICATION ServicesSpec
CONSTANTS
  s1 = s1
  s2 = s2
  s3 = s3
  o1 = o1
  p1 = p1
  c1 = c1
  c2 = c2
  t1 = t1
  n1 = n1
  n2 = n2
  n3 = n3
  k1 = k1
  k2 = k2
  a1 = a1
  a2 = a2
  q1 = q1
  q2 = q2
  q3 = q3
  f1 = f1
  f2 = f2
  y1 = y1
  y2 = y2
  e1 = e1
  e2 = e2
  u1 = u1
  u2 = u2
  x1 = x1
  x2 = x2
  g1 = g1
  g2 = g2
  Savers = {s1, s2, s3}
  Others = {o1}
  Files = {p1}
  Target <- OneFile
  MaxRetries = 2
  Calls = {c1, c2, t1}
  Ticks = {t1}
  Nobody = Nobody
  MaxBody = 2
  MaxComments = 2
  Happens = {"crash", "lost answer", "delete"}
  Notices = {n1, n2, n3}
  PullOf <- PullOfNotice
  Consumers = {k1, k2}
  MaxDeliveries = 2
  QueueFaults = {"enqueue fails", "refresh fails", "request fails", "consumer dies"}
  Artifacts = {a1, a2}
  Requests = {q1, q2, q3}
  Of <- ArtifactOf
  BlobFaults = {"store error", "lost answer", "request dies", "sweep error", "sweep dies"}
  Transcripts = {f1, f2}
  Parts <- PartsOf
  Syncs = {y1, y2}
  MaxTime = 2
  SyncFaults = {"unreadable", "limited", "refused", "too large", "rejected", "vanished", "killed"}
  Commands = {e1, e2}
  Sha <- OneHash
  Uploads = {u1, u2}
  SpoolFaults = {"server error", "lost answer", "rejected", "unauthorized", "append fails", "killed"}
  MaxUploads = 2
  MaxCallbacks = 2
  PersistFaults = {"lost answer", "store error", "server error"}
  Spans = {x1, x2}
  CustomerOf <- TwoCustomers
  LastMinute = 2
  Redeliveries = 1
  MeterFaults = {"cron fails", "send fails", "stripe fails", "lost answer", "delivered twice", "sent again"}
SYMMETRY Symmetry
CHECK_DEADLOCK FALSE
INVARIANTS
  LandsOnce
  OverwritesOnlyInWindow
  AccumulatesAlone
  OneCommentInTime
  NoOrphan
  
  AckedIsShown
  LeftOnlyWhenExhausted
  WrittenSurvives
  MissingIsRevisited
  BytesAreClaimed
  NothingSkipped
  SpooledSurvives
  FullSessionStands
  ChargedOnce
  CountedIsSettled
