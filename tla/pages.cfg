SPECIFICATION ServersSpec
CONSTANTS
  Calls = {1, 2, 3}
  Users = {u1, u2}
  Nobody = Nobody
  Nothing = Nothing
  MaxFaults = 1
  p1 = p1
  p2 = p2
  e1 = e1
  People = {p1, p2}
  Browsers <- BrowsersOfTwo
  Emails = {e1, e2}
  SeedUser = s0
  SeedRows <- NewOrSeeded
  Pads = {pad1, pad2}
  SeedPads = {pad1}
  PadOwner = u1
  Texts = {t1, t2}
  Blank = Blank
  Pieces = {"word", "n", "comma", "brace", "quote", "newline", "backslash"}
  MaxPieces = 2
  MaxChunk = 3
  Tasks = {job1, job2}
  Workers = {w1, w2}
  NoWorker = NoWorker
  MaxAttempts = 3
  Lease = 2
  RetryBaseDelay = 1
  RetryCapExponent = 1
  RetryMaxDelay = 2
  Horizon = 2
INVARIANTS
  TaskTypeOK
  LockMatchesState
  PagesTypeOK
  OneFirstAdmin
  PasswordsAreOwn
  StaleCopiesHaveReasons
  IngestedTextIsQueued
  AnswersAreShown
PROPERTIES
  FollowsLifecycle
  SettingsByAdmins
CHECK_DEADLOCK FALSE
