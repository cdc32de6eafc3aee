\* The panes of MCCommands.cfg alone.
SPECIFICATION CommandsSpec
CONSTANTS
  Parts = {"panes"}
  None = None
  Torn = Torn
  server = server
  cli = cli
  g1 = g1
  g2 = g2
  w1 = w1
  c1 = c1
  Process = {server, cli}
  Writer = {g1, w1}
  ProcessOf <- RepoWriters
  Key = {k1, k2}
  Alias = {alias}
  Inode = {i1, i2}
  MayFail = TRUE
  MayCrash = TRUE
  s1 = s1
  s2 = s2
  devbox = devbox
  p1 = p1
  a1 = a1
  a2 = a2
  Caller = {r1, r2}
  Session = {s1, s2}
  Origin = {devbox}
  OriginOf <- MCOriginOf
  BridgeName = {p1, a1, a2}
  Primary <- Colliding
  Alternate <- MCAlternate
  MaxTrouble = 3
  copilot = copilot
  d1 = d1
  d2 = d2
  n1 = n1
  n2 = n2
  Agent = {copilot}
  TmuxName = {n1, n2}
  Dir = {d1, d2}
  CwdOf <- MCCwdOf
  BaseOf <- MCBaseOf
  Suffixed <- MCSuffixed
  Climb = 1
  MaxPane = 3
  MaxPid = 2
  Setter = {g1, g2, c1}
  SetterOf <- NameWriters
  Display = {myName}
  Empty = Empty
INVARIANT
    RenamesOwn
