\* Workloads, see MCWorkloads.
CONSTANTS
  o1 = o1
  o2 = o2
  o3 = o3
  o4 = o4
  o5 = o5
  q1 = q1
  f1 = f1
  h1 = h1
  Orders = {o1, o2, o3, o4, o5}
  ReadTools = {o5}
  Queries = {q1}
  Fills = {f1}
  Hyperopts = {h1}
  Configs <- MCConfigs
  Workloads <- MCWorkloads
  Snapshots <- MCSnapshots
  Installer = {"i1", "i2"}
  File = {"SKILL.md", "references"}
  SkillMd = "SKILL.md"
  MaxClock = 1
  MaxShopFaults = 1
SPECIFICATION MCSpec
INVARIANTS OrdersAccounted FeedTruth  SkillsKept
PROPERTIES CallReturns
CHECK_DEADLOCK FALSE
