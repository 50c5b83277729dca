SPECIFICATION Spec
CONSTANTS
  Urls = {a, b, f}
  FileUrls = {f}
  TabRecords = {t1, t2}
  MaxTabs = 2
  MaxPages = 2
  Dls = {d1, d2}
  NoTab = NoTab
  NoDl = NoDl
  NoUrl = NoUrl
INVARIANTS LoadsMatchTabs LoadIsForCurrentEntry OneOwnerEach 
SYMMETRY TabAndUrlSymmetry
CHECK_DEADLOCK FALSE
