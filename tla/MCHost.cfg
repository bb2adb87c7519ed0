SPECIFICATION FairSpec
CONSTANTS
    Procs = {p1, p2, p3}
    p1 = p1  p2 = p2  p3 = p3
    s1 = s1  s2 = s2  l1 = l1  d1 = d1  d2 = d2  ep1 = ep1  a1 = a1  Bad = Bad
    Origins <- MCOrigins
    Anywhere <- MCAnywhere
    Native <- MCNative
    Lists <- MCLists
    Files <- MCFiles
    Contents <- MCContents
    Static <- MCStatic
    Configs <- MCConfigs
    Forward0 = FALSE
INVARIANTS OneOwner StopsClean  LanKept
PROPERTIES StartsOrLeaves LatestList
