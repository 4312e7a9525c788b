SPECIFICATION Spec
CONSTANTS
  Families = {"v4", "v6"}
  Net <- MCNet
  Top <- MCTop
  MaxAddr <- MCMaxAddr
  Domains = {"a", "b"}
  Names = {"a.", "A", "b"}
  Normal <- MCNormal
  None = None
  RecordTtl = 3
  Tasks = {t1, t2}
  Requests <- MCRequests
  MaxSkew = 1
  MaxTime = 4
INVARIANTS
  MapsAreInverse
  ReservedStayFree
  AnswersHonoured
PROPERTIES
  ServfailMeansFull
SYMMETRY TaskSymmetry
