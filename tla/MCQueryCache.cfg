SPECIFICATION CacheSpec
CONSTANTS
  Fields <- TwoFields
  Box <- PlainAndNaN
  NaNBox = {"nan"}
  NoBox = "none"
  Mix <- Colliding
  Rows = {"few", "other", "many"}
  TooMany = {"many"}
  Capacity = 2
  Miss = "miss"
INVARIANTS TypeOK IndexAgrees
PROPERTIES ImplementsMap
