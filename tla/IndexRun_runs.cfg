SPECIFICATION Spec
CONSTANTS
  Book = {1}
  NoBook = NoBook
  Unavailable = {}
  Runner = {r1, r2}
  Limit = 1
  MaxContent = 2
  MaxCrashes = 1
INVARIANTS IndexedIsSearchable InsertedOnce 
PROPERTIES RunsEnd
