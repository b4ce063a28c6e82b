SPECIFICATION Spec
CONSTANTS
  w1 = w1  w2 = w2  t1 = t1  t2 = t2  p1 = p1  p2 = p2  o = o
  Writers = {w1, t1, t2}
  Processes = {p1, p2}
  ProcessOf <- MCProcessOf
  ObjectOf <- MCObjectOf
  NoObject = NoObject
  NoWriter = NoWriter
  Titles <- MCTitles
  TitleOf <- MCTitleOf
  MaxDbFaults = 1
  MaxCrashes = 1
INVARIANTS
  TypeOK
  DuplicatesAreRaces
  UidIsOfItsTitle
  TitlesAreStoredAsTheyAre
  SomebodyCreatesTheTables
