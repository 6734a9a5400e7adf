SPECIFICATION FairSpec
CONSTANTS
  st = st  f1 = f1  f2 = f2  byKind = byKind  byName = byName  None = None
  Stores = {st}
  Names = {f1, f2}
  Rules = {byKind, byName}
  RuleFiles = {{byKind}, {byName}}
  With <- KindAndName
  Sources <- NamesF1
  Remote = {}
  Renames <- AToB
  MaxRenamed = 1
  MaxSignals = 2
  MaxMessages = 1
INVARIANTS TypeOK SearchesAllItShould SearchesNothingElse
PROPERTY EventuallySettled
