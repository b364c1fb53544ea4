CONSTANTS
  Symbols <- MCSymbols
  Digits <- MCDigits
  Ids <- MCIds
  ActiveIds <- MCActiveIds
  Gens = {g1, g2}
  Updaters = {u1, u2}
  FileLists <- MCFileLists
  MaxUpdates = 2
  MaxAdds = 2
SPECIFICATION Spec
SYMMETRY MCSymmetry
CHECK_DEADLOCK FALSE
INVARIANTS TypeOK UpdatesMerge PeersSurvive FilesSurvive
