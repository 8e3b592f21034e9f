SPECIFICATION FairSpec
CONSTANTS
  N = 2
  Cars <- FewCars
  MaxEntered = 1
INVARIANTS
  TypeOK
  EraseOffered
  ReportMatchesPage
PROPERTIES
  ImplementsRounds
  ScanEnds
  EraseEnds
