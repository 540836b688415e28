SPECIFICATION Spec
CONSTANTS
  Handle = {h1, h2, h3}
  NumHdls = 2
  TagSpan = 3
  MaxRequests = 2
  Programs <- AllPrograms
  DescLen = 4
  GuardLen = 1
  ALIGNMENT = 2
  Word = 128
  Layouts <- AllLayouts
INVARIANTS WaitCompletes TestTruthful ListsSound BlocksSound ClientsSound InquiriesHold
SYMMETRY AnyHandle
