SPECIFICATION Spec
CONSTANTS
  Marks <- MCMarks
  BlankPercent = 2
  OcrPercent = 90
  Target = 9
  Maximum = 12
  Overlap = 4
  ParentMaximum = 16
  Provisional = FALSE
  Pieces <- MCPieces
  Decoded <- MCDecoded
  Chains <- MCChains
  MaxRetries = 1
  Pdfs <- MCPdfs
  Flaws = {"whole", "lost", "unboxed", "misplaced", "flat", "blurred", "nested"}
  FailedStatus = "review_required"
INVARIANTS WithinLimits EvidenceReachesTheIndex ProvisoStaysAttached
