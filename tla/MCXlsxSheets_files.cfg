SPECIFICATION DirectSpec
CONSTANTS
  f1 = f1
  f2 = f2
  f3 = f3
  File = {f1, f2, f3}
  Direct = {f3}
  Posts <- PostsTogether
  NoFile = NoFile
  Upload <- Uploads
  DETERMINISTIC_BATCH_SIZE = 1
  ScanRows = 3
  MaxConsecutiveEmpty = 2
INVARIANTS
  RejectedForAnotherFile
  EveryDataRowAccountedFor
  HeadersAreReasonable
  PdfPagesAreRead
PROPERTIES
  EveryExtractionEnds
CHECK_DEADLOCK FALSE
