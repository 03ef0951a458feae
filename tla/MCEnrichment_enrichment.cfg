SPECIFICATION FairSpec
CONSTANTS
  Name <- MCName
  NoColumn = NoColumn
  WordsIn <- MCWordsIn
  Files <- MCFiles
  Answers <- MCAnswers
  Outputs <- MCOutputs
  Unanswered = Unanswered
  Malformed = Malformed
  ChunkSize = 1
INVARIANTS
  TypeOK
  FallbackMapsEachColumnOnce
  FieldsCarryTheirRow
  EveryRowAccountedFor
  NoAnswerIsReviewed
  SilentApprovalIsSound
PROPERTY
  EnrichmentEnds
