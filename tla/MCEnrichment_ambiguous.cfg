SPECIFICATION Spec
CONSTANTS
  Name <- MCName
  NoColumn = NoColumn
  WordsIn <- MCWordsIn
  Files <- MCFiles
  Answers <- MCAnswers
  Outputs <- MCOutputs
  Unanswered = Unanswered
  Malformed = Malformed
  ChunkSize = 1
INVARIANT AmbiguousRowsAreEnriched
