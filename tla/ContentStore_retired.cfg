SPECIFICATION Spec
CONSTANTS
  NumRows = 2
  BATCH_SIZE = 1
  MaxWrites = 1
  Plans <- MCPlans
  Ciphers <- MCCiphers
  Words = {"note"}
  Texts <- MCTexts
  Legacy <- MCLegacy
PROPERTY RecordMovesWhenResealed
