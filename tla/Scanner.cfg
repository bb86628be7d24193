\* Chunks of up to three of five characters: a header comes in one to four chunks.
SPECIFICATION ScanSpec
CONSTANTS
  Chars = {"*", "B", "0", "1", "NUL"}
  Pattern <- MCPattern
  Prompts <- MCPrompts
  MaxChunk = 3
INVARIANTS
  ScanInv
  AnswersAreAsked
