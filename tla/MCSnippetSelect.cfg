SPECIFICATION Spec
CONSTANTS
  Texts <- MCTexts
  MaxSize = 13
  MaxWidth = 3
  max_num_bytes = 7
  kNumSnippets = 3
INVARIANTS
  ReadsInText
  SnippetsApart
  WithinShare
