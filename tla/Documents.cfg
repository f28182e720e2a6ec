SPECIFICATION Spec
CONSTANTS
  MaxFinite = 98
  MaxWhole = 60
  Tokens <- MCTokens
  MaxTokens = 9
  MaxDepth = 3
  Contents <- MCContents
  Entries <- MCEntries
  Queries <- MCQueries
  Counts <- MCCounts
  PutKeys <- MCPutKeys
  MaxK = 2
  ReadErrors = TRUE
INVARIANTS
  ParserExact
  KeptExactly
  QueryExact
  LanesAgree
  SearchExact
