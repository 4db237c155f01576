CONSTANTS
  RowCount = 6
  TreeNode <- MCTreeNode
  File <- MCFile
  MaxLines = 4
  MinLines = 2
  Window = 3
  MaxDepth = 2
  w1 = w1  w2 = w2  w3 = w3  w4 = w4  c1 = c1  c2 = c2
  Words <- MCWords
  Lower <- MCLower
  Legal <- MCLegal
  Length <- MCLength
  Frequencies <- MCFrequencies
  Chunks = {c1, c2}
  Order <- MCOrder
  Foreign = Foreign
  ScoreOf <- MCScore
  Candidates = 3
  MaxTerms = 2
  Budget = 9
  TopCost = 15
  Limit = 1
  Budgets <- MCBudgets
  Instructions = {0, 12}
  Options <- MCOptions
  States = {1, 9}
  OptionTokens = 3
  MinOptBudget = 3
  MinHeadTokens = 2
  MinOptTokens = 2
  MaxTokens = 16
  MaxRows = 2
  MaxInputs = 3
  SourceTrees <- MCSourceTrees
  Inadmissible = {"new"}
  MaxRefs = 2
SPECIFICATION MCSpec
INVARIANTS ChunksSound PlanBest InputsSound SymbolsRight
CHECK_DEADLOCK FALSE
