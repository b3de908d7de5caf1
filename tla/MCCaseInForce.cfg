SPECIFICATION Spec
CONSTANTS
  MaxNesting = 1
  MaxLines = 7
  Subproof = {}
  Repetition = {}
CONSTANTS
  Premise <- MCPremise
  Declaration <- MCDeclaration
  Derivation <- MCDerivation
  Case <- MCCase
  Declared <- MCDeclared
  Structure <- MCStructure
  Models <- MCModels
  Contradictory <- IsContradiction
  BodyMatches <- MatchesBody
  ReadsAs <- Instance
  Occurs <- ConstantOccurs
  Justifies <- AskRule
  Stated <- Mentioned
  IsSentence <- IsClosed
  SaysSame <- ValueMatches
  CaseChange <- CaseChanges
  StandIn <- Replacement
  SaidAgain <- SaysItAgain
  Reread <- Rewritten
  Unread <- Unresolved
  Adds <- Blocked
  ReadBlock <- NestedBlock
INVARIANTS
  ConclusionFollows
