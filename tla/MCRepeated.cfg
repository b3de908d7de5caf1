SPECIFICATION Spec
CONSTANTS
  MaxNesting = 2
  MaxLines = 5
CONSTANTS
  Premise <- MCPremise
  Declaration <- MCDeclaration
  Derivation <- MCDerivation
  Subproof <- MCSubproof
  Case <- MCCase
  Repetition <- MCRepetition
  Declared <- MCDeclared
  Structure <- MCStructure
  Models <- MCModels
  Contradictory <- IsContradiction
  BodyMatches <- MatchesBody
  ReadsAs <- Instance
  Occurs <- ConstantOccurs
  Justifies <- AskRule
  Stated <- Mentioned
  IsSentence <- IsClosed
  SaysSame <- ValueMatches
  CaseChange <- CaseChanges
  StandIn <- Replacement
  SaidAgain <- SaysItAgain
  Reread <- Rewritten
  Unread <- Unresolved
  Adds <- Blocked
  ReadBlock <- NestedBlock
INVARIANTS
  LinesFollow
  ConclusionFollows
  ReplacementGivesClaim
PROPERTIES
  RepeatsAddNoHypothesis
