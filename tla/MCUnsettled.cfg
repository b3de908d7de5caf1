SPECIFICATION Spec
CONSTANTS
  MaxNesting = 2
  MaxLines = 4
  Declaration = {}
  Subproof = {}
  Repetition = {}
CONSTANTS
  Premise <- UnsettledPremise
  Derivation <- UnsettledDerivation
  Case <- MCCase
  Declared <- MCDeclared
  Structure <- MCStructure
  Models <- MCModels
  Contradictory <- IsContradiction
  BodyMatches <- MatchesBody
  ReadsAs <- Instance
  Occurs <- ConstantOccurs
  Justifies <- AskRule
  Stated <- Mentioned
  IsSentence <- IsClosed
  SaysSame <- ValueMatches
  CaseChange <- CaseChanges
  StandIn <- Replacement
  SaidAgain <- SaysItAgain
  Reread <- Rewritten
  Unread <- Unresolved
  Adds <- Blocked
  ReadBlock <- NestedBlock
INVARIANTS
  TheoremFollows
