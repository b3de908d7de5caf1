SPECIFICATION Spec
CONSTANTS
  MaxLines = 2
  MaxGivens = 1
  MaxDeclared = 2
  MaxTheorems = 2
CONSTANTS
  Name <- MCName
  Declaration <- MCDeclaration
  Formula <- MCFormula
  Symbols <- SymbolsOf
  Standard <- MCStandard
  Theory <- MCTheory
  DeclareLines <- MCDeclareLines
  PremiseLines <- MCPremiseLines
  AxiomLines <- MCAxiomLines
  Claims <- MCClaims
  Structure <- MCStructure
  TrueIn <- MCTrueIn
  Means <- MCMeans
  Teaches <- MCTeaches
  ReadsDeclarations <- MCReads
  Matches <- MatchesConclusion
  Renamings <- MCRenamings
  Rename <- Put
  Renamed <- PutName
  NoName <- NoSymbol
  Contradictory <- IsContradiction
  BodyMatches <- MatchesBody
  ReadsAs <- Instance
  Occurs <- ConstantOccurs
CHECK_DEADLOCK FALSE
INVARIANTS
  TheoremsHold
  LinesFollow
