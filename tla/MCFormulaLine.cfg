SPECIFICATION Spec
CONSTANTS
  NoLabel = NoLabel
  Stray = {}
  Name = {"P", "Q", "c"}
  DeclareLines = {}
  Premises = {}
  Axioms = {}
  AxiomsClosed = TRUE
  Rule = {"UniversalGeneralization", "ConditionalIntroduction", "Reiteration"}
  Registered = {"UniversalGeneralization", "ConditionalIntroduction", "Reiteration"}
  BelowRule = {"UniversalGeneralization", "ConditionalIntroduction"}
  MaxDepth = 4
  MaxDeclared = 1
  PremiseLists = {}
CONSTANTS
  NoFormula <- NoConclusion
  Formula <- FormulaLineFormula
  InitialDeclarations <- FormulaLineInitial
  DeclarationLists <- FormulaLineDeclarations
  AssumeLines <- FormulaLineAssume
  FreshLines <- FormulaLineFresh
  Claims <- FormulaLineClaims
  Label <- MCLabel
  Flag <- FlagOf
  Uses <- SymbolUses
  Closed <- IsClosed
  Arity <- DiscreteArity
  Justifies <- MCJustifies
  CitedCounts <- MCCitedCounts
  LabelsOf <- MCLabelsOf
  MaxSeen <- FormulaLineMaxSeen
  Structure <- FormulaLineStructure
  TrueIn <- MCTrueIn
  Means <- CaptureMeans
  Contradictory <- IsContradiction
  BodyMatches <- MatchesBody
  ReadsAs <- Instance
  Occurs <- ConstantOccurs
INVARIANTS
  TopLevelIsSound
