SPECIFICATION Spec
CONSTANTS
  NoLabel = NoLabel
  Stray = {}
  Name = {"R", "c"}
  DeclareLines = {}
  Premises = {}
  Axioms = {}
  AxiomsClosed = TRUE
  Rule = {"UniversalInstantiation", "UniversalGeneralization"}
  Registered = {"UniversalInstantiation", "UniversalGeneralization"}
  BelowRule = {}
  MaxDepth = 2
  MaxDeclared = 1
  AssumeLines = {}
CONSTANTS
  NoFormula <- NoConclusion
  Formula <- CaptureFormula
  InitialDeclarations <- CaptureInitial
  DeclarationLists <- CaptureDeclarations
  PremiseLists <- CapturePremises
  FreshLines <- CaptureFresh
  Claims <- AllClaims
  Label <- MCLabel
  Flag <- FlagOf
  Uses <- SymbolUses
  Closed <- IsClosed
  Arity <- DiscreteArity
  Justifies <- MCJustifies
  CitedCounts <- MCCitedCounts
  LabelsOf <- MCLabelsOf
  MaxSeen <- CaptureMaxSeen
  Structure <- CaptureStructure
  TrueIn <- MCTrueIn
  Means <- CaptureMeans
  Contradictory <- IsContradiction
  BodyMatches <- MatchesBody
  ReadsAs <- Instance
  Occurs <- ConstantOccurs
INVARIANTS
  TopLevelIsSound
