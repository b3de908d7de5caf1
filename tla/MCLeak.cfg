SPECIFICATION Spec
CONSTANTS
  NoLabel = NoLabel
  Stray = {}
  Name = {"R", "Q", "a", "b", "X"}
  DeclareLines = {}
  Premises = {}
  Axioms = {}
  AxiomsClosed = TRUE
  Rule = {"RelationSymmetry", "ConditionalIntroduction"}
  Registered = {"RelationSymmetry", "ConditionalIntroduction"}
  BelowRule = {"ConditionalIntroduction"}
  MaxDepth = 3
  MaxDeclared = 2
  PremiseLists = {}
  FreshLines = {}
CONSTANTS
  NoFormula <- NoConclusion
  Formula <- LeakFormula
  InitialDeclarations <- LeakInitial
  DeclarationLists <- LeakDeclarations
  AssumeLines <- LeakAssume
  Claims <- LeakClaims
  Label <- MCLabel
  Flag <- FlagOf
  Uses <- SymbolUses
  Closed <- IsClosed
  Arity <- DiscreteArity
  Justifies <- MCJustifies
  CitedCounts <- MCCitedCounts
  LabelsOf <- MCLabelsOf
  MaxSeen <- LeakMaxSeen
  Structure <- LeakStructure
  TrueIn <- MCTrueIn
  Means <- DeclaredTrue
  Contradictory <- IsContradiction
  BodyMatches <- MatchesBody
  ReadsAs <- Instance
  Occurs <- ConstantOccurs
INVARIANTS
  SoundInScope
