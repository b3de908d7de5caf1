SPECIFICATION Spec
CONSTANTS
  NoLabel = NoLabel
  Stray = {}
  Name = {"P", "R", "c"}
  Premises = {}
  Axioms = {}
  AxiomsClosed = TRUE
  Rule = {"UniversalGeneralization", "ExistentialElimination", "ExistentialIntroduction", "UniversalInstantiation", "ConditionalIntroduction", "Reiteration"}
  Registered = {"UniversalGeneralization", "ExistentialElimination", "ExistentialIntroduction", "UniversalInstantiation", "ConditionalIntroduction", "Reiteration"}
  BelowRule = {"UniversalGeneralization", "ExistentialElimination", "ConditionalIntroduction"}
  MaxDepth = 3
  MaxDeclared = 1
CONSTANTS
  NoFormula <- NoConclusion
  Formula <- MCFormula
  InitialDeclarations <- MCInitialDeclarations
  DeclarationLists <- MCDeclarationLists
  PremiseLists <- MCPremiseLists
  DeclareLines <- MCDeclareLines
  AssumeLines <- MCAssumeLines
  FreshLines <- MCFreshLines
  Claims <- MCClaims
  Label <- MCLabel
  Flag <- FlagOf
  Uses <- SymbolUses
  Closed <- IsClosed
  Arity <- PremiseArity
  Justifies <- AskRule
  CitedCounts <- MCCitedCounts
  LabelsOf <- MCLabelsOf
  MaxSeen <- MCMaxSeen
  Structure <- MCStructure
  TrueIn <- MCTrueIn
  Means <- DeclaredTrue
  Contradictory <- IsContradiction
  BodyMatches <- MatchesBody
  ReadsAs <- Instance
  Occurs <- ConstantOccurs
  Denotation <- MCDenotation
  Domain <- MCDomain
  BodyTrue <- MCBodyTrue
  Reinterpreted <- MCReinterpreted
  Holds <- MCHolds
INVARIANTS
  Sound
