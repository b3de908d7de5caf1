SPECIFICATION Spec
CONSTANTS
  NoLabel = NoLabel
  Label = {"1"}
  Stray = {"1"}
  Name = {"A", "P", "c"}
  AxiomsClosed = FALSE
  Rule = {"Reiteration", "ConditionalIntroduction", "ProofByContradiction"}
  Registered = {"Reiteration", "ConditionalIntroduction"}
  BelowRule = {"ConditionalIntroduction", "ProofByContradiction"}
  MaxDepth = 2
  MaxDeclared = 1
CONSTANTS
  NoFormula <- NoConclusion
  Formula <- MCFormula
  DeclareLines <- MCFormula
  AssumeLines <- MCFormula
  FreshLines <- MCFreshLines
  Axioms <- FlatAxioms
  Premises <- FlatPremises
  InitialDeclarations <- MCInitialDeclarations
  DeclarationLists <- FlatDeclarationLists
  PremiseLists <- FlatPremiseLists
  Flag <- FlagOf
  Uses <- SymbolUses
  Closed <- IsClosed
  Arity <- PremiseArity
  Justifies <- AskRule
  Claims <- MCClaims
  CitedCounts <- MCCitedCounts
  MaxSeen <- FlatMaxSeen
  LabelsOf <- MCLabelsOf
  Contradictory <- IsContradiction
  BodyMatches <- MatchesBody
  ReadsAs <- Instance
  Occurs <- ConstantOccurs
INVARIANTS
  TypeOK
  NamesAreUnique
  SymbolsAreDeclared
  ArbitraryAreInScope
  BooksBalance
PROPERTIES
  LinesStand
  ScopesAreLexical
