SPECIFICATION TextSpec
CONSTANTS
  NoLabel = NoLabel
  Label = {"1", "2"}
  Stray = {"1"}
  Name = {"A", "P", "c"}
  Premises = {}
  AxiomsClosed = FALSE
  Rule = {"Reiteration", "ConditionalIntroduction"}
  Registered = {"Reiteration", "ConditionalIntroduction"}
  BelowRule = {"ConditionalIntroduction"}
  MaxDepth = 3
  MaxDeclared = 1
CONSTANTS
  NoFormula <- NoConclusion
  Formula <- TextFormula
  DeclareLines <- TextDeclareLines
  Axioms <- TextAxioms
  AssumeLines <- TextAssumeLines
  FreshLines <- TextFreshLines
  InitialDeclarations <- TextInitialDeclarations
  DeclarationLists <- TextDeclarationLists
  PremiseLists <- TextPremiseLists
  Flag <- FlagOf
  Uses <- SymbolUses
  Closed <- IsClosed
  Arity <- PremiseArity
  Justifies <- AskRule
  Claims <- TextClaims
  CitedCounts <- TextCitedCounts
  MaxSeen <- TextMaxSeen
  LabelsOf <- TextLabelsOf
  Existential <- TextExistential
  WitnessOf <- MCWitnessOf
  Definitions <- MCDefinitions
  Contradictory <- IsContradiction
  BodyMatches <- MatchesBody
  ReadsAs <- Instance
  Occurs <- ConstantOccurs
INVARIANTS
  ReferencesAgree
  VocabularyAgrees
  CitableLinesAreOpen
  AssumptionsAreInForce
  StacksReachBack
PROPERTIES
  ContextIsLexical
