SPECIFICATION Spec
CONSTANTS
  AskedRules <- MCAskedRules
  Candidate <- MCCandidate
  Claim <- MCClaim
  Contexts <- MCContexts
  Structures <- MCStructures
  Fits <- MCFits
  Axioms <- MCAxioms
  MaxCited = 2
  MaxCardinal = 2
  Term <- MCTerm
  IsApplication <- MCIsApplication
  Symbol <- MCSymbol
  Arguments <- MCArguments
  Problems <- MCProblems
  Meanings <- MCMeanings
  Contradictory <- IsContradiction
  BodyMatches <- MatchesBody
  ReadsAs <- Instance
  Occurs <- ConstantOccurs
INVARIANTS
  VerdictsAreSound
  AxiomLinesAreAxioms
  LinksAreEquations
  WalksEnd
  ClosedWhenDone
PROPERTIES
  CallsReturn
