SPECIFICATION Spec
CONSTANTS
  AskedRules <- MatcherRules
  Candidate <- MatcherFormulas
  Claim <- MatcherFormulas
  Contexts <- MatcherContexts
  Structures <- MatcherStructuresOf
  Fits <- MCFits
  Axioms <- MCAxioms
  MaxCited = 2
  MaxCardinal = 2
  Term <- MCTerm
  IsApplication <- MCIsApplication
  Symbol <- MCSymbol
  Arguments <- MCArguments
  Problems <- MCProblems
  Meanings <- MCMeanings
  Contradictory <- IsContradiction
  BodyMatches <- MatchesBody
  ReadsAs <- Instance
  Occurs <- ConstantOccurs
INVARIANTS
  VerdictsAreSound
