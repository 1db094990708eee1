\* Searches and the explanations of their hits.
SPECIFICATION Spec
CONSTANTS
  None = None
  VectorLike = {"embedding"}
  PartOf <- MCPartOf
  Searches <- SomeSearches
INVARIANTS RunningTotals StepsExplained ViewsAgree TermsListedOnce FunctionsReported
