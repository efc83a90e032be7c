CONSTANTS
  Families <- MCFamilies
  Cleans = {FALSE, TRUE}
SPECIFICATION Spec
INVARIANT NamesLeadToConcepts
INVARIANT StepsFollowDefinition
INVARIANT EveryStepFinds
