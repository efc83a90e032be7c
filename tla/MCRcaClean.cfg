CONSTANTS
  Families <- MCFamilies
  Cleans = {TRUE}
SPECIFICATION Spec
INVARIANT RelationalAttributesRight
