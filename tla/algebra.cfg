SPECIFICATION Spec
CONSTANTS
  Infinity = 10000000
  MaxIterations = 10
  MinMaxCardinalityRatio = 60
  Queries <- MCQueries
  Orders <- MCOrders
  Preferences <- MCPreferences
INVARIANT SolutionsAreRight
INVARIANT MetadataIsTruthful
INVARIANT ExtensionsStayWhereKnown
CHECK_DEADLOCK FALSE
