\* Both variants, two questions, any call failing.
SPECIFICATION Spec
CONSTANTS
    VariantCount = 2
    QuestionCount = 2
INVARIANTS ReportsAreTruthful CollectionsAreRemoved
CHECK_DEADLOCK FALSE
