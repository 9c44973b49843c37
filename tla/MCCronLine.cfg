SPECIFICATION Spec
CONSTANTS
    Word = 65536
    Lines <- MCLines
    PeriodLines <- MCPeriodLines
    Days <- MCDays
INVARIANTS
    FieldsAsDocumented
    ElapsesWhenAsked
    HangsOnlyOnSkip
    PeriodsAsDocumented
    CheckedElapses
PROPERTIES
    StableUnitName
\* A generator that hangs does nothing more.
CHECK_DEADLOCK FALSE
