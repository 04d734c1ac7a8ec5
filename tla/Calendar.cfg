SPECIFICATION Clock
CONSTANT LastYear = 2104
INVARIANTS
    DaysTracked
    GeneralizedTimeAgrees
    UtcTimeWindow
    OnlyCalendarDates
