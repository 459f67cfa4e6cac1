SPECIFICATION Spec
CONSTANTS
    None = None
    Text <- Texts
    Number = {0, 1, 2, 3, 4}
    MaxTitle = 2
    MaxPlatform = 2
    MaxMinutes = 2
    MaxText = 2
    MaxHours = 2
    HoursInWeek = 3
INVARIANTS
    ValidatedIsStorable
