\* Half of the setpoints, of the controllers and of the fields.
SPECIFICATION SpecFlights
CONSTANTS
    Setpoints <- SomeSetpoints
    MessageFields <- SomeMessages
    PIDs <- SomePIDs
    ResetOrder <- SomeResetOrder
    Work <- SomeWork
    Fields <- SomeFields
    MaxSamples = 3
    MaxRequests = 2
INVARIANTS
    FreshControllers
    OneOldRound
    RotatedByTheNewest
    MeasuredFromItsStart
