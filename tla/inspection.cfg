SPECIFICATION InspectionSpec
CONSTANTS
    k1 = k1
    k2 = k2
    s1 = s1
    s2 = s2
    NoHost = NoHost
    Settings <- SomeSettings
    SpfPolicies = {s1, s2}
    Keys = {k1, k2}
    Contents <- SomeContents
    FirstZones <- SomeZones
    FirstFiles <- SomeFiles
    Blank = Blank
    Unreadable = Unreadable
    NoAnswer = NoAnswer
    MaxEdits = 2
    MaxFailures = 1
INVARIANTS ReadyIsExact AdviceIsExact ReadyWasPublished
