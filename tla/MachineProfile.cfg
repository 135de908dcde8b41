SPECIFICATION Spec
CONSTANTS
    Profile = {1, 2}
    Id = {i}
    Nil = Nil
    Modes <- Default
    Routed = {}
    MaxChanges = 0
    MaxEdits = 0
    MaxSaves = 0
    MaxFaults = 1
PROPERTIES
    ExistingStaysActive
