SPECIFICATION Spec
CONSTANTS
    Presets <- MCPresets
    Names <- MCNames
    Forms <- MCForms
    Stored <- MCStored
    MinSecs = 1
    MaxSecs = 5
    MaxCustoms = 2
    AlertInterval = 2
    Places = {0, 2, 6}
    Noise = 1
    NoName = "none"
    Never = Never
    MaxEdits = 2
    MaxAlerts = 2
    MaxSilence = 6
INVARIANTS
    IntervalSound
    NeverSilent
