\* One sweep over a connection that is not GitHub's; nothing goes wrong.
SPECIFICATION Spec
CONSTANTS
    Connections = {c1}
    GitHub = {}
    Sweeps = {s1}
    Requests = {}
    None = None
    Faults = {}
    MaxRotations = 2
    MaxCrashes = 0
PROPERTIES ReauthOnlyWhenDead
