\* The documented single probe of a half-open circuit.
SPECIFICATION ProbeSpec
CONSTANTS
    Providers = {p1}
    Calls = {c1, c2}
    None = None
    Threshold = 2
    Cooldown = 1
    MaxFailures = 2
INVARIANT OneProbe
