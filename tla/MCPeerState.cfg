\* One peer, its clock one tick behind to one tick ahead; two ticks to expiry.
SPECIFICATION Spec
CONSTANTS
    Nodes = {n1}
    None = None
    Expiry = 2
    MaxTime = 5
    Skews <- ClockSkews
INVARIANTS SilentPeerDisappears
PROPERTIES ImplementsPresence
