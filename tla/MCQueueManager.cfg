\* Four requests of three priorities; the limit moves between 0, 1 and 3.
SPECIFICATION FairSpec
CONSTANTS
    Requests = {r1, r2, r3, r4}
    Groups = {"default", "enterprise"}
    Intents = {"chat", "urgent"}
    DefaultLimit = 2
    Limits = {0, 1, 3}
INVARIANTS TypeOK SlotsAccountedFor NoStall
PROPERTIES NoOvertaking ImplementsPool TopPriorityServed
