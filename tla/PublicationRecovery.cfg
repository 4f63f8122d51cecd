SPECIFICATION RebasedSpec
CONSTANTS
    Active = 0
    Cooldown = 0
    MaxGen = 2
    MaxUpset = 1
PROPERTIES
    NeverOlder
    QueueReaches
    Recovers
