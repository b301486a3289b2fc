SPECIFICATION Spec
CONSTANTS
    little = little
    big = big
    Policies = {little, big}
    LastPolicy = big
    Supports <- BothGovernors
    Devices <- MCDevices
    Runs = 2
    MaxReboots = 1
INVARIANTS
    FullRestores
