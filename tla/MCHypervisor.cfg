CONSTANTS
    Mdevs = {1, 2}
    Procs = {1, 2}
    Cpids = {0, 1}
    MaxBoots = 2
    MaxIrqs = 1
    MaxHazards = 0
    ProcsOf <- MCProcsOf
SPECIFICATION Spec
CHECK_DEADLOCK FALSE
INVARIANTS
    RegistrationIsRight
    
PROPERTY
    CallsReturn
