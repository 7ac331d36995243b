SPECIFICATION Spec
CONSTANTS
    MaxAttempts = 3
    Types <- GcpKeyTypes
    Statuses <- AllStatuses
    MaxParts = 1
INVARIANT ResponseSettles
CHECK_DEADLOCK FALSE
