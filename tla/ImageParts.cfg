\* A directory of an image that no entry comes from.
CONSTANTS
    Images <- TwoImages
    MaxRequests = 1
SPECIFICATION Spec
INVARIANT RootOutlivesItsParts
CHECK_DEADLOCK FALSE
