\* Two requests for one or two images, by any tools, with or without the agent.
CONSTANTS
    Images <- TwoImages
    MaxRequests = 2
SPECIFICATION Spec
INVARIANTS TypeOK SourcesStay RootIsThere OnlyKnownLeaks
CHECK_DEADLOCK FALSE
