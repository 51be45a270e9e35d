SPECIFICATION Spec
CONSTANTS
    Scale = 2
    accepted_confidence_threshold = 2
    review_confidence_threshold = 1
    strong_conflict_threshold = 2
    minimum_crop_quality = 1
    minimum_geometry_score = 0
    minimum_effective_detector_confidence = 1
    c1 = c1
    Calls = {c1}
    fast = fast
    slow = slow
    spare = spare
    disabled = disabled
    recognizers <- FourRecognizers
    Enabled = {slow, spare, fast}
    Required = {fast}
    MaxDetections = 2
    MaxCrops = 2
    MaxFailures = 3
INVARIANTS
    FailuresDecide
    FailuresCounted
    StopsAreHonoured
