SPECIFICATION ConsensusSpec
CONSTANTS
    Plates = {1, 2}
    Scale = 4
    max_history = 4
    history_ttl = 1
    minimum_supporting_frames = 2
    minimum_frame_confidence = 2
    stable_confidence_threshold = 2
    conflict_margin = 1
    Frames <- MCDegradedFrames
    MaxTime = 2
INVARIANTS
    StableKeepsDegraded
