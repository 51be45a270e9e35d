SPECIFICATION Spec
CONSTANTS
    Plates = {1, 2}
    Scale = 4
    max_history = 3
    history_ttl = 2
    minimum_supporting_frames = 2
    minimum_frame_confidence = 2
    stable_confidence_threshold = 2
    conflict_margin = 1
    duplicate_cooldown = 2
    Frames <- MCOneFrame
    MaxTime = 3
    MaxFrames = 3
    Threads = {th1, th2}
    Operations = {"recognize", "recognize_at", "reset", "close"}
    th1 = th1
    th2 = th2
SYMMETRY Symmetry
PROPERTIES
    WaitersAreTreatedRight
