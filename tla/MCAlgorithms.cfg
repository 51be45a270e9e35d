SPECIFICATION Spec
CHECK_DEADLOCK FALSE
CONSTANTS
    allowed_letters <- MCLetters
    strip_ascii_whitespace = TRUE
    strip_hyphen = TRUE
    maximum_input_length = 32
    Scale = 4
    tiling_enabled = TRUE
    tile_width = 4
    tile_height = 4
    overlap_ratio = 1
    maximum_tiles = 4
    merge_iou_threshold = 1
    maximum_detections = 3
    weight <- MCWeight
    same_model_iou_threshold = 2
    same_model_min_area_overlap_threshold = 3
    cross_model_iou_threshold = 1
    cross_model_min_area_overlap_threshold = 2
    maximum_groups = 2
    charset <- MCCharset
    blank_index = 1
    classes_per_step = 2
    result_limit = 2
    confusion_pairs <- MCPairs
    ConfusionScale = 2
    confusion_weight = 1
    plates <- MCPlates
    Unit = 2
    source_weights <- MCSources
    recognition_weight = 2
    crop_quality_weight = 1
    candidate_margin_weight = 1
    layout_weight = 1
    minimum_candidate_confidence = 1
    max_candidates = 2
    size_max = 31
    Views <- MCViews
    Regions <- MCRegions
    Destinations <- MCDestinations
    max_image_width = 3
    max_image_height = 3
    max_image_bytes = 31
    MaxTextLength = 9
    MaxExtent = 14
    MaxFound = 4
    MaxEvidence = 3
    MaxTimesteps = 4
    MaxCrops = 2
    MaxParts = 4
    MaxRows = 3
    NaN = NaN
    MaxCharacters = 8
    MaxPlateRows = 5
    max_result_bytes = 400
    ProvinceCodes <- MCProvinceCodes
    TailCodes <- MCTailCodes
    FoundBoxes <- MCFoundBoxes
    TiledExtents <- MCTiledExtents
    Detections <- MCDetections
    Rows <- MCRows
    CropsRead <- MCCropsRead
    Candidates <- MCCandidates
    EmptyPlates <- MCEmptyPlates
    EmptyEvidence <- MCEmptyEvidence
    Letterboxes <- MCLetterboxes
    TensorShapes <- MCTensorShapes
    Images <- MCImages
    OutputSpecs <- MCOutputSpecs
    CandidateRows <- MCCandidateRows
    RowImage <- MCRowImage
    RowInput <- MCRowInput
    Contracts <- MCContracts
    Sizes <- MCSizes
    CornerPoints <- MCCornerPoints
    GeometryConfig <- MCGeometryConfig
    AlignerConfig <- MCAlignerConfig
    AlignedSource <- MCAlignedSource
    BoxOfCorners <- MCBoxOfCorners
    CornerConfidences <- MCCornerConfidences
    CropInputs <- MCCropInputs
    LayoutConfig <- MCLayoutConfig
    ComponentPlate <- MCComponentPlate
    RowConfig <- MCRowConfig
    PlateRows <- MCPlateRows
    MaxTile = 8
    PlateWidth = 4
    tensor_budget = 40
    ModelUnit = 60
    ModelOne = 2
    max_model_timesteps = 2
    max_model_classes = 3
    AlignmentUnit = 20
    CropUnit = 4
    LayoutUnit = 20
    RowUnit = 20
INVARIANTS
    PrefixExact
    TilesFindOnce
    GroupsAreComponents
    BeamSumsPaths
    ReadingsMeetTheirLayout
    ViewsStayInside
    BufferHoldsResult
    LetterboxReturns
    DetectionsAreCandidates
    TensorIsImage
    SelfTestDecides
    CornersInOrder
    CropsCoverPlate
    LayoutSeparatesGroups
    RowsKeepInk
