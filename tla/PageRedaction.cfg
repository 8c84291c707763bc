\* One page, three matches, up to three boxes on its image.
SPECIFICATION Spec
CONSTANTS
    Length = 7
    Placeholder = 2
    Confidences = {85, 95}
    Context = 1
    Width = 3
    Height = 2
    RasterWidth = 4
    RasterHeight = 3
    Target = 6
    BackTo = 2
    OverlapChars = 2
    MaxAccepted = 2
    MaxBlanks = 2
    MaxToken = 2
    MaxBoxes = 3
INVARIANTS
    FindingsAreSafe TextIsExactlyMasked ChunksAreFaithful TokensSurviveChunking ImageIsSafe
    VerhoeffDetects
CHECK_DEADLOCK FALSE
