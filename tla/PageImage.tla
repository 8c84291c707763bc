------------------------------ MODULE PageImage ------------------------------
(***************************************************************************)
(* The masked image of a page (services/retrieval/image_redaction.py):     *)
(* the boxes of the accepted findings are checked, padded, scaled to the   *)
(* raster and merged, and what they cover is painted black.                *)
(*                                                                         *)
(* A box is [x0, y0, x1, y1] in points of a page of Width by Height.  The  *)
(* image of a page is rendered, or it is the image that was uploaded, of   *)
(* which the extraction has found the boxes as it is stored; before it is  *)
(* painted it is turned as its orientation tells, and the boxes are not.   *)
(***************************************************************************)
EXTENDS Integers, Sequences, FiniteSets

CONSTANTS Width, Height,                \* of the page
          RasterWidth, RasterHeight     \* of its image, if it is rendered

ASSUME ImageAssumption == {Width, Height, RasterWidth, RasterHeight} \subseteq Nat \ {0}

\* The eight orientations an uploaded image can ask to be shown in.
Orientations == [swapped : BOOLEAN, mirrored : BOOLEAN, flipped : BOOLEAN]
AsStored == [swapped |-> FALSE, mirrored |-> FALSE, flipped |-> FALSE]

\* _extract_page_images: the page as it is rendered, or the uploaded image,
\* whose pixels are the points of the page.
Images ==
    {[width |-> RasterWidth, height |-> RasterHeight, orientation |-> AsStored]}
        \union [width : {Width}, height : {Height}, orientation : Orientations]

\* exif_transpose: the raster that is painted, and where its pixels are stored.
TurnedWidth(image) == IF image.orientation.swapped THEN image.height ELSE image.width
TurnedHeight(image) == IF image.orientation.swapped THEN image.width ELSE image.height
Raster(image) == (0..(TurnedWidth(image) - 1)) \X (0..(TurnedHeight(image) - 1))

StoredPixel(image, p) ==
    LET turn == image.orientation
        q == IF turn.swapped THEN <<p[2], p[1]>> ELSE p
    IN  <<IF turn.mirrored THEN image.width - 1 - q[1] ELSE q[1],
          IF turn.flipped THEN image.height - 1 - q[2] ELSE q[2]>>

LesserOf(a, b) == IF a <= b THEN a ELSE b
GreaterOf(a, b) == IF a >= b THEN a ELSE b

\* What a finding can be on record with; located is what is a box, and on the page.
Boxes == [x0 : 0..Width, y0 : 0..Height, x1 : 0..Width, y1 : 0..Height]
Located(box) == box.x0 < box.x1 /\ box.y0 < box.y1 /\ box.x0 < Width /\ box.y0 < Height
LocatedBoxes == {box \in Boxes : Located(box)}

\* padding_points, clamped to the page; scale_x and scale_y are of the turned
\* image to the page.  In parts of a pixel: 1 / Width of one, and 1 / Height.
Padded(box, padding, image) ==
    [x0 |-> GreaterOf(0, box.x0 - padding) * TurnedWidth(image),
     y0 |-> GreaterOf(0, box.y0 - padding) * TurnedHeight(image),
     x1 |-> LesserOf(Width, box.x1 + padding) * TurnedWidth(image),
     y1 |-> LesserOf(Height, box.y1 + padding) * TurnedHeight(image)]

Touch(a, b) ==
    /\ GreaterOf(a.x0, b.x0) <= LesserOf(a.x1, b.x1)
    /\ GreaterOf(a.y0, b.y0) <= LesserOf(a.y1, b.y1)

Hull(a, b) ==
    [x0 |-> LesserOf(a.x0, b.x0), y0 |-> LesserOf(a.y0, b.y0),
     x1 |-> GreaterOf(a.x1, b.x1), y1 |-> GreaterOf(a.y1, b.y1)]

\* One pass of the inner loop for the first box: it grows by every later box it
\* touches on the way; what it does not touch is left for the next.
Absorb(boxes) ==
    LET grown[n \in 1..Len(boxes)] ==
            IF n = 1 THEN [box |-> boxes[1], rest |-> <<>>]
            ELSE LET so == grown[n - 1] IN
                 IF Touch(so.box, boxes[n]) THEN [so EXCEPT !.box = Hull(@, boxes[n])]
                 ELSE [so EXCEPT !.rest = Append(@, boxes[n])]
    IN  grown[Len(boxes)]

\* A pass over all boxes.
Pass(boxes) ==
    LET pass[n \in 0..Len(boxes)] ==
            IF n = 0 THEN [done |-> <<>>, todo |-> boxes]
            ELSE LET so == pass[n - 1] IN
                 IF so.todo = <<>> THEN so
                 ELSE LET first == Absorb(so.todo)
                      IN  [done |-> Append(so.done, first.box), todo |-> first.rest]
    IN  pass[Len(boxes)].done

\* Fault: one pass has to do.
MergedOnce(boxes) == Pass(boxes)

\* merge_bounding_boxes: passes until one merges nothing, of which every one
\* but the last makes the boxes fewer.
Merged(boxes) ==
    LET passed[n \in 0..Len(boxes)] == IF n = 0 THEN boxes ELSE Pass(passed[n - 1])
    IN  passed[Len(boxes)]

\* Fault: the pixels that are all in the box.
PixelsInside(box, image) ==
    {p \in Raster(image) :
        /\ box.x0 <= p[1] * Width /\ (p[1] + 1) * Width <= box.x1
        /\ box.y0 <= p[2] * Height /\ (p[2] + 1) * Height <= box.y1}

\* From the floor of one corner to the ceiling of the other; the rectangle that
\* is drawn has both.
Pixels(box, image) ==
    {p \in Raster(image) :
        /\ box.x0 \div Width <= p[1] /\ p[1] <= (box.x1 + Width - 1) \div Width
        /\ box.y0 \div Height <= p[2] /\ p[2] <= (box.y1 + Height - 1) \div Height}

\* The page image, and its status: what can be wrong besides the boxes is told
\* by obstacle, in the order it is come across; only an image whose text has
\* been read again, and has no personal data, is approved.
Obstacles == {"none", "NOT_APPLICABLE", "BLOCKED_DECRYPTION_FAILED", "BLOCKED_DECODE_FAILED",
              "BLOCKED_DIMENSION_LIMIT_EXCEEDED", "BLOCKED_OCR_UNAVAILABLE",
              "BLOCKED_OCR_VERIFICATION_FAILED", "BLOCKED_RESIDUAL_PII"}
NoImage(status) ==
    [status |-> status, boxes |-> <<>>, image |-> <<>>, merged |-> <<>>, black |-> {}]

Derivative(boxes, padding, image, obstacle) ==
    LET merged == Merged([n \in DOMAIN boxes |-> Padded(boxes[n], padding, image)])
        black == UNION {Pixels(merged[n], image) : n \in DOMAIN merged}
    IN  IF obstacle = "NOT_APPLICABLE" THEN NoImage(obstacle)
        ELSE IF \E n \in DOMAIN boxes : ~Located(boxes[n]) THEN NoImage("BLOCKED_UNLOCATED_PII")
        ELSE IF obstacle # "none" THEN NoImage(obstacle)
        ELSE [status |-> "APPROVED", boxes |-> boxes, image |-> image,
              merged |-> merged, black |-> black]
-----------------------------------------------------------------------------
\* The pixels that show a part of the box, which is in points of the stored image.
Shows(box, image) ==
    {p \in Raster(image) :
        LET q == StoredPixel(image, p) IN
        /\ box.x0 * image.width < (q[1] + 1) * Width /\ q[1] * Width < box.x1 * image.width
        /\ box.y0 * image.height < (q[2] + 1) * Height /\ q[2] * Height < box.y1 * image.height}
=============================================================================
