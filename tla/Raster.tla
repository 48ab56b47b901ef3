-------------------------------- MODULE Raster --------------------------------
(***************************************************************************)
(* The arithmetic of utils/glutil.c on pixels: the clipping of the pointer's *)
(* rectangles and where the 4x4 blocks of an ETC2 texture land.  One        *)
(* function is called at a time, and `pixels` keeps its arguments and what  *)
(* it did, so that an invariant can relate them.                            *)
(***************************************************************************)
EXTENDS Integers

CONSTANTS
  Width, Height,   \* the screen, 960 x 544
  Places,          \* positions of the pointer
  Images           \* widths, heights and sizes of compressed textures

ASSUME ScreenAssumption == Width \in Nat \ {0} /\ Height \in Nat \ {0}

\* A decoded image takes less than 2^32 bytes, so that no size wraps.
ASSUME PixelsAssumption ==
  /\ Places \subseteq Int \X Int
  /\ Images \subseteq Int \X Int \X Int
  /\ \A im \in Images : im[1] * im[2] < 2 ^ 30

VARIABLE pixels

Rect(x, y, w, h) == [x |-> x, y |-> y, w |-> w, h |-> h]

\* pointer_clear_rect: the rectangle it clears; w or h not positive means that
\* it returns before it clears anything.
pointer_clear_rect(r) ==
  LET w1 == IF r.x < 0 THEN r.w + r.x ELSE r.w
      x == IF r.x < 0 THEN 0 ELSE r.x
      h1 == IF r.y < 0 THEN r.h + r.y ELSE r.h
      y == IF r.y < 0 THEN 0 ELSE r.y
  IN Rect(x, y, IF x + w1 > Width THEN Width - x ELSE w1,
                IF y + h1 > Height THEN Height - y ELSE h1)

\* A pixel that clearing a rectangle touches.
Covers(r, px, py) ==
  /\ r.x <= px /\ px < r.x + r.w
  /\ r.y <= py /\ py < r.y + r.h
OnScreen(px, py) == px \in 0 .. Width - 1 /\ py \in 0 .. Height - 1

\* The four rectangles of gl_draw_pointer around the pointer at (x, y), which
\* counts y downwards: the outline, then the cross.
CrossAt(x, y) ==
  LET gy == Height - 1 - y
  IN <<Rect(x - 7, gy - 1, 15, 3), Rect(x - 1, gy - 7, 3, 15),
       Rect(x - 5, gy, 11, 1), Rect(x, gy - 5, 1, 11)>>

------------------------------------------------------------------------------
(* bg2v_decode_etc2 on a width x height image.                             *)
Blocks(n) == (n + 3) \div 4
expected_size(width, height) == Blocks(width) * Blocks(height) * 8

\* Decoding is refused, and the caller falls back on vitaGL's own path.
etc2_refused(width, height, image_size) ==
  \/ width <= 0 \/ height <= 0
  \/ image_size < 0 \/ image_size < expected_size(width, height)

\* A slip: as BlockPixels, with a row as long as its blocks.
BlockPixelsPadded(width, height, offset) ==
  LET n == offset \div 8
      block_y == n \div Blocks(width)
      block_x == n % Blocks(width)
  IN {<<(block_y * 4 + y) * (Blocks(width) * 4) + block_x * 4 + x, y * 4 + x>> :
        x \in {i \in 0..3 : block_x * 4 + i < width},
        y \in {i \in 0..3 : block_y * 4 + i < height}}
\* The pixels one block writes, each with the texel of the block it takes; rows
\* and columns beyond the image are cut.
PixelsOfBlock(width, height, block_x, block_y) ==
  {<<(block_y * 4 + y) * width + (block_x * 4 + x), y * 4 + x>> :
     x \in {i \in 0..3 : block_x * 4 + i < width},
     y \in {i \in 0..3 : block_y * 4 + i < height}}
\* What the block at the given offset of the source writes.
BlockPixels(width, height, offset) ==
  LET n == offset \div 8
  IN PixelsOfBlock(width, height, n % Blocks(width), n \div Blocks(width))

------------------------------------------------------------------------------
Nothing == [op |-> "none"]

CallPointer == pixels = Nothing /\ \E p \in Places :
  pixels' = [op |-> "pointer", at |-> p,
             cleared |-> [i \in 1..4 |-> pointer_clear_rect(CrossAt(p[1], p[2])[i])]]
CallDecode == pixels = Nothing /\ \E im \in Images :
  pixels' = [op |-> "etc2", im |-> im, refused |-> etc2_refused(im[1], im[2], im[3])]
PixelsReturn == pixels # Nothing /\ pixels' = Nothing

PixelsInit == pixels = Nothing
PixelsNext == CallPointer \/ CallDecode \/ PixelsReturn
PixelsSpec == PixelsInit /\ [][PixelsNext]_pixels

\* Each rectangle of the cross, clipped, covers exactly its pixels on the
\* screen, wherever the pointer is.
CrossIsClipped ==
  pixels.op = "pointer" =>
    \A i \in 1..4 :
      LET r == CrossAt(pixels.at[1], pixels.at[2])[i]
      IN \A px \in -9 .. Width + 9, py \in -9 .. Height + 9 :
           Covers(pixels.cleared[i], px, py) <=> Covers(r, px, py) /\ OnScreen(px, py)

\* What decoding a w x h image writes: the pixel, the block it is read from and
\* the texel of the block.
Offsets(w, h) == {8 * i : i \in 0 .. Blocks(w) * Blocks(h) - 1}
Writes(w, h) ==
  UNION {{<<p[1], o, p[2]>> : p \in BlockPixels(w, h, o)} : o \in Offsets(w, h)}
\* What it should write.
Wanted(w, h) ==
  {<<y * w + x, 8 * ((y \div 4) * Blocks(w) + (x \div 4)), 4 * (y % 4) + (x % 4)>> :
     x \in 0 .. w - 1, y \in 0 .. h - 1}

\* An accepted image is written pixel by pixel exactly once, from the texel at
\* that place, and no block is read beyond the data.
DecodeCoversImage ==
  pixels.op = "etc2" /\ ~pixels.refused =>
    /\ \A o \in Offsets(pixels.im[1], pixels.im[2]) : o + 8 <= pixels.im[3]
    /\ Writes(pixels.im[1], pixels.im[2]) = Wanted(pixels.im[1], pixels.im[2])

\* What is drawn for the engine covers the pixels it should and no others.
RasterIsExact == CrossIsClipped /\ DecodeCoversImage
==============================================================================
