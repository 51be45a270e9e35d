--------------------------- MODULE BilinearSampling ---------------------------
(***************************************************************************)
(* Sampling an image [width, height, stride, format] for a tensor, which   *)
(* the LPRNet and the YOLO preprocessor do by the same code: the bytes     *)
(* that a sample joins, and their weights.                                 *)
(***************************************************************************)
EXTENDS Integers

Clamped(n, low, high) == IF n < low THEN low ELSE IF n > high THEN high ELSE n

\* The first byte of a pixel, and the bytes of its colours from there.
PixelAt(image, x, y) == y * image.stride + (IF image.format = "gray" THEN x ELSE 3 * x)
ColourByte(format, colour) ==
    IF format = "gray" THEN 0
    ELSE LET place == CHOOSE i \in 1..3 : <<"red", "green", "blue">>[i] = colour
         IN  IF format = "rgb" THEN place - 1 ELSE 3 - place

\* Along one axis, the centre of output pixel o among `from` source pixels, in
\* units of 1 / (2 * to), and the two source pixels it lies between.
Axis(o, from, to) ==
    LET at == Clamped((2 * o + 1) * from - to, 0, (from - 1) * 2 * to)
        low == at \div (2 * to)
    IN  [low |-> low, high |-> Clamped(low + 1, 0, from - 1), part |-> at % (2 * to)]

\* The bytes that bilinear_sample joins for a colour, and their weights.
BilinearSample(image, across, down, colour) ==
    [bytes |-> [corner \in {"low", "high"} \X {"low", "high"} |->
                   PixelAt(image, across[corner[1]], down[corner[2]])
                     + ColourByte(image.format, colour)],
     dx |-> across.part, dy |-> down.part]
===============================================================================
