------------------------------ MODULE ChipData ------------------------------
(***************************************************************************)
(* The data format of a sensor chip, against which the decoders are        *)
(* checked: what a chip sends for the frames it took.                      *)
(***************************************************************************)
EXTENDS Integers, Sequences, FiniteSets, SequencesExt

Top(byte, n) == byte \div 2^(8 - n)         \* the n highest bits
Bit(n, i) == (n \div 2^i) % 2 = 1

Comma == 188
Idle == 255
BusyOn == 241
BusyOff == 240
Padding == 0

\* What the highest bits of the first byte of a word say.
Kind(byte) == CASE Top(byte, 2) = 1 -> "datashort"
                [] Top(byte, 2) = 0 -> "datalong"
                [] Top(byte, 3) = 6 -> "region"
                [] Top(byte, 4) = 10 -> "header"
                [] Top(byte, 4) = 11 -> "trailer"
                [] Top(byte, 4) = 14 -> "emptyframe"
                [] OTHER -> "none"

(***************************************************************************)
(* A frame has an id, a bunch counter and regions with hits in ascending   *)
(* order; a hit has the position of a pixel in its region and a map of the *)
(* seven pixels after it.  Without regions and flags the frame is empty.   *)
(***************************************************************************)
HitBytes(hit) == IF hit.map = 0 THEN <<64 + (hit.pos \div 256), hit.pos % 256>>
                 ELSE <<hit.pos \div 256, hit.pos % 256, hit.map>>
RegionBytes(region) == <<192 + region.region>> \o FlattenSeq([i \in DOMAIN region.hits |-> HitBytes(region.hits[i])])
EmptyFrame(f) == f.regions = <<>> /\ f.flags = 0
FrameBytes(f) ==
    IF EmptyFrame(f) THEN <<224 + f.id, f.bc>>
    ELSE <<160 + f.id, f.bc>> \o FlattenSeq([i \in DOMAIN f.regions |-> RegionBytes(f.regions[i])])
         \o <<176 + f.flags>>

\* A priority encoder has 1024 addresses that wind up two columns of pixels.
Pixel(region, pos) ==
    LET addr == pos % 1024
        row == addr \div 2
        right == IF row % 2 = 0 THEN addr % 2 ELSE 1 - (addr % 2)
    IN <<(32 * region) + (2 * (pos \div 1024)) + right, row>>
PositionsOf(hit) == {hit.pos} \cup {hit.pos + 1 + i : i \in {j \in 0..6 : Bit(hit.map, j)}}
PixelsOf(f) == UNION {{Pixel(f.regions[i].region, pos) :
                         pos \in UNION {PositionsOf(f.regions[i].hits[j]) : j \in DOMAIN f.regions[i].hits}} :
                      i \in DOMAIN f.regions}
=============================================================================
