--------------------------- MODULE ReadValidator ---------------------------
(***************************************************************************)
(* CPDF_ReadValidator (core/fpdfapi/parser/cpdf_read_validator.cpp) stands *)
(* between the parser and the embedder.  A read of bytes the embedder does *)
(* not have yet is refused, and a segment around them is asked for through *)
(* the embedder's download hints; so it is when a read fails.  Segments    *)
(* are aligned to blocks, with checked arithmetic, and end with the file.  *)
(* A range of bytes is given by its first byte and the byte behind it.     *)
(***************************************************************************)
EXTENDS Integers

CONSTANTS
    FileSize,    \* file_size_
    BlockSize,   \* CPDF_Stream::kFileBufSize: of a block, and of the buffer
                 \* that CPDF_SyntaxParser reads the file with
    MaxOffset    \* the largest FX_FILESIZE

ASSUME SizesAssumption ==
    /\ BlockSize \in Nat \ {0}
    /\ MaxOffset \in Nat
    /\ FileSize \in 0..MaxOffset

Byte == 0 .. FileSize - 1

VARIABLES
    downloaded,  \* the bytes for which IsDataAvail says yes
    asked        \* the bytes of the segments given to hints_->AddSegment

(* std::min(file_size_, end)                                               *)
Clipped(end) == IF end < FileSize THEN end ELSE FileSize

AlignDown(offset) == offset - (offset % BlockSize)

AlignUpToStart(offset) == AlignDown(offset)   \* fault: the last block is cut off
AlignUp(offset) ==
    LET end == AlignDown(offset) + BlockSize
    IN  IF end <= MaxOffset THEN end ELSE offset

(* The segment that is asked for when bytes from .. end - 1 are missing.   *)
Segment(from, end) == AlignDown(from) .. Clipped(AlignUp(end)) - 1

ScheduleDownload(range) == asked' = asked \cup Segment(range[1], range[2])

IsDataRangeAvailable(range) == range[1] .. range[2] - 1 \subseteq downloaded

(* The range the parser reads when it needs the byte at from and does not  *)
(* have it in its buffer: as much as the buffer holds, or the file has.    *)
ReadBlockAt(from) == <<from, Clipped(from + BlockSize)>>

(* The range that is checked before from .. end - 1 is read piece by       *)
(* piece: the parser fills its buffer behind it.  Near the largest offset  *)
(* nothing is checked, and nothing is asked for.                           *)
RangeToCheck(from, end) == <<from, Clipped(end + BlockSize)>>
CannotCheck(end) == end + BlockSize > MaxOffset
=============================================================================
