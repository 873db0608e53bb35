----------------------------- MODULE MemStream ------------------------------
(***************************************************************************)
(* An image of a format other than PNG and JPEG on its way through          *)
(* FreeImage (COFD_Page::ParseImageObject, COfdPageSignature), and the      *)
(* stream in memory it is read from and written to (fiio_mem).             *)
(*                                                                         *)
(* FreeImage is external: it reads, writes and seeks as it likes, and      *)
(* answers what it likes to a save.  It is linked for Windows only, where  *)
(* int and long have 32 bits: sums and products wrap at Word, which stands *)
(* for 2^32.  What the process does once memcpy has left the block is      *)
(* undefined, and the model ends there.  Images of fewer than ten bytes,   *)
(* and the JBIG2 decoder for unknown types, are left out.                  *)
(***************************************************************************)
EXTENDS Integers, Sequences, SequencesExt

CONSTANTS
  Images,     \* the contents of image files, as long as a long can say
  Buffers,    \* what FreeImage writes, of any length
  Requests,   \* what it reads: blocks of a size and their number
  FirstLen,   \* 4096
  HalfLen,    \* 0x40000000
  MaxLen,     \* 0x7FFFFFFF
  MaxCalls    \* bound on calls of the stream

Junk == "junk"
Byte == (UNION {Range(s) : s \in Images \cup Buffers}) \cup {Junk}

ASSUME MemAssumption ==
  /\ \A s \in Images \cup Buffers : s \in Seq(Byte) /\ s # <<>>
  /\ \A s \in Images : Len(s) <= MaxLen
  /\ \A q \in Requests : q.size \in 1 .. MaxLen /\ q.count \in Nat
  /\ FirstLen \in Nat \ {0} /\ HalfLen \in Nat /\ FirstLen <= HalfLen
  /\ MaxLen = 2 * HalfLen - 1 /\ MaxCalls \in Nat

VARIABLES
  image,      \* img_data
  caller,     \* "type", "load", "save", "done"; "undefined": memcpy left the block
  h,          \* the handle: data, datalen, filelen and curpos
  got,        \* what the last read returned
  buffer,     \* the buffer of the write under way
  failed,     \* a write returned 0 to FreeImage
  lost,       \* history: bytes of a write are not in the file
  beyond,     \* history: a write that ends beyond MaxLen was carried out
  served      \* calls of the stream so far

streamVars == <<image, caller, h, got, buffer, failed, lost, beyond, served>>

(* Memory by address; what realloc adds is not initialised.                *)
Handle(s) == [data |-> [a \in 0 .. Len(s) - 1 |-> s[a + 1]],
              datalen |-> Len(s), filelen |-> Len(s), curpos |-> 0]
NoMemory == Handle(<<>>)

StreamInit ==
  /\ image \in Images /\ h = Handle(image)
  /\ caller = "type" /\ got = <<>> /\ buffer = <<>>
  /\ failed = FALSE /\ lost = FALSE /\ beyond = FALSE /\ served = 0

Idle == buffer = <<>>
Call == Idle /\ caller \notin {"done", "undefined"} /\ served < MaxCalls /\ served' = served + 1

(* A long of 32 bits: from -(MaxLen + 1) to MaxLen.                        *)
Word == 2 * (MaxLen + 1)
Long(n) == ((n + MaxLen + 1) % Word) - (MaxLen + 1)
Offsets == -(MaxLen + 1) .. MaxLen

-----------------------------------------------------------------------------
Memory(from, n) == [k \in 1 .. n |-> h.data[from + k - 1]]

(* Whole blocks are copied; a block that is not there takes the position   *)
(* to the end.                                                             *)
ReadProc(q) ==
  /\ Call
  /\ LET left == (h.filelen - h.curpos) \div q.size
         x == IF h.filelen < h.curpos THEN 0 ELSE IF left < q.count THEN left ELSE q.count
     IN  /\ got' = Memory(h.curpos, x * q.size)
         /\ h' = [h EXCEPT !.curpos = IF x < q.count THEN h.filelen ELSE @ + x * q.size]
  /\ UNCHANGED <<image, caller, buffer, failed, lost, beyond>>

SeekProc(offset, origin) ==
  LET from == CASE origin = "cur" -> h.curpos [] origin = "end" -> h.filelen [] OTHER -> 0
      to == Long(from + offset)
  IN  /\ Call
      /\ h' = IF to >= 0 THEN [h EXCEPT !.curpos = to] ELSE h
      /\ got' = <<>>
      /\ UNCHANGED <<image, caller, buffer, failed, lost, beyond>>

-----------------------------------------------------------------------------
WriteProc(b) ==
  /\ Call /\ caller = "save"
  /\ buffer' = b /\ got' = <<>>
  /\ UNCHANGED <<image, caller, h, failed, lost, beyond>>

(* size * count is unsigned.                                               *)
Product == Len(buffer) % Word

(* Mutant: the position is forgotten.                                      *)
TooSmallAtStart == Long(Product) >= h.datalen

TooSmall == Long(h.curpos + Product) >= h.datalen

(* Mutant: an empty block is doubled.                                      *)
NewLenDoubled == IF h.datalen >= HalfLen THEN MaxLen ELSE 2 * h.datalen

NewLen == CASE h.datalen >= HalfLen -> MaxLen
            [] h.datalen = 0 -> FirstLen
            [] OTHER -> 2 * h.datalen

(* The loop of WriteProc, once round: realloc gives a larger block.        *)
Grow ==
  /\ ~Idle /\ TooSmall /\ h.datalen # MaxLen
  /\ h' = [h EXCEPT !.datalen = NewLen,
                    !.data = [a \in 0 .. NewLen - 1 |-> IF a < h.datalen THEN @[a] ELSE Junk]]
  /\ UNCHANGED <<image, caller, got, buffer, failed, lost, beyond, served>>

ReturnZero ==
  /\ buffer' = <<>> /\ failed' = TRUE /\ lost' = TRUE
  /\ UNCHANGED <<image, caller, h, got, beyond, served>>

AtLimit == ~Idle /\ TooSmall /\ h.datalen = MaxLen /\ ReturnZero
ReallocFails == ~Idle /\ TooSmall /\ h.datalen # MaxLen /\ ReturnZero

(* Mutant: the file ends where it was written last.                        *)
WrittenToEnd(end) ==
  [h EXCEPT !.data = [a \in DOMAIN @ |-> IF a \in h.curpos .. end - 1
                                         THEN buffer[a - h.curpos + 1] ELSE @[a]],
            !.curpos = end, !.filelen = end]

(* memcpy writes wherever it is told to; in the block no sum wraps.        *)
Written(end) ==
  [h EXCEPT !.data = [a \in DOMAIN @ |-> IF a \in h.curpos .. end - 1
                                         THEN buffer[a - h.curpos + 1] ELSE @[a]],
            !.curpos = end,
            !.filelen = IF end > @ THEN end ELSE @]

WriteBytes ==
  LET end == h.curpos + Product
  IN  /\ ~Idle /\ ~TooSmall
      /\ IF end <= h.datalen
         THEN h' = Written(end) /\ caller' = caller
         ELSE h' = h /\ caller' = "undefined"
      /\ buffer' = <<>>
      /\ lost' = (lost \/ Product < Len(buffer))
      /\ beyond' = (beyond \/ h.curpos + Len(buffer) > MaxLen)
      /\ UNCHANGED <<image, got, failed, served>>

-----------------------------------------------------------------------------
(* FreeImage_GetImageTypeFromMem knew the format, or not; PNG and JPEG are *)
(* used as they are.                                                       *)
TypeFound(convert) ==
  /\ Idle /\ caller = "type"
  /\ caller' = IF convert THEN "load" ELSE "done"
  /\ h' = [h EXCEPT !.curpos = 0] /\ got' = <<>>
  /\ UNCHANGED <<image, buffer, failed, lost, beyond, served>>

(* FreeImage_LoadFromMem gave a bitmap, which is saved to a new handle     *)
(* (SaveToMem), or none.                                                   *)
Loaded(bitmap) ==
  /\ Idle /\ caller = "load"
  /\ IF bitmap
     THEN caller' = "save" /\ h' = NoMemory
     ELSE caller' = "done" /\ h' = h
  /\ got' = <<>>
  /\ UNCHANGED <<image, buffer, failed, lost, beyond, served>>

(* The new file takes the place of the image, when FreeImage says that it  *)
(* is saved: whether it heeds a write that failed is not known.            *)
Saved(bret) ==
  /\ Idle /\ caller = "save"
  /\ image' = IF bret /\ h.datalen # 0 /\ h.filelen > 0 THEN Memory(0, h.filelen) ELSE image
  /\ caller' = "done" /\ got' = <<>>
  /\ UNCHANGED <<h, buffer, failed, lost, beyond, served>>

Done == caller \in {"done", "undefined"} /\ UNCHANGED streamVars

WriteStep == Grow \/ AtLimit \/ WriteBytes

StreamNext ==
  \/ \E q \in Requests : ReadProc(q)
  \/ \E offset \in Offsets, origin \in {"set", "cur", "end"} : SeekProc(offset, origin)
  \/ \E b \in Buffers : WriteProc(b)
  \/ WriteStep \/ ReallocFails
  \/ \E c \in BOOLEAN : TypeFound(c) \/ Loaded(c) \/ Saved(c)
  \/ Done

(* The loop of WriteProc runs until it returns; realloc need not fail.     *)
StreamSpec == StreamInit /\ [][StreamNext]_streamVars /\ WF_streamVars(WriteStep)

-----------------------------------------------------------------------------
(* The block is as long as the handle says, and neither it nor the         *)
(* position goes beyond what a long can say.                               *)
StreamTypeOK ==
  /\ image \in Seq(Byte) /\ caller \in {"type", "load", "save", "done", "undefined"}
  /\ failed \in BOOLEAN /\ lost \in BOOLEAN /\ beyond \in BOOLEAN /\ served \in 0 .. MaxCalls
  /\ buffer \in Buffers \cup {<<>>} /\ got \in Seq(Byte)
  /\ h.curpos \in 0 .. MaxLen /\ h.filelen \in 0 .. MaxLen /\ h.datalen \in 0 .. MaxLen

InBlock == DOMAIN h.data = 0 .. h.datalen - 1 /\ h.filelen <= h.datalen

(* memcpy leaves the block only for a write that ends beyond 2^31 - 1,     *)
(* however far beyond the end the position was set before; the image is    *)
(* the file it was, or a new one that lies in its block, and of that bytes *)
(* are missing only when FreeImage was told that a write failed, or asked  *)
(* for one that ends beyond 2^31 - 1 (fiio_mem_WriteProc, _SeekProc,       *)
(* ParseImageObject).                                                      *)
ImageWhole ==
  /\ InBlock
  /\ caller = "undefined" => beyond
  /\ caller = "done" => \/ image \in Images
                        \/ image = Memory(0, h.filelen) /\ (lost => failed \/ beyond)

(* A write returns: the block that is doubled gets large enough, or cannot *)
(* grow any more (the loop of fiio_mem_WriteProc).                         *)
WriteEnds == ~Idle ~> Idle

-----------------------------------------------------------------------------
File == INSTANCE ByteFile WITH bytes <- Memory(0, h.filelen), pos <- h.curpos,
                               refused <- failed, void <- beyond, Contents <- Images

(* The stream is the file FreeImage expects as long as no write ends       *)
(* beyond 2^31 - 1: reads give the bytes at the position, a write changes  *)
(* those and no others or, answered 0, none, whatever the block does and   *)
(* wherever a position is set (fiio_mem_ReadProc, WriteProc, SeekProc).    *)
ActsAsFile == File!FileSpec

=============================================================================
