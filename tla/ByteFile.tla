------------------------------ MODULE ByteFile ------------------------------
(***************************************************************************)
(* What FreeImage expects of the stream it is given: a file of bytes with  *)
(* a position, which grows where it is written, and whose bytes between    *)
(* the old end and a write beyond it are not specified.  A file has at     *)
(* most MaxLen bytes: who writes beyond that is promised nothing any more. *)
(***************************************************************************)
EXTENDS Integers, Sequences

CONSTANTS
  Byte,       \* the bytes that can be read from a file
  Contents,   \* the files that can be opened
  Buffers,    \* what can be written
  Requests,   \* what can be read: blocks of a size and their number
  MaxLen      \* the longest file

VARIABLES
  bytes,      \* the file
  pos,        \* the position
  got,        \* what the last read returned
  buffer,     \* what the write under way is to write
  refused,    \* the writer was told that a write failed
  void        \* a write went beyond MaxLen

fileVars == <<bytes, pos, got, buffer, refused, void>>
answers == <<refused, void>>

FileInit ==
  /\ bytes \in Contents /\ pos = 0 /\ got = <<>> /\ buffer = <<>>
  /\ refused = FALSE /\ void = FALSE

(* The whole blocks that are left, as many as were asked for; the position *)
(* is at the end when there were fewer.                                    *)
FileRead(q) ==
  LET left == IF pos < Len(bytes) THEN (Len(bytes) - pos) \div q.size ELSE 0
      n == q.size * (IF left < q.count THEN left ELSE q.count)
  IN  /\ buffer = <<>>
      /\ got' = SubSeq(bytes, pos + 1, pos + n)
      /\ pos' = IF left < q.count THEN Len(bytes) ELSE pos + n
      /\ UNCHANGED <<bytes, buffer, answers>>

FileSeek ==
  /\ buffer = <<>>
  /\ pos' \in 0 .. MaxLen /\ got' = <<>>
  /\ UNCHANGED <<bytes, buffer, answers>>

FileBeginWrite(b) ==
  /\ buffer = <<>> /\ buffer' = b /\ got' = <<>>
  /\ UNCHANGED <<bytes, pos, answers>>

(* The buffer at the position, the other bytes as they were; those of a    *)
(* gap are not specified.                                                  *)
FileWrite ==
  LET end == pos + Len(buffer)
  IN  /\ buffer # <<>> /\ buffer' = <<>>
      /\ bytes' \in Seq(Byte) /\ Len(bytes') = (IF end > Len(bytes) THEN end ELSE Len(bytes))
      /\ SubSeq(bytes', pos + 1, end) = buffer
      /\ \A k \in 1 .. Len(bytes) : k <= pos \/ k > end => bytes'[k] = bytes[k]
      /\ pos' = end /\ UNCHANGED <<got, answers>>

(* No room: nothing is written, the position stays, and the writer is told.*)
FileRefuse ==
  /\ buffer # <<>> /\ buffer' = <<>> /\ refused' = TRUE
  /\ UNCHANGED <<bytes, pos, got, void>>

FileVoid == buffer # <<>> /\ pos + Len(buffer) > MaxLen /\ void' = TRUE

(* Another file takes the place of this one, or the same one is rewound.   *)
FileOpen ==
  /\ buffer = <<>>
  /\ bytes' \in Contents \cup {<<>>} /\ pos' = 0 /\ got' = <<>>
  /\ UNCHANGED <<buffer, answers>>

FileClose == got' = <<>> /\ UNCHANGED <<bytes, pos, buffer, answers>>

FileNext ==
  \/ \E q \in Requests : FileRead(q)
  \/ \E b \in Buffers : FileBeginWrite(b)
  \/ FileSeek \/ FileWrite \/ FileRefuse \/ FileOpen \/ FileClose
  \/ FileVoid \/ (void /\ void')

FileSpec == FileInit /\ [][FileNext]_fileVars

=============================================================================
