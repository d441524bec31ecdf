-------------------------------- MODULE Wire --------------------------------
(***************************************************************************)
(* Bytes, the numbers and the strings of a message: the helpers of tfp.c   *)
(* and file.c on the server, those of DataPackageSent in the desktop       *)
(* client.  A char of the server is signed; a byte is 0..255 here, and     *)
(* Signed says what C makes of one.                                        *)
(***************************************************************************)
EXTENDS Integers, Sequences

UCHAR_MAX == 255
USHRT_MAX == 65535

Byte  == 0..UCHAR_MAX
Short == 0..USHRT_MAX

Signed(b) == IF b < 128 THEN b ELSE b - 256

-----------------------------------------------------------------------------
(* Numbers of two bytes, the high one first.                               *)

(* addShort, and htons with the two bytes copied out.                      *)
AddShort(n) == << (n \div 256) % 256, n % 256 >>

(* readUnsignedShort, and ntohs of the two bytes at a pointer.             *)
ReadShort(b) == 256 * b[1] + b[2]

(* writeBytes: an unsigned short, by mask and shift.                       *)
WriteBytes(n) == << (n \div 256) % 256, n % 256 >>

(* eatByte: hi << 8 | lo over two chars.  A negative lo has all its high   *)
(* bits set, and the or leaves nothing of hi.                              *)
EatByte(b) ==
  LET hi == Signed(b[1])
      lo == Signed(b[2])
  IN  (IF lo < 0 THEN lo ELSE 256 * hi + lo) % 65536

-----------------------------------------------------------------------------
(* Strings end with a NUL.                                                 *)

(* writeString, and the bytes copy stores; *size of copy is their number.  *)
WriteString(s) == Append(s, 0)

Copy(s) == [bytes |-> Append(s, 0), size |-> Len(s) + 1]

(* eatString: what comes before the first NUL, and what follows it.        *)
FirstNul(b) == CHOOSE i \in 1..Len(b) : b[i] = 0 /\ \A j \in 1..(i - 1) : b[j] # 0

EatString(b) == [str  |-> SubSeq(b, 1, FirstNul(b) - 1),
                 rest |-> SubSeq(b, FirstNul(b) + 1, Len(b))]

(* copyfull: the first size bytes, NUL or not.                             *)
CopyFull(dest, src, size) ==
  [i \in 1..Len(dest) |-> IF i <= size THEN src[i] ELSE dest[i]]

-----------------------------------------------------------------------------
(* Sizes of files.                                                         *)

MAX_DATA_BLOCK_SIZE == 1024
FILE_MAX_SIZE       == MAX_DATA_BLOCK_SIZE * 1024 * 5

(* uploadFile: the number of blocks announced for a file.                  *)
NumberBlock(size) ==
  IF size % MAX_DATA_BLOCK_SIZE = 0 THEN size \div MAX_DATA_BLOCK_SIZE
                                    ELSE size \div MAX_DATA_BLOCK_SIZE + 1

(* sizeToH: a whole number of the largest unit the size is above.          *)
Unit(size) ==
  IF size > 1000000000 THEN 1000000000
  ELSE IF size > 1000000 THEN 1000000
  ELSE IF size > 1000 THEN 1000 ELSE 1

SizeToH(size) == [s |-> size \div Unit(size), unit |-> Unit(size)]

=============================================================================
