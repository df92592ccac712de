-------------------------------- MODULE Reader --------------------------------
(* What the parsers have in common: the heap, the statuses, and the        *)
(* bounded reader (src/util/byte_read.c), a position in a buffer that      *)
(* moves on by what is read, if there is as much.                          *)
EXTENDS Naturals

CONSTANTS
  NULL,            \* the null pointer
  AllocMayFail     \* whether malloc and calloc may return NULL

ASSUME ReaderAssumption == AllocMayFail \in BOOLEAN

Failure == {"IPMB_ERR_SHORT_READ", "IPMB_ERR_BAD_MAGIC", "IPMB_ERR_BAD_CRC",
            "IPMB_ERR_LIMIT", "IPMB_ERR_INVALID", "IPMB_ERR_ALLOC"}

(* ipmb_reader_remaining *)
Remaining(pos, len) == IF pos <= len THEN len - pos ELSE 0

(* ipmb_reader_init: every parser starts its reader behind four bytes, the *)
(* magic number; positions are counted from the start of the data.         *)
ReaderStart == 4

(* An ipmb_reader_t, its position and its length, that its reads have not  *)
(* taken too far.                                                          *)
Within(pos, len) == pos <= len

(* The reads return IPMB_OK, one after the other, for n bytes in all. *)
Fits(n, pos, len) == n <= Remaining(pos, len)

=============================================================================
