------------------------------ MODULE Fragments ------------------------------
(***************************************************************************)
(* The fragment layer (src/protocol/transport_layer.c): the fragments of a *)
(* payload are listed, and then copied, one after the other, to where each *)
(* belongs in a buffer of the whole.                                       *)
(*                                                                         *)
(* The end of a fragment is computed in 32 bits.  Word stands for 2^32.    *)
(* fragBuf holds which fragment wrote each byte, 0 for none.  Block 0 of   *)
(* the heap is the list, block 1 the buffer.                               *)
(***************************************************************************)
EXTENDS Reader, Sequences, FiniteSets

CONSTANTS
  TotalSize,       \* total sizes that payloads claim
  FragmentCount,   \* counts that payloads claim
  FragOffset,      \* offsets that fragments claim
  FragLength,      \* lengths that fragments claim
  MaxTotal,        \* 4 MiB in the code
  MaxFragments,    \* 4096 in the code
  Word             \* 2^32

ASSUME FragmentAssumption ==
  /\ Word \in Nat \ {0}
  /\ TotalSize \subseteq 0 .. Word - 1
  /\ FragOffset \subseteq 0 .. Word - 1
  /\ FragLength \subseteq 0 .. Word - 1
  /\ FragmentCount \subseteq Nat
  /\ MaxTotal \in 0 .. Word - 1
  /\ MaxFragments \in Nat

FragHeaderLen == 10
FragRowLen == 8

VARIABLES
  frags,        \* the fragments listed so far
  fragCount,    \* count
  fragTotal,    \* total
  fragLen,      \* payload_len
  fragPos,      \* pos
  fragNext,     \* the fragment that is copied next
  fragBuf,      \* buf, NULL before it is allocated
  fragStatus,   \* "idle", "listing", "copying", "undefined", or what is returned
  fragHeap      \* the blocks that are allocated

fragVars == <<frags, fragCount, fragTotal, fragLen, fragPos, fragNext, fragBuf,
              fragStatus, fragHeap>>

FragInit ==
  /\ frags = <<>>
  /\ fragCount = 0
  /\ fragTotal = 0
  /\ fragLen = 0
  /\ fragPos = 0
  /\ fragNext = 1
  /\ fragBuf = NULL
  /\ fragStatus = "idle"
  /\ fragHeap = {}

(* Mutant: the parser returns without freeing the list. *)
FragReturnsKeeping(status, heap) ==
  /\ fragStatus' = status
  /\ fragHeap' = heap

(* The parser returns: the list is freed. *)
FragReturns(status, heap) ==
  /\ fragStatus' = status
  /\ fragHeap' = heap \ {0}

ReadFragHeader(lengths) ==
  /\ fragStatus = "idle"
  /\ frags' = <<>>
  /\ fragPos' = FragHeaderLen
  /\ fragNext' = 1
  /\ fragBuf' = NULL
  /\ \E len \in lengths, total \in TotalSize, n \in FragmentCount, magic \in BOOLEAN :
       LET short == len < FragHeaderLen \/ ~magic
       IN /\ fragLen' = len
          /\ fragTotal' = total
          /\ fragCount' = n
          /\ \/ short /\ FragReturns("IPMB_ERR_BAD_MAGIC", {})
             \/ ~short /\ fragStatus' = "listing" /\ fragHeap' = {0}
             \/ ~short /\ AllocMayFail /\ FragReturns("IPMB_ERR_ALLOC", {})

(* One turn of the loop of ipmb_parse_fragment_payload. *)
ListFragment ==
  /\ fragStatus = "listing"
  /\ Len(frags) < fragCount
  /\ \E off \in FragOffset, len \in FragLength :
       IF fragPos + FragRowLen + len > fragLen
         THEN /\ FragReturns("IPMB_ERR_SHORT_READ", fragHeap)
              /\ UNCHANGED <<frags, fragPos>>
         ELSE /\ frags' = Append(frags, [offset |-> off, length |-> len])
              /\ fragPos' = fragPos + FragRowLen + len
              /\ UNCHANGED <<fragStatus, fragHeap>>
  /\ UNCHANGED <<fragCount, fragTotal, fragLen, fragNext, fragBuf>>

(* ipmb_reassemble_fragments, up to its loop. *)
Reassemble ==
  /\ fragStatus = "listing"
  /\ Len(frags) = fragCount
  /\ LET limit == fragTotal > MaxTotal \/ fragCount > MaxFragments
     IN \/ /\ limit
           /\ FragReturns("IPMB_ERR_LIMIT", fragHeap)
           /\ UNCHANGED fragBuf
        \/ /\ ~limit /\ AllocMayFail
           /\ FragReturns("IPMB_ERR_ALLOC", fragHeap)
           /\ UNCHANGED fragBuf
        \/ /\ ~limit
           /\ fragStatus' = "copying"
           /\ fragHeap' = fragHeap \cup {1}
           /\ fragBuf' = [p \in 0 .. fragTotal - 1 |-> 0]
  /\ UNCHANGED <<frags, fragCount, fragTotal, fragLen, fragPos, fragNext>>

Span(f) == {f.offset + k : k \in 0 .. f.length - 1}

(* Mutant: the length is not added. *)
StartOnly(f) == f.offset

End(f) == (f.offset + f.length) % Word

(* Mutant: a byte that was written already is left. *)
CopiedFirst(i) ==
  [p \in DOMAIN fragBuf |->
     IF p \in Span(frags[i]) /\ fragBuf[p] = 0 THEN i ELSE fragBuf[p]]

Copied(i) ==
  [p \in DOMAIN fragBuf |-> IF p \in Span(frags[i]) THEN i ELSE fragBuf[p]]

(* One turn of its loop.  A copy that leaves the buffer is undefined. *)
CopyFragment ==
  /\ fragStatus = "copying"
  /\ fragNext <= fragCount
  /\ LET f == frags[fragNext]
     IN \/ /\ End(f) > fragTotal
           /\ FragReturns("IPMB_ERR_INVALID", fragHeap \ {1})
           /\ fragBuf' = NULL
        \/ /\ End(f) <= fragTotal
           /\ Span(f) \subseteq DOMAIN fragBuf
           /\ fragBuf' = Copied(fragNext)
           /\ UNCHANGED <<fragStatus, fragHeap>>
        \/ /\ End(f) <= fragTotal
           /\ ~(Span(f) \subseteq DOMAIN fragBuf)
           /\ fragStatus' = "undefined"
           /\ UNCHANGED <<fragBuf, fragHeap>>
  /\ fragNext' = fragNext + 1
  /\ UNCHANGED <<frags, fragCount, fragTotal, fragLen, fragPos>>

Reassembled ==
  /\ fragStatus = "copying"
  /\ fragNext > fragCount
  /\ FragReturns("IPMB_OK", fragHeap)
  /\ UNCHANGED <<frags, fragCount, fragTotal, fragLen, fragPos, fragNext, fragBuf>>

ParseFragments(lengths) ==
  ReadFragHeader(lengths) \/ ListFragment \/ Reassemble \/ CopyFragment \/ Reassembled

=============================================================================
