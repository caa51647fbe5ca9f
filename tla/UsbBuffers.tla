----------------------------- MODULE UsbBuffers -----------------------------
(***************************************************************************)
(* usb_dma_resource, a memory resource that prefers memory of libusb and   *)
(* falls back to another resource, and usb_control_transfer_buffer, a      *)
(* vector in such memory.  One thread uses the resource, while the device  *)
(* it was made for is open.                                                *)
(*                                                                         *)
(* Either allocator may hand out an address that was freed by the other.   *)
(***************************************************************************)
EXTENDS Integers

CONSTANTS
  Blocks,        \* what the client keeps its blocks and buffers in
  Addresses,     \* addresses of memory, whichever allocator it comes from
  Alignments,    \* powers of 2
  SizeModulus    \* 2^w, w the width of size_t

ASSUME BuffersAssumption ==
  /\ Addresses \subseteq Nat
  /\ Alignments \subseteq Nat \ {0}
  /\ SizeModulus \in Nat /\ SizeModulus % 4 = 0 /\ SizeModulus > 32

VARIABLES
  has_backup,            \* backup_resource_ is not null
  allocated_dma_chunks,  \* allocated_dma_chunks_
  dma,                   \* bytes of the blocks of libusb, 0 where there is none
  backup,                \* bytes of the blocks of the backup resource
  block,                 \* what the client has: an address, its bytes, and
                         \* the size it wanted
  unrecorded,            \* blocks of libusb push_back threw for
  fault                  \* a block was given to the wrong allocator

memory == <<allocated_dma_chunks, dma, backup, unrecorded>>
vars == <<has_backup, memory, block, fault>>

NoBlock == [kind |-> "none", addr |-> 0, bytes |-> 0, size |-> 0]

Init ==
  /\ has_backup \in BOOLEAN
  /\ allocated_dma_chunks = {} /\ unrecorded = {}
  /\ dma = [a \in Addresses |-> 0]
  /\ backup = [a \in Addresses |-> 0]
  /\ block = [b \in Blocks |-> NoBlock]
  /\ fault = FALSE

-----------------------------------------------------------------------------
(* do_allocate, and what the caller keeps of it.                           *)

Unmapped(a) == dma[a] = 0 /\ backup[a] = 0
Store(b, kind, a, bytes, size) ==
  /\ block[b] = NoBlock
  /\ block' = [block EXCEPT ![b] = [kind |-> kind, addr |-> a, bytes |-> bytes, size |-> size]]
  /\ UNCHANGED <<has_backup, fault>>

(* libusb_dev_mem_alloc returns a block that is aligned.                   *)
MapDma(a, bytes, alignment) ==
  /\ Unmapped(a) /\ a % alignment = 0
  /\ dma' = [dma EXCEPT ![a] = bytes]
  /\ UNCHANGED backup

AllocateDma(a, bytes, alignment) ==
  /\ MapDma(a, bytes, alignment)
  /\ allocated_dma_chunks' = IF has_backup THEN allocated_dma_chunks \cup {a} ELSE allocated_dma_chunks
  /\ UNCHANGED unrecorded

(* It returns null, or a block that is not and is freed at once.           *)
AllocateBackup(a, bytes) ==
  /\ has_backup /\ Unmapped(a)
  /\ backup' = [backup EXCEPT ![a] = bytes]
  /\ UNCHANGED <<allocated_dma_chunks, dma, unrecorded>>

DoAllocate(a, bytes, alignment) == AllocateDma(a, bytes, alignment) \/ AllocateBackup(a, bytes)

(* push_back throws: the block is in nobody's hands any more.              *)
PushBackThrows(a, bytes, alignment) ==
  /\ has_backup /\ MapDma(a, bytes, alignment)
  /\ unrecorded' = unrecorded \cup {a}
  /\ UNCHANGED <<has_backup, allocated_dma_chunks, block, fault>>

-----------------------------------------------------------------------------
(* do_deallocate                                                           *)

(* Mutant of Erase: the chunk stays in the vector.                         *)
EraseNothing(a) == UNCHANGED allocated_dma_chunks

Erase(a) == allocated_dma_chunks' = allocated_dma_chunks \ {a}

(* Mutant of IsDma: without a backup resource nothing is libusb's.         *)
IsDmaRecorded(a) == a \in allocated_dma_chunks

IsDma(a) == has_backup => a \in allocated_dma_chunks

FreeDma(a, bytes) ==
  /\ IsDma(a)
  /\ Erase(a)
  /\ dma' = [dma EXCEPT ![a] = 0]
  /\ fault' = (dma[a] # bytes)
  /\ UNCHANGED <<backup, unrecorded>>

FreeBackup(a, bytes) ==
  /\ ~IsDma(a)
  /\ backup' = [backup EXCEPT ![a] = 0]
  /\ fault' = (backup[a] # bytes)
  /\ UNCHANGED <<allocated_dma_chunks, dma, unrecorded>>

Deallocate(b) ==
  /\ block[b] # NoBlock
  /\ FreeDma(block[b].addr, block[b].bytes) \/ FreeBackup(block[b].addr, block[b].bytes)
  /\ block' = [block EXCEPT ![b] = NoBlock]
  /\ UNCHANGED has_backup

-----------------------------------------------------------------------------
(* usb_control_transfer_buffer                                             *)

LIBUSB_CONTROL_SETUP_SIZE == 8

(* Mutant of Elements: rounds down.                                        *)
ElementsDown(size) == size \div 2 + LIBUSB_CONTROL_SETUP_SIZE \div 2

(* The elements of data_, two bytes each; size 0 wraps.                    *)
Elements(size) ==
  (((size - 1) % SizeModulus) \div 2 + 1 + LIBUSB_CONTROL_SETUP_SIZE) % SizeModulus

max_size == SizeModulus \div 4 - 1   \* of a vector of std::uint16_t

(* The vector throws length_error when it cannot have as many.             *)
ConstructBuffer(b, size, a) ==
  /\ Elements(size) <= max_size
  /\ DoAllocate(a, 2 * Elements(size), 2)
  /\ Store(b, "control", a, 2 * Elements(size), size)

Payload(b) == block[b].bytes - LIBUSB_CONTROL_SETUP_SIZE

Allocate(b, bytes, alignment, a) ==
  DoAllocate(a, bytes, alignment) /\ Store(b, "plain", a, bytes, bytes)

Next ==
  /\ ~fault
  /\ \/ \E a \in Addresses, alignment \in Alignments, bytes \in {1, 2} :
          \/ PushBackThrows(a, bytes, alignment)
          \/ \E b \in Blocks : Allocate(b, bytes, alignment, a)
     \/ \E b \in Blocks, a \in Addresses, size \in 0 .. SizeModulus - 1 : ConstructBuffer(b, size, a)
     \/ \E b \in Blocks : Deallocate(b)

Spec == Init /\ [][Next]_vars

-----------------------------------------------------------------------------
(* Properties.                                                             *)

(* The values the variables take.                                          *)
TypeOK ==
  /\ has_backup \in BOOLEAN /\ fault \in BOOLEAN
  /\ allocated_dma_chunks \subseteq Addresses /\ unrecorded \subseteq Addresses
  /\ dma \in [Addresses -> Nat] /\ backup \in [Addresses -> Nat]
  /\ block \in [Blocks -> [kind : {"none", "plain", "control"}, addr : Nat, bytes : Nat, size : Nat]]

(* Every block is given back to the allocator it came from, with the size  *)
(* it has there, though addresses move from one allocator to the other.    *)
AllocatorsAgree == ~fault

(* The client's blocks are all that is allocated, apart from those whose   *)
(* recording threw, and no two of them share memory.                       *)
NothingLeaks ==
  /\ \A a \in Addresses \ unrecorded :
       ~Unmapped(a) => \E b \in Blocks : block[b] # NoBlock /\ block[b].addr = a
  /\ \A b, c \in Blocks : b # c /\ block[b] # NoBlock /\ block[c] # NoBlock => block[b].addr # block[c].addr

(* A control buffer that could be constructed has room for the setup       *)
(* packet and at least the payload it was asked for.                       *)
PayloadSuffices ==
  \A b \in Blocks : block[b].kind = "control" => Payload(b) >= block[b].size
=============================================================================
