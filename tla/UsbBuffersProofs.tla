-------------------------- MODULE UsbBuffersProofs --------------------------
(***************************************************************************)
(* Theorems about UsbBuffers: which allocator every block goes back to, and *)
(* the size of control buffers, for any addresses, blocks and width of     *)
(* size_t.                                                                 *)
(***************************************************************************)
EXTENDS UsbBuffers, TLAPS

USE DEF NoBlock

(* A block the client has is in exactly one allocator, with its size, and  *)
(* is recorded just when the record decides where it is given back.        *)
InDma(b) == dma[block[b].addr] = block[b].bytes /\ (has_backup => block[b].addr \in allocated_dma_chunks)
InBackup(b) == has_backup /\ backup[block[b].addr] = block[b].bytes /\ dma[block[b].addr] = 0

Has(b) == block[b] # NoBlock

RecordedIsMapped ==
  /\ \A a \in allocated_dma_chunks \cup unrecorded : dma[a] # 0
  /\ allocated_dma_chunks \cap unrecorded = {}

(* No address is in both allocators.                                       *)
Apart == \A a \in Addresses : dma[a] = 0 \/ backup[a] = 0

Placed ==
  \A b \in Blocks : Has(b) =>
    /\ block[b].addr \in Addresses \ unrecorded /\ block[b].bytes > 0
    /\ InDma(b) \/ InBackup(b)

IInv == TypeOK /\ ~fault /\ RecordedIsMapped /\ Apart /\ Placed /\ NothingLeaks

-----------------------------------------------------------------------------
(* Elements, with the wrap of size 0 worked out.                           *)

LEMMA ElementsBounds ==
  ASSUME NEW size \in 0 .. SizeModulus - 1, Elements(size) <= max_size
  PROVE  Elements(size) \in Nat /\ Elements(size) > 0
         /\ 2 * Elements(size) - LIBUSB_CONTROL_SETUP_SIZE >= size
<1> USE BuffersAssumption
<1>a. SizeModulus \in Nat /\ SizeModulus > 32 OBVIOUS
<1>1. CASE size = 0
  <2>1. (size - 1) % SizeModulus = SizeModulus - 1 BY <1>1, <1>a
  <2>2. \E k \in Nat : SizeModulus = 4 * k BY <1>a
  <2>3. PICK k \in Nat : SizeModulus = 4 * k BY <2>2
  <2>4. (SizeModulus - 1) \div 2 = 2 * k - 1 BY <2>3, <1>a
  <2>5. Elements(size) = (2 * k + 8) % SizeModulus BY <2>1, <2>4, <2>3 DEF Elements, LIBUSB_CONTROL_SETUP_SIZE
  <2>6. Elements(size) = 2 * k + 8 BY <2>5, <2>3, <1>a
  <2>7. max_size = k - 1 BY <2>3 DEF max_size
  <2> QED BY <2>6, <2>7
<1>2. CASE size > 0
  <2>1. (size - 1) % SizeModulus = size - 1 BY <1>2, <1>a
  <2>2. (size - 1) \div 2 \in Nat /\ 2 * ((size - 1) \div 2) >= size - 2 /\ 2 * ((size - 1) \div 2) <= size - 1 BY <1>2, <1>a
  <2>3. Elements(size) = ((size - 1) \div 2 + 9) % SizeModulus BY <2>1, <2>2 DEF Elements, LIBUSB_CONTROL_SETUP_SIZE
  <2>4. Elements(size) = (size - 1) \div 2 + 9 BY <2>2, <2>3, <1>a, <1>2
  <2> QED BY <2>2, <2>4 DEF LIBUSB_CONTROL_SETUP_SIZE
<1> QED BY <1>1, <1>2

-----------------------------------------------------------------------------
LEMMA InitIInv == Init => IInv
<1> SUFFICES ASSUME Init PROVE IInv OBVIOUS
<1> USE DEF Init, Has
<1>1. \A b \in Blocks : ~Has(b) OBVIOUS
<1>2. TypeOK /\ ~fault BY DEF TypeOK
<1>3. RecordedIsMapped /\ Apart /\ Placed BY <1>1 DEF RecordedIsMapped, Apart, Placed
<1>4. NothingLeaks BY <1>1 DEF NothingLeaks, Unmapped
<1> QED BY <1>2, <1>3, <1>4 DEF IInv

(* A block that is allocated is new to both allocators.                    *)
LEMMA StoreStep ==
  ASSUME IInv, NEW b \in Blocks, NEW kind \in {"plain", "control"}, NEW a \in Addresses,
         NEW bytes \in Nat \ {0}, NEW size \in Nat, NEW alignment \in Nat \ {0},
         DoAllocate(a, bytes, alignment), Store(b, kind, a, bytes, size)
  PROVE  IInv'
<1> USE DEF IInv, Store, Has
<1>1. \A c \in Blocks : Has(c)' <=> (c = b \/ Has(c)) BY DEF TypeOK
<1>2. /\ block'[b].addr = a /\ block'[b].bytes = bytes
      /\ \A c \in Blocks \ {b} : block'[c] = block[c]
  BY DEF TypeOK
<1>3. \A c \in Blocks \ {b} : Has(c) => block[c].addr # a
  BY DEF DoAllocate, AllocateDma, AllocateBackup, MapDma, Unmapped, TypeOK, Placed, InDma, InBackup
<1>4. CASE AllocateDma(a, bytes, alignment)
  <2> USE <1>4 DEF AllocateDma, MapDma, Unmapped
  <2>1. TypeOK' BY BuffersAssumption DEF TypeOK
  <2>2. RecordedIsMapped' /\ Apart' BY DEF RecordedIsMapped, Apart, TypeOK
  <2>3. Placed' BY <1>1, <1>2, <1>3 DEF Placed, InDma, InBackup, TypeOK, RecordedIsMapped
  <2>4. NothingLeaks' BY <1>1, <1>2, <1>3 DEF NothingLeaks, TypeOK
  <2> QED BY <2>1, <2>2, <2>3, <2>4
<1>5. CASE AllocateBackup(a, bytes)
  <2> USE <1>5 DEF AllocateBackup, Unmapped
  <2>1. TypeOK' BY BuffersAssumption DEF TypeOK
  <2>2. RecordedIsMapped' /\ Apart' BY DEF RecordedIsMapped, Apart, TypeOK
  <2>3. Placed' BY <1>1, <1>2, <1>3 DEF Placed, InDma, InBackup, TypeOK, RecordedIsMapped
  <2>4. NothingLeaks' BY <1>1, <1>2, <1>3 DEF NothingLeaks, TypeOK
  <2> QED BY <2>1, <2>2, <2>3, <2>4
<1> QED BY <1>4, <1>5 DEF DoAllocate

LEMMA PushBackThrowsStep ==
  ASSUME IInv, NEW a \in Addresses, NEW bytes \in Nat \ {0}, NEW alignment \in Nat \ {0},
         PushBackThrows(a, bytes, alignment)
  PROVE  IInv'
<1> USE DEF IInv, PushBackThrows, MapDma, Unmapped, Has
<1>1. \A c \in Blocks : Has(c) => block[c].addr # a BY DEF TypeOK, Placed, InDma, InBackup
<1>2. TypeOK' BY DEF TypeOK
<1>3. RecordedIsMapped' /\ Apart' BY DEF RecordedIsMapped, Apart, TypeOK
<1>4. Placed' BY <1>1 DEF Placed, InDma, InBackup, TypeOK
<1>5. NothingLeaks' BY <1>1 DEF NothingLeaks, TypeOK
<1> QED BY <1>2, <1>3, <1>4, <1>5

(* The record finds the allocator of a block; what the block leaves behind *)
(* is unmapped, and no other block was there.                              *)
LEMMA DeallocateStep ==
  ASSUME IInv, NEW b \in Blocks, Deallocate(b)
  PROVE  IInv'
<1> USE DEF IInv, Deallocate, Has
<1> DEFINE a == block[b].addr
<1>1. /\ a \in Addresses \ unrecorded /\ block[b].bytes > 0
      /\ InDma(b) \/ InBackup(b)
  BY DEF Placed
<1>2. \A c \in Blocks : Has(c)' <=> (c # b /\ Has(c)) BY DEF TypeOK
<1>3. \A c \in Blocks \ {b} : block'[c] = block[c] /\ (Has(c) => block[c].addr # a)
  BY DEF TypeOK, NothingLeaks
<1>4. CASE FreeDma(a, block[b].bytes)
  <2> USE <1>4 DEF FreeDma, IsDma, Erase
  <2>1. InDma(b) BY <1>1 DEF InBackup, RecordedIsMapped
  <2>2. backup[a] = 0
    BY <1>1, <2>1 DEF InDma, Apart, TypeOK
  <2>3. TypeOK' /\ ~fault' BY <1>1, <2>1 DEF TypeOK, InDma
  <2>4. RecordedIsMapped' /\ Apart' BY <1>1 DEF RecordedIsMapped, Apart, TypeOK
  <2>5. Placed' BY <1>2, <1>3 DEF Placed, InDma, InBackup, TypeOK
  <2>6. NothingLeaks' BY <1>1, <1>2, <1>3, <2>2 DEF NothingLeaks, Unmapped, TypeOK
  <2> QED BY <2>3, <2>4, <2>5, <2>6
<1>5. CASE FreeBackup(a, block[b].bytes)
  <2> USE <1>5 DEF FreeBackup, IsDma
  <2>1. InBackup(b) BY <1>1 DEF InDma
  <2>2. TypeOK' /\ ~fault' BY <1>1, <2>1 DEF TypeOK, InBackup
  <2>3. RecordedIsMapped' /\ Apart' BY DEF RecordedIsMapped, Apart, TypeOK
  <2>4. Placed' BY <1>2, <1>3 DEF Placed, InDma, InBackup, TypeOK
  <2>5. NothingLeaks' BY <1>1, <1>2, <1>3, <2>1 DEF NothingLeaks, Unmapped, InBackup, TypeOK
  <2> QED BY <2>2, <2>3, <2>4, <2>5
<1> QED BY <1>4, <1>5

LEMMA NextIInv == IInv /\ [Next]_vars => IInv'
<1> SUFFICES ASSUME IInv, [Next]_vars PROVE IInv' OBVIOUS
<1> USE BuffersAssumption
<1>1. ASSUME NEW a \in Addresses, NEW alignment \in Alignments, NEW bytes \in {1, 2},
             PushBackThrows(a, bytes, alignment)
      PROVE  IInv'
  BY <1>1, PushBackThrowsStep
<1>2. ASSUME NEW a \in Addresses, NEW alignment \in Alignments, NEW bytes \in {1, 2},
             NEW b \in Blocks, Allocate(b, bytes, alignment, a)
      PROVE  IInv'
  BY <1>2, StoreStep DEF Allocate
<1>3. ASSUME NEW b \in Blocks, NEW a \in Addresses, NEW size \in 0 .. SizeModulus - 1,
             ConstructBuffer(b, size, a)
      PROVE  IInv'
  <2>1. Elements(size) \in Nat \ {0} BY <1>3, ElementsBounds DEF ConstructBuffer
  <2>2. 2 * Elements(size) \in Nat \ {0} BY <2>1
  <2> QED BY <1>3, <2>2, StoreStep DEF ConstructBuffer
<1>4. ASSUME NEW b \in Blocks, Deallocate(b) PROVE IInv'
  BY <1>4, DeallocateStep
<1>5. CASE UNCHANGED vars
  BY <1>5 DEF IInv, TypeOK, RecordedIsMapped, Apart, Placed, NothingLeaks, Unmapped,
              Has, InDma, InBackup, vars, memory
<1> QED BY <1>1, <1>2, <1>3, <1>4, <1>5 DEF Next

THEOREM Invariance == Spec => []IInv
BY InitIInv, NextIInv, PTL DEF Spec

(* The variables keep their types, for any number of blocks and addresses. *)
THEOREM TypeCorrect == Spec => []TypeOK
<1>1. IInv => TypeOK BY DEF IInv
<1> QED BY <1>1, Invariance, PTL

(* No block is given to the wrong allocator, or with a wrong size.         *)
THEOREM AllocatorsCorrect == Spec => []AllocatorsAgree
<1>1. IInv => AllocatorsAgree BY DEF IInv, AllocatorsAgree
<1> QED BY <1>1, Invariance, PTL

(* What is allocated is the client's, each block once, apart from what     *)
(* push_back threw for.                                                    *)
THEOREM NothingLeaksCorrect == Spec => []NothingLeaks
<1>1. IInv => NothingLeaks BY DEF IInv
<1> QED BY <1>1, Invariance, PTL

(* For every width of size_t from 6 bits on, and every size, a control     *)
(* buffer that can be constructed holds the setup packet and its payload.  *)
THEOREM PayloadCorrect == Spec => []PayloadSuffices
<1>1. Init => PayloadSuffices
  BY DEF Init, PayloadSuffices
<1>2. IInv /\ PayloadSuffices /\ [Next]_vars => PayloadSuffices'
  <2> SUFFICES ASSUME IInv, PayloadSuffices, [Next]_vars,
                      NEW c \in Blocks, block'[c].kind = "control"
               PROVE  block'[c].bytes - LIBUSB_CONTROL_SETUP_SIZE >= block'[c].size
    BY DEF PayloadSuffices, Payload
  <2>1. CASE block'[c] = block[c]
    BY <2>1 DEF PayloadSuffices, Payload
  <2>2. ASSUME NEW b \in Blocks, NEW a \in Addresses, NEW bytes \in {1, 2}, NEW alignment \in Alignments,
               Allocate(b, bytes, alignment, a)
        PROVE  block'[c] = block[c]
    BY <2>2 DEF Allocate, Store, IInv, TypeOK
  <2>3. ASSUME NEW b \in Blocks, NEW a \in Addresses, NEW size \in 0 .. SizeModulus - 1,
               ConstructBuffer(b, size, a), block'[c] # block[c]
        PROVE  block'[c].bytes - LIBUSB_CONTROL_SETUP_SIZE >= block'[c].size
    <3>1. block'[c] = [kind |-> "control", addr |-> a, bytes |-> 2 * Elements(size), size |-> size]
      BY <2>3 DEF ConstructBuffer, Store, IInv, TypeOK
    <3> QED BY <2>3, <3>1, ElementsBounds DEF ConstructBuffer
  <2>4. ASSUME NEW b \in Blocks, Deallocate(b) PROVE block'[c] = block[c]
    BY <2>4 DEF Deallocate, IInv, TypeOK
  <2>5. CASE UNCHANGED vars
    BY <2>5, <2>1 DEF vars
  <2> QED BY <2>1, <2>2, <2>3, <2>4, <2>5 DEF Next, PushBackThrows
<1> QED BY <1>1, <1>2, Invariance, PTL DEF Spec
=============================================================================
