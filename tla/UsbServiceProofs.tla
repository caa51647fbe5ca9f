-------------------------- MODULE UsbServiceProofs --------------------------
(***************************************************************************)
(* Safety of UsbService for any finite set of devices, however many of     *)
(* them go without being closed.                                           *)
(***************************************************************************)
EXTENDS UsbService, FiniteSetTheorems, TLAPS

(* TypeOK needs the counter (open_devices_ never goes below zero because a *)
(* device that is open is counted), and the counter needs TypeOK.          *)
Inv == TypeOK /\ CounterMatchesDevices

(* The set of counted devices is finite.                                   *)
LEMMA CountedFinite ==
  /\ IsFiniteSet(Counted)
  /\ Cardinality(Counted) \in Nat
<1>1. Counted \in SUBSET Devices
  BY DEF Counted
<1>2. IsFiniteSet(Counted)
  BY <1>1, ServiceAssumption, FS_Subset
<1> QED
  BY <1>2, FS_CardinalityType

(* A step that changes nothing the counter is compared with preserves it.  *)
LEMMA CounterFrame ==
  ASSUME CounterMatchesDevices, Counted' = Counted, UNCHANGED <<open_devices, lost>>
  PROVE  CounterMatchesDevices'
BY DEF CounterMatchesDevices

(* A device that leaves the counted ones was counted.                      *)
LEMMA CountedWithout ==
  ASSUME Inv, NEW d \in Devices, dev[d] = "open", dev' = [dev EXCEPT ![d] = "closing"]
  PROVE  /\ Cardinality(Counted') = Cardinality(Counted) - 1
         /\ Cardinality(Counted') \in Nat
<1>1. Counted' = Counted \ {d}
  BY DEF Counted, Inv, TypeOK
<1>2. d \in Counted
  BY DEF Counted
<1>3. Cardinality(Counted') = Cardinality(Counted) - 1
  BY <1>1, <1>2, CountedFinite, FS_RemoveElement
<1>4. IsFiniteSet(Counted') /\ Cardinality(Counted') \in Nat
  <2>1. IsFiniteSet(Counted')
    BY <1>1, CountedFinite, FS_RemoveElement
  <2> QED
    BY <2>1, FS_CardinalityType
<1> QED
  BY <1>3, <1>4

(* The count is positive as long as a device is counted.                   *)
LEMMA CountedPositive ==
  ASSUME Inv, NEW d \in Devices, dev[d] \in {"notifying", "open"}
  PROVE  open_devices > 0
<1>1. Counted # {}
  BY DEF Counted
<1>2. Cardinality(Counted) # 0
  BY <1>1, CountedFinite, FS_EmptySet
<1>3. lost >= 0
  BY ServiceAssumption DEF Inv, TypeOK
<1> QED
  BY <1>2, <1>3, CountedFinite, ServiceAssumption DEF Inv, CounterMatchesDevices, TypeOK

(* The invariant is preserved by every step.                               *)
LEMMA InvStep ==
  ASSUME Inv, [Next]_vars
  PROVE  Inv'
<1> USE DEF Inv
<1>1. CASE LoopStep
  <2> USE DEF LoopStep, LockMutex, WaitOver, WaitGoesOn, Block, Break, HandleEvents,
              HandleEventsReturns, Goto
  <2>1. TypeOK'
    BY <1>1 DEF TypeOK
  <2>2. Counted' = Counted /\ UNCHANGED <<open_devices, lost>>
    BY <1>1 DEF Counted
  <2> QED
    BY <2>1, <2>2, CounterFrame
<1>2. CASE SpuriousWakeup
  <2>1. TypeOK'
    BY <1>2 DEF TypeOK, SpuriousWakeup, Goto
  <2>2. Counted' = Counted /\ UNCHANGED <<open_devices, lost>>
    BY <1>2 DEF Counted, SpuriousWakeup, Goto
  <2> QED
    BY <2>1, <2>2, CounterFrame
<1>3. ASSUME NEW d \in Devices, Open(d)
      PROVE  Inv'
  <2>1. TypeOK'
    BY <1>3 DEF TypeOK, Open, DevGoto
  <2>2. Counted' = Counted /\ UNCHANGED <<open_devices, lost>>
    BY <1>3 DEF Counted, Open, DevGoto, TypeOK
  <2> QED
    BY <2>1, <2>2, CounterFrame
<1>4. ASSUME NEW d \in Devices, Close(d)
      PROVE  Inv'
  <2>1. /\ dev[d] = "open"
        /\ dev' = [dev EXCEPT ![d] = "closing"]
        /\ open_devices' = open_devices - 1
        /\ UNCHANGED <<lost, stop_requested, loop, owner>>
    BY <1>4 DEF Close, DevGoto
  <2>2. Cardinality(Counted') = Cardinality(Counted) - 1 /\ Cardinality(Counted') \in Nat
    BY <2>1, CountedWithout
  <2>3. CounterMatchesDevices'
    BY <2>1, <2>2, CountedFinite DEF CounterMatchesDevices, TypeOK
  <2>4. open_devices' \in Nat
    BY <2>1, <2>2, CountedFinite DEF CounterMatchesDevices, TypeOK
  <2> QED
    BY <2>1, <2>3, <2>4 DEF TypeOK
<1>5. ASSUME NEW d \in Devices, DropHandle(d)
      PROVE  Inv'
  <2>1. /\ dev[d] = "open"
        /\ dev' = [dev EXCEPT ![d] = "closing"]
        /\ lost < MaxLost /\ lost' = lost + 1
        /\ UNCHANGED <<open_devices, stop_requested, loop, owner>>
    BY <1>5 DEF DropHandle, DevGoto
  <2>2. Cardinality(Counted') = Cardinality(Counted) - 1 /\ Cardinality(Counted') \in Nat
    BY <2>1, CountedWithout
  <2>3. CounterMatchesDevices'
    BY <2>1, <2>2, CountedFinite DEF CounterMatchesDevices, TypeOK
  <2>4. lost' \in 0 .. MaxLost
    BY <2>1, ServiceAssumption DEF TypeOK
  <2> QED
    BY <2>1, <2>3, <2>4 DEF TypeOK
<1>6. ASSUME NEW d \in Devices, NotifyDevOpened(d)
      PROVE  Inv'
  <2>1. TypeOK'
    BY <1>6 DEF TypeOK, NotifyDevOpened, DevGoto
  <2>2. d \notin Counted /\ Counted' = Counted \cup {d}
    BY <1>6 DEF Counted, NotifyDevOpened, DevGoto, TypeOK
  <2>3. Cardinality(Counted') = Cardinality(Counted) + 1
    BY <2>2, CountedFinite, FS_AddElement
  <2>4. CounterMatchesDevices'
    BY <1>6, <2>3, CountedFinite DEF CounterMatchesDevices, NotifyDevOpened, TypeOK
  <2> QED
    BY <2>1, <2>4
<1>7. ASSUME NEW d \in Devices, NotifyEventLoop(d)
      PROVE  Inv'
  <2>1. TypeOK'
    BY <1>7 DEF TypeOK, NotifyEventLoop, DevGoto, NotifyOne
  <2>2. Counted' = Counted /\ UNCHANGED <<open_devices, lost>>
    BY <1>7 DEF Counted, NotifyEventLoop, DevGoto, TypeOK
  <2> QED
    BY <2>1, <2>2, CounterFrame
<1>8. ASSUME NEW d \in Devices, CloseHandle(d)
      PROVE  Inv'
  <2>1. TypeOK'
    BY <1>8 DEF TypeOK, CloseHandle, DevGoto
  <2>2. Counted' = Counted /\ UNCHANGED <<open_devices, lost>>
    BY <1>8 DEF Counted, CloseHandle, DevGoto, TypeOK
  <2> QED
    BY <2>1, <2>2, CounterFrame
<1>9. CASE RequestStop \/ OwnerStep
  <2> USE DEF RequestStop, OwnerStep, ShutdownNotify, NotifyOne, Join, LibusbExit, OwnerGoto
  <2>1. TypeOK'
    BY <1>9 DEF TypeOK
  <2>2. Counted' = Counted /\ UNCHANGED <<open_devices, lost>>
    BY <1>9 DEF Counted
  <2> QED
    BY <2>1, <2>2, CounterFrame
<1>10. CASE UNCHANGED vars
  BY <1>10, CounterFrame DEF vars, TypeOK, Counted
<1> QED
  BY <1>1, <1>2, <1>3, <1>4, <1>5, <1>6, <1>7, <1>8, <1>9, <1>10
     DEF Next, DeviceStep, Terminated

(* The invariant holds initially.                                          *)
LEMMA InvInit == Init => Inv
<1> SUFFICES ASSUME Init PROVE Inv
  OBVIOUS
<1>1. TypeOK
  <2>1. MaxLost \in Nat
    BY ServiceAssumption
  <2>2. lost \in 0 .. MaxLost
    BY <2>1 DEF Init
  <2> QED
    BY <2>2 DEF Init, TypeOK
<1>2. Counted = {}
  BY DEF Init, Counted
<1>3. CounterMatchesDevices
  BY <1>2, FS_EmptySet DEF Init, CounterMatchesDevices
<1> QED
  BY <1>1, <1>3 DEF Inv

(* Inv is an invariant.                                                    *)
LEMMA SafetyInv == Safety => []Inv
BY InvInit, InvStep, PTL DEF Safety

(* The variables only take values of their types: in particular            *)
(* notify_dev_closed never decrements open_devices_ below zero.            *)
THEOREM TypeCorrect == Safety => []TypeOK
BY SafetyInv, PTL DEF Inv

(* open_devices_ counts the open devices and those nobody closed.          *)
THEOREM CounterCorrect == Safety => []CounterMatchesDevices
BY SafetyInv, PTL DEF Inv

-----------------------------------------------------------------------------
(* The mutex keeps open() from counting a device between the evaluation of *)
(* the predicate and the wait, and a later open() whose increment is not   *)
(* the first finds the notification of the first still to be sent.         *)
LEMMA WakeupStep ==
  ASSUME Inv, WakeupPending, [Next]_vars
  PROVE  WakeupPending'
<1> USE DEF WakeupPending
<1>1. CASE LoopStep
  <2>1. open_devices \in Nat
    BY DEF Inv, TypeOK
  <2> QED
    BY <1>1, <2>1 DEF LoopStep, LockMutex, WaitOver, WaitGoesOn, Block, Break, HandleEvents,
                HandleEventsReturns, Goto, Predicate
<1>2. CASE SpuriousWakeup
  BY <1>2 DEF SpuriousWakeup, Goto
<1>3. ASSUME NEW d \in Devices, Open(d) \/ CloseHandle(d) \/ DropHandle(d)
      PROVE  WakeupPending'
  <2>1. UNCHANGED <<open_devices, loop>>
    BY <1>3 DEF Open, CloseHandle, DropHandle
  <2>2. \A e \in Devices : dev[e] = "notifying" => dev'[e] = "notifying"
    BY <1>3 DEF Open, CloseHandle, DropHandle, DevGoto, Inv, TypeOK
  <2> QED
    BY <2>1, <2>2
<1>4. ASSUME NEW d \in Devices, Close(d)
      PROVE  WakeupPending'
  <2>1. /\ open_devices' = open_devices - 1
        /\ loop' = loop
        /\ dev[d] = "open"
        /\ dev' = [dev EXCEPT ![d] = "closing"]
    BY <1>4 DEF Close, DevGoto
  <2>2. open_devices \in Nat /\ open_devices > 0
    <3>1. d \in Counted
      BY <2>1 DEF Counted
    <3>2. Cardinality(Counted) # 0
      BY <3>1, CountedFinite, FS_EmptySet
    <3> QED
      BY <3>2, CountedFinite DEF Inv, TypeOK, CounterMatchesDevices
  <2>3. loop # "block"
    BY <2>2
  <2>4. \A e \in Devices : dev[e] = "notifying" => dev'[e] = "notifying"
    BY <2>1 DEF Inv, TypeOK
  <2> QED
    BY <2>1, <2>2, <2>3, <2>4
<1>5. ASSUME NEW d \in Devices, NotifyDevOpened(d)
      PROVE  WakeupPending'
  <2>1. loop # "block" /\ loop' = loop
    BY <1>5 DEF NotifyDevOpened, MutexFree
  <2>2. CASE open_devices = 0
    BY <1>5, <2>1, <2>2 DEF NotifyDevOpened, DevGoto, Inv, TypeOK
  <2>3. CASE open_devices # 0
    <3>1. open_devices > 0
      BY <2>3 DEF Inv, TypeOK
    <3>2. \A e \in Devices : dev[e] = "notifying" => dev'[e] = "notifying"
      BY <1>5 DEF NotifyDevOpened, DevGoto, Inv, TypeOK
    <3> QED
      BY <2>1, <3>1, <3>2
  <2> QED
    BY <2>2, <2>3
<1>6. ASSUME NEW d \in Devices, NotifyEventLoop(d)
      PROVE  WakeupPending'
  BY <1>6 DEF NotifyEventLoop, NotifyOne
<1>7. CASE RequestStop \/ OwnerStep
  BY <1>7 DEF RequestStop, OwnerStep, ShutdownNotify, NotifyOne, Join, LibusbExit
<1>8. CASE UNCHANGED vars
  BY <1>8 DEF vars
<1> QED
  BY <1>1, <1>2, <1>3, <1>4, <1>5, <1>6, <1>7, <1>8 DEF Next, DeviceStep, Terminated

(* The notification for open devices is never lost: the condition variable *)
(* is waited on with devices open only while an open() is about to notify. *)
THEOREM NoLostWakeup == Safety => []WakeupPending
<1>1. Init => WakeupPending
  BY DEF Init, WakeupPending
<1>2. Inv /\ WakeupPending /\ [Next]_vars => WakeupPending'
  BY WakeupStep
<1> QED
  BY <1>1, <1>2, SafetyInv, PTL DEF Safety

-----------------------------------------------------------------------------
(* The event thread ends when shutdown() has told it to.                   *)
StopKnown ==
  /\ loop = "done" => stop_requested
  /\ stop_requested => owner # "using"

LEMMA StopKnownStep ==
  ASSUME StopKnown, [Next]_vars
  PROVE  StopKnown'
BY DEF StopKnown, Next, vars, Terminated, LoopStep, SpuriousWakeup, LockMutex, WaitOver, WaitGoesOn, Block,
       Break, HandleEvents, HandleEventsReturns, Goto, Open, Close, DropHandle, DeviceStep, NotifyDevOpened,
       NotifyEventLoop, NotifyOne, CloseHandle, DevGoto, RequestStop, OwnerStep, ShutdownNotify, Join,
       LibusbExit, OwnerGoto

LEMMA StopKnownCorrect == Safety => []StopKnown
<1>1. Init => StopKnown
  BY DEF Init, StopKnown
<1> QED
  BY <1>1, StopKnownStep, PTL DEF Safety

=============================================================================
