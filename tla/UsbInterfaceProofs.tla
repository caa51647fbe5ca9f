------------------------- MODULE UsbInterfaceProofs -------------------------
(***************************************************************************)
(* Objects, claims, drivers and handles agree for any sets of objects,     *)
(* interface numbers and handles, any memory a new object may be           *)
(* constructed in and any number of functions posted.                      *)
(***************************************************************************)
EXTENDS UsbInterface, SequenceLemmas, TLAPS

Pcs == {"idle", "release", "attach", "forget", "detach_driver", "claim", "take", "alt", "device"}
Calls == [pc : Pcs, i : Interfaces \cup {None}, reattach : BOOLEAN, detach : BOOLEAN,
          then : {"return", "claim", "destroy", "take"},
          arg : Numbers \cup Interfaces \cup Handles \cup {None}]

Types ==
  /\ life \in [Interfaces -> {"unborn", "constructing", "alive"}]
  /\ device_handle \in [Interfaces -> Handles \cup {None, Wild}]
  /\ number \in [Interfaces -> Numbers \cup {None}]
  /\ call \in [Threads -> Calls]
  /\ blocking_queue \in Seq(Calls)
  /\ device \in Handles \cup {None} /\ present \in BOOLEAN
  /\ held \subseteq Numbers /\ driver \subseteq Numbers
  /\ (device = None => held = {})

(* The object says is_claimed(), and no function of it is at the end of    *)
(* unclaim.                                                                *)
Claimed(i) == life[i] = "alive" /\ device_handle[i] \in Handles

(* Every claimed object has the open device, and its interface unless it   *)
(* has just been released; a number has one owner.                         *)
OwnInv == \A i \in Interfaces : Claimed(i) =>
  /\ device_handle[i] = device /\ number[i] \in Numbers
  /\ number[i] \in held \/ Released(i)
  /\ \A j \in Interfaces \ {i} : ~Owns(j, number[i])

(* What unclaim has released stays released until the object is told.      *)
ReleaseInv == \A th \in Threads : call[th].pc \in {"attach", "forget"} =>
  /\ Claimed(call[th].i) /\ number[call[th].i] \notin held

(* The functions that were posted.                                         *)
PostedInv == \A c \in Posted :
  /\ c.pc \in {"idle", "release", "attach", "forget", "alt", "device"} /\ c.then = "return"
  /\ c.pc = "idle" => c = NoCall
  /\ c.pc = "device" => c.i = None
  /\ c.pc \in {"release", "attach", "forget", "alt"} => c.i \in Interfaces /\ life[c.i] = "alive"

QueueInv == \A c \in Range(blocking_queue) : c.pc \in {"release", "alt", "device"}

(* The function the client executes: it has the objects to itself, and     *)
(* nobody takes the number meanwhile that it is going to claim.            *)
Alone(i) == \A c \in Posted : c.i # i
ClaimingInv(c) == c.then = "claim" =>
  /\ c.pc \in {"release", "attach", "forget", "detach_driver", "claim"}
  /\ c.arg \in Numbers /\ device # None
  /\ \A j \in Interfaces \ {c.i} : ~Owns(j, c.arg)
TakingInv(c) == c.then = "take" =>
  /\ c.pc \in {"release", "attach", "forget", "take"}
  /\ c.arg \in Interfaces /\ Alone(c.arg) /\ life[c.arg] = "alive"
ClientInv == LET c == call["client"] IN
  IF c.pc = "idle" THEN c = NoCall
  ELSE /\ c.i \in Interfaces /\ Alone(c.i)
       /\ life[c.i] = "alive" \/ (life[c.i] = "constructing" /\ c.then = "claim")
       /\ life[c.i] = "constructing" => device_handle[c.i] \notin Handles
       /\ c.then \in {"return", "destroy"} => c.pc \in {"release", "attach", "forget"}
       /\ ClaimingInv(c) /\ TakingInv(c)
       /\ c.pc \in {"detach_driver", "claim"} => device_handle[c.i] = None
       /\ c.pc = "take" /\ c.arg # c.i /\ device_handle[c.i] \in Handles => number[c.i] \in abandoned

IInv ==
  /\ Types /\ OwnInv /\ ReleaseInv /\ PostedInv /\ QueueInv /\ ClientInv
  /\ HeldIsOwned /\ DriverComesBack

-----------------------------------------------------------------------------
LEMMA NoCallType == NoCall \in Calls /\ NoCall.pc = "idle" /\ NoCall.i = None
                    /\ NoCall.then = "return"
BY DEF NoCall, Calls, Pcs

LEMMA InitIInv == Init => IInv
<1> SUFFICES ASSUME Init PROVE IInv
  OBVIOUS
<1> USE InterfaceAssumption, NoCallType
<1>1. Types
  <2>1. << >> \in Seq(Calls)
    BY EmptySeq
  <2> QED
    BY <2>1 DEF Init, Types
<1>2. OwnInv /\ ReleaseInv /\ ClientInv
  BY DEF Init, OwnInv, ReleaseInv, ClientInv, Claimed, Threads, NoCall
<1>3. Range(blocking_queue) = {}
  BY DEF Init, Range
<1>4. PostedInv /\ QueueInv
  BY <1>3 DEF Init, PostedInv, QueueInv, Posted, Threads, NoCall
<1>5. HeldIsOwned /\ DriverComesBack
  BY DEF Init, HeldIsOwned, DriverComesBack
<1> QED
  BY <1>1, <1>2, <1>4, <1>5 DEF IInv

(* The functions posted, when the queue does not change.                   *)
LEMMA SamePosted ==
  ASSUME UNCHANGED blocking_queue, call'["blocking"] = call["blocking"]
  PROVE  Posted' = Posted
BY DEF Posted

LEMMA StutterIInv == IInv /\ UNCHANGED vars => IInv'
BY DEF IInv, vars, objVars, devVars, usbVars, Types, OwnInv, ReleaseInv, PostedInv, QueueInv,
   ClientInv, ClaimingInv, TakingInv, Alone, HeldIsOwned, DriverComesBack, Claimed, Owns, Released,
   InUse, Posted, At

-----------------------------------------------------------------------------
(* The client begins a function.                                           *)

LEMMA UsableIsAlone ==
  ASSUME IInv, NEW i \in Interfaces, MayUse(i)
  PROVE  Alone(i) /\ life[i] = "alive" /\ call["client"] = NoCall
BY DEF MayUse, PostedFor, Alone, ClientFree

LEMMA BeginIInv ==
  ASSUME IInv, NEW c \in Calls, ClientFree, Begin(c), UNCHANGED <<objVars, devVars>>,
         c.pc = "release", c.i \in Interfaces, Alone(c.i), life[c.i] = "alive",
         ClaimingInv(c), TakingInv(c)
  PROVE  IInv'
<1>0. /\ call["client"] = NoCall /\ call \in [Threads -> Calls] /\ Threads = {"client", "blocking"}
      /\ call' = [call EXCEPT !["client"] = c]
      /\ UNCHANGED <<life, device_handle, number, blocking_queue, device, closed, present,
                     held, driver, detached, abandoned, forgone>>
  BY DEF ClientFree, Begin, objVars, devVars, usbVars, IInv, Types, Threads
<1>1. call'["client"] = c /\ call'["blocking"] = call["blocking"] /\ Posted' = Posted
  BY <1>0, SamePosted
<1>2. Types'
  BY <1>0 DEF IInv, Types
<1>3. \A i \in Interfaces : Released(i)' <=> Released(i)
  BY <1>0, <1>1, NoCallType DEF Released
<1>4. OwnInv'
  BY <1>0, <1>3 DEF IInv, OwnInv, Claimed, Owns
<1>5. ReleaseInv'
  BY <1>0, <1>1 DEF IInv, ReleaseInv, Claimed
<1>6. PostedInv' /\ QueueInv'
  BY <1>0, <1>1 DEF IInv, PostedInv, QueueInv
<1>7. ClientInv'
  BY <1>0, <1>1 DEF IInv, ClientInv, ClaimingInv, TakingInv, Alone, Owns
<1>8. HeldIsOwned'
  BY <1>0 DEF IInv, HeldIsOwned, Owns
<1>9. DriverComesBack'
  BY <1>0, <1>1, NoCallType DEF IInv, DriverComesBack, InUse, At
<1> QED
  BY <1>2, <1>4, <1>5, <1>6, <1>7, <1>8, <1>9 DEF IInv

LEMMA ClaimIInv ==
  ASSUME IInv, NEW i \in Interfaces, NEW n \in Numbers, NEW d \in BOOLEAN, Claim(i, n, d),
         UNCHANGED devVars
  PROVE  IInv'
<1> DEFINE c == Claiming(i, n, d)
<1>1. c \in Calls /\ c.pc = "release" /\ c.i = i /\ c.then = "claim" /\ c.arg = n
  BY DEF Claiming, NoCall, Calls, Pcs
<1>2. Alone(i) /\ life[i] = "alive"
  BY UsableIsAlone DEF Claim
<1>3. ClaimingInv(c) /\ TakingInv(c)
  BY <1>1 DEF Claim, MayClaim, ClaimingInv, TakingInv
<1>4. ClientFree /\ Begin(c) /\ UNCHANGED <<objVars, devVars>>
  BY DEF Claim, MayUse
<1> HIDE DEF c
<1> QED
  BY <1>1, <1>2, <1>3, <1>4, BeginIInv

LEMMA UnclaimIInv ==
  ASSUME IInv, NEW i \in Interfaces, NEW r \in BOOLEAN, Unclaim(i, r), UNCHANGED devVars
  PROVE  IInv'
<1> DEFINE c == Unclaiming(i, r)
<1>1. c \in Calls /\ c.pc = "release" /\ c.i = i /\ c.then = "return"
  BY DEF Unclaiming, NoCall, Calls, Pcs
<1>2. Alone(i) /\ life[i] = "alive"
  BY UsableIsAlone DEF Unclaim
<1>3. ClaimingInv(c) /\ TakingInv(c)
  BY <1>1 DEF ClaimingInv, TakingInv
<1>4. ClientFree /\ Begin(c) /\ UNCHANGED <<objVars, devVars>>
  BY DEF Unclaim, MayUse
<1> HIDE DEF c
<1> QED
  BY <1>1, <1>2, <1>3, <1>4, BeginIInv

LEMMA DestroyIInv ==
  ASSUME IInv, NEW i \in Interfaces, Destroy(i), UNCHANGED devVars PROVE IInv'
<1> DEFINE c == [Unclaiming(i, TRUE) EXCEPT !.then = "destroy"]
<1>1. c \in Calls /\ c.pc = "release" /\ c.i = i /\ c.then = "destroy"
  BY DEF Unclaiming, NoCall, Calls, Pcs
<1>2. Alone(i) /\ life[i] = "alive"
  BY UsableIsAlone DEF Destroy
<1>3. ClaimingInv(c) /\ TakingInv(c)
  BY <1>1 DEF ClaimingInv, TakingInv
<1>4. ClientFree /\ Begin(c) /\ UNCHANGED <<objVars, devVars>>
  BY DEF Destroy, MayUse
<1> HIDE DEF c
<1> QED
  BY <1>1, <1>2, <1>3, <1>4, BeginIInv

LEMMA MoveAssignIInv ==
  ASSUME IInv, NEW i \in Interfaces, NEW other \in Interfaces, MoveAssign(i, other),
         UNCHANGED devVars
  PROVE  IInv'
<1> DEFINE c == [Unclaiming(i, TRUE) EXCEPT !.then = "take", !.arg = other]
<1>1. c \in Calls /\ c.pc = "release" /\ c.i = i /\ c.then = "take" /\ c.arg = other
  BY DEF Unclaiming, NoCall, Calls, Pcs
<1>2. Alone(i) /\ life[i] = "alive" /\ Alone(other) /\ life[other] = "alive"
  BY UsableIsAlone DEF MoveAssign
<1>3. ClaimingInv(c) /\ TakingInv(c)
  BY <1>1, <1>2 DEF ClaimingInv, TakingInv
<1>4. ClientFree /\ Begin(c) /\ UNCHANGED <<objVars, devVars>>
  BY DEF MoveAssign, MayUse
<1> HIDE DEF c
<1> QED
  BY <1>1, <1>2, <1>3, <1>4, BeginIInv

(* A new object: whatever its memory contains, it is not a handle.         *)
LEMMA BornIInv ==
  ASSUME IInv, NEW i \in Interfaces, NEW garbage \in Memory, NEW how \in {"alive", "constructing"},
         NEW c \in Calls, Born(i, garbage, how), call' = [call EXCEPT !["client"] = c],
         UNCHANGED <<blocking_queue, usbVars, devVars>>,
         how = "alive" => c = NoCall,
         how = "constructing" => /\ c.pc = "release" /\ c.i = i /\ c.then = "claim" /\ ClaimingInv(c)
  PROVE  IInv'
<1>0. /\ call["client"] = NoCall /\ call \in [Threads -> Calls] /\ Threads = {"client", "blocking"}
      /\ life[i] = "unborn" /\ garbage \in {None, Wild} /\ garbage \notin Handles
      /\ \A j \in Interfaces : life'[j] = IF j = i THEN how ELSE life[j]
      /\ \A j \in Interfaces : device_handle'[j] = IF j = i THEN garbage ELSE device_handle[j]
      /\ \A j \in Interfaces : number'[j] = IF j = i THEN None ELSE number[j]
      /\ UNCHANGED <<blocking_queue, device, closed, present, held, driver, detached, abandoned, forgone>>
  BY InterfaceAssumption DEF ClientFree, Born, devVars, usbVars, IInv, Types, Threads
<1>1. call'["client"] = c /\ call'["blocking"] = call["blocking"] /\ Posted' = Posted
  BY <1>0, SamePosted
<1>2. Types'
  BY <1>0, InterfaceAssumption DEF IInv, Types, Born
<1>a. Alone(i) /\ Alone(i)'
  BY <1>0, <1>1, NoCallType, InterfaceAssumption DEF IInv, PostedInv, Alone
<1>3. \A j \in Interfaces : /\ Released(j)' <=> Released(j)
                            /\ Claimed(j)' <=> Claimed(j)
                            /\ Claimed(j) => j # i
                            /\ \A n \in Numbers : Owns(j, n)' <=> Owns(j, n)
  BY <1>0, <1>1, NoCallType DEF Released, Claimed, Owns
<1>4. OwnInv'
  BY <1>0, <1>3 DEF IInv, OwnInv
<1>5. ReleaseInv'
  <2>1. \A th \in Threads : call'[th].pc \in {"attach", "forget"} =>
          th = "blocking" /\ call'[th] = call[th] /\ Claimed(call[th].i)
    BY <1>0, <1>1, NoCallType DEF IInv, ReleaseInv
  <2>2. call["blocking"].pc \in {"attach", "forget"} => call["blocking"].i \in Interfaces \ {i}
    BY <1>a DEF IInv, PostedInv, Posted, Alone
  <2> QED
    BY <1>0, <1>3, <2>1, <2>2 DEF IInv, ReleaseInv
<1>6. PostedInv' /\ QueueInv'
  BY <1>0, <1>1, <1>a DEF IInv, PostedInv, QueueInv, Alone
<1>7. ClientInv'
  BY <1>0, <1>1, <1>3, <1>a, NoCallType DEF IInv, ClientInv, ClaimingInv, TakingInv
<1>8. HeldIsOwned'
  BY <1>0, <1>3 DEF IInv, HeldIsOwned, Types
<1>9. DriverComesBack'
  <2>1. call["blocking"].pc = "attach" => call["blocking"].i \in Interfaces \ {i}
    BY <1>a DEF IInv, PostedInv, Posted, Alone
  <2> QED
    BY <1>0, <1>1, <2>1, NoCallType DEF IInv, DriverComesBack, InUse, At
<1> QED
  BY <1>2, <1>4, <1>5, <1>6, <1>7, <1>8, <1>9 DEF IInv

LEMMA ConstructIInv ==
  ASSUME IInv, NEW i \in Interfaces, NEW garbage \in Memory, NEW n \in Numbers,
         Construct(i, garbage, n), UNCHANGED devVars
  PROVE  IInv'
<1> DEFINE c == Claiming(i, n, TRUE)
<1>1. c \in Calls /\ c.pc = "release" /\ c.i = i /\ c.then = "claim" /\ c.arg = n
  BY DEF Claiming, NoCall, Calls, Pcs
<1>2. ClaimingInv(c)
  BY <1>1 DEF Construct, MayClaim, ClaimingInv
<1>3. /\ Born(i, garbage, "constructing") /\ call' = [call EXCEPT !["client"] = c]
      /\ UNCHANGED <<blocking_queue, usbVars, devVars>>
  BY DEF Construct, Begin
<1> HIDE DEF c
<1> QED
  BY <1>1, <1>2, <1>3, BornIInv

LEMMA ConstructEmptyIInv ==
  ASSUME IInv, NEW i \in Interfaces, NEW garbage \in Memory, ConstructEmpty(i, garbage),
         UNCHANGED devVars
  PROVE  IInv'
<1>1. call' = [call EXCEPT !["client"] = NoCall]
  BY DEF ConstructEmpty, Born, ClientFree, IInv, Types, Threads
<1> QED
  BY <1>1, NoCallType, BornIInv DEF ConstructEmpty

LEMMA DetachIInv ==
  ASSUME IInv, NEW i \in Interfaces, Detach(i), UNCHANGED devVars PROVE IInv'
<1>0. /\ call["client"] = NoCall /\ Threads = {"client", "blocking"} /\ Alone(i) /\ life[i] = "alive"
      /\ \A j \in Interfaces : device_handle'[j] = IF j = i THEN None ELSE device_handle[j]
      /\ \A j \in Interfaces : number'[j] = IF j = i THEN None ELSE number[j]
      /\ detached' = IF Claimed(i) THEN detached \cup {number[i]} ELSE detached
      /\ UNCHANGED <<life, call, blocking_queue, device, closed, present, held, driver, abandoned, forgone>>
  BY UsableIsAlone DEF Detach, devVars, IInv, Types, Threads, Claimed
<1>1. Posted' = Posted
  BY <1>0, SamePosted
<1>2. Types'
  BY <1>0 DEF IInv, Types, Detach
<1>3. \A j \in Interfaces : /\ Released(j)' <=> Released(j)
                            /\ Claimed(j)' <=> Claimed(j) /\ j # i
                            /\ \A n \in Numbers : Owns(j, n)' <=> Owns(j, n) /\ j # i
  BY <1>0, InterfaceAssumption DEF Released, Claimed, Owns
<1>b. \A th \in Threads : call[th].pc \in {"attach", "forget"} => call[th].i \in Interfaces \ {i}
  BY <1>0, NoCallType DEF IInv, PostedInv, Posted, Alone
<1>4. OwnInv'
  BY <1>0, <1>3 DEF IInv, OwnInv
<1>5. ReleaseInv'
  BY <1>0, <1>3, <1>b DEF IInv, ReleaseInv
<1>6. PostedInv' /\ QueueInv'
  BY <1>0, <1>1 DEF IInv, PostedInv, QueueInv
<1>7. ClientInv'
  BY <1>0, NoCallType DEF IInv, ClientInv
<1>8. HeldIsOwned'
  BY <1>0, <1>3 DEF IInv, HeldIsOwned, Types, Owns, Claimed
<1>9. DriverComesBack'
  BY <1>0, <1>b DEF IInv, DriverComesBack, InUse, At
<1> QED
  BY <1>2, <1>4, <1>5, <1>6, <1>7, <1>8, <1>9 DEF IInv

-----------------------------------------------------------------------------
(* Functions are posted and taken.                                         *)

LEMMA PostIInv ==
  ASSUME IInv, NEW c \in Calls, PostFunction(c), UNCHANGED devVars,
         c.pc \in {"release", "alt", "device"}, c.then = "return",
         c.pc = "device" => c.i = None,
         c.pc # "device" => c.i \in Interfaces /\ life[c.i] = "alive"
  PROVE  IInv'
<1>0. /\ call["client"] = NoCall /\ blocking_queue \in Seq(Calls)
      /\ blocking_queue' = Append(blocking_queue, c)
      /\ UNCHANGED <<life, device_handle, number, call, device, closed, present,
                     held, driver, detached, abandoned, forgone>>
  BY DEF ClientFree, PostFunction, Enqueue, objVars, devVars, usbVars, IInv, Types
<1>1. Range(blocking_queue)' = Range(blocking_queue) \cup {c}
  BY <1>0, RangeAppend
<1>2. Posted' = Posted \cup {c}
  BY <1>0, <1>1 DEF Posted
<1>3. Types'
  <2>1. blocking_queue' \in Seq(Calls)
    BY <1>0, AppendProperties
  <2> QED
    BY <1>0, <2>1 DEF IInv, Types
<1>4. OwnInv' /\ ReleaseInv'
  BY <1>0 DEF IInv, OwnInv, ReleaseInv, Claimed, Owns, Released
<1>5. PostedInv' /\ QueueInv'
  BY <1>0, <1>1, <1>2 DEF IInv, PostedInv, QueueInv
<1>6. ClientInv'
  BY <1>0, NoCallType DEF IInv, ClientInv
<1>7. HeldIsOwned' /\ DriverComesBack'
  BY <1>0 DEF IInv, HeldIsOwned, DriverComesBack, InUse, At, Owns
<1> QED
  BY <1>3, <1>4, <1>5, <1>6, <1>7 DEF IInv

LEMMA PostsIInv ==
  ASSUME IInv, UNCHANGED devVars, NEW i \in Interfaces,
         (\E r \in BOOLEAN : AsyncUnclaim(i, r)) \/ AsyncSetAltSetting(i)
  PROVE  IInv'
<1>1. ASSUME NEW r \in BOOLEAN, AsyncUnclaim(i, r) PROVE IInv'
  <2> DEFINE c == Unclaiming(i, r)
  <2>1. c \in Calls /\ c.pc = "release" /\ c.then = "return" /\ c.i = i
    BY DEF Unclaiming, NoCall, Calls, Pcs
  <2>2. PostFunction(c) /\ life[i] = "alive"
    BY <1>1 DEF AsyncUnclaim
  <2> HIDE DEF c
  <2> QED
    BY <2>1, <2>2, PostIInv
<1>2. CASE AsyncSetAltSetting(i)
  <2> DEFINE c == [NoCall EXCEPT !.pc = "alt", !.i = i]
  <2>1. c \in Calls /\ c.pc = "alt" /\ c.then = "return" /\ c.i = i
    BY DEF NoCall, Calls, Pcs
  <2>2. PostFunction(c) /\ life[i] = "alive"
    BY <1>2 DEF AsyncSetAltSetting, StaysClaimed
  <2> HIDE DEF c
  <2> QED
    BY <2>1, <2>2, PostIInv
<1> QED
  BY <1>1, <1>2

LEMMA PostsDeviceFunctionIInv ==
  ASSUME IInv, UNCHANGED devVars, AsyncDeviceFunction
  PROVE  IInv'
<1> DEFINE c == [NoCall EXCEPT !.pc = "device", !.arg = device]
<1>1. c \in Calls /\ c.pc = "device" /\ c.then = "return" /\ c.i = None
  BY DEF NoCall, Calls, Pcs, IInv, Types
<1>2. PostFunction(c)
  BY DEF AsyncDeviceFunction
<1> HIDE DEF c
<1> QED
  BY <1>1, <1>2, PostIInv

LEMMA TakeFunctionIInv ==
  ASSUME IInv, TakeFunction, UNCHANGED devVars PROVE IInv'
<1> DEFINE f == Head(blocking_queue)
<1>0. /\ call \in [Threads -> Calls] /\ Threads = {"client", "blocking"}
      /\ call["blocking"] = NoCall /\ blocking_queue \in Seq(Calls) /\ blocking_queue # << >>
      /\ call' = [call EXCEPT !["blocking"] = f] /\ blocking_queue' = Tail(blocking_queue)
      /\ UNCHANGED <<life, device_handle, number, device, closed, present,
                     held, driver, detached, abandoned, forgone>>
  BY DEF TakeFunction, objVars, devVars, usbVars, IInv, Types, Threads
<1>1. /\ Range(blocking_queue) = {f} \cup Range(blocking_queue)'
      /\ f \in Calls /\ blocking_queue' \in Seq(Calls)
  BY <1>0, HeadThenTail, HeadTailProperties
<1> HIDE DEF f
<1>2. call'["blocking"] = f /\ call'["client"] = call["client"]
  BY <1>0
<1>3. Posted' \subseteq Posted /\ f \in Posted /\ f.pc \in {"release", "alt", "device"}
  BY <1>0, <1>1, <1>2 DEF Posted, IInv, QueueInv
<1>4. \A i \in Interfaces : Released(i)' <=> Released(i)
  BY <1>0, <1>2, <1>3, NoCallType DEF Released
<1>5. Types'
  BY <1>0, <1>1 DEF IInv, Types
<1>6. OwnInv'
  BY <1>0, <1>4 DEF IInv, OwnInv, Claimed, Owns
<1>7. ReleaseInv'
  BY <1>0, <1>2, <1>3 DEF IInv, ReleaseInv, Claimed
<1>8. PostedInv' /\ QueueInv'
  BY <1>0, <1>1, <1>3 DEF IInv, PostedInv, QueueInv
<1>9. ClientInv'
  BY <1>0, <1>2, <1>3 DEF IInv, ClientInv, ClaimingInv, TakingInv, Alone, Owns
<1>10. HeldIsOwned' /\ DriverComesBack'
  BY <1>0, <1>2, <1>3, NoCallType DEF IInv, HeldIsOwned, DriverComesBack, InUse, At, Owns
<1> QED
  BY <1>5, <1>6, <1>7, <1>8, <1>9, <1>10 DEF IInv

-----------------------------------------------------------------------------
(* One call of libusb.                                                     *)

(* Two threads are never about the same object.                            *)
LEMMA CallIsAlone ==
  ASSUME IInv, NEW th \in Threads, call[th].pc \in {"release", "attach", "forget"}
  PROVE  /\ call[th].i \in Interfaces
         /\ life[call[th].i] = "alive" \/ (life[call[th].i] = "constructing" /\ call[th].then = "claim")
         /\ th = "blocking" => call[th].then = "return"
         /\ \A other \in Threads \ {th} : call[other].i # call[th].i
<1>1. NoCall.i = None /\ Threads = {"client", "blocking"} /\ call["blocking"] \in Posted
  BY DEF NoCall, Threads, Posted
<1> QED
  BY <1>1, InterfaceAssumption, NoCallType DEF IInv, PostedInv, ClientInv, Alone

(* What the functions posted need is kept by a step of either thread.      *)
LEMMA PostedStep ==
  ASSUME IInv, UNCHANGED blocking_queue,
         \/ call'["blocking"] = NoCall
         \/ /\ call'["blocking"].i = call["blocking"].i
            /\ call'["blocking"].then = call["blocking"].then
            /\ call'["blocking"].pc = call["blocking"].pc
               \/ (call'["blocking"].pc \in {"attach", "forget"}
                   /\ call["blocking"].pc \in {"release", "attach"}),
         call'["blocking"].pc = "idle" => call'["blocking"] = NoCall,
         \A i \in Interfaces : ~Alone(i) /\ life[i] = "alive" => life'[i] = "alive"
  PROVE  PostedInv' /\ QueueInv' /\ \A i \in Interfaces : Alone(i) => Alone(i)'
<1>1. /\ call["blocking"] \in Posted
      /\ \A c \in Posted' : c \in Posted \/ c = call'["blocking"]
  BY DEF Posted
<1>2. \A i \in Interfaces : Alone(i) => Alone(i)'
  BY <1>1, NoCallType, InterfaceAssumption DEF Alone
<1>3. PostedInv'
  <2> SUFFICES ASSUME NEW c \in Posted'
      PROVE  /\ c.pc \in {"idle", "release", "attach", "forget", "alt", "device"} /\ c.then = "return"
             /\ c.pc = "idle" => c = NoCall
             /\ c.pc = "device" => c.i = None
             /\ c.pc \in {"release", "attach", "forget", "alt"} =>
                  c.i \in Interfaces /\ life'[c.i] = "alive"
    BY DEF PostedInv
  <2>1. CASE c \in Posted
    BY <2>1 DEF IInv, PostedInv, Alone
  <2>2. CASE c = NoCall
    BY <2>2, NoCallType
  <2>3. CASE c = call'["blocking"] /\ c # NoCall
    BY <1>1, <2>3 DEF IInv, PostedInv, Alone
  <2> QED
    BY <1>1, <2>1, <2>2, <2>3
<1>4. QueueInv'
  BY DEF IInv, QueueInv
<1> QED
  BY <1>2, <1>3, <1>4

LEMMA CallOnHandleIInv ==
  ASSUME IInv, CallOnHandle, UNCHANGED devVars PROVE IInv'
<1>0. /\ call \in [Threads -> Calls] /\ Threads = {"client", "blocking"}
      /\ call["blocking"].pc \in {"alt", "device"}
      /\ call' = [call EXCEPT !["blocking"] = NoCall]
      /\ UNCHANGED <<life, device_handle, number, blocking_queue, device, closed, present,
                     held, driver, detached, abandoned, forgone>>
  BY DEF CallOnHandle, Return, objVars, devVars, usbVars, IInv, Types, Threads
<1>1. call'["blocking"] = NoCall /\ call'["client"] = call["client"]
  BY <1>0
<1>2. PostedInv' /\ QueueInv' /\ \A i \in Interfaces : Alone(i) => Alone(i)'
  BY <1>0, <1>1, PostedStep
<1>3. \A i \in Interfaces : Released(i)' <=> Released(i)
  BY <1>0, <1>1, NoCallType DEF Released
<1>4. Types'
  BY <1>0, NoCallType DEF IInv, Types
<1>5. OwnInv'
  BY <1>0, <1>3 DEF IInv, OwnInv, Claimed, Owns
<1>6. ReleaseInv'
  BY <1>0, <1>1, NoCallType DEF IInv, ReleaseInv, Claimed
<1>7. ClientInv'
  BY <1>0, <1>1, <1>2 DEF IInv, ClientInv, ClaimingInv, TakingInv, Owns
<1>8. HeldIsOwned' /\ DriverComesBack'
  BY <1>0, <1>1, NoCallType DEF IInv, HeldIsOwned, DriverComesBack, InUse, At, Owns
<1> QED
  BY <1>2, <1>4, <1>5, <1>6, <1>7, <1>8 DEF IInv

-----------------------------------------------------------------------------
(* unclaim.                                                                *)

(* What follows unclaim.                                                   *)
LEMMA ContinueStep ==
  ASSUME IInv, NEW th \in Threads, NEW ok \in BOOLEAN, Continue(th, ok),
         call[th].pc \in {"release", "forget"}
  PROVE  /\ call' \in [Threads -> Calls]
         /\ \A other \in Threads \ {th} : call'[other] = call[other]
         /\ th = "blocking" => call'[th] = NoCall /\ life' = life
         /\ \/ call'[th] = NoCall
            \/ /\ call'[th].i = call[th].i /\ call'[th].then = call[th].then
               /\ call'[th].arg = call[th].arg
               /\ \/ call'[th].pc = "take" /\ call[th].then = "take"
                  \/ call'[th].pc \in {"detach_driver", "claim"} /\ call[th].then = "claim" /\ ok
         /\ life' \in [Interfaces -> {"unborn", "constructing", "alive"}]
         /\ \A j \in Interfaces :
              life'[j] = IF j = call[th].i /\ call[th].then = "destroy" THEN "unborn" ELSE life[j]
<1>0. /\ call \in [Threads -> Calls] /\ life \in [Interfaces -> {"unborn", "constructing", "alive"}]
      /\ call[th].i \in Interfaces /\ NoCall \in Calls
      /\ th = "blocking" => call[th].then = "return"
  BY NoCallType, CallIsAlone DEF IInv, Types
<1>1. life' = IF call[th].then = "destroy" THEN [life EXCEPT ![call[th].i] = "unborn"] ELSE life
  BY DEF Continue
<1>2. \/ call[th].then = "take" /\ call' = [call EXCEPT ![th].pc = "take"]
      \/ call[th].then = "claim" /\ ok /\ call' = [call EXCEPT ![th].pc = "detach_driver"]
      \/ call[th].then = "claim" /\ ok /\ call' = [call EXCEPT ![th].pc = "claim"]
      \/ call' = [call EXCEPT ![th] = NoCall]
  BY DEF Continue, Goto, Return
<1>3. \A p \in Pcs : [call[th] EXCEPT !.pc = p] \in Calls
  BY <1>0 DEF Calls
<1>4. call' \in [Threads -> Calls]
  BY <1>0, <1>2, <1>3 DEF Pcs
<1>5. /\ \A other \in Threads \ {th} : call'[other] = call[other]
      /\ \/ call'[th] = NoCall
         \/ /\ call'[th].i = call[th].i /\ call'[th].then = call[th].then
            /\ call'[th].arg = call[th].arg
            /\ \/ call'[th].pc = "take" /\ call[th].then = "take"
               \/ call'[th].pc \in {"detach_driver", "claim"} /\ call[th].then = "claim" /\ ok
  BY <1>0, <1>2 DEF Calls
<1> QED
  BY <1>0, <1>1, <1>4, <1>5

LEMMA NothingToReleaseIInv ==
  ASSUME IInv, NEW th \in Threads, NothingToRelease(th), UNCHANGED devVars PROVE IInv'
<1> DEFINE i == call[th].i
<1>0. /\ call[th].pc = "release" /\ device_handle[i] = None /\ None \notin Handles
      /\ Continue(th, TRUE)
      /\ UNCHANGED <<device_handle, number, blocking_queue, device, closed, present,
                     held, driver, detached, abandoned, forgone>>
  BY InterfaceAssumption DEF NothingToRelease, At, devVars, usbVars
<1>1. /\ i \in Interfaces /\ \A other \in Threads \ {th} : call[other].i # i
      /\ Threads = {"client", "blocking"}
  BY <1>0, CallIsAlone DEF Threads
<1>2. /\ call' \in [Threads -> Calls]
      /\ \A other \in Threads \ {th} : call'[other] = call[other]
      /\ th = "blocking" => call'[th] = NoCall /\ life' = life
      /\ \/ call'[th] = NoCall
         \/ /\ call'[th].i = call[th].i /\ call'[th].then = call[th].then
            /\ call'[th].arg = call[th].arg
            /\ \/ call'[th].pc = "take" /\ call[th].then = "take"
               \/ call'[th].pc \in {"detach_driver", "claim"} /\ call[th].then = "claim"
      /\ life' \in [Interfaces -> {"unborn", "constructing", "alive"}]
      /\ \A j \in Interfaces :
           life'[j] = IF j = call[th].i /\ call[th].then = "destroy" THEN "unborn" ELSE life[j]
  BY <1>0, ContinueStep
<1>a. th = "client" => Alone(i)
  BY <1>0 DEF IInv, ClientInv
<1>3. \A j \in Interfaces : /\ Released(j)' <=> Released(j)
                            /\ Claimed(j)' <=> Claimed(j)
                            /\ \A n \in Numbers : Owns(j, n)' <=> Owns(j, n)
  BY <1>0, <1>1, <1>2, NoCallType DEF Released, Claimed, Owns
<1>4. PostedInv' /\ QueueInv' /\ \A j \in Interfaces : Alone(j) => Alone(j)'
  BY <1>0, <1>1, <1>2, <1>a, PostedStep, NoCallType DEF IInv, PostedInv, Posted
<1>5. Types'
  BY <1>0, <1>2 DEF IInv, Types
<1>6. OwnInv'
  BY <1>0, <1>3 DEF IInv, OwnInv
<1>7. ReleaseInv'
  <2>1. ASSUME NEW x \in Threads, call'[x].pc \in {"attach", "forget"}
        PROVE  call[x] = call'[x] /\ call[x].i \in Interfaces
    BY <1>2, <2>1, NoCallType, CallIsAlone
  <2> QED
    BY <1>0, <1>3, <2>1 DEF IInv, ReleaseInv
<1>8. ClientInv'
  <2>1. CASE th = "client"
    BY <1>0, <1>1, <1>2, <1>3, <1>4, <2>1, NoCallType DEF IInv, ClientInv, ClaimingInv, TakingInv
  <2>2. CASE th = "blocking"
    BY <1>0, <1>1, <1>2, <1>3, <1>4, <2>2 DEF IInv, ClientInv, ClaimingInv, TakingInv
  <2> QED
    BY <1>1, <2>1, <2>2
<1>9. HeldIsOwned'
  BY <1>0, <1>3 DEF IInv, HeldIsOwned, Types
<1>10. DriverComesBack'
  BY <1>0, <1>1, <1>2, NoCallType DEF IInv, DriverComesBack, InUse, At
<1> QED
  BY <1>4, <1>5, <1>6, <1>7, <1>8, <1>9, <1>10 DEF IInv

(* The object that is being released owns the interface.                   *)
LEMMA ReleasingOwns ==
  ASSUME IInv, NEW th \in Threads, Releasing(th)
  PROVE  /\ call[th].i \in Interfaces /\ Claimed(call[th].i) /\ number[call[th].i] \in held
         /\ ~Released(call[th].i)
<1>1. /\ call[th].pc = "release" /\ device_handle[call[th].i] \in Handles
  BY DEF Releasing, At, IInv, Types
<1>2. /\ call[th].i \in Interfaces /\ \A other \in Threads \ {th} : call[other].i # call[th].i
      /\ life[call[th].i] = "alive"
         \/ (life[call[th].i] = "constructing" /\ call[th].then = "claim" /\ th = "client")
  BY <1>1, CallIsAlone DEF Threads
<1>3. life[call[th].i] = "alive"
  BY <1>1, <1>2 DEF IInv, ClientInv
<1>4. ~Released(call[th].i)
  BY <1>1, <1>2 DEF Released
<1> QED
  BY <1>1, <1>2, <1>3, <1>4 DEF IInv, OwnInv, Claimed

LEMMA ReleaseFailsIInv ==
  ASSUME IInv, NEW th \in Threads, ReleaseFails(th), UNCHANGED devVars PROVE IInv'
<1> DEFINE i == call[th].i
<1>0. /\ call[th].pc = "release" /\ Continue(th, FALSE)
      /\ abandoned' = IF call[th].then = "destroy" \/ (call[th].then = "take" /\ call[th].arg # i)
                      THEN abandoned \cup {number[i]} ELSE abandoned
      /\ UNCHANGED <<device_handle, number, blocking_queue, device, closed, present,
                     held, driver, detached, forgone>>
  BY DEF ReleaseFails, Releasing, At, devVars
<1>g. i \in Interfaces /\ Claimed(i) /\ number[i] \in held
  BY ReleasingOwns DEF ReleaseFails
<1>1. /\ \A other \in Threads \ {th} : call[other].i # i
      /\ Threads = {"client", "blocking"}
  BY <1>0, CallIsAlone DEF Threads
<1>2. /\ call' \in [Threads -> Calls]
      /\ \A other \in Threads \ {th} : call'[other] = call[other]
      /\ th = "blocking" => call'[th] = NoCall /\ life' = life
      /\ \/ call'[th] = NoCall
         \/ /\ call'[th].i = call[th].i /\ call'[th].then = call[th].then
            /\ call'[th].arg = call[th].arg
            /\ call'[th].pc = "take" /\ call[th].then = "take"
      /\ life' \in [Interfaces -> {"unborn", "constructing", "alive"}]
      /\ \A j \in Interfaces :
           life'[j] = IF j = call[th].i /\ call[th].then = "destroy" THEN "unborn" ELSE life[j]
  BY <1>0, ContinueStep
<1>a. th = "client" => Alone(i)
  BY <1>0 DEF IInv, ClientInv
<1>3. \A j \in Interfaces : /\ Released(j)' <=> Released(j)
                            /\ Claimed(j)' => Claimed(j)
                            /\ \A n \in Numbers : Owns(j, n)' => Owns(j, n)
  BY <1>0, <1>1, <1>2, NoCallType DEF Released, Claimed, Owns
<1>b. \A j \in Interfaces : Claimed(j) /\ j # i => Claimed(j)'
  BY <1>0, <1>2 DEF Claimed
<1>4. PostedInv' /\ QueueInv' /\ \A j \in Interfaces : Alone(j) => Alone(j)'
  BY <1>0, <1>1, <1>2, <1>a, PostedStep, NoCallType DEF IInv, PostedInv, Posted
<1>5. Types'
  BY <1>0, <1>2 DEF IInv, Types
<1>6. OwnInv'
  BY <1>0, <1>3 DEF IInv, OwnInv
<1>7. ReleaseInv'
  <2>1. ASSUME NEW x \in Threads, call'[x].pc \in {"attach", "forget"}
        PROVE  call[x] = call'[x] /\ call[x].i \in Interfaces \ {i}
    BY <1>1, <1>2, <2>1, NoCallType, CallIsAlone
  <2> QED
    BY <1>0, <1>b, <2>1 DEF IInv, ReleaseInv
<1>8. ClientInv'
  <2>1. CASE th = "client"
    BY <1>0, <1>g, <1>1, <1>2, <1>3, <1>4, <2>1, NoCallType DEF IInv, ClientInv, ClaimingInv, TakingInv
  <2>2. CASE th = "blocking"
    BY <1>0, <1>1, <1>2, <1>3, <1>4, <2>2 DEF IInv, ClientInv, ClaimingInv, TakingInv
  <2> QED
    BY <1>1, <2>1, <2>2
<1>9. HeldIsOwned'
  <2> SUFFICES ASSUME NEW n \in held, n \notin detached, n \notin abandoned',
                      ~\E j \in Interfaces : Owns(j, n)'
      PROVE  FALSE
    BY <1>0 DEF HeldIsOwned
  <2>1. n \notin abandoned
    BY <1>0
  <2>2. PICK j \in Interfaces : Owns(j, n)
    BY <2>1 DEF IInv, HeldIsOwned
  <2>3. j = i /\ call[th].then = "destroy"
    BY <1>0, <1>2, <2>2 DEF Owns
  <2> QED
    BY <1>0, <2>2, <2>3 DEF Owns
<1>10. DriverComesBack'
  BY <1>0, <1>1, <1>2, NoCallType DEF IInv, DriverComesBack, InUse, At
<1> QED
  BY <1>4, <1>5, <1>6, <1>7, <1>8, <1>9, <1>10 DEF IInv

LEMMA ReleaseIInv ==
  ASSUME IInv, NEW th \in Threads, Release(th), UNCHANGED devVars PROVE IInv'
<1> DEFINE i == call[th].i
           n == number[i]
<1>0. /\ call[th].pc = "release" /\ call \in [Threads -> Calls] /\ held' = held \ {n}
      /\ forgone' = IF call[th].reattach THEN forgone ELSE forgone \cup {n}
      /\ call' = [call EXCEPT ![th].pc = AfterRelease(call[th].reattach)]
      /\ UNCHANGED <<life, device_handle, number, blocking_queue, device, closed, present,
                     driver, detached, abandoned>>
  BY DEF Release, Goto, Releasing, At, objVars, devVars, IInv, Types
<1>g. i \in Interfaces /\ Claimed(i) /\ n \in held /\ n \in Numbers /\ ~Released(i)
  BY ReleasingOwns DEF Release, IInv, Types
<1>1. /\ \A other \in Threads \ {th} : call[other].i # i /\ call'[other] = call[other]
      /\ Threads = {"client", "blocking"}
      /\ call'[th].pc = (IF call[th].reattach THEN "attach" ELSE "forget")
      /\ call'[th].i = i /\ call'[th].then = call[th].then /\ call'[th].arg = call[th].arg
      /\ call' \in [Threads -> Calls]
  BY <1>0, CallIsAlone DEF AfterRelease, Threads, Calls, Pcs
<1> HIDE DEF i, n
<1>3. /\ \A j \in Interfaces : Released(j)' <=> Released(j) \/ j = i
      /\ \A j \in Interfaces : Claimed(j)' <=> Claimed(j)
      /\ \A j \in Interfaces, m \in Numbers : Owns(j, m)' <=> Owns(j, m)
  BY <1>0, <1>1 DEF Released, Claimed, Owns, i
<1>c. number[i] = n /\ \A j \in Interfaces \ {i} : Claimed(j) => number[j] # n
  BY <1>g DEF IInv, OwnInv, Owns, Claimed, n
<1>4. PostedInv' /\ QueueInv' /\ \A j \in Interfaces : Alone(j) => Alone(j)'
  BY <1>0, <1>1, PostedStep DEF IInv, PostedInv, Posted, i
<1>5. Types'
  BY <1>0, <1>1 DEF IInv, Types
<1>6. OwnInv'
  BY <1>0, <1>3, <1>c DEF IInv, OwnInv
<1>7. ReleaseInv'
  <2>1. ASSUME NEW x \in Threads, call'[x].pc \in {"attach", "forget"}
        PROVE  Claimed(call'[x].i) /\ number[call'[x].i] \notin held'
    <3>1. CASE x = th
      BY <1>0, <1>1, <1>g, <1>c, <3>1
    <3>2. CASE x # th
      BY <1>0, <1>1, <2>1, <3>2 DEF IInv, ReleaseInv
    <3> QED
      BY <3>1, <3>2
  <2>2. ASSUME NEW x \in Threads, call'[x].pc \in {"attach", "forget"}
        PROVE  call'[x].i \in Interfaces
    BY <1>0, <1>1, <1>g, <2>2, CallIsAlone
  <2> QED
    BY <1>0, <1>3, <2>1, <2>2 DEF ReleaseInv
<1>8. ClientInv'
  <2>1. CASE th = "client"
    BY <1>0, <1>1, <1>3, <1>4, <2>1 DEF IInv, ClientInv, ClaimingInv, TakingInv, i
  <2>2. CASE th = "blocking"
    BY <1>0, <1>1, <1>3, <1>4, <2>2 DEF IInv, ClientInv, ClaimingInv, TakingInv
  <2> QED
    BY <1>1, <2>1, <2>2
<1>9. HeldIsOwned'
  BY <1>0, <1>3 DEF IInv, HeldIsOwned, Types
<1>10. DriverComesBack'
  BY <1>0, <1>1, <1>c, <1>g DEF IInv, DriverComesBack, InUse, At, i
<1> QED
  BY <1>4, <1>5, <1>6, <1>7, <1>8, <1>9, <1>10 DEF IInv

LEMMA AttachDriverIInv ==
  ASSUME IInv, NEW th \in Threads, AttachDriver(th), UNCHANGED devVars PROVE IInv'
<1> DEFINE i == call[th].i
           n == number[i]
<1>0. /\ call[th].pc = "attach" /\ call \in [Threads -> Calls]
      /\ driver' = IF present /\ n \notin held THEN driver \cup {n} ELSE driver
      /\ call' = [call EXCEPT ![th].pc = "forget"]
      /\ UNCHANGED <<life, device_handle, number, blocking_queue, device, closed, present,
                     held, detached, abandoned, forgone>>
  BY DEF AttachDriver, Goto, At, objVars, devVars, IInv, Types
<1>g. i \in Interfaces /\ Claimed(i) /\ n \in Numbers /\ n \notin held
  BY <1>0, CallIsAlone DEF IInv, ReleaseInv, OwnInv
<1>1. /\ \A other \in Threads \ {th} : call[other].i # i /\ call'[other] = call[other]
      /\ Threads = {"client", "blocking"}
      /\ call'[th].pc = "forget"
      /\ call'[th].i = i /\ call'[th].then = call[th].then /\ call'[th].arg = call[th].arg
      /\ call' \in [Threads -> Calls]
  BY <1>0, CallIsAlone DEF Threads, Calls, Pcs
<1> HIDE DEF i, n
<1>3. /\ \A j \in Interfaces : Released(j)' <=> Released(j)
      /\ \A j \in Interfaces : Claimed(j)' <=> Claimed(j)
      /\ \A j \in Interfaces, m \in Numbers : Owns(j, m)' <=> Owns(j, m)
  BY <1>0, <1>1 DEF Released, Claimed, Owns, i
<1>4. PostedInv' /\ QueueInv' /\ \A j \in Interfaces : Alone(j) => Alone(j)'
  BY <1>0, <1>1, PostedStep DEF IInv, PostedInv, Posted, i
<1>5. Types'
  BY <1>0, <1>1, <1>g DEF IInv, Types
<1>6. OwnInv'
  BY <1>0, <1>3 DEF IInv, OwnInv
<1>7. ReleaseInv'
  <2>1. ASSUME NEW x \in Threads, call'[x].pc \in {"attach", "forget"}
        PROVE  /\ call[x].pc \in {"attach", "forget"} /\ call'[x].i = call[x].i
               /\ call[x].i \in Interfaces
    BY <1>0, <1>1, <2>1, CallIsAlone DEF i
  <2> QED
    BY <1>0, <1>3, <2>1 DEF IInv, ReleaseInv
<1>8. ClientInv'
  <2>1. CASE th = "client"
    BY <1>0, <1>1, <1>3, <1>4, <2>1 DEF IInv, ClientInv, ClaimingInv, TakingInv, i
  <2>2. CASE th = "blocking"
    BY <1>0, <1>1, <1>3, <1>4, <2>2 DEF IInv, ClientInv, ClaimingInv, TakingInv
  <2> QED
    BY <1>1, <2>1, <2>2
<1>9. HeldIsOwned'
  BY <1>0, <1>3 DEF IInv, HeldIsOwned, Types
<1>10. DriverComesBack'
  BY <1>0, <1>1, <1>g DEF IInv, DriverComesBack, InUse, At, i, n
<1> QED
  BY <1>4, <1>5, <1>6, <1>7, <1>8, <1>9, <1>10 DEF IInv

LEMMA ForgetIInv ==
  ASSUME IInv, NEW th \in Threads, Forget(th), UNCHANGED devVars PROVE IInv'
<1> DEFINE i == call[th].i
<1>0. /\ call[th].pc = "forget" /\ Continue(th, TRUE)
      /\ device_handle' = [device_handle EXCEPT ![i] = None]
      /\ number' = [number EXCEPT ![i] = None]
      /\ UNCHANGED <<blocking_queue, device, closed, present, held, driver, detached, abandoned, forgone>>
  BY DEF Forget, At, devVars, usbVars
<1>g. i \in Interfaces /\ Claimed(i) /\ number[i] \notin held /\ number[i] \in Numbers
  BY <1>0, CallIsAlone DEF IInv, ReleaseInv, OwnInv
<1>h. /\ \A j \in Interfaces : device_handle'[j] = IF j = i THEN None ELSE device_handle[j]
      /\ \A j \in Interfaces : number'[j] = IF j = i THEN None ELSE number[j]
      /\ None \notin Handles
  BY <1>0, InterfaceAssumption DEF IInv, Types
<1>1. /\ \A other \in Threads \ {th} : call[other].i # i
      /\ Threads = {"client", "blocking"}
  BY <1>0, CallIsAlone DEF Threads
<1>2. /\ call' \in [Threads -> Calls]
      /\ \A other \in Threads \ {th} : call'[other] = call[other]
      /\ th = "blocking" => call'[th] = NoCall /\ life' = life
      /\ \/ call'[th] = NoCall
         \/ /\ call'[th].i = call[th].i /\ call'[th].then = call[th].then
            /\ call'[th].arg = call[th].arg
            /\ \/ call'[th].pc = "take" /\ call[th].then = "take"
               \/ call'[th].pc \in {"detach_driver", "claim"} /\ call[th].then = "claim"
      /\ life' \in [Interfaces -> {"unborn", "constructing", "alive"}]
      /\ \A j \in Interfaces :
           life'[j] = IF j = call[th].i /\ call[th].then = "destroy" THEN "unborn" ELSE life[j]
  BY <1>0, ContinueStep
<1>a. th = "client" => Alone(i)
  BY <1>0 DEF IInv, ClientInv
<1> HIDE DEF i
<1>3. \A j \in Interfaces : /\ Released(j)' <=> Released(j) /\ j # i
                            /\ Claimed(j)' <=> Claimed(j) /\ j # i
                            /\ \A n \in Numbers : Owns(j, n)' <=> Owns(j, n) /\ j # i
  BY <1>0, <1>h, <1>1, <1>2, NoCallType DEF Released, Claimed, Owns, i
<1>4. PostedInv' /\ QueueInv' /\ \A j \in Interfaces : Alone(j) => Alone(j)'
  BY <1>0, <1>1, <1>2, <1>a, PostedStep, NoCallType DEF IInv, PostedInv, Posted, i
<1>5. Types'
  BY <1>0, <1>2 DEF IInv, Types
<1>6. OwnInv'
  BY <1>0, <1>h, <1>3 DEF IInv, OwnInv
<1>7. ReleaseInv'
  <2>1. ASSUME NEW x \in Threads, call'[x].pc \in {"attach", "forget"}
        PROVE  call[x] = call'[x] /\ call[x].i \in Interfaces \ {i}
    BY <1>1, <1>2, <2>1, NoCallType, CallIsAlone
  <2> QED
    BY <1>0, <1>h, <1>3, <2>1 DEF IInv, ReleaseInv
<1>8. ClientInv'
  <2>1. CASE th = "client"
    BY <1>0, <1>h, <1>1, <1>2, <1>3, <1>4, <2>1, NoCallType
    DEF IInv, ClientInv, ClaimingInv, TakingInv, i
  <2>2. CASE th = "blocking"
    BY <1>0, <1>h, <1>1, <1>2, <1>3, <1>4, <2>2 DEF IInv, ClientInv, ClaimingInv, TakingInv
  <2> QED
    BY <1>1, <2>1, <2>2
<1>9. HeldIsOwned'
  BY <1>0, <1>g, <1>3 DEF IInv, HeldIsOwned, Types, Owns
<1>10. DriverComesBack'
  <2>1. ASSUME NEW n \in Numbers, InUse(n) PROVE InUse(n)'
    BY <1>0, <1>h, <1>1, <1>2, <1>g, <2>1, NoCallType, CallIsAlone DEF InUse, At, i
  <2> QED
    BY <1>0, <2>1 DEF IInv, DriverComesBack
<1> QED
  BY <1>4, <1>5, <1>6, <1>7, <1>8, <1>9, <1>10 DEF IInv

-----------------------------------------------------------------------------
(* The rest of claim and of operator=.                                     *)

(* The client is about to claim.                                           *)
LEMMA ClaimingClient ==
  ASSUME IInv, call["client"].pc \in {"detach_driver", "claim"}
  PROVE  LET c == call["client"] IN
         /\ c.then = "claim" /\ c.i \in Interfaces /\ Alone(c.i) /\ device_handle[c.i] = None
         /\ life[c.i] \in {"alive", "constructing"}
         /\ c.arg \in Numbers /\ device \in Handles /\ \A j \in Interfaces \ {c.i} : ~Owns(j, c.arg)
<1>1. call["client"] \in Calls
  BY DEF IInv, Types, Threads
<1> QED
  BY <1>1 DEF IInv, ClientInv, ClaimingInv, TakingInv, Types, Calls

LEMMA DetachDriverIInv ==
  ASSUME IInv, DetachDriver, UNCHANGED devVars PROVE IInv'
<1>0. /\ call["client"].pc = "detach_driver" /\ call \in [Threads -> Calls]
      /\ driver' = driver \/ driver' = driver \ {call["client"].arg}
      /\ call' = [call EXCEPT !["client"].pc = "claim"] /\ Threads = {"client", "blocking"}
      /\ UNCHANGED <<life, device_handle, number, blocking_queue, device, closed, present,
                     held, detached, abandoned, forgone>>
  BY DEF DetachDriver, Goto, At, objVars, devVars, IInv, Types, Threads
<1>1. /\ call'["blocking"] = call["blocking"] /\ call'["client"].pc = "claim"
      /\ call'["client"].i = call["client"].i /\ call'["client"].then = call["client"].then
      /\ call'["client"].arg = call["client"].arg /\ call' \in [Threads -> Calls]
  BY <1>0 DEF Calls, Pcs
<1>2. Posted' = Posted
  BY <1>0, <1>1, SamePosted
<1>3. Types'
  BY <1>0, <1>1 DEF IInv, Types
<1>4. OwnInv'
  BY <1>0, <1>1 DEF IInv, OwnInv, Claimed, Owns, Released
<1>5. ReleaseInv'
  BY <1>0, <1>1 DEF IInv, ReleaseInv, Claimed
<1>6. PostedInv' /\ QueueInv'
  BY <1>0, <1>2 DEF IInv, PostedInv, QueueInv
<1>7. ClientInv'
  BY <1>0, <1>1, <1>2, ClaimingClient DEF IInv, ClientInv, ClaimingInv, TakingInv, Alone, Owns
<1>8. HeldIsOwned'
  BY <1>0 DEF IInv, HeldIsOwned, Owns
<1>9. DriverComesBack'
  BY <1>0, <1>1 DEF IInv, DriverComesBack, InUse, At
<1> QED
  BY <1>3, <1>4, <1>5, <1>6, <1>7, <1>8, <1>9 DEF IInv

LEMMA ClaimInterfaceIInv ==
  ASSUME IInv, ClaimInterface, UNCHANGED devVars PROVE IInv'
<1> DEFINE i == call["client"].i
           n == call["client"].arg
<1>g. /\ call["client"].then = "claim" /\ i \in Interfaces /\ Alone(i) /\ device_handle[i] = None
      /\ n \in Numbers /\ device \in Handles /\ \A j \in Interfaces \ {i} : ~Owns(j, n)
  BY ClaimingClient DEF ClaimInterface, At
<1> HIDE DEF i, n
<1>0. /\ call["client"].pc = "claim" /\ call \in [Threads -> Calls] /\ Threads = {"client", "blocking"}
      /\ held' = held \cup {n} /\ detached' = detached \ {n} /\ forgone' = forgone \ {n}
      /\ abandoned' = abandoned \ {n}
      /\ \A j \in Interfaces : device_handle'[j] = IF j = i THEN device ELSE device_handle[j]
      /\ \A j \in Interfaces : number'[j] = IF j = i THEN n ELSE number[j]
      /\ \A j \in Interfaces : life'[j] = IF j = i THEN "alive" ELSE life[j]
      /\ call' = [call EXCEPT !["client"] = NoCall]
      /\ UNCHANGED <<blocking_queue, device, closed, present, driver>>
  BY DEF ClaimInterface, Return, Remember, At, devVars, IInv, Types, Threads, i, n
<1>1. call'["blocking"] = call["blocking"] /\ call'["client"] = NoCall
  BY <1>0
<1>2. Types'
  <2>1. /\ life' = [life EXCEPT ![i] = "alive"] /\ device_handle' = [device_handle EXCEPT ![i] = device]
        /\ number' = [number EXCEPT ![i] = n]
    BY DEF ClaimInterface, Remember, i, n
  <2>2. /\ life' \in [Interfaces -> {"unborn", "constructing", "alive"}]
        /\ device_handle' \in [Interfaces -> Handles \cup {None, Wild}]
        /\ number' \in [Interfaces -> Numbers \cup {None}]
    BY <2>1, <1>g DEF IInv, Types
  <2>3. call' \in [Threads -> Calls] /\ blocking_queue' \in Seq(Calls)
    BY <1>0, NoCallType DEF IInv, Types
  <2>4. device' # None /\ held' \subseteq Numbers
    BY <1>0, <1>g, InterfaceAssumption DEF IInv, Types
  <2> QED
    BY <1>0, <2>2, <2>3, <2>4 DEF IInv, Types
<1>b. call["blocking"].pc \in {"attach", "forget"} => call["blocking"].i \in Interfaces \ {i}
  BY <1>g DEF IInv, PostedInv, Posted, Alone
<1>3. \A j \in Interfaces : /\ Released(j)' <=> Released(j)
                            /\ Claimed(j)' <=> Claimed(j) \/ j = i
                            /\ \A m \in Numbers : Owns(j, m)' <=> (Owns(j, m) /\ j # i) \/ (j = i /\ m = n)
  BY <1>0, <1>1, <1>g, NoCallType DEF Released, Claimed, Owns
<1>4. PostedInv' /\ QueueInv'
  BY <1>0, <1>1, <1>g, NoCallType, PostedStep DEF IInv, PostedInv, Posted
<1>5. OwnInv'
  BY <1>0, <1>3, <1>g DEF IInv, OwnInv, Owns, Claimed
<1>6. ReleaseInv'
  <2>1. ASSUME NEW x \in Threads, call'[x].pc \in {"attach", "forget"}
        PROVE  x = "blocking" /\ call'[x] = call[x] /\ call[x].i \in Interfaces \ {i}
    BY <1>0, <1>1, <1>b, <2>1, NoCallType
  <2> QED
    BY <1>0, <1>3, <1>g, <2>1 DEF IInv, ReleaseInv, Owns, Claimed
<1>7. ClientInv'
  BY <1>1, NoCallType DEF ClientInv
<1>8. HeldIsOwned'
  <2> SUFFICES ASSUME NEW m \in held', m \notin detached' \cup abandoned'
      PROVE  \E j \in Interfaces : Owns(j, m)'
    BY <1>0 DEF HeldIsOwned
  <2>1. CASE m = n
    BY <1>3, <1>g, <2>1
  <2>2. CASE m # n
    <3>1. m \in held /\ m \notin detached \cup abandoned /\ m \in Numbers
      BY <1>0, <2>2 DEF IInv, Types
    <3>2. PICK j \in Interfaces : Owns(j, m)
      BY <1>0, <3>1 DEF IInv, HeldIsOwned
    <3>3. j # i
      BY <3>2, <1>g, InterfaceAssumption DEF Owns
    <3> QED
      BY <1>3, <3>1, <3>2, <3>3
  <2> QED
    BY <2>1, <2>2
<1>9. DriverComesBack'
  <2> SUFFICES ASSUME present, NEW m \in Numbers \ driver
      PROVE  InUse(m)' \/ m \in forgone'
    BY <1>0 DEF DriverComesBack
  <2>1. CASE m = n
    <3>1. m \in held'
      BY <1>0, <2>1
    <3> QED
      BY <3>1 DEF InUse
  <2>2. CASE m # n
    <3>1. InUse(m) \/ m \in forgone
      BY DEF IInv, DriverComesBack
    <3>2. CASE m \in held \/ m \in forgone
      <4>1. m \in held' \/ m \in forgone'
        BY <1>0, <2>2, <3>2
      <4> QED
        BY <4>1 DEF InUse
    <3>3. CASE call["blocking"].pc = "attach" /\ number[call["blocking"].i] = m
      BY <1>0, <1>1, <1>b, <3>3 DEF InUse, At
    <3> QED
      BY <1>0, <2>2, <3>1, <3>2, <3>3 DEF InUse, At, n
  <2> QED
    BY <2>1, <2>2
<1> QED
  BY <1>2, <1>4, <1>5, <1>6, <1>7, <1>8, <1>9 DEF IInv

LEMMA ClaimFailsIInv ==
  ASSUME IInv, ClaimFails, UNCHANGED devVars PROVE IInv'
<1> DEFINE i == call["client"].i
           n == call["client"].arg
<1>g. /\ i \in Interfaces /\ Alone(i) /\ device_handle[i] = None /\ None \notin Handles
      /\ life[i] \in {"alive", "constructing"}
  BY ClaimingClient, InterfaceAssumption DEF ClaimFails, At
<1> HIDE DEF i, n
<1>0. /\ call["client"].pc = "claim" /\ call \in [Threads -> Calls] /\ Threads = {"client", "blocking"}
      /\ forgone' = IF n \in driver THEN forgone ELSE forgone \cup {n}
      /\ \A j \in Interfaces :
           life'[j] = IF j = i /\ life[j] = "constructing" THEN "unborn" ELSE life[j]
      /\ call' = [call EXCEPT !["client"] = NoCall]
      /\ UNCHANGED <<device_handle, number, blocking_queue, device, closed, present,
                     held, driver, detached, abandoned>>
  BY DEF ClaimFails, Return, At, devVars, IInv, Types, Threads, i, n
<1>1. call'["blocking"] = call["blocking"] /\ call'["client"] = NoCall
  BY <1>0
<1>2. Types'
  BY <1>0, NoCallType DEF IInv, Types, ClaimFails, i
<1>3. \A j \in Interfaces : /\ Released(j)' <=> Released(j)
                            /\ Claimed(j)' <=> Claimed(j)
                            /\ \A m \in Numbers : Owns(j, m)' <=> Owns(j, m)
  BY <1>0, <1>1, <1>g, NoCallType DEF Released, Claimed, Owns
<1>4. PostedInv' /\ QueueInv'
  BY <1>0, <1>1, <1>g, NoCallType, PostedStep DEF IInv, PostedInv, Posted
<1>5. OwnInv'
  BY <1>0, <1>3 DEF IInv, OwnInv
<1>6. ReleaseInv'
  <2>1. ASSUME NEW x \in Threads, call'[x].pc \in {"attach", "forget"}
        PROVE  call'[x] = call[x] /\ call[x].i \in Interfaces
    BY <1>0, <1>1, <2>1, NoCallType, CallIsAlone
  <2> QED
    BY <1>0, <1>3, <2>1 DEF IInv, ReleaseInv
<1>7. ClientInv'
  BY <1>1, NoCallType DEF ClientInv
<1>8. HeldIsOwned'
  BY <1>0, <1>3 DEF IInv, HeldIsOwned, Types
<1>9. DriverComesBack'
  BY <1>0, <1>1, NoCallType DEF IInv, DriverComesBack, InUse, At, n
<1> QED
  BY <1>2, <1>4, <1>5, <1>6, <1>7, <1>8, <1>9 DEF IInv

LEMMA TakeIInv ==
  ASSUME IInv, Take, UNCHANGED devVars PROVE IInv'
<1> DEFINE i == call["client"].i
           o == call["client"].arg
<1>g. /\ call["client"].pc = "take" /\ call \in [Threads -> Calls] /\ Threads = {"client", "blocking"}
      /\ i \in Interfaces /\ Alone(i) /\ o \in Interfaces /\ Alone(o)
      /\ life[i] = "alive" /\ life[o] = "alive" /\ None \notin Handles
      /\ o # i /\ device_handle[i] \in Handles => number[i] \in abandoned
  <2>1. call["client"] \in Calls /\ call["client"].pc = "take"
    BY DEF Take, At, IInv, Types, Threads
  <2> QED
    BY <2>1, InterfaceAssumption DEF IInv, ClientInv, ClaimingInv, TakingInv, Types, Calls, Threads
<1> HIDE DEF i, o
<1>0. /\ \A j \in Interfaces : device_handle'[j] =
           IF j = i THEN device_handle[o] ELSE IF j = o THEN None ELSE device_handle[j]
      /\ \A j \in Interfaces : number'[j] =
           IF j = i THEN number[o] ELSE IF j = o THEN None ELSE number[j]
      /\ call' = [call EXCEPT !["client"] = NoCall]
      /\ UNCHANGED <<life, blocking_queue, device, closed, present, held, driver, detached, abandoned, forgone>>
  BY <1>g DEF Take, Return, Exchange, devVars, usbVars, IInv, Types, i, o
<1>1. call'["blocking"] = call["blocking"] /\ call'["client"] = NoCall
  BY <1>0, <1>g
<1>2. Types'
  BY <1>0, <1>g, NoCallType DEF IInv, Types, Take, Exchange, i, o
<1>b. call["blocking"].pc \in {"attach", "forget"} => call["blocking"].i \in Interfaces \ {i, o}
  BY <1>g DEF IInv, PostedInv, Posted, Alone
<1>3. \A j \in Interfaces :
        /\ Released(j)' <=> Released(j)
        /\ Released(j) => j # i /\ j # o
        /\ Claimed(j)' <=> (j = i /\ Claimed(o)) \/ (j \notin {i, o} /\ Claimed(j))
        /\ \A m \in Numbers : Owns(j, m)' <=> (j = i /\ Owns(o, m)) \/ (j \notin {i, o} /\ Owns(j, m))
  BY <1>0, <1>1, <1>b, <1>g, NoCallType DEF Released, Claimed, Owns
<1>4. PostedInv' /\ QueueInv'
  BY <1>0, <1>1, <1>g, NoCallType, PostedStep DEF IInv, PostedInv, Posted
<1>5. OwnInv'
  <2> SUFFICES ASSUME NEW j \in Interfaces, Claimed(j)', NEW m, m = number'[j]
      PROVE  /\ device_handle'[j] = device /\ m \in Numbers
             /\ m \in held \/ Released(j)'
             /\ \A l \in Interfaces \ {j} : ~Owns(l, m)'
    BY <1>0 DEF OwnInv
  <2>1. PICK k \in Interfaces :
          /\ Claimed(k) /\ (j = i => k = o) /\ (j # i => k = j /\ k \notin {i, o})
          /\ device_handle'[j] = device_handle[k] /\ m = number[k]
    BY <1>0, <1>3, <1>g
  <2>2. /\ device_handle[k] = device /\ m \in Numbers
        /\ m \in held \/ Released(k)
        /\ \A l \in Interfaces \ {k} : ~Owns(l, m)
    BY <2>1 DEF IInv, OwnInv
  <2>3. Released(k) => Released(j)'
    BY <1>3, <2>1
  <2>4. ASSUME NEW l \in Interfaces \ {j} PROVE ~Owns(l, m)'
    <3>1. Owns(l, m)' <=> (l = i /\ Owns(o, m)) \/ (l \notin {i, o} /\ Owns(l, m))
      BY <1>0, <1>g DEF Owns
    <3>2. l = i => k # o
      BY <2>1
    <3>3. l \notin {i, o} => k # l
      BY <2>1
    <3> QED
      BY <1>g, <2>2, <3>1, <3>2, <3>3
  <2> QED
    BY <2>1, <2>2, <2>3, <2>4
<1>6. ReleaseInv'
  <2>1. ASSUME NEW x \in Threads, call'[x].pc \in {"attach", "forget"}
        PROVE  x = "blocking" /\ call'[x] = call[x] /\ call[x].i \in Interfaces \ {i, o}
    BY <1>0, <1>1, <1>b, <1>g, <2>1, NoCallType
  <2> QED
    BY <1>0, <1>3, <2>1 DEF IInv, ReleaseInv
<1>7. ClientInv'
  BY <1>1, NoCallType DEF ClientInv
<1>8. HeldIsOwned'
  BY <1>0, <1>3, <1>g DEF IInv, HeldIsOwned, Types, Owns
<1>9. DriverComesBack'
  BY <1>0, <1>1, <1>b, <1>g, NoCallType DEF IInv, DriverComesBack, InUse, At
<1> QED
  BY <1>2, <1>4, <1>5, <1>6, <1>7, <1>8, <1>9 DEF IInv

-----------------------------------------------------------------------------
(* The device.                                                             *)

(* While no object has the open device nothing is claimed.                 *)
LEMMA NoneClaimed ==
  ASSUME IInv, \A i \in Interfaces : life[i] = "alive" /\ device_handle[i] \in Handles =>
                  device_handle[i] # device
  PROVE  /\ \A i \in Interfaces : ~Claimed(i)
         /\ \A th \in Threads : call[th].pc \notin {"attach", "forget"}
<1>1. \A i \in Interfaces : ~Claimed(i)
  BY DEF IInv, OwnInv, Claimed
<1> QED
  BY <1>1, CallIsAlone DEF IInv, ReleaseInv

LEMMA OpenIInv == ASSUME IInv, NEW h \in Handles, Open(h) PROVE IInv'
<1>0. /\ call["client"] = NoCall /\ device = None /\ device' = h /\ present' = TRUE
      /\ driver' = IF present THEN driver ELSE Numbers
      /\ forgone' = IF present THEN forgone ELSE {}
      /\ held = {}
      /\ UNCHANGED <<life, device_handle, number, call, blocking_queue, closed, held, detached>>
  BY DEF Open, ClientFree, objVars, IInv, Types
<1>1. /\ \A i \in Interfaces : ~Claimed(i)
      /\ \A th \in Threads : call[th].pc \notin {"attach", "forget"}
  BY <1>0, NoneClaimed, InterfaceAssumption
<1>2. Types'
  BY <1>0, InterfaceAssumption DEF IInv, Types
<1>3. OwnInv' /\ ReleaseInv'
  BY <1>0, <1>1 DEF OwnInv, ReleaseInv, Claimed
<1>4. PostedInv' /\ QueueInv'
  BY <1>0, SamePosted DEF IInv, PostedInv, QueueInv
<1>5. ClientInv'
  BY <1>0, NoCallType DEF ClientInv
<1>6. HeldIsOwned'
  BY <1>0 DEF HeldIsOwned
<1>7. DriverComesBack'
  BY <1>0 DEF IInv, DriverComesBack, InUse, At
<1> QED
  BY <1>2, <1>3, <1>4, <1>5, <1>6, <1>7 DEF IInv

LEMMA CloseIInv == ASSUME IInv, Close PROVE IInv'
<1>0. /\ call["client"] = NoCall /\ MayClose /\ device' = None /\ held' = {}
      /\ forgone' = forgone \cup held /\ Threads = {"client", "blocking"}
      /\ UNCHANGED <<life, device_handle, number, call, blocking_queue, present, driver>>
  BY DEF Close, ClientFree, objVars, Threads
<1>1. /\ \A i \in Interfaces : ~Claimed(i)
      /\ \A th \in Threads : call[th].pc \notin {"attach", "forget"}
  BY <1>0, NoneClaimed DEF MayClose
<1>2. Types'
  BY <1>0 DEF IInv, Types
<1>3. OwnInv' /\ ReleaseInv'
  BY <1>0, <1>1 DEF OwnInv, ReleaseInv, Claimed
<1>4. PostedInv' /\ QueueInv'
  BY <1>0, SamePosted DEF IInv, PostedInv, QueueInv
<1>5. ClientInv'
  BY <1>0, NoCallType DEF ClientInv
<1>6. HeldIsOwned'
  BY <1>0 DEF HeldIsOwned
<1>7. DriverComesBack'
  BY <1>0, <1>1, NoCallType DEF IInv, DriverComesBack, InUse, At
<1> QED
  BY <1>2, <1>3, <1>4, <1>5, <1>6, <1>7 DEF IInv

LEMMA UnplugIInv == ASSUME IInv, Unplug PROVE IInv'
<1>0. /\ present' = FALSE
      /\ UNCHANGED <<life, device_handle, number, call, blocking_queue, device, closed,
                     held, driver, detached, abandoned, forgone>>
  BY DEF Unplug, objVars, usbVars
<1>1. Types'
  BY <1>0 DEF IInv, Types
<1>2. OwnInv' /\ ReleaseInv'
  BY <1>0 DEF IInv, OwnInv, ReleaseInv, Claimed, Owns, Released
<1>3. Posted' = Posted
  BY <1>0, SamePosted
<1>4. PostedInv' /\ QueueInv'
  BY <1>0, <1>3 DEF IInv, PostedInv, QueueInv
<1>5. ClientInv'
  BY <1>0, <1>3 DEF IInv, ClientInv, ClaimingInv, TakingInv, Alone, Owns
<1>6. HeldIsOwned' /\ DriverComesBack'
  BY <1>0 DEF IInv, HeldIsOwned, DriverComesBack, Owns
<1> QED
  BY <1>1, <1>2, <1>4, <1>5, <1>6 DEF IInv

-----------------------------------------------------------------------------
LEMMA ClientStepIInv == ASSUME IInv, ClientStep, UNCHANGED devVars PROVE IInv'
<1>1. CASE AsyncDeviceFunction
  BY <1>1, PostsDeviceFunctionIInv
<1>2. ASSUME NEW i \in Interfaces, NEW garbage \in Memory,
             ConstructEmpty(i, garbage) \/ \E n \in Numbers : Construct(i, garbage, n)
      PROVE  IInv'
  BY <1>2, ConstructEmptyIInv, ConstructIInv
<1>3. ASSUME NEW i \in Interfaces, NEW n \in Numbers, NEW d \in BOOLEAN, Claim(i, n, d)
      PROVE  IInv'
  BY <1>3, ClaimIInv
<1>4. ASSUME NEW i \in Interfaces, NEW r \in BOOLEAN, Unclaim(i, r) \/ AsyncUnclaim(i, r)
      PROVE  IInv'
  BY <1>4, UnclaimIInv, PostsIInv
<1>5. ASSUME NEW i \in Interfaces,
             \/ Destroy(i) \/ Detach(i) \/ AsyncSetAltSetting(i)
             \/ \E other \in Interfaces : MoveAssign(i, other)
      PROVE  IInv'
  BY <1>5, DestroyIInv, DetachIInv, PostsIInv, MoveAssignIInv
<1> QED
  BY <1>1, <1>2, <1>3, <1>4, <1>5 DEF ClientStep

LEMMA InterfaceStepIInv == ASSUME IInv, InterfaceStep, UNCHANGED devVars PROVE IInv'
<1>1. ASSUME NEW th \in Threads, UnclaimStep(th) PROVE IInv'
  BY <1>1, NothingToReleaseIInv, ReleaseIInv, ReleaseFailsIInv, AttachDriverIInv, ForgetIInv
  DEF UnclaimStep
<1> QED
  BY <1>1, ClientStepIInv, DetachDriverIInv, ClaimInterfaceIInv, ClaimFailsIInv, TakeIInv,
     TakeFunctionIInv, CallOnHandleIInv DEF InterfaceStep

(* A fault ends the program; what the objects own is as it was.            *)
LEMMA FaultyIInv ==
  ASSUME IInv, UNCHANGED <<objVars, call, blocking_queue, devVars, usbVars>> PROVE IInv'
BY DEF IInv, objVars, devVars, usbVars, Types, OwnInv, ReleaseInv, PostedInv, QueueInv,
   ClientInv, ClaimingInv, TakingInv, Alone, HeldIsOwned, DriverComesBack, Claimed, Owns, Released,
   InUse, Posted, At

LEMMA NextIInv == IInv /\ [Next]_vars => IInv'
<1> SUFFICES ASSUME IInv, [Next]_vars PROVE IInv'
  OBVIOUS
<1>1. CASE InterfaceStep /\ UNCHANGED <<devVars, fault>>
  BY <1>1, InterfaceStepIInv
<1>2. CASE DeviceStep
  BY <1>2, OpenIInv, CloseIInv, UnplugIInv DEF DeviceStep
<1>3. CASE FaultyStep
  BY <1>3, FaultyIInv DEF FaultyStep, Terminate, BadHandle
<1>4. CASE UNCHANGED vars
  BY <1>4, StutterIInv
<1> QED
  BY <1>1, <1>2, <1>3, <1>4 DEF Next, Terminated

(* What the objects own, in every state of every behaviour.                *)
THEOREM Invariance == Spec => []IInv
BY InitIInv, NextIInv, PTL DEF Spec

-----------------------------------------------------------------------------
(* An object that says is_claimed() has the interface of the open device,  *)
(* and it alone: claim, unclaim, a move, a destructor and a failing call,  *)
(* interleaved with async_unclaim on the blocking thread, keep the fields  *)
(* of the object and the claims of libusb together.                        *)
THEOREM ClaimedIsHeldCorrect == Spec => []ClaimedIsHeld
<1>1. IInv => ClaimedIsHeld
  BY DEF IInv, OwnInv, ClaimedIsHeld, Claimed
<1> QED
  BY <1>1, Invariance, PTL

(* No claim leaks: an interface claimed from libusb has an object that     *)
(* will release it, unless detach() was called or libusb refused to        *)
(* release it in a destructor or in operator=, which do not look.          *)
THEOREM HeldIsOwnedCorrect == Spec => []HeldIsOwned
<1>1. IInv => HeldIsOwned
  BY DEF IInv
<1> QED
  BY <1>1, Invariance, PTL

(* The kernel driver that claim detached is attached again by unclaim,     *)
(* whichever thread executes it, unless the client asked otherwise.        *)
THEOREM DriverComesBackCorrect == Spec => []DriverComesBack
<1>1. IInv => DriverComesBack
  BY DEF IInv
<1> QED
  BY <1>1, Invariance, PTL

-----------------------------------------------------------------------------
(* No stale handle: what else is true of the functions posted.             *)

(* set_alt_setting finds the object claimed, since whatever is executed    *)
(* before it for that object leaves it claimed.                            *)
AltInv == \A c \in Posted : c.pc = "alt" => Claimed(c.i)
OrderInv == \A k \in 1 .. Len(blocking_queue) : blocking_queue[k].pc = "alt" =>
  /\ \A j \in 1 .. (k - 1) :
       blocking_queue[j].i = blocking_queue[k].i => blocking_queue[j].pc = "alt"
  /\ call["blocking"].i = blocking_queue[k].i => call["blocking"].pc = "alt"

(* The handle a function of the device captured is still open.             *)
CapturedInv == \A c \in Posted : c.pc = "device" => device # None /\ c.arg = device

HandleInv == AltInv /\ OrderInv /\ CapturedInv /\ NoStaleHandle

(* A step that posts and takes no function keeps HandleInv when it leaves  *)
(* claimed what set_alt_setting needs, and the device when it is captured. *)
LEMMA KeepsHandleInv ==
  ASSUME IInv, HandleInv, UNCHANGED blocking_queue,
         \/ call'["blocking"] = call["blocking"]
         \/ call'["blocking"] = NoCall
         \/ /\ call["blocking"].pc # "alt" /\ call'["blocking"].i = call["blocking"].i
            /\ call'["blocking"].pc \in {"attach", "forget"},
         \A i \in Interfaces : Claimed(i) =>
            Claimed(i)' \/ \A c \in Posted' : c.i = i => c.pc # "alt",
         device' = device \/ \A c \in Posted : c.pc # "device",
         fault' # "bad_handle"
  PROVE  HandleInv'
<1>1. /\ blocking_queue \in Seq(Calls)
      /\ \A c \in Posted' : c \in Posted \/ c.pc \in {"idle", "attach", "forget"}
  BY NoCallType DEF Posted, IInv, Types
<1>2. AltInv'
  <2> SUFFICES ASSUME NEW c \in Posted', c.pc = "alt" PROVE Claimed(c.i)'
    BY DEF AltInv
  <2>1. c \in Posted /\ c.i \in Interfaces /\ Claimed(c.i)
    BY <1>1 DEF HandleInv, AltInv, IInv, PostedInv
  <2> QED
    BY <2>1
<1>3. CapturedInv'
  BY <1>1 DEF HandleInv, CapturedInv
<1>4. OrderInv'
  <2> SUFFICES ASSUME NEW k \in 1 .. Len(blocking_queue), blocking_queue[k].pc = "alt",
                      call'["blocking"].i = blocking_queue[k].i
      PROVE  call'["blocking"].pc = "alt"
    BY DEF HandleInv, OrderInv
  <2>1. blocking_queue[k] \in Posted
    BY <1>1 DEF Posted, Range
  <2>2. blocking_queue[k].i \in Interfaces
    BY <2>1 DEF IInv, PostedInv
  <2>3. call["blocking"].i = blocking_queue[k].i => call["blocking"].pc = "alt"
    BY DEF HandleInv, OrderInv
  <2> QED
    BY <2>2, <2>3, NoCallType, InterfaceAssumption
<1> QED
  BY <1>2, <1>3, <1>4 DEF HandleInv, NoStaleHandle

(* A function is posted.                                                   *)
LEMMA PostHandleInv ==
  ASSUME IInv, HandleInv, NEW c \in Calls, PostFunction(c), UNCHANGED <<devVars, fault>>,
         c.pc = "alt" => c.i \in Interfaces /\ StaysClaimed(c.i),
         c.pc = "device" => device # None /\ c.arg = device
  PROVE  HandleInv'
<1>0. /\ blocking_queue \in Seq(Calls) /\ blocking_queue' = Append(blocking_queue, c)
      /\ UNCHANGED <<life, device_handle, call, device, fault>>
  BY DEF PostFunction, Enqueue, objVars, devVars, IInv, Types
<1>1. Range(blocking_queue)' = Range(blocking_queue) \cup {c}
  BY <1>0, RangeAppend
<1>2. Posted' = Posted \cup {c}
  BY <1>0, <1>1 DEF Posted
<1>3. AltInv'
  BY <1>0, <1>2 DEF HandleInv, AltInv, Claimed, StaysClaimed
<1>4. CapturedInv'
  BY <1>0, <1>2 DEF HandleInv, CapturedInv
<1>5. OrderInv'
  <2> SUFFICES ASSUME NEW k \in 1 .. Len(blocking_queue'), blocking_queue'[k].pc = "alt"
      PROVE  /\ \A j \in 1 .. (k - 1) :
                  blocking_queue'[j].i = blocking_queue'[k].i => blocking_queue'[j].pc = "alt"
             /\ call["blocking"].i = blocking_queue'[k].i => call["blocking"].pc = "alt"
    BY <1>0 DEF OrderInv
  <2>1. /\ Len(blocking_queue) \in Nat /\ Len(blocking_queue') = Len(blocking_queue) + 1
        /\ \A j \in 1 .. Len(blocking_queue) : blocking_queue'[j] = blocking_queue[j]
        /\ blocking_queue'[Len(blocking_queue) + 1] = c
    BY <1>0
  <2>2. CASE k = Len(blocking_queue) + 1
    <3>1. \A d \in Posted : d.i = c.i => d.pc = "alt"
      BY <2>1, <2>2 DEF StaysClaimed, PostedFor
    <3>2. \A j \in 1 .. Len(blocking_queue) : blocking_queue[j] \in Posted
      BY <1>0 DEF Posted, Range
    <3>3. call["blocking"] \in Posted
      BY DEF Posted
    <3> QED
      BY <2>1, <2>2, <3>1, <3>2, <3>3
  <2>3. CASE k # Len(blocking_queue) + 1
    <3>1. k \in 1 .. Len(blocking_queue) /\ \A j \in 1 .. (k - 1) : j \in 1 .. Len(blocking_queue)
      BY <2>1, <2>3
    <3> QED
      BY <2>1, <3>1 DEF HandleInv, OrderInv
  <2> QED
    BY <2>2, <2>3
<1> QED
  BY <1>0, <1>3, <1>4, <1>5 DEF HandleInv, NoStaleHandle

(* The blocking thread takes the oldest function.                          *)
LEMMA TakeFunctionHandleInv ==
  ASSUME IInv, HandleInv, TakeFunction, UNCHANGED <<devVars, fault>> PROVE HandleInv'
<1>0. /\ call \in [Threads -> Calls] /\ Threads = {"client", "blocking"}
      /\ blocking_queue \in Seq(Calls) /\ blocking_queue # << >>
      /\ call' = [call EXCEPT !["blocking"] = Head(blocking_queue)]
      /\ blocking_queue' = Tail(blocking_queue)
      /\ UNCHANGED <<life, device_handle, device, fault>>
  BY DEF TakeFunction, objVars, devVars, IInv, Types, Threads
<1>1. Range(blocking_queue) = {Head(blocking_queue)} \cup Range(blocking_queue)'
  BY <1>0, HeadThenTail
<1>2. Posted' \subseteq Posted
  BY <1>0, <1>1 DEF Posted
<1>3. AltInv' /\ CapturedInv'
  BY <1>0, <1>2 DEF HandleInv, AltInv, CapturedInv, Claimed
<1>4. OrderInv'
  <2>1. /\ Len(blocking_queue) \in Nat /\ Len(blocking_queue') = Len(blocking_queue) - 1
        /\ \A j \in 1 .. Len(blocking_queue') : blocking_queue'[j] = blocking_queue[j + 1]
        /\ call'["blocking"] = blocking_queue[1]
    BY <1>0
  <2> SUFFICES ASSUME NEW k \in 1 .. Len(blocking_queue'), blocking_queue'[k].pc = "alt"
      PROVE  /\ \A j \in 1 .. (k - 1) :
                  blocking_queue'[j].i = blocking_queue'[k].i => blocking_queue'[j].pc = "alt"
             /\ call'["blocking"].i = blocking_queue'[k].i => call'["blocking"].pc = "alt"
    BY DEF OrderInv
  <2>2. k + 1 \in 1 .. Len(blocking_queue) /\ blocking_queue'[k] = blocking_queue[k + 1]
    BY <2>1
  <2>3. \A j \in 1 .. ((k + 1) - 1) :
          blocking_queue[j].i = blocking_queue[k + 1].i => blocking_queue[j].pc = "alt"
    BY <2>2 DEF HandleInv, OrderInv
  <2>4. ASSUME NEW j \in 1 .. (k - 1), blocking_queue'[j].i = blocking_queue'[k].i
        PROVE  blocking_queue'[j].pc = "alt"
    <3>1. j + 1 \in 1 .. ((k + 1) - 1) /\ blocking_queue'[j] = blocking_queue[j + 1]
      BY <2>1, <2>2
    <3> QED
      BY <2>2, <2>3, <2>4, <3>1
  <2>5. call'["blocking"].i = blocking_queue'[k].i => call'["blocking"].pc = "alt"
    <3>1. 1 \in 1 .. ((k + 1) - 1)
      BY <2>1
    <3> QED
      BY <2>1, <2>2, <2>3, <3>1
  <2> QED
    BY <2>4, <2>5
<1> QED
  BY <1>0, <1>3, <1>4 DEF HandleInv, NoStaleHandle

LEMMA ClientStepHandleInv ==
  ASSUME IInv, HandleInv, ClientStep, UNCHANGED <<devVars, fault>> PROVE HandleInv'
<1>1. CASE AsyncDeviceFunction
  <2> DEFINE c == [NoCall EXCEPT !.pc = "device", !.arg = device]
  <2>1. c \in Calls /\ c.pc = "device" /\ c.arg = device
    BY <1>1 DEF NoCall, Calls, Pcs, IInv, Types
  <2>2. PostFunction(c) /\ device # None
    BY <1>1 DEF AsyncDeviceFunction
  <2> HIDE DEF c
  <2> QED
    BY <2>1, <2>2, PostHandleInv
<1>2. ASSUME NEW i \in Interfaces, NEW r \in BOOLEAN, AsyncUnclaim(i, r) PROVE HandleInv'
  <2> DEFINE c == Unclaiming(i, r)
  <2>1. c \in Calls /\ c.pc = "release"
    BY DEF Unclaiming, NoCall, Calls, Pcs
  <2>2. PostFunction(c)
    BY <1>2 DEF AsyncUnclaim
  <2> HIDE DEF c
  <2> QED
    BY <2>1, <2>2, PostHandleInv
<1>3. ASSUME NEW i \in Interfaces, AsyncSetAltSetting(i) PROVE HandleInv'
  <2> DEFINE c == [NoCall EXCEPT !.pc = "alt", !.i = i]
  <2>1. c \in Calls /\ c.pc = "alt" /\ c.i = i
    BY DEF NoCall, Calls, Pcs
  <2>2. PostFunction(c) /\ StaysClaimed(i)
    BY <1>3 DEF AsyncSetAltSetting
  <2> HIDE DEF c
  <2> QED
    BY <2>1, <2>2, PostHandleInv
<1>4. ASSUME NEW c, ClientFree, Begin(c), UNCHANGED objVars PROVE HandleInv'
  <2>1. /\ call'["blocking"] = call["blocking"]
        /\ UNCHANGED <<life, device_handle, blocking_queue, device, fault>>
    BY <1>4 DEF Begin, objVars, devVars, IInv, Types, Threads
  <2> QED
    BY <2>1, KeepsHandleInv DEF Claimed, HandleInv, NoStaleHandle
<1>5. ASSUME NEW i \in Interfaces, Alone(i), call'["blocking"] = call["blocking"],
             UNCHANGED blocking_queue,
             \A j \in Interfaces \ {i} : life'[j] = life[j] /\ device_handle'[j] = device_handle[j]
      PROVE  HandleInv'
  <2>1. UNCHANGED <<device, fault>> /\ Posted' = Posted
    BY <1>5, SamePosted DEF devVars
  <2> QED
    BY <1>5, <2>1, KeepsHandleInv DEF Claimed, HandleInv, NoStaleHandle, Alone
<1>6. ASSUME NEW i \in Interfaces, NEW garbage \in Memory,
             ConstructEmpty(i, garbage) \/ \E n \in Numbers : Construct(i, garbage, n)
      PROVE  HandleInv'
  <2>1. /\ \E how : Born(i, garbage, how)
        /\ UNCHANGED blocking_queue /\ call'["blocking"] = call["blocking"]
    BY <1>6 DEF ConstructEmpty, Construct, Begin, IInv, Types, Threads
  <2>2. \A j \in Interfaces \ {i} : life'[j] = life[j] /\ device_handle'[j] = device_handle[j]
    BY <2>1 DEF Born, IInv, Types
  <2>3. Alone(i)
    BY <2>1, NoCallType, InterfaceAssumption DEF Born, IInv, PostedInv, Alone
  <2> QED
    BY <1>5, <2>1, <2>2, <2>3
<1>7. ASSUME NEW i \in Interfaces, Detach(i) PROVE HandleInv'
  <2>1. Alone(i)
    BY <1>7, UsableIsAlone DEF Detach
  <2> QED
    BY <1>5, <1>7, <2>1 DEF Detach, IInv, Types
<1>8. ASSUME NEW i \in Interfaces, NEW n \in Numbers, NEW d \in BOOLEAN, Claim(i, n, d)
      PROVE  HandleInv'
  BY <1>4, <1>8 DEF Claim, MayUse
<1>9. ASSUME NEW i \in Interfaces, NEW r \in BOOLEAN, Unclaim(i, r) PROVE HandleInv'
  BY <1>4, <1>9 DEF Unclaim, MayUse
<1>10. ASSUME NEW i \in Interfaces, Destroy(i) \/ \E other \in Interfaces : MoveAssign(i, other)
       PROVE  HandleInv'
  BY <1>4, <1>10 DEF Destroy, MoveAssign, MayUse
<1> QED
  BY <1>1, <1>2, <1>3, <1>6, <1>7, <1>8, <1>9, <1>10 DEF ClientStep

LEMMA UnclaimHandleInv ==
  ASSUME IInv, HandleInv, NEW th \in Threads, UnclaimStep(th), UNCHANGED <<devVars, fault>>
  PROVE  HandleInv'
<1> DEFINE i == call[th].i
<1>1. call[th].pc \in {"release", "attach", "forget"} /\ i \in Interfaces
  BY CallIsAlone DEF UnclaimStep, NothingToRelease, Release, Releasing, ReleaseFails,
     AttachDriver, Forget, At
<1>2. /\ call \in [Threads -> Calls] /\ Threads = {"client", "blocking"}
      /\ th = "blocking" => call[th].then = "return"
      /\ UNCHANGED <<blocking_queue, device, fault>>
  BY <1>1, CallIsAlone DEF UnclaimStep, NothingToRelease, Release, ReleaseFails, AttachDriver,
     Forget, usbVars, devVars, IInv, Types, Threads
<1>3. \A j \in Interfaces \ {i} : life'[j] = life[j] /\ device_handle'[j] = device_handle[j]
  BY <1>1 DEF UnclaimStep, NothingToRelease, Release, ReleaseFails, AttachDriver, Forget,
     Continue, objVars, IInv, Types
<1>4. CASE th = "client"
  <2>1. call'["blocking"] = call["blocking"] /\ Posted' = Posted /\ Alone(i)
    <3>1. call'["blocking"] = call["blocking"]
      BY <1>2, <1>4 DEF UnclaimStep, NothingToRelease, Release, ReleaseFails, AttachDriver, Forget,
         Continue, Goto, Return
    <3> QED
      BY <1>1, <1>2, <1>4, <3>1, SamePosted DEF IInv, ClientInv
  <2> QED
    BY <1>2, <1>3, <2>1, KeepsHandleInv DEF Claimed, HandleInv, NoStaleHandle, Alone
<1>5. CASE th = "blocking"
  <2>1. \/ call'["blocking"] = NoCall
        \/ call'["blocking"].i = i /\ call'["blocking"].pc \in {"attach", "forget"}
    BY <1>1, <1>2, <1>5 DEF UnclaimStep, NothingToRelease, Release, ReleaseFails, AttachDriver,
       Forget, Continue, Goto, Return, AfterRelease, Calls
  <2>2. \A c \in Posted' : c.i = i => c.pc # "alt"
    <3>1. ASSUME NEW c \in Range(blocking_queue), c.i = i PROVE c.pc # "alt"
      <4>1. PICK k \in 1 .. Len(blocking_queue) : blocking_queue[k] = c
        BY <3>1 DEF Range, IInv, Types
      <4> QED
        BY <1>1, <1>5, <3>1, <4>1 DEF HandleInv, OrderInv
    <3> QED
      BY <1>2, <2>1, <3>1, NoCallType DEF Posted
  <2>3. call["blocking"].pc # "alt"
    BY <1>1, <1>5
  <2> QED
    BY <1>2, <1>3, <1>5, <2>1, <2>2, <2>3, KeepsHandleInv DEF Claimed, HandleInv, NoStaleHandle
<1> QED
  BY <1>2, <1>4, <1>5

LEMMA RestHandleInv ==
  ASSUME IInv, HandleInv, UNCHANGED <<devVars, fault>>,
         DetachDriver \/ ClaimInterface \/ ClaimFails \/ Take \/ CallOnHandle
  PROVE  HandleInv'
<1>1. /\ UNCHANGED <<blocking_queue, device, fault>>
      /\ call \in [Threads -> Calls] /\ Threads = {"client", "blocking"}
  BY DEF DetachDriver, ClaimInterface, ClaimFails, Take, CallOnHandle, usbVars, devVars, IInv,
     Types, Threads
<1>2. CASE CallOnHandle
  BY <1>1, <1>2, KeepsHandleInv DEF CallOnHandle, Return, objVars, Claimed, HandleInv, NoStaleHandle
<1>3. CASE DetachDriver
  BY <1>1, <1>3, KeepsHandleInv DEF DetachDriver, Goto, objVars, Claimed, HandleInv, NoStaleHandle
<1>4. CASE ClaimInterface \/ ClaimFails
  <2> DEFINE i == call["client"].i
  <2>1. i \in Interfaces /\ Alone(i)
    BY <1>4, ClaimingClient DEF ClaimInterface, ClaimFails, At
  <2>2. /\ call'["blocking"] = call["blocking"]
        /\ \A j \in Interfaces \ {i} : life'[j] = life[j] /\ device_handle'[j] = device_handle[j]
    BY <1>1, <1>4, <2>1 DEF ClaimInterface, ClaimFails, Remember, Return, IInv, Types
  <2>3. Posted' = Posted
    BY <1>1, <2>2, SamePosted
  <2> QED
    BY <1>1, <2>1, <2>2, <2>3, KeepsHandleInv DEF Claimed, HandleInv, NoStaleHandle, Alone
<1>5. CASE Take
  <2> DEFINE i == call["client"].i
             o == call["client"].arg
  <2>1. i \in Interfaces /\ Alone(i) /\ o \in Interfaces /\ Alone(o)
    <3>1. call["client"].pc = "take" /\ call["client"] \in Calls
      BY <1>1, <1>5 DEF Take, At
    <3> QED
      BY <3>1 DEF IInv, ClientInv, ClaimingInv, TakingInv, Calls
  <2>2. /\ call'["blocking"] = call["blocking"]
        /\ \A j \in Interfaces \ {i, o} : life'[j] = life[j] /\ device_handle'[j] = device_handle[j]
    BY <1>1, <1>5, <2>1 DEF Take, Exchange, Return, IInv, Types
  <2>3. Posted' = Posted
    BY <1>1, <2>2, SamePosted
  <2> QED
    BY <1>1, <2>1, <2>2, <2>3, KeepsHandleInv DEF Claimed, HandleInv, NoStaleHandle, Alone
<1> QED
  BY <1>2, <1>3, <1>4, <1>5

LEMMA DeviceHandleInv == ASSUME IInv, HandleInv, DeviceStep PROVE HandleInv'
<1>1. /\ UNCHANGED <<life, device_handle, call, blocking_queue, fault>>
      /\ device' = device \/ \A c \in Posted : c.pc # "device"
  BY DEF DeviceStep, Open, Close, Unplug, MayClose, objVars, HandleInv, CapturedInv
<1> QED
  BY <1>1, KeepsHandleInv DEF Claimed, HandleInv, NoStaleHandle

(* libusb is only called with the open handle, or the one an object was    *)
(* constructed with.                                                       *)
LEMMA FaultyHandleInv == ASSUME IInv, HandleInv, FaultyStep PROVE HandleInv'
<1>1. UNCHANGED <<life, device_handle, call, blocking_queue, device>>
  BY DEF FaultyStep, Terminate, BadHandle, objVars, devVars
<1>2. ASSUME NEW th \in Threads, BadHandle(th) PROVE fault' # "bad_handle"
  <2>1. CASE call[th].pc = "release"
    <3>1. call[th].i \in Interfaces
      BY <2>1, CallIsAlone
    <3>2. HandleOf(call[th]) = device_handle[call[th].i]
      BY <2>1 DEF HandleOf
    <3>3. device_handle[call[th].i] \in Handles => device_handle[call[th].i] = device
      <4>1. life[call[th].i] = "constructing" => device_handle[call[th].i] \notin Handles
        BY <2>1, CallIsAlone DEF IInv, ClientInv, Threads
      <4> QED
        BY <2>1, <3>1, <4>1, CallIsAlone DEF IInv, OwnInv, Claimed
    <3>4. device_handle[call[th].i] \in Handles \cup {None, Wild}
      BY <3>1 DEF IInv, Types
    <3> QED
      BY <1>2, <2>1, <3>2, <3>3, <3>4, InterfaceAssumption DEF BadHandle, At
  <2>2. CASE call[th].pc \in {"alt", "device"}
    <3>1. th = "blocking" /\ call[th] \in Posted
      BY <2>2 DEF IInv, ClientInv, ClaimingInv, TakingInv, Types, Calls, Posted, Threads
    <3>2. HandleOf(call[th]) = device /\ device # None
      BY <2>2, <3>1, InterfaceAssumption
      DEF HandleOf, HandleInv, AltInv, CapturedInv, IInv, OwnInv, PostedInv, Claimed
    <3> QED
      BY <1>2, <3>2 DEF BadHandle
  <2> QED
    BY <1>2, <2>1, <2>2 DEF BadHandle
<1>3. fault' # "bad_handle"
  BY <1>2 DEF FaultyStep, Terminate
<1> QED
  BY <1>1, <1>3, KeepsHandleInv DEF Claimed

(* The functions posted find what they need.                              *)
THEOREM HandleInvariance == Spec => []HandleInv
<1>1. Init => HandleInv
  <2> SUFFICES ASSUME Init PROVE HandleInv
    OBVIOUS
  <2>1. Posted = {NoCall} /\ Len(blocking_queue) = 0
    BY DEF Init, Posted, Range, Threads
  <2> QED
    BY <2>1, NoCallType DEF Init, HandleInv, AltInv, OrderInv, CapturedInv, NoStaleHandle
<1>2. IInv /\ HandleInv /\ [Next]_vars => HandleInv'
  <2> SUFFICES ASSUME IInv, HandleInv, [Next]_vars PROVE HandleInv'
    OBVIOUS
  <2>1. CASE InterfaceStep /\ UNCHANGED <<devVars, fault>>
    BY <2>1, ClientStepHandleInv, UnclaimHandleInv, RestHandleInv, TakeFunctionHandleInv
    DEF InterfaceStep
  <2>2. CASE DeviceStep
    BY <2>2, DeviceHandleInv
  <2>3. CASE FaultyStep
    BY <2>3, FaultyHandleInv
  <2>4. CASE UNCHANGED vars
    BY <2>4, KeepsHandleInv DEF vars, objVars, devVars, Claimed, HandleInv, NoStaleHandle
  <2> QED
    BY <2>1, <2>2, <2>3, <2>4 DEF Next, Terminated
<1> QED
  BY <1>1, <1>2, Invariance, PTL DEF Spec

(* Once a handle has been stored or captured, libusb is never called with  *)
(* a null or a closed one, although set_alt_setting does not look at       *)
(* is_claimed() and the functions posted are executed long after.          *)
THEOREM NoStaleHandleCorrect == Spec => []NoStaleHandle
<1>1. HandleInv => NoStaleHandle
  BY DEF HandleInv
<1> QED
  BY <1>1, HandleInvariance, PTL

-----------------------------------------------------------------------------
(* The types.                                                              *)

(* What TypeOK says of the rest of the state, and that an interface left   *)
(* claimed by detach() has no owner: unclaim does not release it.          *)
Rest ==
  /\ Len(blocking_queue) <= MaxQueued /\ closed \subseteq Handles \ {device}
  /\ detached \subseteq held /\ abandoned \subseteq Numbers /\ forgone \subseteq Numbers
  /\ fault \in {"none", "wild_handle", "bad_handle", "terminated"}
  /\ \A n \in detached, i \in Interfaces : ~Owns(i, n)

LEMMA KeepsRest ==
  ASSUME Rest, UNCHANGED <<device, closed, fault>>, Len(blocking_queue') <= MaxQueued,
         forgone' \subseteq Numbers, abandoned' \subseteq Numbers, detached' \subseteq detached, detached' \subseteq held',
         \A n \in detached', i \in Interfaces : Owns(i, n)' => \E j \in Interfaces : Owns(j, n)
  PROVE  Rest'
BY DEF Rest

LEMMA ClientStepRest ==
  ASSUME IInv, Rest, ClientStep, UNCHANGED <<devVars, fault>> PROVE Rest'
<1>0. UNCHANGED <<device, closed, fault>>
  BY DEF devVars
<1>1. ASSUME UNCHANGED <<objVars, usbVars>>, Len(blocking_queue') <= MaxQueued PROVE Rest'
  BY <1>0, <1>1, KeepsRest DEF objVars, usbVars, Rest, Owns
<1>2. ASSUME NEW c, UNCHANGED objVars, Begin(c) PROVE Rest'
  BY <1>1, <1>2 DEF Begin, Rest
<1>3. ASSUME NEW c \in Calls, PostFunction(c) PROVE Rest'
  <2>1. blocking_queue' = Append(blocking_queue, c) /\ Len(blocking_queue) < MaxQueued
        /\ blocking_queue \in Seq(Calls)
    BY <1>3 DEF PostFunction, Enqueue, IInv, Types
  <2>2. Len(blocking_queue') <= MaxQueued
    BY <2>1, InterfaceAssumption
  <2> QED
    BY <1>1, <1>3, <2>2 DEF PostFunction
<1>4. ASSUME NEW i \in Interfaces, NEW garbage \in Memory, NEW how, Born(i, garbage, how),
             UNCHANGED <<blocking_queue, usbVars>>
      PROVE  Rest'
  <2>1. \A j \in Interfaces, n \in detached : Owns(j, n)' => Owns(j, n)
    BY <1>4, InterfaceAssumption DEF Born, Owns, IInv, Types
  <2> QED
    BY <1>0, <1>4, <2>1, KeepsRest DEF usbVars, Rest
<1>5. ASSUME NEW i \in Interfaces, Detach(i) PROVE Rest'
  <2>1. Alone(i) /\ call["client"] = NoCall /\ life[i] = "alive"
    BY <1>5, UsableIsAlone DEF Detach
  <2>2. ~Released(i)
    BY <2>1, NoCallType DEF Released, Alone, Posted, Threads
  <2>3. Claimed(i) => number[i] \in held /\ \A j \in Interfaces \ {i} : ~Owns(j, number[i])
    BY <2>2 DEF IInv, OwnInv
  <2>4. \A j \in Interfaces, n \in Numbers : Owns(j, n)' => Owns(j, n) /\ j # i
    BY <1>5, InterfaceAssumption DEF Detach, Owns, IInv, Types
  <2>5. detached' = IF Claimed(i) THEN detached \cup {number[i]} ELSE detached
    BY <1>5, <2>1 DEF Detach, Claimed
  <2>6. UNCHANGED <<blocking_queue, held, abandoned, forgone>> /\ held \subseteq Numbers
    BY <1>5 DEF Detach, IInv, Types
  <2>7. detached' \subseteq held'
    BY <2>3, <2>5, <2>6 DEF Rest
  <2>8. \A n \in detached', j \in Interfaces : ~Owns(j, n)'
    BY <2>3, <2>4, <2>5, <2>6, <2>7 DEF Rest
  <2> QED
    BY <1>0, <2>6, <2>7, <2>8 DEF Rest
<1>6. CASE AsyncDeviceFunction
  <2> DEFINE c == [NoCall EXCEPT !.pc = "device", !.arg = device]
  <2>1. c \in Calls /\ PostFunction(c)
    BY <1>6 DEF AsyncDeviceFunction, NoCall, Calls, Pcs, IInv, Types
  <2> QED
    BY <1>3, <2>1
<1>7. ASSUME NEW i \in Interfaces, AsyncSetAltSetting(i) \/ \E r \in BOOLEAN : AsyncUnclaim(i, r)
      PROVE  Rest'
  <2>1. /\ [NoCall EXCEPT !.pc = "alt", !.i = i] \in Calls
        /\ \A r \in BOOLEAN : Unclaiming(i, r) \in Calls
    BY DEF Unclaiming, NoCall, Calls, Pcs
  <2> QED
    BY <1>3, <1>7, <2>1 DEF AsyncSetAltSetting, AsyncUnclaim
<1>8. ASSUME NEW i \in Interfaces, NEW garbage \in Memory,
             ConstructEmpty(i, garbage) \/ \E n \in Numbers : Construct(i, garbage, n)
      PROVE  Rest'
  BY <1>4, <1>8 DEF ConstructEmpty, Construct, Begin
<1>9. ASSUME NEW i \in Interfaces, NEW n \in Numbers, NEW d \in BOOLEAN, Claim(i, n, d) PROVE Rest'
  BY <1>2, <1>9 DEF Claim
<1>10. ASSUME NEW i \in Interfaces, NEW r \in BOOLEAN, Unclaim(i, r) PROVE Rest'
  BY <1>2, <1>10 DEF Unclaim
<1>11. ASSUME NEW i \in Interfaces, Destroy(i) \/ \E other \in Interfaces : MoveAssign(i, other)
       PROVE  Rest'
  BY <1>2, <1>11 DEF Destroy, MoveAssign
<1> QED
  BY <1>5, <1>6, <1>7, <1>8, <1>9, <1>10, <1>11 DEF ClientStep

LEMMA UnclaimRest ==
  ASSUME IInv, Rest, NEW th \in Threads, UnclaimStep(th), UNCHANGED <<devVars, fault>>
  PROVE  Rest'
<1>0. UNCHANGED <<device, closed, fault, blocking_queue, detached>>
  BY DEF UnclaimStep, NothingToRelease, Release, ReleaseFails, AttachDriver, Forget, usbVars, devVars
<1>1. \A i \in Interfaces, n \in detached : Owns(i, n)' => Owns(i, n)
  <2>1. call[th].i \in Interfaces
    BY CallIsAlone DEF UnclaimStep, NothingToRelease, Release, Releasing, ReleaseFails,
       AttachDriver, Forget, At
  <2> QED
    BY <2>1, InterfaceAssumption DEF UnclaimStep, NothingToRelease, Release, ReleaseFails,
       AttachDriver, Forget, Continue, objVars, Owns, IInv, Types
<1>2. CASE Release(th)
  <2> DEFINE n == number[call[th].i]
  <2>1. n \in Numbers /\ n \notin detached /\ held' = held \ {n} /\ forgone' \subseteq forgone \cup {n}
        /\ abandoned' = abandoned
    BY <1>2, ReleasingOwns DEF Release, Rest, Owns, Claimed, IInv, Types
  <2> QED
    BY <1>0, <1>1, <2>1, KeepsRest DEF Rest
<1>3. CASE ~Release(th)
  <2>1. held' = held /\ forgone' = forgone
    BY <1>3 DEF UnclaimStep, NothingToRelease, ReleaseFails, AttachDriver, Forget, usbVars
  <2>2. abandoned' \subseteq Numbers
    <3>1. CASE ReleaseFails(th)
      <4>1. number[call[th].i] \in Numbers
        BY <3>1, ReleasingOwns DEF ReleaseFails, IInv, Types
      <4> QED
        BY <3>1, <4>1 DEF ReleaseFails, Rest
    <3>2. CASE ~ReleaseFails(th)
      BY <1>3, <3>2 DEF UnclaimStep, NothingToRelease, AttachDriver, Forget, usbVars, Rest
    <3> QED
      BY <3>1, <3>2
  <2> QED
    BY <1>0, <1>1, <2>1, <2>2, KeepsRest DEF Rest
<1> QED
  BY <1>2, <1>3

LEMMA OtherRest ==
  ASSUME IInv, Rest, UNCHANGED <<devVars, fault>>,
         DetachDriver \/ ClaimInterface \/ ClaimFails \/ Take \/ TakeFunction \/ CallOnHandle
  PROVE  Rest'
<1>0. UNCHANGED <<device, closed, fault>>
  BY DEF devVars
<1>1. ASSUME UNCHANGED <<life, device_handle, number, held, detached, abandoned, forgone, blocking_queue>>
      PROVE  Rest'
  BY <1>0, <1>1 DEF Rest, Owns
<1>2. CASE DetachDriver \/ CallOnHandle
  BY <1>1, <1>2 DEF DetachDriver, CallOnHandle, objVars, usbVars
<1>3. CASE TakeFunction
  <2>1. Len(blocking_queue') <= MaxQueued
    <3>1. Len(Tail(blocking_queue)) = Len(blocking_queue) - 1 /\ Len(blocking_queue) \in Nat
      BY <1>3 DEF TakeFunction, IInv, Types
    <3> QED
      BY <1>3, <3>1, InterfaceAssumption DEF TakeFunction, Rest
  <2> QED
    BY <1>0, <1>3, <2>1 DEF TakeFunction, objVars, usbVars, Rest, Owns
<1>4. CASE ClaimFails
  <2>1. call["client"].arg \in Numbers /\ call["client"].i \in Interfaces
    BY <1>4, ClaimingClient DEF ClaimFails, At
  <2>2. \A i \in Interfaces, n \in detached : Owns(i, n)' => Owns(i, n)
    BY <1>4, <2>1 DEF ClaimFails, Owns, IInv, Types
  <2> QED
    BY <1>0, <1>4, <2>1, <2>2, KeepsRest DEF ClaimFails, Rest
<1>5. CASE ClaimInterface
  <2> DEFINE c == call["client"]
  <2>1. \A i \in Interfaces, n \in detached' : Owns(i, n)' => Owns(i, n)
    <3>1. c.i \in Interfaces
      BY <1>5, ClaimingClient DEF ClaimInterface, At
    <3> QED
      BY <1>5, <3>1 DEF ClaimInterface, Remember, Owns, IInv, Types
  <2> QED
    BY <1>0, <1>5, <2>1, KeepsRest DEF ClaimInterface, Rest
<1>6. CASE Take
  <2> DEFINE c == call["client"]
  <2>1. c.i \in Interfaces /\ c.arg \in Interfaces /\ life[c.i] = "alive" /\ life[c.arg] = "alive"
    <3>1. c.pc = "take" /\ c \in Calls
      BY <1>6 DEF Take, At, IInv, Types, Threads
    <3> QED
      BY <3>1 DEF IInv, ClientInv, ClaimingInv, TakingInv, Calls
  <2>2. \A i \in Interfaces, n \in detached :
          Owns(i, n)' => Owns(i, n) \/ Owns(c.arg, n)
    BY <1>6, <2>1, InterfaceAssumption DEF Take, Exchange, Owns, IInv, Types
  <2> QED
    BY <1>0, <1>6, <2>1, <2>2, KeepsRest DEF Take, usbVars, Rest
<1> QED
  BY <1>2, <1>3, <1>4, <1>5, <1>6

LEMMA DeviceRest == ASSUME IInv, Rest, DeviceStep PROVE Rest'
<1>1. UNCHANGED <<life, device_handle, number, blocking_queue, fault>>
  BY DEF DeviceStep, Open, Close, Unplug, objVars
<1>2. ASSUME NEW h \in Handles, Open(h) PROVE Rest'
  BY <1>1, <1>2 DEF Open, Rest, Owns
<1>3. CASE Close
  BY <1>1, <1>3, InterfaceAssumption DEF Close, Rest, Owns, IInv, Types
<1>4. CASE Unplug
  BY <1>1, <1>4 DEF Unplug, usbVars, Rest, Owns
<1> QED
  BY <1>2, <1>3, <1>4 DEF DeviceStep

(* The variables keep their types: no function is at a call of libusb its  *)
(* thread does not make, no handle is open and closed, and an interface    *)
(* left by detach() stays claimed.                                         *)
THEOREM TypeCorrect == Spec => []TypeOK
<1>1. Init => Rest
  BY InterfaceAssumption DEF Init, Rest
<1>2. IInv /\ Rest /\ [Next]_vars => Rest'
  <2> SUFFICES ASSUME IInv, Rest, [Next]_vars PROVE Rest'
    OBVIOUS
  <2>1. CASE InterfaceStep /\ UNCHANGED <<devVars, fault>>
    BY <2>1, ClientStepRest, UnclaimRest, OtherRest DEF InterfaceStep
  <2>2. CASE DeviceStep
    BY <2>2, DeviceRest
  <2>3. CASE FaultyStep
    BY <2>3 DEF FaultyStep, Terminate, BadHandle, objVars, devVars, usbVars, Rest, Owns
  <2>4. CASE UNCHANGED vars
    BY <2>4 DEF vars, objVars, devVars, usbVars, Rest, Owns
  <2> QED
    BY <2>1, <2>2, <2>3, <2>4 DEF Next, Terminated
<1>3. IInv /\ HandleInv /\ Rest => TypeOK
  <2> SUFFICES ASSUME IInv, HandleInv, Rest PROVE TypeOK
    OBVIOUS
  <2>1. ASSUME NEW th \in Threads, call[th] # NoCall
        PROVE  /\ call[th].pc \in {"release", "attach", "forget", "detach_driver", "claim", "take",
                                   "alt", "device"}
               /\ IF call[th].pc = "device" THEN call[th].arg \in Handles ELSE call[th].i \in Interfaces
               /\ th = "blocking" => call[th].then = "return"
               /\ call[th].then = "claim" => call[th].arg \in Numbers
               /\ call[th].then = "take" => call[th].arg \in Interfaces
    <3>1. call[th] \in Calls /\ Threads = {"client", "blocking"}
      BY DEF IInv, Types, Threads
    <3>2. CASE th = "client"
      BY <2>1, <3>1, <3>2 DEF IInv, ClientInv, ClaimingInv, TakingInv, Calls, Pcs
    <3>3. CASE th = "blocking"
      <4>1. call[th] \in Posted
        BY <3>3 DEF Posted
      <4> QED
        BY <2>1, <3>1, <3>3, <4>1 DEF IInv, PostedInv, HandleInv, CapturedInv, Types
    <3> QED
      BY <3>1, <3>2, <3>3
  <2> QED
    BY <2>1 DEF TypeOK, IInv, Types, Rest
<1> QED
  BY <1>1, <1>2, <1>3, Invariance, HandleInvariance, PTL DEF Spec
=============================================================================
