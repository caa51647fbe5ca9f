---------------------------- MODULE UsbInterface ----------------------------
(***************************************************************************)
(* basic_usb_interface and the handle of the basic_usb_device it works on: *)
(* objects that claim the interfaces of a device, on two threads.  The     *)
(* client's thread opens and closes the device and constructs, claims,     *)
(* assigns and destroys; async_unclaim, async_set_alt_setting and the      *)
(* asynchronous functions of the device run on blocking_op_thread_, with   *)
(* the object, or the raw handle, that they captured.                      *)
(*                                                                         *)
(* A member function is executed one call of libusb at a time: the two     *)
(* threads interleave between them.  libusb refuses what the kernel does:  *)
(* to claim an interface a kernel driver has, to attach a driver to one    *)
(* that is claimed, and everything once the device is unplugged.           *)
(*                                                                         *)
(* The client does not use an object while one of its functions is on the  *)
(* blocking thread, except to add functions an object in order allows; it  *)
(* gives an interface number to one object at a time; and it closes the    *)
(* device when no object says is_claimed() and no function has captured    *)
(* the handle.                                                             *)
(***************************************************************************)
EXTENDS Integers, Sequences, Functions

CONSTANTS
  Interfaces,    \* basic_usb_interface objects
  Numbers,       \* interface numbers of the device
  Handles,       \* what libusb_open returns, a new one each time
  None,          \* nullptr, no object, no number
  Wild,          \* a pointer that is none of them
  Memory,        \* what the memory of a new object may contain
  MaxQueued      \* bound on the functions waiting for the blocking thread

ASSUME InterfaceAssumption ==
  /\ None \notin Interfaces \cup Numbers
  /\ {None, Wild} \cap Handles = {} /\ Wild # None
  /\ Memory \subseteq {None, Wild} /\ Memory # {}
  /\ MaxQueued \in Nat

VARIABLES
  life,            \* of the objects
  device_handle,   \* device_handle_ of each object
  number,          \* number_ of each object
  call,            \* what each thread executes
  blocking_queue,  \* functions posted to the blocking thread, oldest first
  held,            \* interfaces libusb has claimed for the device handle
  driver,          \* interfaces a kernel driver is bound to
  device,          \* handle_ of the basic_usb_device
  closed,          \* handles that have been closed
  present,         \* the device that was opened last is plugged in
  detached,        \* held interfaces whose object was told to detach()
  abandoned,       \* held interfaces libusb refused to release, of an object
                   \* that was destroyed or assigned to all the same
  forgone,         \* interfaces nobody is left to reattach the driver to
  fault            \* libusb was called with a handle that is not one, or
                   \* an exception left a function that is noexcept

objVars == <<life, device_handle, number>>
devVars == <<device, closed, present>>
usbVars == <<held, driver, detached, abandoned, forgone>>
vars == <<objVars, call, blocking_queue, devVars, usbVars, fault>>

Threads == {"client", "blocking"}

(* A call in progress: the call of libusb it comes to next, the object,    *)
(* unclaim's and claim's arguments, and what follows unclaim: nothing,     *)
(* the rest of claim, the end of the object, or the rest of a move.        *)
NoCall == [pc |-> "idle", i |-> None, reattach |-> TRUE, detach |-> TRUE, then |-> "return", arg |-> None]
Unclaiming(i, r) == [NoCall EXCEPT !.pc = "release", !.i = i, !.reattach = r]
Claiming(i, n, d) ==
  [NoCall EXCEPT !.pc = "release", !.i = i, !.then = "claim", !.arg = n, !.detach = d]

Init ==
  /\ life = [i \in Interfaces |-> "unborn"]
  /\ device_handle = [i \in Interfaces |-> None]
  /\ number = [i \in Interfaces |-> None]
  /\ call = [th \in Threads |-> NoCall]
  /\ blocking_queue = << >>
  /\ device = None /\ closed = {} /\ present = TRUE
  /\ held = {} /\ driver = Numbers /\ detached = {} /\ abandoned = {} /\ forgone = {}
  /\ fault = "none"

-----------------------------------------------------------------------------
(* What the client may do.                                                 *)

(* The functions that are on the blocking thread or on their way to it.    *)
Posted == Range(blocking_queue) \cup {call["blocking"]}
PostedFor(i) == {c \in Posted : c.i = i}

ClientFree == call["client"] = NoCall
MayUse(i) == ClientFree /\ life[i] = "alive" /\ PostedFor(i) = {}
Owns(i, n) == life[i] = "alive" /\ device_handle[i] \in Handles /\ number[i] = n
MayClaim(i, n) == device # None /\ \A j \in Interfaces \ {i} : ~Owns(j, n)
StaysClaimed(i) ==
  life[i] = "alive" /\ device_handle[i] \in Handles /\ \A c \in PostedFor(i) : c.pc = "alt"
MayClose ==
  /\ \A i \in Interfaces : life[i] = "alive" => device_handle[i] # device
  /\ \A c \in Posted : c.pc # "device"

-----------------------------------------------------------------------------
(* The device.                                                             *)

(* open: the device is there, plugged in again if it had been unplugged,   *)
(* in which case the kernel binds its drivers anew.  open() of an open     *)
(* device is Close and Open.                                               *)
Open(h) ==
  /\ ClientFree /\ device = None /\ h \notin closed
  /\ device' = h
  /\ present' = TRUE
  /\ driver' = IF present THEN driver ELSE Numbers
  /\ forgone' = IF present THEN forgone ELSE {}
  /\ UNCHANGED <<objVars, call, blocking_queue, closed, held, detached, abandoned, fault>>

(* close, and libusb_close: the kernel takes the claims back, and does not *)
(* bind its drivers again.                                                 *)
Close ==
  /\ ClientFree /\ device # None /\ MayClose
  /\ device' = None /\ closed' = closed \cup {device}
  /\ held' = {} /\ detached' = {} /\ abandoned' = {} /\ forgone' = forgone \cup held
  /\ UNCHANGED <<objVars, call, blocking_queue, present, driver, fault>>

Unplug ==
  /\ device # None
  /\ present' = FALSE
  /\ UNCHANGED <<objVars, call, blocking_queue, device, closed, usbVars, fault>>

(* open(info), and alloc_streams and free_streams with an error_code, are  *)
(* noexcept but call the libusb_try that throws: std::terminate when       *)
(* libusb returns an error.                                                *)
Terminate ==
  /\ ClientFree
  /\ fault' = "terminated"
  /\ UNCHANGED <<objVars, call, blocking_queue, devVars, usbVars>>

-----------------------------------------------------------------------------
(* The member functions of an interface, up to their first call of libusb. *)

Begin(c) == call' = [call EXCEPT !["client"] = c] /\ UNCHANGED <<blocking_queue, usbVars>>

(* The constructor for an executor or context: number_ is initialised,     *)
(* device_handle_ is not.                                                  *)
Born(i, garbage, how) ==
  /\ ClientFree /\ life[i] = "unborn"
  /\ life' = [life EXCEPT ![i] = how]
  /\ device_handle' = [device_handle EXCEPT ![i] = garbage]
  /\ number' = [number EXCEPT ![i] = None]

ConstructEmpty(i, garbage) ==
  Born(i, garbage, "alive") /\ UNCHANGED <<call, blocking_queue, usbVars>>

(* The constructors for a device delegate to it and claim an interface.    *)
Construct(i, garbage, n) ==
  MayClaim(i, n) /\ Born(i, garbage, "constructing") /\ Begin(Claiming(i, n, TRUE))

(* claim: the overload that throws drops its argument detach_kernel_driver *)
(* and detaches; only the one with an error_code does not have to.         *)
Claim(i, n, detach_kernel_driver) ==
  /\ MayUse(i) /\ MayClaim(i, n)
  /\ Begin(Claiming(i, n, detach_kernel_driver))
  /\ UNCHANGED objVars

Unclaim(i, reattach_kernel_driver) ==
  MayUse(i) /\ Begin(Unclaiming(i, reattach_kernel_driver)) /\ UNCHANGED objVars

Destroy(i) ==
  MayUse(i) /\ Begin([Unclaiming(i, TRUE) EXCEPT !.then = "destroy"]) /\ UNCHANGED objVars

(* operator= with an object that is moved from.                            *)
MoveAssign(i, other) ==
  /\ MayUse(i) /\ MayUse(other)
  /\ Begin([Unclaiming(i, TRUE) EXCEPT !.then = "take", !.arg = other])
  /\ UNCHANGED objVars

(* detach: the interface is left claimed on purpose.                       *)
Detach(i) ==
  /\ MayUse(i)
  /\ detached' = IF device_handle[i] \in Handles THEN detached \cup {number[i]} ELSE detached
  /\ device_handle' = [device_handle EXCEPT ![i] = None]
  /\ number' = [number EXCEPT ![i] = None]
  /\ UNCHANGED <<life, call, blocking_queue, held, driver, abandoned, forgone>>

(* Mutant of Enqueue: the function overtakes those posted before it.       *)
EnqueueFirst(q, c) == <<c>> \o q

Enqueue(q, c) == Append(q, c)

PostFunction(c) ==
  /\ ClientFree /\ Len(blocking_queue) < MaxQueued
  /\ blocking_queue' = Enqueue(blocking_queue, c)
  /\ UNCHANGED <<objVars, call, usbVars>>

(* Mutant of AsyncUnclaim: the object is destroyed with the function.      *)
AsyncUnclaimOwned(i, reattach_kernel_driver) ==
  life[i] = "alive" /\ PostFunction([Unclaiming(i, reattach_kernel_driver) EXCEPT !.then = "destroy"])

AsyncUnclaim(i, reattach_kernel_driver) ==
  life[i] = "alive" /\ PostFunction(Unclaiming(i, reattach_kernel_driver))

(* An alternate setting is set on an interface that will still be claimed. *)
AsyncSetAltSetting(i) == StaysClaimed(i) /\ PostFunction([NoCall EXCEPT !.pc = "alt", !.i = i])

(* async_set_configuration, async_clear_halt and async_reset_device of the *)
(* device capture its handle.                                              *)
AsyncDeviceFunction ==
  device # None /\ PostFunction([NoCall EXCEPT !.pc = "device", !.arg = device])

ClientStep ==
  \/ \E i \in Interfaces :
       \/ \E garbage \in Memory : \/ ConstructEmpty(i, garbage)
                                  \/ \E n \in Numbers : Construct(i, garbage, n)
       \/ \E n \in Numbers, d \in BOOLEAN : Claim(i, n, d)
       \/ \E r \in BOOLEAN : Unclaim(i, r) \/ AsyncUnclaim(i, r)
       \/ \E other \in Interfaces : MoveAssign(i, other)
       \/ Destroy(i) \/ Detach(i) \/ AsyncSetAltSetting(i)
  \/ AsyncDeviceFunction

-----------------------------------------------------------------------------
(* unclaim, on either thread.                                              *)

At(th, pc) == call[th].pc = pc
Goto(th, pc) == call' = [call EXCEPT ![th].pc = pc]
Return(th) == call' = [call EXCEPT ![th] = NoCall]

(* Mutant of Continue: claim does not look at the error either.            *)
ContinueRegardless(th, ok) ==
  LET c == call[th] IN
  /\ \/ c.then = "take" /\ Goto(th, "take")
     \/ c.then = "claim" /\ Goto(th, IF c.detach THEN "detach_driver" ELSE "claim")
     \/ c.then \in {"return", "destroy"} /\ Return(th)
  /\ life' = IF c.then = "destroy" THEN [life EXCEPT ![c.i] = "unborn"] ELSE life

(* unclaim has returned, ok or with an error: what called it goes on.      *)
(* Only claim gives up when there was an error.                            *)
Continue(th, ok) ==
  LET c == call[th] IN
  /\ \/ c.then = "take" /\ Goto(th, "take")
     \/ c.then = "claim" /\ ok /\ Goto(th, IF c.detach THEN "detach_driver" ELSE "claim")
     \/ (c.then = "claim" => ~ok) /\ c.then # "take" /\ Return(th)
  /\ life' = IF c.then = "destroy" THEN [life EXCEPT ![c.i] = "unborn"] ELSE life

NothingToRelease(th) ==
  /\ At(th, "release") /\ device_handle[call[th].i] = None
  /\ Continue(th, TRUE)
  /\ UNCHANGED <<device_handle, number, blocking_queue, usbVars>>

(* The object says is_claimed(), and its handle is that of the device.     *)
Releasing(th) == At(th, "release") /\ device # None /\ device_handle[call[th].i] = device

(* What libusb_release_interface needs to succeed.                         *)
Releasable(th) == present /\ number[call[th].i] \in held

(* Mutant of AfterRelease: reattach_kernel_driver is ignored.              *)
AfterReleaseNothing(reattach_kernel_driver) == "forget"

AfterRelease(reattach_kernel_driver) == IF reattach_kernel_driver THEN "attach" ELSE "forget"

Release(th) ==
  LET c == call[th] IN
  /\ Releasing(th) /\ Releasable(th)
  /\ held' = held \ {number[c.i]}
  /\ Goto(th, AfterRelease(c.reattach))
  /\ forgone' = IF c.reattach THEN forgone ELSE forgone \cup {number[c.i]}
  /\ UNCHANGED <<objVars, blocking_queue, driver, detached, abandoned>>

(* Any error of libusb, with the device present or without it: the object  *)
(* stays as it is.  But the destructor and operator= drop the error, and   *)
(* the object with its claim.                                              *)
ReleaseFails(th) ==
  LET c == call[th] IN
  /\ Releasing(th)
  /\ Continue(th, FALSE)
  /\ abandoned' = IF c.then = "destroy" \/ (c.then = "take" /\ c.arg # c.i)
                  THEN abandoned \cup {number[c.i]} ELSE abandoned
  /\ UNCHANGED <<device_handle, number, blocking_queue, held, driver, detached, forgone>>

(* libusb_attach_kernel_driver, whose result is not examined.              *)
AttachDriver(th) ==
  LET n == number[call[th].i] IN
  /\ At(th, "attach")
  /\ driver' = IF present /\ n \notin held THEN driver \cup {n} ELSE driver
  /\ Goto(th, "forget")
  /\ UNCHANGED <<objVars, blocking_queue, held, detached, abandoned, forgone>>

(* unclaim ends with detach().                                             *)
Forget(th) ==
  LET i == call[th].i IN
  /\ At(th, "forget")
  /\ device_handle' = [device_handle EXCEPT ![i] = None]
  /\ number' = [number EXCEPT ![i] = None]
  /\ Continue(th, TRUE)
  /\ UNCHANGED <<blocking_queue, usbVars>>

UnclaimStep(th) ==
  NothingToRelease(th) \/ Release(th) \/ ReleaseFails(th) \/ AttachDriver(th) \/ Forget(th)

-----------------------------------------------------------------------------
(* The rest of claim and of operator=, on the client's thread.             *)

(* libusb_detach_kernel_driver, whose result is not examined.              *)
DetachDriver ==
  /\ At("client", "detach_driver")
  /\ \/ present /\ driver' = driver \ {call["client"].arg}
     \/ UNCHANGED driver
  /\ Goto("client", "claim")
  /\ UNCHANGED <<objVars, blocking_queue, held, detached, abandoned, forgone>>

Remember(i, n) ==
  /\ device_handle' = [device_handle EXCEPT ![i] = device]
  /\ number' = [number EXCEPT ![i] = n]

ClaimInterface ==
  LET c == call["client"] IN
  /\ At("client", "claim")
  /\ present /\ (c.arg \in held \/ c.arg \notin driver)
  /\ held' = held \cup {c.arg}
  /\ Remember(c.i, c.arg)
  /\ life' = [life EXCEPT ![c.i] = "alive"]
  /\ detached' = detached \ {c.arg} /\ abandoned' = abandoned \ {c.arg}
  /\ forgone' = forgone \ {c.arg}
  /\ Return("client")
  /\ UNCHANGED <<blocking_queue, driver>>

(* busy (a driver, or another process), no_device, not_found: the driver   *)
(* is not attached again.  A constructor throws.                           *)
ClaimFails ==
  LET c == call["client"] IN
  /\ At("client", "claim")
  /\ c.arg \notin held \/ ~present
  /\ forgone' = IF c.arg \in driver THEN forgone ELSE forgone \cup {c.arg}
  /\ life' = [life EXCEPT ![c.i] = IF @ = "constructing" THEN "unborn" ELSE @]
  /\ Return("client")
  /\ UNCHANGED <<device_handle, number, blocking_queue, held, driver, detached, abandoned>>

(* Mutant of Exchange: the other object is not emptied.                    *)
ExchangeCopy(f, i, other) == [f EXCEPT ![i] = f[other]]

Exchange(f, i, other) == [f EXCEPT ![other] = None, ![i] = f[other]]

Take ==
  LET c == call["client"] IN
  /\ At("client", "take")
  /\ device_handle' = Exchange(device_handle, c.i, c.arg)
  /\ number' = Exchange(number, c.i, c.arg)
  /\ Return("client")
  /\ UNCHANGED <<life, blocking_queue, usbVars>>

-----------------------------------------------------------------------------
(* The blocking thread.                                                    *)

TakeFunction ==
  /\ call["blocking"] = NoCall /\ blocking_queue # << >>
  /\ call' = [call EXCEPT !["blocking"] = Head(blocking_queue)]
  /\ blocking_queue' = Tail(blocking_queue)
  /\ UNCHANGED <<objVars, usbVars>>

(* The handle set_alt_setting, or a function of the device, gives libusb.  *)
HandleOf(c) == IF c.pc = "device" THEN c.arg ELSE device_handle[c.i]

(* One call of libusb, which leaves everything here as it was.             *)
CallOnHandle ==
  /\ call["blocking"].pc \in {"alt", "device"}
  /\ device # None /\ HandleOf(call["blocking"]) = device
  /\ Return("blocking")
  /\ UNCHANGED <<objVars, blocking_queue, usbVars>>

(* libusb is called with a handle it has not made, or has closed:          *)
(* set_alt_setting does not look at is_claimed(), which only asks for null.*)
BadHandle(th) ==
  /\ call[th].pc \in {"release", "alt", "device"}
  /\ LET h == HandleOf(call[th]) IN
       /\ h # device \/ h = None
       /\ At(th, "release") => h # None
       /\ fault' = IF h = Wild THEN "wild_handle" ELSE "bad_handle"
  /\ UNCHANGED <<objVars, call, blocking_queue, devVars, usbVars>>

-----------------------------------------------------------------------------
InterfaceStep ==
  \/ ClientStep
  \/ \E th \in Threads : UnclaimStep(th)
  \/ DetachDriver \/ ClaimInterface \/ ClaimFails \/ Take
  \/ TakeFunction \/ CallOnHandle

DeviceStep == (\E h \in Handles : Open(h)) \/ Close \/ Unplug

FaultyStep == Terminate \/ \E th \in Threads : BadHandle(th)

Terminated == fault # "none" /\ UNCHANGED vars

Next ==
  \/ fault = "none" /\ InterfaceStep /\ UNCHANGED <<devVars, fault>>
  \/ fault = "none" /\ (DeviceStep \/ FaultyStep)
  \/ Terminated

Spec == Init /\ [][Next]_vars

-----------------------------------------------------------------------------
(* Properties.                                                             *)

(* The values the variables take.                                          *)
TypeOK ==
  /\ life \in [Interfaces -> {"unborn", "constructing", "alive"}]
  /\ device_handle \in [Interfaces -> Handles \cup {None, Wild}]
  /\ number \in [Interfaces -> Numbers \cup {None}]
  /\ \A th \in Threads : call[th] = NoCall \/
       /\ call[th].pc \in {"release", "attach", "forget", "detach_driver", "claim", "take", "alt", "device"}
       /\ IF call[th].pc = "device" THEN call[th].arg \in Handles ELSE call[th].i \in Interfaces
       /\ th = "blocking" => call[th].then = "return"
       /\ call[th].then = "claim" => call[th].arg \in Numbers
       /\ call[th].then = "take" => call[th].arg \in Interfaces
  /\ Len(blocking_queue) <= MaxQueued
  /\ device \in Handles \cup {None} /\ closed \subseteq Handles \ {device}
  /\ present \in BOOLEAN
  /\ held \subseteq Numbers /\ driver \subseteq Numbers
  /\ detached \subseteq held /\ abandoned \subseteq Numbers /\ forgone \subseteq Numbers
  /\ fault \in {"none", "wild_handle", "bad_handle", "terminated"}

(* The interface has been released for i, and i is not told yet.           *)
Released(i) == \E th \in Threads : call[th].i = i /\ call[th].pc \in {"attach", "forget"}

(* An object that says is_claimed() has its interface: its handle is that  *)
(* of the device, libusb has claimed the interface for it, and no other    *)
(* object will release it behind the object's back.                        *)
ClaimedIsHeld ==
  \A i \in Interfaces : life[i] = "alive" /\ device_handle[i] \in Handles /\ ~Released(i) =>
    /\ device_handle[i] = device /\ number[i] \in held
    /\ \A j \in Interfaces \ {i} : ~Owns(j, number[i])

(* An interface that libusb has claimed is owned by an object that will    *)
(* release it, unless detach() was called, or libusb refused to release it *)
(* when its object was destroyed or assigned to.  So claim, unclaim and    *)
(* async_unclaim leave the object as it was when libusb refuses, a claim   *)
(* does not take the place of another, and a move takes its claim along.   *)
HeldIsOwned ==
  \A n \in held : n \in detached \cup abandoned \/ \E i \in Interfaces : Owns(i, n)

(* The calls that hold the kernel driver of n away.                        *)
InUse(n) ==
  \/ n \in held
  \/ \E th \in Threads : At(th, "attach") /\ number[call[th].i] = n
  \/ At("client", "claim") /\ call["client"].arg = n

(* The kernel driver is bound again when the interface is not in use any   *)
(* more, unless the client did not want it, libusb_claim_interface failed  *)
(* after the driver was detached, or the device was closed with a claim    *)
(* that no object had.                                                     *)
DriverComesBack ==
  present => \A n \in Numbers \ driver : InUse(n) \/ n \in forgone

(* Once a handle has been stored in an object, or captured, libusb is not  *)
(* called with a null handle or a closed one, in spite of functions that   *)
(* are executed long after the client posted them.                         *)
NoStaleHandle == fault # "bad_handle"

(* libusb is only called with handles it has made.                         *)
NoBadHandle == fault \notin {"bad_handle", "wild_handle"}
=============================================================================
