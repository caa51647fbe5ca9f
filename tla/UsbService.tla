----------------------------- MODULE UsbService -----------------------------
(***************************************************************************)
(* The event thread of usb_service, the devices whose opening and closing  *)
(* it is told of, and the shutdown and destruction of the service.         *)
(*                                                                         *)
(* Every device object is used by a thread of its own.  The mutex is       *)
(* modelled by who holds it between two steps; a critical section nobody   *)
(* can look into is one step.                                              *)
(***************************************************************************)
EXTENDS Integers, FiniteSets

CONSTANTS
  Devices,         \* basic_usb_device objects
  MaxLost          \* bound on the devices destroyed or assigned to while open

ASSUME ServiceAssumption ==
  /\ IsFiniteSet(Devices)
  /\ MaxLost \in Nat

VARIABLES
  open_devices,    \* open_devices_
  lost,            \* how often a device has gone without close()
  stop_requested,  \* the stop state of usb_event_thread_
  loop,            \* what run_usb_event_thread executes
  dev,             \* what each device's client executes, or its state
  owner            \* the owner of the service: the execution context

vars == <<open_devices, lost, stop_requested, loop, dev, owner>>

Init ==
  /\ open_devices = 0 /\ lost = 0
  /\ stop_requested = FALSE
  /\ loop = "lock"
  /\ dev = [d \in Devices |-> "closed"]
  /\ owner = "using"

(* usb_event_loop_mutex_ is held by the event thread while it evaluates    *)
(* the predicate and until it blocks.                                      *)
MutexFree == loop \notin {"test", "block"}

-----------------------------------------------------------------------------
(* run_usb_event_thread                                                    *)

Goto(from, to) ==
  /\ loop = from
  /\ loop' = to
  /\ UNCHANGED <<open_devices, lost, stop_requested, dev, owner>>

LockMutex == Goto("lock", "test")

(* Mutant of Predicate: the wait is for devices only.                      *)
PredicateWithoutStop == open_devices > 0

(* The predicate of usb_event_loop_cv_.wait: if it holds the wait is over  *)
(* and the mutex is released; if not the thread goes on to block.          *)
Predicate == open_devices > 0 \/ stop_requested

WaitOver == Predicate /\ Goto("test", "check")
WaitGoesOn == ~Predicate /\ Goto("test", "block")

(* The mutex is released and the thread waits in one step; it may wake up  *)
(* without having been notified.                                           *)
Block == Goto("block", "waiting")
SpuriousWakeup == Goto("waiting", "lock")

Break == stop_requested /\ Goto("check", "done")

(* libusb_handle_events does not take the event lock while libusb_close    *)
(* wants it, and returns after an event, an interruption by libusb_close,  *)
(* or 60 seconds.                                                          *)
HandleEvents ==
  /\ ~stop_requested
  /\ \A d \in Devices : dev[d] # "closing"
  /\ Goto("check", "handling")

HandleEventsReturns == Goto("handling", "lock")

LoopStep ==
  \/ LockMutex \/ WaitOver \/ WaitGoesOn \/ Block
  \/ Break \/ HandleEvents \/ HandleEventsReturns

(* usb_event_loop_cv_.notify_one(): nothing if the thread is not waiting.  *)
NotifyOne == loop' = IF loop = "waiting" THEN "lock" ELSE loop

-----------------------------------------------------------------------------
(* basic_usb_device                                                        *)

DevGoto(d, from, to) ==
  /\ dev[d] = from
  /\ dev' = [dev EXCEPT ![d] = to]

(* open() of a closed device, libusb_open succeeding; open() of an open    *)
(* one is Close and CloseHandle before it.  A failure leaves it closed.    *)
Open(d) ==
  /\ owner = "using"
  /\ DevGoto(d, "closed", "opened")
  /\ UNCHANGED <<open_devices, lost, stop_requested, loop, owner>>

(* Mutant of NotifyDevOpened: the count is incremented without the mutex.  *)
NotifyDevOpenedUnlocked(d) ==
  /\ open_devices' = open_devices + 1
  /\ DevGoto(d, "opened", IF open_devices = 0 THEN "notifying" ELSE "open")
  /\ UNCHANGED <<lost, stop_requested, loop, owner>>

(* Mutant of NotifyDevOpened: a flag and not a count.                      *)
NotifyDevOpenedFlag(d) ==
  /\ MutexFree
  /\ open_devices' = 1
  /\ DevGoto(d, "opened", IF open_devices = 0 THEN "notifying" ELSE "open")
  /\ UNCHANGED <<lost, stop_requested, loop, owner>>

(* notify_dev_opened(): the count is incremented under the mutex, the      *)
(* notification is sent after it has been released.                        *)
NotifyDevOpened(d) ==
  /\ MutexFree
  /\ open_devices' = open_devices + 1
  /\ DevGoto(d, "opened", IF open_devices = 0 THEN "notifying" ELSE "open")
  /\ UNCHANGED <<lost, stop_requested, loop, owner>>

NotifyEventLoop(d) ==
  /\ DevGoto(d, "notifying", "open")
  /\ NotifyOne
  /\ UNCHANGED <<open_devices, lost, stop_requested, owner>>

(* Mutant of Close: the service is told a second time by libusb_close.     *)
CloseCountedTwice(d) ==
  /\ owner \in {"using", "shut_down"}
  /\ DevGoto(d, "open", "closing")
  /\ open_devices' = open_devices - 2
  /\ UNCHANGED <<lost, stop_requested, loop, owner>>

(* Mutant of Close: the service is not told.                               *)
CloseSilently(d) ==
  /\ owner \in {"using", "shut_down"}
  /\ DevGoto(d, "open", "closing")
  /\ UNCHANGED <<open_devices, lost, stop_requested, loop, owner>>

(* Mutant of Close: handle_ is not reset, and libusb_close not called.     *)
CloseKeepingHandle(d) ==
  /\ owner \in {"using", "shut_down"}
  /\ DevGoto(d, "open", "closed")
  /\ open_devices' = open_devices - 1
  /\ UNCHANGED <<lost, stop_requested, loop, owner>>

(* close(): notify_dev_closed, without the mutex, and then libusb_close.   *)
Close(d) ==
  /\ owner \in {"using", "shut_down"}
  /\ DevGoto(d, "open", "closing")
  /\ open_devices' = open_devices - 1
  /\ UNCHANGED <<lost, stop_requested, loop, owner>>

(* An open device is destroyed, or another one is moved into it: handle_   *)
(* is closed, but the service is not told.                                 *)
DropHandle(d) ==
  /\ owner \in {"using", "shut_down"}
  /\ lost < MaxLost
  /\ DevGoto(d, "open", "closing")
  /\ lost' = lost + 1
  /\ UNCHANGED <<open_devices, stop_requested, loop, owner>>

(* libusb_close interrupts libusb_handle_events, waits for its lock and    *)
(* closes the handle.                                                      *)
CloseHandle(d) ==
  /\ loop # "handling"
  /\ DevGoto(d, "closing", "closed")
  /\ UNCHANGED <<open_devices, lost, stop_requested, loop, owner>>

DeviceStep(d) == NotifyDevOpened(d) \/ NotifyEventLoop(d) \/ CloseHandle(d)

-----------------------------------------------------------------------------
(* The execution context is destroyed, when no thread is in a call of the  *)
(* library: shutdown() of its services first (which may destroy coroutines *)
(* and the devices they own), then their destructors.                      *)
OwnerGoto(from, to) ==
  /\ owner = from
  /\ owner' = to

RequestStop ==
  /\ \A d \in Devices : dev[d] \in {"closed", "open"}
  /\ OwnerGoto("using", "notifying")
  /\ stop_requested' = TRUE
  /\ UNCHANGED <<open_devices, lost, loop, dev>>

ShutdownNotify ==
  /\ OwnerGoto("notifying", "shut_down")
  /\ NotifyOne
  /\ UNCHANGED <<open_devices, lost, stop_requested, dev>>

(* ~usb_service, on the thread that destroyed what shutdown() of the other  *)
(* services had to destroy: usb_event_thread_ is joined, and handle_,      *)
(* declared first, is the last member to go: libusb_exit.  A device that   *)
(* is still open is not looked for; the model ends before it is closed.    *)
Join ==
  /\ \A d \in Devices : dev[d] \in {"closed", "open"}
  /\ loop = "done"
  /\ OwnerGoto("shut_down", "joined")
  /\ UNCHANGED <<open_devices, lost, stop_requested, loop, dev>>

LibusbExit ==
  /\ OwnerGoto("joined", "exited")
  /\ UNCHANGED <<open_devices, lost, stop_requested, loop, dev>>

OwnerStep == ShutdownNotify \/ Join \/ LibusbExit

Terminated == owner = "exited" /\ UNCHANGED vars

Next ==
  \/ LoopStep \/ SpuriousWakeup
  \/ \E d \in Devices : Open(d) \/ Close(d) \/ DropHandle(d) \/ DeviceStep(d)
  \/ RequestStop \/ OwnerStep
  \/ Terminated

Safety == Init /\ [][Next]_vars

(* Threads are scheduled and libusb_handle_events returns.  Nobody has to  *)
(* open or close a device or to end the program.                           *)
Spec ==
  /\ Safety
  /\ WF_vars(LoopStep)
  /\ \A d \in Devices : WF_vars(DeviceStep(d))
  /\ WF_vars(OwnerStep)

-----------------------------------------------------------------------------
(* Properties.                                                             *)

(* The values the variables take; open_devices_ does not wrap below zero.  *)
TypeOK ==
  /\ open_devices \in Nat
  /\ lost \in 0 .. MaxLost
  /\ stop_requested \in BOOLEAN
  /\ loop \in {"lock", "test", "block", "waiting", "check", "handling", "done"}
  /\ dev \in [Devices -> {"closed", "opened", "notifying", "open", "closing"}]
  /\ owner \in {"using", "notifying", "shut_down", "joined", "exited"}

Counted == {d \in Devices : dev[d] \in {"notifying", "open"}}

(* The count is that of the devices whose open() has counted them and      *)
(* whose close() has not been called, and of every device ever destroyed   *)
(* or assigned to while open: the decrements of notify_dev_closed, which   *)
(* do not take the mutex, match the increments.                            *)
CounterMatchesDevices == open_devices = Cardinality(Counted) + lost

(* The event thread does not sleep on while devices are open: if it waits, *)
(* the open() that made the count positive has its notification to send.   *)
WakeupPending ==
  /\ loop = "block" => open_devices = 0
  /\ loop = "waiting" /\ open_devices > 0 => \E d \in Devices : dev[d] = "notifying"

(* Events are handled again and again while a device is open, so that the  *)
(* transfers on it make progress, unless devices are closed without end:   *)
(* libusb_close keeps the event thread out.                                *)
ServedWhileOpen ==
  \A d \in Devices :
    dev[d] = "open" ~> \/ loop = "handling" \/ dev[d] # "open" \/ owner # "using"
                       \/ \E e \in Devices : dev[e] = "closing"

(* When all devices have been closed the event thread goes to sleep, and   *)
(* does not keep on polling in libusb_handle_events, unless a device has   *)
(* ever been destroyed or assigned to while it was open.                   *)
ParksWhenIdle ==
  (\A d \in Devices : dev[d] = "closed")
    ~> loop = "waiting" \/ lost > 0 \/ (\E d \in Devices : dev[d] # "closed") \/ owner # "using"

(* shutdown() stops the event thread, except when it had evaluated its     *)
(* predicate and not yet started to wait.                                  *)
StopsUnlessLost ==
  owner = "shut_down" /\ loop \notin {"block", "waiting"} ~> loop = "done"

(* The destruction of the execution context returns.                       *)
DestructionReturns == owner = "shut_down" ~> owner = "exited"
=============================================================================
