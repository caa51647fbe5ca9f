---------------------------- MODULE UsbTransfer ----------------------------
(***************************************************************************)
(* basic_usb_transfer: the life of the operations async_read_some,         *)
(* async_write_some and async_control on a set of transfer objects, driven *)
(* by one thread that runs the client's execution context (app) and by the *)
(* thread of usb_service that runs completion_callback (evt).              *)
(*                                                                         *)
(* The two threads share completion_context::handler, an unsynchronised    *)
(* unique_ptr.  Replacing what it holds is two steps: reading the old      *)
(* pointer, and storing the new one and deleting the old object.  What the *)
(* language leaves undefined (a call through a null handler, a second      *)
(* delete, a use of freed memory) is recorded in fault and ends the        *)
(* behaviour.                                                              *)
(***************************************************************************)
EXTENDS Integers, Sequences, Functions

CONSTANTS
  Transfers,      \* transfer objects
  Ops,            \* calls of async_read_some / async_write_some / async_control
  TransferOf,     \* the transfer object an operation is called on
  None,           \* null pointer
  Client,         \* when the client touches a transfer again, see MayUse
  Timeout,        \* the constructor's timeout argument, in milliseconds
  UintModulus     \* 2^w, w the width of unsigned

ASSUME ConstantsAssumption ==
  /\ TransferOf \in [Ops -> Transfers]
  /\ None \notin Ops /\ None \notin Transfers
  /\ Client \in {"quiescent", "sequential"}
  /\ Timeout \in [Transfers -> Int]
  /\ UintModulus \in Nat \ {0}

VARIABLES
  life,       \* of the object: libusb_transfer and completion_context
  buffer,     \* handle()->buffer: the operation whose buffer it is
  handler,    \* completion_context::handler.impl_: whose handler it holds
  storage,    \* completion_context::result_storage: whose packet results
  lib,        \* libusb's view of the transfer
  wire,       \* the operation whose buffer libusb was given
  freed,      \* operations whose handler_impl has been deleted
  called,     \* operations the client has called
  initiated,  \* operations whose initiation has run
  queue,      \* handlers posted to the completion executor, oldest first
  result,     \* the error code bound to an operation's posted handler
  invoked,    \* operations whose handler has been invoked
  last,       \* transfer of the last device completion handled by the client
  app,        \* what the thread that runs the execution context executes
  evt,        \* what usb_event_thread_ executes
  running,    \* io_context::run() has not returned
  fault       \* the first undefined behaviour, if any

objVars == <<life, buffer, handler, storage, lib, wire>>
opVars == <<called, initiated, queue, result, invoked>>
vars == <<objVars, opVars, freed, last, app, evt, running, fault>>

Status == {"completed", "cancelled", "failed"}   \* libusb_transfer_status
AppIdle == [pc |-> "idle", op |-> None, old |-> None]
EvtIdle == [pc |-> "idle", t |-> None, status |-> None, old |-> None]

Init ==
  /\ life = [t \in Transfers |-> "unborn"]
  /\ buffer = [t \in Transfers |-> None]
  /\ handler = [t \in Transfers |-> None]
  /\ storage = [t \in Transfers |-> None]
  /\ lib = [t \in Transfers |-> "idle"]
  /\ wire = [t \in Transfers |-> None]
  /\ freed = {} /\ called = {} /\ initiated = {} /\ invoked = {}
  /\ queue = << >>
  /\ result = [o \in Ops |-> None]
  /\ last = None
  /\ app = AppIdle
  /\ evt = EvtIdle
  /\ running = TRUE
  /\ fault = "none"

(* delete of the handler_impl of o, by unique_ptr.                         *)
Delete(o) ==
  /\ fault' = IF o \in freed THEN "double_delete" ELSE fault
  /\ freed' = freed \cup ({o} \ {None})

(* completion_handler_t::operator(): handler_impl moves the handler out    *)
(* and posts it with its arguments to the completion executor.             *)
PostHandler(t, ec) ==
  /\ queue' = Append(queue, handler[t])
  /\ result' = [result EXCEPT ![handler[t]] = ec]

-----------------------------------------------------------------------------
(* The client, between two steps of the library on its thread.             *)

InClient == app = AppIdle /\ running

Outstanding(t) == {o \in called \ invoked : TransferOf[o] = t}

(* When the client uses t again, for another operation or to destroy it:   *)
(*   sequential: when the handler of its last operation has been invoked;  *)
(*   quiescent:  when, in addition, the handler of a later completion of   *)
(*               another transfer has been invoked (double buffering).     *)
(* No client calls an operation on a transfer while another is unfinished. *)
MayUse(t) ==
  /\ life[t] = "alive"
  /\ Outstanding(t) = {}
  /\ t # last \/ Client # "quiescent"

(* A constructor: libusb_alloc_transfer and the completion context.  If    *)
(* the allocation fails bad_alloc is thrown and there is no object.        *)
Construct(t) ==
  /\ InClient
  /\ life[t] = "unborn"
  /\ life' = [life EXCEPT ![t] = "alive"]
  /\ UNCHANGED <<buffer, handler, storage, lib, wire, opVars, freed, last, app, evt, running, fault>>

(* Mutant of Call: the handle keeps the buffer of the operation before.    *)
CallKeepingBuffer(o) ==
  /\ InClient
  /\ o \notin called
  /\ MayUse(TransferOf[o])
  /\ called' = called \cup {o}
  /\ UNCHANGED <<objVars, initiated, queue, result, invoked, freed, last, app, evt, running, fault>>

(* async_read_some, async_write_some and async_control before they enter   *)
(* async_submit_impl.  The handle is given the buffer by the call; the     *)
(* initiation follows at once or, with a token such as use_awaitable, when *)
(* the client awaits the result.  Only which buffer it is is modelled, not *)
(* the pointer and length async_control gives, nor the setup packet.       *)
Call(o) ==
  LET t == TransferOf[o] IN
  /\ InClient
  /\ o \notin called
  /\ MayUse(t)
  /\ called' = called \cup {o}
  /\ buffer' = [buffer EXCEPT ![t] = o]
  /\ UNCHANGED <<life, handler, storage, lib, wire, initiated, queue, result, invoked,
                 freed, last, app, evt, running, fault>>

(* ~basic_usb_transfer: the completion context is deleted with the handler *)
(* it holds, then libusb_free_transfer is called.                          *)
Destroy(t) ==
  /\ InClient
  /\ MayUse(t)
  /\ life' = [life EXCEPT ![t] = "dead"]
  /\ Delete(handler[t])
  /\ UNCHANGED <<buffer, handler, storage, lib, wire, opVars, last, app, evt, running>>

(* cancel: libusb answers not_found, and changes nothing, unless the       *)
(* transfer is in flight and not being cancelled yet.                      *)
Cancel(t) ==
  /\ InClient
  /\ life[t] = "alive" /\ lib[t] = "inflight"
  /\ lib' = [lib EXCEPT ![t] = "cancelling"]
  /\ UNCHANGED <<life, buffer, handler, storage, wire, opVars, freed, last, app, evt, running, fault>>

-----------------------------------------------------------------------------
(* The initiation of async_submit_impl, on the same thread.                *)

(* The handler is wrapped in a handler_impl, and the assignment to         *)
(* context->handler reads the pointer it is going to replace ...           *)
Initiate(o) ==
  /\ InClient
  /\ o \in called \ initiated
  /\ initiated' = initiated \cup {o}
  /\ app' = [pc |-> "assign", op |-> o, old |-> handler[TransferOf[o]]]
  /\ UNCHANGED <<objVars, called, queue, result, invoked, freed, last, evt, running, fault>>

(* ... replaces it, and deletes the old object.                            *)
AssignHandler ==
  /\ app.pc = "assign"
  /\ handler' = [handler EXCEPT ![TransferOf[app.op]] = app.op]
  /\ Delete(app.old)
  /\ app' = [app EXCEPT !.pc = "submit", !.old = None]
  /\ UNCHANGED <<life, buffer, storage, lib, wire, opVars, last, evt, running>>

(* Mutant of Submit: the result of libusb_submit_transfer is not examined, *)
(* and the handler is posted at once.                                      *)
SubmitUnexamined ==
  LET t == TransferOf[app.op] IN
  /\ app.pc = "submit"
  /\ lib[t] = "idle"
  /\ lib' = [lib EXCEPT ![t] = "inflight"]
  /\ wire' = [wire EXCEPT ![t] = buffer[t]]
  /\ app' = [app EXCEPT !.pc = "post"]
  /\ UNCHANGED <<life, buffer, handler, storage, opVars, freed, last, evt, running, fault>>

Submit ==
  LET t == TransferOf[app.op] IN
  /\ app.pc = "submit"
  /\ lib[t] = "idle"
  /\ lib' = [lib EXCEPT ![t] = "inflight"]
  /\ wire' = [wire EXCEPT ![t] = buffer[t]]
  /\ app' = AppIdle
  /\ UNCHANGED <<life, buffer, handler, storage, opVars, freed, last, evt, running, fault>>

(* libusb_submit_transfer fails: no_device, no_mem, io, ...                *)
SubmitFails ==
  /\ app.pc = "submit"
  /\ app' = [app EXCEPT !.pc = "post"]
  /\ UNCHANGED <<objVars, opVars, freed, last, evt, running, fault>>

(* Mutant of PostError: the handler is not reset after it was posted.      *)
PostErrorOnly ==
  LET t == TransferOf[app.op] IN
  /\ app.pc = "post"
  /\ handler[t] # None
  /\ PostHandler(t, "rejected")
  /\ app' = AppIdle
  /\ UNCHANGED <<objVars, called, initiated, invoked, freed, last, evt, running, fault>>

(* context->handler(ec, result_type{}) after an error in submission.       *)
PostError ==
  LET t == TransferOf[app.op] IN
  /\ app.pc = "post"
  /\ handler[t] # None
  /\ PostHandler(t, "rejected")
  /\ app' = [app EXCEPT !.pc = "reset"]
  /\ UNCHANGED <<objVars, called, initiated, invoked, freed, last, evt, running, fault>>

(* context->handler.reset(), in two steps as every replacement.            *)
ErrorReset ==
  /\ app.pc = "reset"
  /\ app' = [app EXCEPT !.pc = "delete", !.old = handler[TransferOf[app.op]]]
  /\ UNCHANGED <<objVars, opVars, freed, last, evt, running, fault>>

ErrorDelete ==
  /\ app.pc = "delete"
  /\ handler' = [handler EXCEPT ![TransferOf[app.op]] = None]
  /\ Delete(app.old)
  /\ app' = AppIdle
  /\ UNCHANGED <<life, buffer, storage, lib, wire, opVars, last, evt, running>>

-----------------------------------------------------------------------------
(* The execution context.                                                  *)

(* The oldest posted handler is invoked.  Callbacks run one after the      *)
(* other: the handler of a device completion tells the client that the     *)
(* callbacks of all earlier completions have returned, but not its own.    *)
RunHandler ==
  /\ InClient
  /\ queue # << >>
  /\ invoked' = invoked \cup {Head(queue)}
  /\ queue' = Tail(queue)
  /\ last' = IF result[Head(queue)] = "rejected" THEN last ELSE TransferOf[Head(queue)]
  /\ UNCHANGED <<objVars, called, initiated, result, freed, app, evt, running, fault>>

(* Mutant of OutstandingWork: the executors are not tracked.               *)
OutstandingWorkUntracked == {}

(* Mutant of OutstandingWork: the work ends when the handler is posted.    *)
OutstandingWorkUntilPosted == initiated \ (Range(queue) \cup invoked)

(* A handler_impl holds tracked executors: it is outstanding work from its *)
(* construction to its deletion.                                           *)
OutstandingWork == initiated \ freed

RunReturns ==
  /\ InClient
  /\ queue = << >> /\ OutstandingWork = {}
  /\ running' = FALSE
  /\ UNCHANGED <<objVars, opVars, freed, last, app, evt, fault>>

-----------------------------------------------------------------------------
(* libusb and completion_callback, on usb_event_thread_.                   *)

(* libusb reaps a transfer in flight (the device answered, its timeout     *)
(* expired, it was cancelled, the device is gone): it is no longer in      *)
(* flight when the callback is entered.                                    *)
Reap(t) ==
  /\ evt = EvtIdle
  /\ lib[t] \in {"inflight", "cancelling"}
  /\ life[t] = "alive"
  /\ lib' = [lib EXCEPT ![t] = "idle"]
  /\ \E s \in Status :
       /\ s = "cancelled" => lib[t] = "cancelling"
       /\ evt' = [pc |-> "post", t |-> t, status |-> s, old |-> None]
  /\ UNCHANGED <<life, buffer, handler, storage, wire, opVars, freed, last, app, running, fault>>

InCallback(pc) == evt.pc = pc /\ life[evt.t] = "alive"

(* Mutant of CallbackPost: a cancelled transfer has nobody to tell.        *)
CallbackPostUnlessCancelled ==
  /\ InCallback("post")
  /\ handler[evt.t] # None
  /\ storage' = [storage EXCEPT ![evt.t] = wire[evt.t]]
  /\ IF evt.status = "cancelled" THEN UNCHANGED <<queue, result>>
                                 ELSE PostHandler(evt.t, evt.status)
  /\ evt' = [evt EXCEPT !.pc = "reset"]
  /\ UNCHANGED <<life, buffer, handler, lib, wire, called, initiated, invoked,
                 freed, last, app, running, fault>>

(* The packet results are copied to result_storage, and                    *)
(* context.handler(ec, result) posts the handler.                          *)
CallbackPost ==
  /\ InCallback("post")
  /\ handler[evt.t] # None
  /\ storage' = [storage EXCEPT ![evt.t] = wire[evt.t]]
  /\ PostHandler(evt.t, evt.status)
  /\ evt' = [evt EXCEPT !.pc = "reset"]
  /\ UNCHANGED <<life, buffer, handler, lib, wire, called, initiated, invoked,
                 freed, last, app, running, fault>>

(* context.handler.reset()                                                 *)
CallbackReset ==
  /\ InCallback("reset")
  /\ evt' = [evt EXCEPT !.pc = "delete", !.old = handler[evt.t]]
  /\ UNCHANGED <<objVars, opVars, freed, last, app, running, fault>>

(* Mutant of CallbackDelete: the object is deleted, the pointer is kept.   *)
CallbackDeleteDangling ==
  /\ InCallback("delete")
  /\ Delete(evt.old)
  /\ evt' = EvtIdle
  /\ UNCHANGED <<objVars, opVars, last, app, running>>

CallbackDelete ==
  /\ InCallback("delete")
  /\ handler' = [handler EXCEPT ![evt.t] = None]
  /\ Delete(evt.old)
  /\ evt' = EvtIdle
  /\ UNCHANGED <<life, buffer, storage, lib, wire, opVars, last, app, running>>

-----------------------------------------------------------------------------
(* What the language leaves undefined, other than a second delete.         *)

Crash(f) ==
  /\ fault' = f
  /\ UNCHANGED <<objVars, opVars, freed, last, app, evt, running>>

(* A call through a null impl_, in the callback or after a rejection.      *)
NullHandler ==
  /\ \/ InCallback("post") /\ handler[evt.t] = None
     \/ app.pc = "post" /\ handler[TransferOf[app.op]] = None
  /\ Crash("null_handler")

(* completion_callback on the completion context of a destroyed transfer.  *)
FreedContext ==
  /\ evt # EvtIdle /\ life[evt.t] = "dead"
  /\ Crash("freed_context")

-----------------------------------------------------------------------------
ClientStep ==
  \/ \E t \in Transfers : Construct(t) \/ Destroy(t) \/ Cancel(t)
  \/ \E o \in Ops : Call(o) \/ Initiate(o)

InitiationStep ==
  \/ AssignHandler \/ Submit \/ SubmitFails
  \/ PostError \/ ErrorReset \/ ErrorDelete

CallbackStep == CallbackPost \/ CallbackReset \/ CallbackDelete

Step ==
  \/ ClientStep
  \/ InitiationStep
  \/ RunHandler \/ RunReturns
  \/ \E t \in Transfers : Reap(t)
  \/ CallbackStep
  \/ NullHandler \/ FreedContext

(* The execution context has run out of work, or nothing is defined.       *)
Terminated == (~running \/ fault # "none") /\ UNCHANGED vars

Next == (fault = "none" /\ Step) \/ Terminated

Safety == Init /\ [][Next]_vars

-----------------------------------------------------------------------------
(* Fairness: both threads are scheduled.  libusb reaps a transfer that is  *)
(* being cancelled or has a timeout; a transfer without one may be in      *)
(* flight for ever.  The client owes nothing, except that it goes on       *)
(* running the execution context.                                          *)
usb_no_timeout == 0
(* Mutant of HandleTimeout: libusb is given seconds for milliseconds.      *)
HandleTimeoutInSeconds(t) == (Timeout[t] \div 1000) % UintModulus

HandleTimeout(t) == Timeout[t] % UintModulus   \* static_cast<unsigned>
Timed(t) == HandleTimeout(t) # usb_no_timeout

MustReap(t) == fault = "none" /\ Reap(t) /\ (Timed(t) \/ lib[t] = "cancelling")

Spec ==
  /\ Safety
  /\ WF_vars(fault = "none" /\ InitiationStep)
  /\ WF_vars(fault = "none" /\ RunHandler)
  /\ WF_vars(fault = "none" /\ RunReturns)
  /\ WF_vars(fault = "none" /\ CallbackStep)
  /\ \A t \in Transfers : WF_vars(MustReap(t))

-----------------------------------------------------------------------------
(* Properties.                                                             *)

(* The values the variables take.                                          *)
TypeOK ==
  /\ life \in [Transfers -> {"unborn", "alive", "dead"}]
  /\ buffer \in [Transfers -> Ops \cup {None}]
  /\ handler \in [Transfers -> Ops \cup {None}]
  /\ storage \in [Transfers -> Ops \cup {None}]
  /\ lib \in [Transfers -> {"idle", "inflight", "cancelling"}]
  /\ wire \in [Transfers -> Ops \cup {None}]
  /\ freed \subseteq Ops /\ called \subseteq Ops
  /\ initiated \subseteq Ops /\ invoked \subseteq Ops
  /\ queue \in Seq(Ops)
  /\ result \in [Ops -> Status \cup {"rejected", None}]
  /\ last \in Transfers \cup {None}
  /\ app \in [pc : {"assign", "submit", "post", "reset", "delete"}, op : Ops, old : Ops \cup {None}]
             \cup {AppIdle}
  /\ evt \in [pc : {"post", "reset", "delete"}, t : Transfers, status : Status, old : Ops \cup {None}]
             \cup {EvtIdle}
  /\ running \in BOOLEAN
  /\ fault \in {"none", "null_handler", "double_delete", "freed_context"}

(* The callback never calls through a null handler, deletes a handler      *)
(* twice or touches the context of a destroyed transfer.                   *)
NoUndefinedBehaviour == fault = "none"

(* completion_context::handler is never in use by async_submit_impl and    *)
(* completion_callback at the same time: it needs no lock.                 *)
HandlerNotShared ==
  app # AppIdle /\ evt # EvtIdle => TransferOf[app.op] # evt.t

(* No handler is destroyed before it has been posted: every operation's    *)
(* coroutine, future or callback is resumed.                               *)
NoHandlerLost == freed \subseteq Range(queue) \cup invoked

(* No operation drops out of everybody's hands: until its handler is       *)
(* posted it is the initiation's, libusb's or the callback's, whatever was *)
(* rejected or cancelled, and whichever client.  (One without a timeout    *)
(* may be libusb's for ever, so no liveness property says this.)           *)
NotForgotten ==
  \A o \in initiated \ (Range(queue) \cup invoked) :
    \/ app.pc \in {"assign", "submit", "post"} /\ app.op = o
    \/ lib[TransferOf[o]] # "idle"
    \/ evt.pc = "post" /\ evt.t = TransferOf[o]

(* When a posted handler is invoked with the span over result_storage, the *)
(* storage exists and still describes that operation's own transfer.       *)
OwnResults ==
  \A o \in Range(queue) : result[o] # "rejected" =>
    life[TransferOf[o]] = "alive" /\ storage[TransferOf[o]] = o

(* run() does not return while an operation is unfinished, though nothing  *)
(* of it is in the execution context while libusb has it.                  *)
RunsWhileOutstanding == ~running => initiated = invoked

(* Each operation completes at most once, and handlers are invoked in the  *)
(* order they were posted.                                                 *)
Abs == INSTANCE AsyncOperation WITH
  pending <- initiated \ (Range(queue) \cup invoked),
  outbox <- queue

AtMostOnce == Abs!AbsSafety
ImplementsAsyncOperation == Abs!AbsSpec

(* An operation on a transfer that was constructed with a timeout unsigned *)
(* can hold has its handler invoked.                                       *)
TimedOpsComplete ==
  \A o \in {p \in Ops : Timeout[TransferOf[p]] \in 1 .. UintModulus - 1} :
    o \in initiated ~> o \in invoked

(* An operation that was cancelled while in flight has its handler         *)
(* invoked, timeout or not.                                                *)
CancelledOpsComplete ==
  \A o \in Ops : lib[TransferOf[o]] = "cancelling" /\ wire[TransferOf[o]] = o ~> o \in invoked

(* Once its handler has been invoked an operation ceases to hold the       *)
(* execution context: run() can return.                                    *)
WorkReleased == \A o \in Ops : o \in invoked ~> o \in freed
=============================================================================
