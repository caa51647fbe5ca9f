# usb-asio in TLA+

Models, model checking and proofs of the header-only library in `include/usb_asio`:
libusb behind Asio's asynchronous interface. Line numbers are those of the headers.

## The system

| part | state | operations | talks to |
|---|---|---|---|
| `usb_service` (`usb_service.hpp`) | `open_devices_`, mutex, condition variable, stop state, two threads, `blocking_op_ioc_` and the executor that keeps it alive | constructor, `notify_dev_opened/closed`, `shutdown`, destructor, the loop of `run_usb_event_thread` | libusb events; owned by the execution context |
| `basic_usb_transfer` (`usb_transfer.hpp`) | `libusb_transfer` (buffer, length), completion context (handler, packet results) | constructors, `async_read_some`, `async_write_some`, `async_control`, `cancel`, `completion_callback`, destructor | libusb; posts handlers to the completion executor |
| blocking operations (`error.hpp` 162-247) | functions posted to `blocking_op_ioc_` | `async_try_blocking_with_ec` | `blocking_op_thread_` of the service, then the completion executor |
| `basic_usb_device` (`usb_device.hpp`) | `handle_` | `open`, `close`, move, the blocking operations, streams | tells the service of opening and closing |
| `basic_usb_interface` (`usb_interface.hpp`) | `device_handle_`, `number_` | constructors, `claim`, `unclaim`, `set_alt_setting`, their asynchronous forms, `detach`, move assignment, destructor | libusb's claims, the kernel's drivers, the blocking thread |
| `list_usb_devices`, `usb_device_info`, `libusb_ref_ptr` | pointers, with libusb's counts of references behind them | list, copy, move, assign, destroy, `parent`, `port_numbers`, descriptors | libusb, whose own thread plugs devices in and out |
| `usb_dma_resource`, `usb_control_transfer_buffer` | `allocated_dma_chunks_`, `backup_resource_`; a vector in such memory | `do_allocate`, `do_deallocate`; construct | libusb's memory and another resource |
| `flags.hpp`, `asio.hpp`, errors' texts | none | | |

Three threads meet: the one that runs the client's execution context, `usb_event_thread_`
(libusb's callbacks run there) and `blocking_op_thread_`. They share

* the completion context of a transfer, without a lock: `async_submit_impl` assigns
  `context->handler`, `completion_callback` calls and resets it;
* the service's device count and condition variable, with a mutex that `notify_dev_closed`
  and `shutdown` do not take;
* interface objects, which functions on the blocking thread captured by `this`, and device handles, which they captured
  by value.

Where `usb_device_info` objects are used on several threads they meet in libusb's atomic counts.

What makes each part correct:

* transfers: each operation's handler is posted exactly once, with its own results; nobody uses
  a handler or a completion context another thread may replace or free; `run()` stays as long as libusb has a transfer;
* service: open devices are served, without devices the thread sleeps, and the destructor
  returns;
* blocking operations: carried out in order, none lost, also by a service being destroyed;
* interfaces: an object that says it is claimed has its interface, a claim keeps its owner until it is released,
  and the kernel's driver comes back; no handle that was closed reaches libusb;
* device objects: libusb's counts are those of the owners, so that nothing is freed while it is in use or kept for ever;
* memory: every block goes back to the allocator it came from, and control buffers are large enough;
* all together: a callback finds its transfer, an operation on an open device is served, `close()` returns.

The list of what is hard to test, line by line, is `hazards` in `PROJECT.json`.

## The modules

| module | what it is |
|---|---|
| `AsyncOperation` | abstract: an operation is initiated, completed by posting its handler, invoked; once each, in the order posted |
| `UsbTransfer` | transfer objects, the client's thread and the event thread |
| `UsbService` | event thread, condition variable, devices, shutdown and destruction |
| `BlockingOps` | `async_try_blocking_with_ec` and the blocking thread from construction to destruction |
| `UsbInterface` | interface objects and the device's handles, on the client's and the blocking thread |
| `UsbDeviceInfo` | `usb_device_info` objects and the lists of devices, on several threads, and libusb's counts |
| `UsbBuffers` | `usb_dma_resource` and control transfer buffers |
| `UsbSystem` | `UsbService` and `UsbTransfer` composed: service, devices and transfers in one program |
| `MC...` | instances of the above for TLC; the values are in the `.cfg` files |
| `SequenceLemmas` | facts about queues, proved once |
| `...Proofs` | theorems about the module of that name |

`UsbTransfer` and `BlockingOps` implement `AsyncOperation`, each with `Abs == INSTANCE
AsyncOperation WITH ...`: pending is what was initiated and not yet posted, the outbox is the
queue of the completion executor.

Definitions that begin `Xyz...` after a comment "Mutant of Xyz" are wrong on purpose: no
specification uses them. Each is a plausible mistake in the code that a property notices
(`mutants` in `PROJECT.json`).

### UsbTransfer

An operation is a call of `async_read_some`, `async_write_some` or `async_control`, identified by a
model value; so are buffers, handlers and results, by the operation they belong to. `Call` gives the handle its buffer;
`Initiate` is the later point at which Asio runs the initiation (with `use_awaitable`, when the
client awaits). Resetting or assigning the `unique_ptr` in `completion_handler_t` is two steps,
read the old pointer (`Initiate`, `ErrorReset`, `CallbackReset`), store and delete (`AssignHandler`,
`ErrorDelete`, `CallbackDelete`), since another thread may come in between. libusb is external: a
submitted transfer is in flight until `Reap` takes it out and enters the callback, with any status;
it may always refuse a submission (`SubmitFails`). Calling a null handler, deleting one twice and
touching a dead completion context set `fault`, and the behaviour ends there.

The client is a constant. A `"sequential"` client uses a transfer again, or destroys it, when
the handler of its last operation was invoked: the README's coroutine does. A `"quiescent"` client
waits in addition for a handler of a later completion of another transfer. The callbacks run one after
the other on the event thread, so that handler says that the earlier callback has returned: this is
what a client with two transfers in turn does. A second operation on a transfer whose first is unfinished
is left out.

### UsbService

`dev` says where each device is in `open` or `close`, each on a thread of its own; `loop` where the
event thread is. The mutex is held in `loop \in {"test", "block"}`: the predicate is evaluated
and then the thread blocks, two steps between which only those who do not take the mutex can come.
`libusb_close` interrupts `libusb_handle_events` and keeps it out (`HandleEvents`, `CloseHandle`).
A device may be destroyed or assigned to while open, which the service is not told of; `lost` counts
these, and `MaxLost` bounds them. `~usb_service` (`Join`) waits for the event thread and not for the devices: one that is still open then, owned
by a handler that was never invoked for example, would be closed after `libusb_exit`, where the model ends.

### BlockingOps

The service is under construction in `Init`: `blocking_op_thread_` has been started
and `blocking_op_executor_` does not exist. `missed` remembers that the thread entered `run()`
then, and `DestructionDrains` is about a thread that did not. `DestroyExecutor` may come with operations queued: the execution context was stopped.

### UsbInterface

`call[th]` is the member function a thread executes, with the call of libusb it comes to next:
`release`, `attach`, `forget` are `unclaim`; `detach_driver`, `claim` the rest of `claim`; `take` the
rest of `operator=`; `alt` is `set_alt_setting`. `then` says what called `unclaim`. `Memory` is what
`device_handle_` may contain before anything is stored in it, since the constructors
do not. `libusb_release_interface` may fail at any time (`ReleaseFails`), with the device there or without it; it succeeds only when `Releasable`.
`detached` and `forgone` record what the client gave up (`detach()`, `unclaim(false)`, a device closed with a claim no object has)
or a failed `claim` left behind, and `abandoned` the claims that are lost because the destructor and the assignment
ignore that libusb did not release them.

The device is opened, closed and unplugged in the same module, and each opening gives another member of `Handles`: an
interface object, or a function of the device that waits for the blocking thread (pc `"device"`), keeps the handle it
had, and `BadHandle` is a call of libusb with one that is closed (`"bad_handle"`) or never was one (`"wild_handle"`).
`Terminate` is the end of a program whose `noexcept` function got an error of libusb. The client is what the modules' header
says: it gives a number to one object at a time, leaves an object alone while a function of it is posted, except to
post another that the object will allow in its turn, and closes the device when no object says `is_claimed()` and no
function has captured the handle (`MayClose`). The code checks none of this. That it is enough is what `NoStaleHandle` says; a client that closes earlier gets there in
a few steps.

### UsbDeviceInfo

`refs` is libusb's count, `info` the pointer of each object, with `Null` for one that was moved from. Dropping a reference
is two steps, the function that gives it up (`Deleting`) and `Unref`, in which a device
whose count falls to 0 goes on to its hub; other threads come in between. `operator=` by value is one step with its
swap, and its parameter is destroyed by `Unref`. `Parent` and `ConstructParent` are the two halves of `parent()`, between which the
pointer is not a reference; `PortsOverflow` is a round of the loop in `port_numbers`, `PortsThrow` an error that ends it; `GetDeviceList`,
`Reserve`, `CopyHandle`, `FreeDevice` are `list_usb_devices`, with `ReserveThrows`. Plugging in and out
is external (`Plug`, `Unplug`), and a new device may have the address of one that was freed. `Owners(d)` enumerates who will give a
reference to `d` back, and is never looked at by an action.

### UsbBuffers

Memory is a set of addresses, each mapped by libusb, by the backup resource, or not. `Deallocate` does what the code does, look the
address up, and `fault` says that the allocator it chose has no block of that size there. The sizes are computed modulo `SizeModulus`,
as `size_t` is. One thread uses the resource while its device is open: the class has no lock, and keeps a raw handle.

### UsbSystem

The two modules' actions, instantiated, with the guards that one of them has on account of the other: `Reap` and the callback are
in `libusb_handle_events` (`loop = "handling"`), which returns when the callback has; everything the client does is on one thread,
so that it is not in `run()` while it waits in `libusb_close`; a transfer is used while its device is open and a device is closed when its
operations have been handled. Here the transfer's client is neither of those above: it uses a transfer again as the quiescent client does, but
destroys it after `close()`, whatever was completed since. `CallbackFindsContext` is checked of that order, which makes a second transfer
unnecessary to end a program. `InFlightIsServed` and `ShutdownIsLast` are about what neither module can say: the first needs that operations keep their
device open, hence counted, and that the service is told to stop after `run()`; the second that `run()` waits for handlers to be deleted, and not only to be invoked.

## The runs

| run | instance | states | shows |
|---|---|---|---|
| `transfer_quiescent` | 2 transfers, 2 operations each | 41698 | handlers, results, work and the abstract operation, with liveness |
| `transfer_sequential` | 2 transfers, 3 operations | 31036 | at most once, and in somebody's hands until then, while nothing undefined happens |
| `transfer_readme` | 1 transfer, 1 operation | small | violation: the callback resets a handler in a freed context |
| `service_closing` | 3 devices, 2 of which may be lost | 2119 | the count, wakeup, sleep and stop of the event thread, with liveness |
| `service_shutdown` | 2 devices | small | violation: the notification of `shutdown` is lost and the join hangs |
| `blocking_ops` | 4 operations | 3915 | order, at most once, work and drained destruction, with liveness |
| `blocking_ops_start` | 2 operations | small | violation: the blocking thread left before it had work |
| `interface_claims` | 2 objects, 2 numbers, 2 handles, 2 functions queued | 781041 | objects, claims, drivers and handles agree |
| `interface_readme` | 1 object, 1 number | small | violation: an uninitialised handle is passed to libusb |
| `device_info` | a hub and a device behind it, 2 threads, 2 objects | 182438 | counts balance, nothing freed is used, nothing is kept; with liveness |
| `buffers` | 2 blocks, 3 addresses, with and without backup | 21820 | allocators agree, nothing leaks, buffers suffice |
| `system` | 2 devices with a transfer each, one of them used twice | 179215 | callbacks find their context, the event thread serves them and shutdown comes last; with liveness |

Two transfers are what double buffering needs; with two operations each, a transfer is
reused after a completion and after a rejected submission, while the other is at any stage. Three
devices let one open, one close and one notify; two lost ones let the count err twice. Two handles let a device
be opened again under what remembers the first; two objects let a claim move, and let one object hold what another wants. A hub and a
device are the least in which freeing one device drops a reference to another, and the device is plugged in deeper than
`max_depth = 1`, so that `port_numbers` has to ask again. Three addresses (16, 24, 32) have one that is not
aligned to 16. `SizeModulus = 64` stands for 2^64: of its sizes those from 1 to 14 can be constructed, 0 wraps to a size
that throws, and the largest ones throw. `UintModulus = 8` stands for 2^32: the timeout of `t1`
fits, that of `t2` wraps to "no timeout"; in `system` `t2` has none. There `t1` is used again after a
completion of `t2`, whose device may be open, closing, closed or opened again by then; a second operation on each would be more than TLC does in minutes with liveness.
The bounds are the constants `Ops`, `Devices`, `MaxLost`, `Interfaces`, `Numbers`, `Handles`, `MaxQueued`, `Slots`, `Blocks`,
`Addresses`; nothing else is cut off. Symmetry (objects, interface numbers, handles) is
used by `interface_claims` alone, whose properties are invariants, and name no
object. `buffers` may stop, when all memory was lost to `push_back`: it is the one run that does not check deadlock.

### The four disagreements

* **`transfer_readme`.** `completion_callback` posts the handler (559) and resets it (560). The README's
  coroutine, resumed by the first, can destroy the transfer before the second.
  The same order is what makes a sequential client race on `context->handler`; a quiescent client does not
  (`HandlerNotShared`).
* **`service_shutdown`.** `request_stop` and `notify_one` without the mutex can both fall between predicate
  and wait. `StopsUnlessLost` is what does hold.
* **`blocking_ops_start`.** `blocking_op_thread_` is initialised before `blocking_op_executor_`.
  `StaysUntilDestroyed` and `OperationsCarriedOut` are what does hold.
* **`interface_readme`.** `device_handle_` has no initialiser and the first thing `claim` does is to
  read it. TLC's shortest trace constructs an empty object and calls `unclaim`; the README's constructor for a device gets to the same line through `claim`.

Some properties have exceptions for what the code is known to leave behind, and so do not notice it: `lost` in `CounterMatchesDevices` and `ParksWhenIdle` (a device that is
destroyed or assigned to while open), `forgone` in `DriverComesBack` (a driver detached by a `claim` that then failed), `abandoned` in `HeldIsOwned` (a destructor
or an assignment whose release failed), `unrecorded` in `NothingLeaks` (a `push_back` that threw), `missed` in `StaysUntilDestroyed` and `DestructionDrains` (the start of
`blocking_ops_start`). `TimedOpsComplete` is about timeouts that fit into `unsigned`. Each of these cases happens in the runs. The hazards they belong to are listed with a note and without
a property, unless something else can be said of them.

`ParksWhenIdle` holds as long as no device was lost: one destroyed or assigned to while open
leaves the count positive for ever, and the event thread polling. The README's comment at line 59 speaks of `interface.release()`;
the member is called `detach()`.

## Fairness

`UsbTransfer`: the two threads are scheduled, so each step of an initiation, of the callback and of
`run()` is taken (weak fairness of `InitiationStep`, `CallbackStep`, `RunHandler`, `RunReturns`). `Reap(t)` is weakly fair only when the transfer
has a timeout or is being cancelled: libusb ends those, while one without a timeout may wait for
its device for ever. Clients owe nothing.

`UsbService`: the threads and the calls in progress are scheduled; `libusb_handle_events` returns, after 60
seconds at the latest. Nobody has to open, close or end anything.

`BlockingOps`: likewise, and the calls of libusb return.

`UsbDeviceInfo`: each thread goes on with the call it is in (`CallStep`) and drops the references it has begun to drop
(`Unref`). `PortsThrow` is not among these steps: `port_numbers` returns without the help of an error. Nobody owes a call, nor has anything ever to be plugged in or out.

`UsbSystem`: as in its parts, with two strong assumptions. A `DeviceStep` waits for the mutex and for `libusb_handle_events` to
let it in, both of which become free again and again; and a transfer that libusb must end is ended in *one* of the calls of
`libusb_handle_events`, which come and go.

`UsbInterface` and `UsbBuffers` are checked for safety only: their operations are calls, which the client makes or does not make.

## What is proved

For any values of the constants, with TLAPS. The assumptions are those named `...Assumption`
in the modules: what the constants are, no more. Every module of proofs checks as a whole with nothing left out.

* **`UsbServiceProofs`** (`TypeCorrect`, `CounterCorrect`, `NoLostWakeup`). The count equals
  the number of devices in `Counted`, or is above it by `lost`, by the lemmas on adding a member to and taking
  one from a finite set; it is inductive with the types, and gives that a decrement never wraps. `WakeupPending`
  needs that the mutex keeps the increment out between predicate and wait.
* **`BlockingOpsProofs`** (`TypeCorrect`, `OrderCorrect`, `StaysCorrect`, `DrainCorrect`, `RefinementCorrect`). The invariant behind
  most is that the operations initiated are the concatenation of those at each stage
  (`InInitiationOrder`); that no element occurs twice (`NoRepeats`) makes the refinement mapping's pending set lose exactly
  the operation posted.
* **`UsbTransferProofs`**, for both clients: `TypeCorrect`, `OwnResultsCorrect`, `RefinementCorrect`, `NotForgottenCorrect`. `OpInv`: at most one
  operation per transfer is unfinished, its buffer is the handle's, and libusb has, the callback completes and the initiation is busy with
  no other. `OwnResults` alone is not inductive: that no later operation writes the storage follows from there being one unfinished. The converse, that
  every unfinished operation is one of these, is `NotForgotten`: posting a handler takes an operation from `InFlight` and no other with it.
  For the quiescent client: `HandlerNotSharedCorrect`, `DefinedCorrect`, `NoHandlerLostCorrect`, `RunsWhileOutstandingCorrect`. `HandlingInv` says which handler
  each completion context holds (`HandlerHeld`), that it has not been deleted (`HandlerFresh`) and that nobody else is at it (`ClientAway`). It is inductive
  for every client whose steps are `ClientStepAway`, which touch no transfer whose callback is running. That the quiescent client's are is `QuietInv`: while the
  callback of `t` has not returned, the latest device completion among those invoked and those queued is one of `t` (`LastCompleted`), so the
  client's `last` cannot move past it and `t` stays untouched.
* **`UsbSystemProofs`** (`ServiceImplemented`, `TransferImplemented`, `CallbackFindsContextCorrect`, `ShutdownCorrect`, `InFlightServed`, `EventThreadCorrect`,
  `HandlersCorrect`, `ResultsCorrect`). The program implements `UsbService` and `UsbTransfer`, each under the identity: a step is one of theirs or leaves
  their variables alone. `UsbTransfer` ends with the first fault, so that its half holds only because there is none, and for this its
  client must again be `ClientStepAway`. `SystemInv` says why it is, with the invariants of both modules: a call is for another transfer than the one in
  the callback by `QuietInv`; and a destruction too, because a callback runs in `libusb_handle_events` (`InHandleEvents`), and a device with a callback
  is open or closing (`DeviceInUse`), since `libusb_close` ends only outside of it.
  The last three theorems restate results of `UsbTransferProofs` and `UsbServiceProofs`, of the program; for `HandlersCorrect` that
  is a client with which `UsbTransfer` alone can promise nothing of the kind. `InFlightServed` puts the two halves together: an operation in flight keeps
  its device open, an open device keeps the count positive (`CountedPositive`), and a positive count keeps the thread from a sleep nobody ends (`WakeupPending`).
* **`UsbInterfaceProofs`** (`TypeCorrect`, `ClaimedIsHeldCorrect`, `HeldIsOwnedCorrect`, `DriverComesBackCorrect`,
  `NoStaleHandleCorrect`). `IInv` says what each call in progress may rely on: an object whose `unclaim` is past
  `libusb_release_interface` is still claimed by its own account and its number is not held (`ReleaseInv`); the object the client's function
  works on has nothing on the blocking thread (`Alone`), and nobody else owns the number it is about to claim (`ClaimingInv`).
  `HeldIsOwned` is proved with a release that may fail whenever it is tried: what is held and has no owner is what `detached` and `abandoned` have recorded.
  Without these parts `ClaimedIsHeld` is not inductive: `Forget` on one thread could empty an object that has claimed again on the other.
  `NoStaleHandle` needs the order of the queue too: whatever is ahead of a `set_alt_setting` of an object is a `set_alt_setting` (`OrderInv`),
  so that the object is still claimed when its turn comes (`AltInv`), and a handle that was captured is still open (`CapturedInv`).
* **`UsbDeviceInfoProofs`** (`TypeCorrect`, `RefsBalanceCorrect`, `HandedIsAliveCorrect`). The owners of references are a finite set of pairs,
  who and of what, so that counts become cardinalities; each action leaves the owners of a device as they are, adds
  one, removes one, or swaps one for another, and changes `refs` by as much. `CallInv` adds
  what a thread in the middle of a call relies on: the pointer of `libusb_get_parent` is not a reference, and is good because
  the child whose parent it is has one.
* **`UsbBuffersProofs`** (`TypeCorrect`, `AllocatorsCorrect`, `NothingLeaksCorrect`, `PayloadCorrect`). What is recorded is
  mapped by libusb (`RecordedIsMapped`), no address is in both allocators (`Apart`) and each block of the client is in one of them (`Placed`),
  whence the address decides the allocator. `PayloadCorrect` is arithmetic modulo any
  multiple of 4 above 32, hence for `size_t` of any width from 6 bits on.
* **`SequenceLemmas`**: heads, tails, concatenation, ranges and injectivity of queues, used by several of the above.

Left to TLC: all liveness (the `~>` properties, `ImplementsAsyncOperation` with its fairness, which proves
`AtMostOnce` only in its safety part, `FreedWhenAbandoned`, `PortNumbersReturn`, and of `UsbSystem`, `TimedOpsServed`), since TLAPS does not
do `ENABLED`. Every invariant and every action property that a passing run checks is a theorem, and so is
every `TypeOK`, which only `service_closing` checks as well. No module uses recursion.

## Not modelled

* Moving a transfer (handles and contexts are moved together, by one thread) and moving a device into a new object: both give another
  name to what the models have. The move constructor of an interface (`usb_interface.hpp:80`) reads a member `device_` that does not exist, and cannot
  be instantiated.
* `usb_transfer.hpp:129-135`: a constructor that delegates with an executor and a timeout, which no other constructor takes; it cannot be instantiated.
* A second operation on a transfer whose first is unfinished: it destroys the handler of the first, which then never runs; the clients modelled do not start one.
* The bytes of a control transfer. `async_control` (`usb_transfer.hpp:432-444`) gives libusb `data()`, the payload, as its buffer and `size() + LIBUSB_CONTROL_SETUP_SIZE` as its length,
  which ends 8 bytes after the vector does, and writes the setup packet into the 8 bytes before that pointer, where libusb does not look for it. No property is about this:
  `PayloadSuffices` is about the size of the buffer alone, and an operation of `UsbTransfer` that is a control transfer differs in nothing from the others.
* The narrowing of sizes to `int` and 16 bits: one call shows it.
* The content of descriptors and strings; the streams of a device (`alloc_streams`, `free_streams`) beyond the errors that
  terminate the program; error texts, `operator<<`, flags, enumerations, namespace aliases.
* `adopt_ref`, `reset` and `release` of `libusb_ref_ptr`: nothing calls them.
* Two execution contexts: the `void` overload of `async_try_blocking_with_ec` tracks the work of one executor only (`error.hpp:231`).
* What is destroyed after `libusb_exit`: devices that are still open then.
* A `usb_dma_resource` used by several threads, or after its device was closed: it has no lock and keeps a raw handle.
* The 60 seconds that `libusb_handle_events` may take to return when `shutdown()` does not interrupt it: a delay, not a deadlock.
* The examples, which are clients; the README's is the client of the two `..._readme` runs.

## Plan

1. Done: `AsyncOperation`, `UsbTransfer`, `UsbService`, `BlockingOps`, `UsbInterface` with the handles of the device,
   `UsbDeviceInfo`, `UsbBuffers`, `UsbSystem`, and the safety of all of them proved, with that of `UsbSystem` reduced to its parts.
2. `UsbTransfer` with an overlapping client (a second operation while the first is in flight), to find what survives: at most one
   result per operation, not every handler invoked.
3. `BlockingOps` in the composition as a third thread, so that `run()` returns when both kinds of operations are done.
4. An abstract specification of what owns a claim, implemented by `UsbInterface`.
