---------------------------- MODULE UsbDeviceInfo ----------------------------
(***************************************************************************)
(* usb_device_info objects, which own references to libusb's devices by    *)
(* libusb_ref_ptr, and list_usb_devices, which makes them.  Several        *)
(* threads use them, and libusb's own thread plugs devices in and out.     *)
(*                                                                         *)
(* libusb counts references atomically; a device whose count falls to 0 is *)
(* freed, and gives its reference to the hub it is plugged into back.      *)
(* Root hubs stay, and are left out.                                       *)
(*                                                                         *)
(* An object is used by one thread at a time, and the client does not copy *)
(* or ask one it has moved from: libusb_ref_ptr passes its null on.        *)
(***************************************************************************)
EXTENDS Integers, FiniteSets

CONSTANTS
  Devs,        \* devices, by the address of their libusb_device
  ParentOf,    \* the hub each is plugged into, None if it is a root hub
  Slots,       \* places for usb_device_info objects
  Threads,     \* of the client
  max_depth,   \* max_depth of port_numbers
  None         \* nullptr, no object

Hotplug == "hotplug"   \* the thread of libusb that sees devices come and go
Null == "null"         \* the state of an object that was moved from

ASSUME DeviceInfoAssumption ==
  /\ IsFiniteSet(Devs) /\ IsFiniteSet(Slots) /\ IsFiniteSet(Threads)
  /\ ParentOf \in [Devs -> Devs \cup {None}]
  /\ \A d \in Devs : ParentOf[d] # d
  /\ None \notin Devs \cup Slots /\ Null \notin Devs \cup {None} /\ Hotplug \notin Threads
  /\ max_depth \in Nat \ {0}

VARIABLES
  plugged,   \* devices libusb knows to be there
  refs,      \* libusb's count of references to each device
  info,      \* handle_ of the object in each slot, None if there is none
  opened,    \* devices of open handles
  unref,     \* what each thread is in libusb_unref_device with
  call,      \* what each thread of the client executes
  array,     \* devices of the list libusb_get_device_list made for a thread
  room       \* slots of the vector list_usb_devices is filling

vars == <<plugged, refs, info, opened, unref, call, array, room>>

NoCall == [pc |-> "idle", slot |-> None, dev |-> None, to |-> None, todo |-> {}, size |-> 0]

Init ==
  /\ plugged = {} /\ opened = {}
  /\ refs = [d \in Devs |-> 0]
  /\ info = [s \in Slots |-> None]
  /\ unref = [th \in Threads \cup {Hotplug} |-> None]
  /\ call = [th \in Threads |-> NoCall]
  /\ array = [th \in Threads |-> {}]
  /\ room = [th \in Threads |-> {}]

-----------------------------------------------------------------------------
(* libusb.                                                                 *)

Ref(D) == refs' = [d \in Devs |-> IF d \in D THEN refs[d] + 1 ELSE refs[d]]

(* A thread enters libusb_unref_device, unless the deleter has a null.     *)
Deleting(th, p) == unref' = [unref EXCEPT ![th] = IF p \in Devs THEN p ELSE None]

(* The count is decremented; a device that is freed goes on to its hub.    *)
Unref(th) ==
  LET d == unref[th] IN
  /\ d # None
  /\ refs' = [refs EXCEPT ![d] = @ - 1]
  /\ unref' = [unref EXCEPT ![th] = IF refs[d] = 1 THEN ParentOf[d] ELSE None]
  /\ UNCHANGED <<plugged, info, opened, call, array, room>>

(* The address of a device that was freed may be that of a new one.        *)
Plug(d) ==
  /\ d \notin plugged /\ refs[d] = 0
  /\ ParentOf[d] \in plugged \cup {None}
  /\ plugged' = plugged \cup {d}
  /\ Ref({d, ParentOf[d]})
  /\ UNCHANGED <<info, opened, unref, call, array, room>>

(* A hub goes after what is plugged into it.                               *)
Unplug(d) ==
  /\ d \in plugged /\ unref[Hotplug] = None
  /\ \A c \in plugged : ParentOf[c] # d
  /\ plugged' = plugged \ {d}
  /\ Deleting(Hotplug, d)
  /\ UNCHANGED <<refs, info, opened, call, array, room>>

-----------------------------------------------------------------------------
(* usb_device_info, and libusb_ref_ptr in it.                              *)

Ready(th) == call[th].pc = "idle" /\ unref[th] = None
Reserved == (UNION {room[th] : th \in Threads}) \cup {call[th].to : th \in Threads}
Free(s) == info[s] = None /\ s \notin Reserved
InUse(s) == s \in Reserved \/ \E th \in Threads : call[th].slot = s
MayUse(th, s) == Ready(th) /\ info[s] # None /\ ~InUse(s)

(* Mutant of Acquire: the copy takes the reference of the original.        *)
Adopt(d) == UNCHANGED refs

(* libusb_ref_ptr(ptr), which the copy constructor delegates to.           *)
Acquire(d) == Ref({d})

CopyConstruct(th, s, to) ==
  /\ MayUse(th, s) /\ info[s] # Null /\ Free(to)
  /\ Acquire(info[s])
  /\ info' = [info EXCEPT ![to] = info[s]]
  /\ UNCHANGED <<plugged, opened, unref, call, array, room>>

MoveConstruct(th, s, to) ==
  /\ MayUse(th, s) /\ Free(to)
  /\ info' = [info EXCEPT ![s] = Null, ![to] = info[s]]
  /\ UNCHANGED <<plugged, refs, opened, unref, call, array, room>>

(* operator=, by value: the parameter is a copy, or moved from the other   *)
(* object, and is swapped with the object and destroyed.                   *)
CopyAssign(th, s, to) ==
  /\ MayUse(th, s) /\ info[s] # Null /\ MayUse(th, to)
  /\ Acquire(info[s])
  /\ info' = [info EXCEPT ![to] = info[s]]
  /\ Deleting(th, info[to])
  /\ UNCHANGED <<plugged, opened, call, array, room>>

MoveAssign(th, s, to) ==
  /\ MayUse(th, s) /\ MayUse(th, to)
  /\ info' = [info EXCEPT ![s] = Null, ![to] = info[s]]
  /\ Deleting(th, IF s = to THEN Null ELSE info[to])
  /\ UNCHANGED <<plugged, refs, opened, call, array, room>>

Destroy(th, s) ==
  /\ MayUse(th, s)
  /\ info' = [info EXCEPT ![s] = None]
  /\ Deleting(th, info[s])
  /\ UNCHANGED <<plugged, refs, opened, call, array, room>>

(* libusb_open of the object's device: the handle has a reference.         *)
Open(th, s) ==
  /\ MayUse(th, s) /\ info[s] \in plugged \ opened
  /\ opened' = opened \cup {info[s]}
  /\ Ref({info[s]})
  /\ UNCHANGED <<plugged, info, unref, call, array, room>>

Close(th, d) ==
  /\ Ready(th) /\ d \in opened
  /\ opened' = opened \ {d}
  /\ Deleting(th, d)
  /\ UNCHANGED <<plugged, refs, info, call, array, room>>

Begin(th, c) ==
  /\ call' = [call EXCEPT ![th] = c]
  /\ UNCHANGED <<plugged, refs, info, opened, unref, array, room>>

(* The functions that ask libusb about the device and change nothing; the  *)
(* descriptors they return are memory of their own.                        *)
Query(th, s) ==
  /\ MayUse(th, s) /\ info[s] # Null
  /\ Begin(th, [NoCall EXCEPT !.pc = "query", !.slot = s, !.dev = info[s]])

QueryReturns(th) == call[th].pc = "query" /\ Begin(th, NoCall)

(* parent: libusb_get_parent returns a pointer without a reference ...     *)
Parent(th, s, to) ==
  /\ MayUse(th, s) /\ info[s] # Null /\ Free(to)
  /\ ParentOf[info[s]] # None
  /\ Begin(th, [NoCall EXCEPT !.pc = "parent", !.slot = s, !.dev = ParentOf[info[s]], !.to = to])

(* ... which the object that is returned acquires.                         *)
ConstructParent(th) ==
  /\ call[th].pc = "parent"
  /\ Acquire(call[th].dev)
  /\ info' = [info EXCEPT ![call[th].to] = call[th].dev]
  /\ call' = [call EXCEPT ![th] = NoCall]
  /\ UNCHANGED <<plugged, opened, unref, array, room>>

PortNumbers(th, s) ==
  /\ MayUse(th, s) /\ info[s] # Null
  /\ Begin(th, [NoCall EXCEPT !.pc = "ports", !.slot = s, !.dev = info[s], !.size = max_depth])

(* libusb_get_port_numbers: the ports from the root hub to the device.     *)
Above[d \in Devs, n \in 0 .. Cardinality(Devs)] ==
  IF n = 0 \/ ParentOf[d] = None THEN 0 ELSE 1 + Above[ParentOf[d], n - 1]
NumPorts(d) == 1 + Above[d, Cardinality(Devs)]

(* Mutant of Resized: the vector is not made longer.                       *)
ResizedSame(size) == size

Resized(size) == 2 * size

(* overflow: the vector is made longer and libusb is asked again.          *)
PortsOverflow(th) ==
  /\ call[th].pc = "ports" /\ NumPorts(call[th].dev) > call[th].size
  /\ Begin(th, [call[th] EXCEPT !.size = Resized(@)])

PortsReturned(th) ==
  /\ call[th].pc = "ports" /\ NumPorts(call[th].dev) <= call[th].size
  /\ Begin(th, NoCall)

(* Another error of libusb, with which port_numbers throws.                *)
PortsThrow(th) ==
  /\ call[th].pc = "ports"
  /\ Begin(th, NoCall)

-----------------------------------------------------------------------------
(* list_usb_devices                                                        *)

(* libusb_get_device_list: an array with a reference to each device.  If   *)
(* it fails nothing is changed.                                            *)
GetDeviceList(th) ==
  /\ Ready(th)
  /\ Ref(plugged)
  /\ array' = [array EXCEPT ![th] = plugged]
  /\ call' = [call EXCEPT ![th] = [NoCall EXCEPT !.pc = "reserve", !.todo = plugged]]
  /\ UNCHANGED <<plugged, info, opened, unref, room>>

(* result.reserve(num_devices)                                             *)
Reserve(th) ==
  /\ call[th].pc = "reserve"
  /\ \E R \in SUBSET {s \in Slots : Free(s)} :
       /\ Cardinality(R) = Cardinality(array[th])
       /\ room' = [room EXCEPT ![th] = R]
  /\ call' = [call EXCEPT ![th].pc = "copy"]
  /\ UNCHANGED <<plugged, refs, info, opened, unref, array>>

(* It throws, and handles_owner frees the array.                           *)
ReserveThrows(th) ==
  /\ call[th].pc = "reserve"
  /\ Begin(th, [NoCall EXCEPT !.pc = "free"])

(* One step of std::ranges::transform.                                     *)
CopyHandle(th, d) ==
  /\ call[th].pc = "copy" /\ d \in call[th].todo
  /\ \E s \in room[th] : info[s] = None /\ info' = [info EXCEPT ![s] = d]
  /\ Acquire(d)
  /\ call' = [call EXCEPT ![th].todo = @ \ {d}]
  /\ UNCHANGED <<plugged, opened, unref, array, room>>

Transformed(th) ==
  /\ call[th].pc = "copy" /\ call[th].todo = {}
  /\ Begin(th, [NoCall EXCEPT !.pc = "free"])

(* Mutant of FreeDeviceList: the devices keep the array's references.      *)
FreeArrayOnly(th, d) == UNCHANGED unref

FreeDeviceList(th, d) == Deleting(th, d)

(* libusb_free_device_list with unref_devices.                             *)
FreeDevice(th, d) ==
  /\ call[th].pc = "free" /\ unref[th] = None /\ d \in array[th]
  /\ array' = [array EXCEPT ![th] = @ \ {d}]
  /\ FreeDeviceList(th, d)
  /\ UNCHANGED <<plugged, refs, info, opened, call, room>>

(* The vector is the client's.                                             *)
ListReturns(th) ==
  /\ call[th].pc = "free" /\ unref[th] = None /\ array[th] = {}
  /\ call' = [call EXCEPT ![th] = NoCall]
  /\ room' = [room EXCEPT ![th] = {}]
  /\ UNCHANGED <<plugged, refs, info, opened, unref, array>>

-----------------------------------------------------------------------------
ClientStep(th) ==
  \/ GetDeviceList(th)
  \/ \E d \in Devs : Close(th, d)
  \/ \E s \in Slots :
       \/ Destroy(th, s) \/ Open(th, s) \/ Query(th, s) \/ PortNumbers(th, s)
       \/ \E to \in Slots : \/ CopyConstruct(th, s, to) \/ MoveConstruct(th, s, to)
                            \/ CopyAssign(th, s, to) \/ MoveAssign(th, s, to)
                            \/ Parent(th, s, to)

(* The rest of a function a thread has begun.                              *)
CallStep(th) ==
  \/ QueryReturns(th) \/ ConstructParent(th) \/ PortsOverflow(th) \/ PortsReturned(th)
  \/ Reserve(th) \/ ReserveThrows(th) \/ Transformed(th) \/ ListReturns(th)
  \/ \E d \in Devs : CopyHandle(th, d) \/ FreeDevice(th, d)

Next ==
  \/ \E th \in Threads : ClientStep(th) \/ CallStep(th) \/ PortsThrow(th)
  \/ \E th \in Threads \cup {Hotplug} : Unref(th)
  \/ \E d \in Devs : Plug(d) \/ Unplug(d)

Safety == Init /\ [][Next]_vars

(* A call that has begun is gone on with.  Nobody owes another one, and    *)
(* port_numbers does not count on an error to return.                      *)
Spec ==
  /\ Safety
  /\ \A th \in Threads : WF_vars(CallStep(th))
  /\ \A th \in Threads \cup {Hotplug} : WF_vars(Unref(th))

-----------------------------------------------------------------------------
(* Properties.                                                             *)

(* The values the variables take.                                          *)
TypeOK ==
  /\ plugged \subseteq Devs /\ opened \subseteq Devs
  /\ refs \in [Devs -> Nat]
  /\ info \in [Slots -> Devs \cup {Null, None}]
  /\ unref \in [Threads \cup {Hotplug} -> Devs \cup {None}]
  /\ call \in [Threads -> [pc : {"idle", "query", "parent", "ports", "reserve", "copy", "free"},
                           slot : Slots \cup {None}, dev : Devs \cup {None},
                           to : Slots \cup {None}, todo : SUBSET Devs, size : Nat]]
  /\ array \in [Threads -> SUBSET Devs]
  /\ room \in [Threads -> SUBSET Slots]

(* Those that will give back a reference to d: objects, open handles,      *)
(* lists, calls of libusb_unref_device, the devices plugged into d, and    *)
(* libusb itself.                                                          *)
Owns(kind, x, d) ==
  \/ kind = "info" /\ x \in Slots /\ info[x] = d
  \/ kind = "list" /\ x \in Threads /\ d \in array[x]
  \/ kind = "unref" /\ x \in Threads \cup {Hotplug} /\ unref[x] = d
  \/ kind = "child" /\ x \in Devs /\ ParentOf[x] = d /\ refs[x] > 0
  \/ kind = "handle" /\ x \in opened /\ x = d
  \/ kind = "libusb" /\ x \in plugged /\ x = d

Kinds == {"info", "list", "unref", "child", "handle", "libusb"}
Things == Slots \cup Threads \cup {Hotplug} \cup Devs
Owners(d) == {o \in Kinds \X Things : Owns(o[1], o[2], d)}

(* libusb's count is that of the owners, through copies, moves, lists that *)
(* throw half-way, unplugging and freeing: no reference is lost or given   *)
(* back twice.                                                             *)
RefsBalance == \A d \in Devs : refs[d] = Cardinality(Owners(d))

(* What is handed to libusb: by the objects, by the lists that are copied, *)
(* and by calls in progress, parent()'s pointer without a reference too.   *)
Handed ==
  {info[s] : s \in Slots} \cup opened \cup (UNION {array[th] : th \in Threads})
  \cup {call[th].dev : th \in Threads} \cup {unref[th] : th \in Threads}

(* libusb is never given a device that has been freed, whatever is         *)
(* unplugged and destroyed at the same time.                               *)
HandedIsAlive == \A d \in Handed \cap Devs : refs[d] > 0

(* Nobody has a reference to d, and what was plugged into it is freed.     *)
Abandoned(d) ==
  /\ d \notin plugged \cup opened \cup (UNION {array[th] : th \in Threads})
  /\ \A s \in Slots : info[s] # d
  /\ \A c \in Devs : ParentOf[c] = d => refs[c] = 0

(* A device that was unplugged is freed when the last object that refers   *)
(* to it, and then the last device behind it, is gone.                     *)
FreedWhenAbandoned == \A d \in Devs : Abandoned(d) ~> refs[d] = 0

(* port_numbers returns, however deep the device is plugged in.            *)
PortNumbersReturn == \A th \in Threads : call[th].pc = "ports" ~> call[th].pc # "ports"
=============================================================================
