------------------------- MODULE UsbDeviceInfoProofs -------------------------
(***************************************************************************)
(* libusb's counts of references balance for any finite sets of devices,   *)
(* plugged into one another in any way, of objects and of threads.         *)
(***************************************************************************)
EXTENDS UsbDeviceInfo, FiniteSetTheorems, TLAPS

-----------------------------------------------------------------------------
(* Owners come and go one by one.                                          *)

LEMMA OwnersFinite ==
  ASSUME NEW d
  PROVE  /\ IsFiniteSet(Owners(d)) /\ Cardinality(Owners(d)) \in Nat
         /\ IsFiniteSet(Owners(d)') /\ Cardinality(Owners(d)') \in Nat
<1>1. IsFiniteSet(Kinds)
  <2>1. Kinds = {"info"} \cup {"list"} \cup {"unref"} \cup {"child"} \cup {"handle"} \cup {"libusb"}
    BY DEF Kinds
  <2> QED
    BY <2>1, FS_Singleton, FS_Union
<1>2. IsFiniteSet(Things)
  BY DeviceInfoAssumption, FS_Singleton, FS_Union DEF Things
<1>3. IsFiniteSet(Kinds \X Things)
  BY <1>1, <1>2, FS_Product
<1>4. Owners(d) \in SUBSET (Kinds \X Things) /\ Owners(d)' \in SUBSET (Kinds \X Things)
  BY DEF Owners
<1>5. IsFiniteSet(Owners(d)) /\ IsFiniteSet(Owners(d)')
  BY <1>3, <1>4, FS_Subset
<1> QED
  BY <1>5, FS_CardinalityType

(* What an owner more, one less or another one does to their number.       *)
Same(d) == \A k \in Kinds, x \in Things : Owns(k, x, d)' <=> Owns(k, x, d)
Gains(d, kind, y) ==
  /\ kind \in Kinds /\ y \in Things /\ ~Owns(kind, y, d)
  /\ \A k \in Kinds, x \in Things : Owns(k, x, d)' <=> Owns(k, x, d) \/ (k = kind /\ x = y)
Loses(d, kind, y) ==
  /\ kind \in Kinds /\ y \in Things /\ Owns(kind, y, d)
  /\ \A k \in Kinds, x \in Things : Owns(k, x, d)' <=> Owns(k, x, d) /\ ~(k = kind /\ x = y)
Swaps(d, from, y, to, z) ==
  /\ from \in Kinds /\ y \in Things /\ Owns(from, y, d)
  /\ to \in Kinds /\ z \in Things /\ ~Owns(to, z, d)
  /\ \A k \in Kinds, x \in Things :
       Owns(k, x, d)' <=> (Owns(k, x, d) /\ ~(k = from /\ x = y)) \/ (k = to /\ x = z)

LEMMA SameCount ==
  ASSUME NEW d, Same(d) PROVE Cardinality(Owners(d)') = Cardinality(Owners(d))
<1>1. Owners(d)' = Owners(d)
  BY DEF Owners, Same
<1> QED
  BY <1>1

LEMMA GainsCount ==
  ASSUME NEW d, NEW kind, NEW y, Gains(d, kind, y)
  PROVE  Cardinality(Owners(d)') = Cardinality(Owners(d)) + 1
<1>1. Owners(d)' = Owners(d) \cup {<<kind, y>>}
  BY DEF Owners, Gains
<1>2. <<kind, y>> \notin Owners(d)
  BY DEF Owners, Gains
<1> QED
  BY <1>1, <1>2, OwnersFinite, FS_AddElement

LEMMA LosesCount ==
  ASSUME NEW d, NEW kind, NEW y, Loses(d, kind, y)
  PROVE  Cardinality(Owners(d)') = Cardinality(Owners(d)) - 1
<1>1. Owners(d)' = Owners(d) \ {<<kind, y>>}
  BY DEF Owners, Loses
<1>2. <<kind, y>> \in Owners(d)
  BY DEF Owners, Loses
<1> QED
  BY <1>1, <1>2, OwnersFinite, FS_RemoveElement

LEMMA SwapsCount ==
  ASSUME NEW d, NEW from, NEW y, NEW to, NEW z, Swaps(d, from, y, to, z)
  PROVE  Cardinality(Owners(d)') = Cardinality(Owners(d))
<1> DEFINE rest == Owners(d) \ {<<from, y>>}
<1>1. Owners(d)' = rest \cup {<<to, z>>}
  BY DEF Owners, Swaps
<1>2. <<from, y>> \in Owners(d) /\ <<to, z>> \notin rest
  BY DEF Owners, Swaps
<1>3. IsFiniteSet(rest) /\ Cardinality(rest) = Cardinality(Owners(d)) - 1
  BY <1>2, OwnersFinite, FS_RemoveElement
<1>4. Cardinality(rest \cup {<<to, z>>}) = Cardinality(rest) + 1
  BY <1>2, <1>3, FS_AddElement
<1> HIDE DEF rest
<1> QED
  BY <1>1, <1>3, <1>4, OwnersFinite

(* An owner keeps the device.                                              *)
LEMMA OwnedIsAlive ==
  ASSUME TypeOK, RefsBalance, NEW d \in Devs, NEW k \in Kinds, NEW x \in Things, Owns(k, x, d)
  PROVE  refs[d] \in Nat /\ refs[d] > 0
<1>1. <<k, x>> \in Owners(d)
  BY DEF Owners
<1>2. Cardinality(Owners(d)) # 0
  BY <1>1, OwnersFinite, FS_EmptySet
<1> QED
  BY <1>2 DEF RefsBalance, TypeOK

-----------------------------------------------------------------------------
(* What the calls in progress hold.                                        *)

Holds(th) ==
  /\ call[th].pc \notin {"reserve", "copy", "free"} => array[th] = {}
  /\ call[th].pc \in {"reserve", "copy"} => call[th].todo \subseteq array[th]
  /\ call[th].pc \notin {"query", "ports", "parent"} => call[th].dev = None
  /\ call[th].pc \in {"query", "ports"} =>
       call[th].slot \in Slots /\ call[th].dev \in Devs /\ info[call[th].slot] = call[th].dev
  /\ call[th].pc = "parent" =>
       /\ call[th].slot \in Slots /\ info[call[th].slot] \in Devs
       /\ call[th].dev = ParentOf[info[call[th].slot]] /\ call[th].dev \in Devs
       /\ call[th].to \in Slots /\ info[call[th].to] = None

(* The place of the object parent() returns is nobody else's.              *)
Apart(th, other) == call[th].pc = "parent" =>
  /\ call[th].to \notin room[other]
  /\ other # th => call[other].to # call[th].to

CallInv == \A th \in Threads : Holds(th) /\ \A other \in Threads : Apart(th, other)

(* The balance alone is not inductive: the device parent() is about to     *)
(* acquire is kept by the one plugged into it, which the object asked      *)
(* keeps, as long as no thread touches that object.                        *)
IInv == TypeOK /\ CallInv /\ RefsBalance

LEMMA InitIInv == Init => IInv
<1> SUFFICES ASSUME Init PROVE IInv
  OBVIOUS
<1>1. TypeOK
  BY DeviceInfoAssumption DEF Init, TypeOK, NoCall
<1>2. CallInv
  BY DeviceInfoAssumption DEF Init, CallInv, Holds, Apart, NoCall
<1>3. ASSUME NEW d \in Devs PROVE refs[d] = Cardinality(Owners(d))
  <2>1. Owners(d) = {}
    BY DeviceInfoAssumption DEF Init, Owners, Owns
  <2> QED
    BY <2>1, FS_EmptySet DEF Init
<1> QED
  BY <1>1, <1>2, <1>3 DEF IInv, RefsBalance

(* Every owner of d keeps it alive.                                        *)
LEMMA UnrefIsAlive ==
  ASSUME IInv, NEW th \in Threads \cup {Hotplug}, unref[th] \in Devs
  PROVE  refs[unref[th]] \in Nat /\ refs[unref[th]] > 0
<1>1. Owns("unref", th, unref[th]) /\ "unref" \in Kinds /\ th \in Things
  BY DEF Owns, Kinds, Things
<1> QED
  BY <1>1, OwnedIsAlive DEF IInv

LEMMA InfoIsAlive ==
  ASSUME IInv, NEW s \in Slots, info[s] \in Devs
  PROVE  refs[info[s]] \in Nat /\ refs[info[s]] > 0
<1>1. Owns("info", s, info[s]) /\ "info" \in Kinds /\ s \in Things
  BY DEF Owns, Kinds, Things
<1> QED
  BY <1>1, OwnedIsAlive DEF IInv

LEMMA ListedIsAlive ==
  ASSUME IInv, NEW th \in Threads, NEW d \in array[th]
  PROVE  d \in Devs /\ refs[d] \in Nat /\ refs[d] > 0
<1>1. d \in Devs
  BY DEF IInv, TypeOK
<1>2. Owns("list", th, d) /\ "list" \in Kinds /\ th \in Things
  BY DEF Owns, Kinds, Things
<1> QED
  BY <1>1, <1>2, OwnedIsAlive DEF IInv

LEMMA PluggedIsAlive ==
  ASSUME IInv, NEW d \in plugged
  PROVE  d \in Devs /\ refs[d] \in Nat /\ refs[d] > 0
<1>1. d \in Devs
  BY DEF IInv, TypeOK
<1>2. Owns("libusb", d, d) /\ "libusb" \in Kinds /\ d \in Things
  BY <1>1 DEF Owns, Kinds, Things
<1> QED
  BY <1>1, <1>2, OwnedIsAlive DEF IInv

(* The pointer libusb_get_parent returned: what is plugged into the hub is *)
(* alive and has a reference to it.                                        *)
LEMMA ParentIsAlive ==
  ASSUME IInv, NEW th \in Threads, call[th].pc = "parent"
  PROVE  refs[call[th].dev] \in Nat /\ refs[call[th].dev] > 0
<1> DEFINE c == info[call[th].slot]
<1>1. c \in Devs /\ call[th].dev = ParentOf[c] /\ call[th].dev \in Devs /\ call[th].slot \in Slots
  BY DEF IInv, CallInv, Holds
<1>2. refs[c] > 0
  BY <1>1, InfoIsAlive
<1>3. Owns("child", c, call[th].dev) /\ "child" \in Kinds /\ c \in Things
  BY <1>1, <1>2 DEF Owns, Kinds, Things
<1> QED
  BY <1>1, <1>3, OwnedIsAlive DEF IInv

-----------------------------------------------------------------------------
(* The references of each action.                                          *)

LEMMA PlugBalance ==
  ASSUME IInv, NEW d \in Devs, Plug(d) PROVE RefsBalance'
<1> SUFFICES ASSUME NEW e \in Devs PROVE refs'[e] = Cardinality(Owners(e)')
  BY DEF RefsBalance
<1>0. /\ d \notin plugged /\ refs[d] = 0 /\ ParentOf[d] \in plugged \cup {None} /\ ParentOf[d] # d
      /\ plugged' = plugged \cup {d} /\ refs \in [Devs -> Nat] /\ plugged \subseteq Devs
      /\ \A x \in Devs : refs'[x] = IF x \in {d, ParentOf[d]} THEN refs[x] + 1 ELSE refs[x]
      /\ UNCHANGED <<info, opened, unref, array>> /\ refs[e] = Cardinality(Owners(e))
  BY DeviceInfoAssumption DEF Plug, Ref, IInv, TypeOK, RefsBalance
<1>p. \A x \in Devs : x # d => (refs'[x] > 0 <=> refs[x] > 0)
  <2>1. ParentOf[d] \in Devs => refs[ParentOf[d]] > 0
    BY <1>0, PluggedIsAlive, DeviceInfoAssumption
  <2> QED
    BY <1>0, <2>1
<1>1. CASE e = d
  <2>1. Gains(e, "libusb", d)
    BY <1>0, <1>1, <1>p, DeviceInfoAssumption DEF Gains, Owns, Kinds, Things
  <2> QED
    BY <1>0, <1>1, <2>1, GainsCount
<1>2. CASE e = ParentOf[d]
  <2>1. Gains(e, "child", d)
    BY <1>0, <1>2, <1>p, DeviceInfoAssumption DEF Gains, Owns, Kinds, Things
  <2> QED
    BY <1>0, <1>2, <2>1, GainsCount
<1>3. CASE e # d /\ e # ParentOf[d]
  <2>1. Same(e)
    BY <1>0, <1>3, <1>p, DeviceInfoAssumption DEF Same, Owns, Kinds, Things
  <2> QED
    BY <1>0, <1>3, <2>1, SameCount
<1> QED
  BY <1>1, <1>2, <1>3

LEMMA UnrefBalance ==
  ASSUME IInv, NEW th \in Threads \cup {Hotplug}, Unref(th) PROVE RefsBalance'
<1> SUFFICES ASSUME NEW e \in Devs PROVE refs'[e] = Cardinality(Owners(e)')
  BY DEF RefsBalance
<1> DEFINE d == unref[th]
           p == ParentOf[d]
<1>0. /\ d \in Devs /\ p # d /\ p \in Devs \cup {None}
      /\ refs \in [Devs -> Nat] /\ refs[d] > 0
      /\ \A x \in Devs : refs'[x] = IF x = d THEN refs[x] - 1 ELSE refs[x]
      /\ unref \in [Threads \cup {Hotplug} -> Devs \cup {None}]
      /\ \A x \in Threads \cup {Hotplug} :
           unref'[x] = IF x = th THEN (IF refs[d] = 1 THEN p ELSE None) ELSE unref[x]
      /\ UNCHANGED <<info, opened, plugged, array>> /\ refs[e] = Cardinality(Owners(e))
  BY UnrefIsAlive, DeviceInfoAssumption DEF Unref, IInv, TypeOK, RefsBalance
<1>c. \A x \in Devs : (refs'[x] > 0 <=> refs[x] > 0 /\ ~(x = d /\ refs[d] = 1))
  BY <1>0
<1> HIDE DEF d, p
<1>k. th \in Things /\ d \in Things /\ Owns("unref", th, d) /\ {"unref", "child"} \subseteq Kinds
  BY <1>0 DEF Things, Kinds, Owns, d
<1>1. CASE e = d
  <2>1. Loses(e, "unref", th)
    BY <1>0, <1>1, <1>c, <1>k, DeviceInfoAssumption DEF Loses, Owns, p, d
  <2> QED
    BY <1>0, <1>1, <2>1, LosesCount
<1>2. CASE e = p /\ refs[d] = 1
  <2>1. Swaps(e, "child", d, "unref", th)
    BY <1>0, <1>2, <1>c, <1>k, DeviceInfoAssumption DEF Swaps, Owns, p, d
  <2> QED
    BY <1>0, <1>2, <2>1, SwapsCount
<1>3. CASE e # d /\ ~(e = p /\ refs[d] = 1)
  <2>1. Same(e)
    BY <1>0, <1>3, <1>c, <1>k, DeviceInfoAssumption DEF Same, Owns, p, d
  <2> QED
    BY <1>0, <1>3, <2>1, SameCount
<1> QED
  BY <1>1, <1>2, <1>3

(* A new object that refers to a device somebody owns.                     *)
LEMMA NewObjectBalance ==
  ASSUME IInv, NEW to \in Slots, NEW d \in Devs, info[to] = None, refs[d] > 0,
         Ref({d}), info' = [info EXCEPT ![to] = d], UNCHANGED <<plugged, opened, unref, array>>
  PROVE  RefsBalance'
<1> SUFFICES ASSUME NEW e \in Devs PROVE refs'[e] = Cardinality(Owners(e)')
  BY DEF RefsBalance
<1>0. /\ refs \in [Devs -> Nat] /\ refs[e] = Cardinality(Owners(e))
      /\ \A x \in Devs : refs'[x] = IF x = d THEN refs[x] + 1 ELSE refs[x]
      /\ \A s \in Slots : info'[s] = IF s = to THEN d ELSE info[s]
  BY DEF IInv, TypeOK, RefsBalance, Ref
<1>c. \A x \in Devs : refs'[x] > 0 <=> refs[x] > 0
  BY <1>0
<1>1. CASE e = d
  <2>1. Gains(e, "info", to)
    BY <1>0, <1>1, <1>c, DeviceInfoAssumption DEF Gains, Owns, Kinds, Things
  <2> QED
    BY <1>0, <1>1, <2>1, GainsCount
<1>2. CASE e # d
  <2>1. Same(e)
    BY <1>0, <1>2, <1>c, DeviceInfoAssumption DEF Same, Owns
  <2> QED
    BY <1>0, <1>2, <2>1, SameCount
<1> QED
  BY <1>1, <1>2

LEMMA CopyConstructBalance ==
  ASSUME IInv, NEW th \in Threads, NEW s \in Slots, NEW to \in Slots, CopyConstruct(th, s, to)
  PROVE  RefsBalance'
<1>1. info[s] \in Devs /\ info[to] = None /\ refs[info[s]] > 0
  BY InfoIsAlive DEF CopyConstruct, MayUse, Free, IInv, TypeOK
<1> QED
  BY <1>1, NewObjectBalance DEF CopyConstruct, Acquire

LEMMA ConstructParentBalance ==
  ASSUME IInv, NEW th \in Threads, ConstructParent(th) PROVE RefsBalance'
<1>1. call[th].dev \in Devs /\ call[th].to \in Slots /\ info[call[th].to] = None
  BY DEF ConstructParent, IInv, CallInv, Holds
<1>2. refs[call[th].dev] > 0
  BY ParentIsAlive DEF ConstructParent
<1> QED
  BY <1>1, <1>2, NewObjectBalance DEF ConstructParent, Acquire

LEMMA CopyHandleBalance ==
  ASSUME IInv, NEW th \in Threads, NEW d \in Devs, CopyHandle(th, d) PROVE RefsBalance'
<1>1. PICK s \in room[th] : info[s] = None /\ info' = [info EXCEPT ![s] = d]
  BY DEF CopyHandle
<1>2. s \in Slots
  BY DEF IInv, TypeOK
<1>3. refs[d] > 0
  BY ListedIsAlive DEF CopyHandle, IInv, CallInv, Holds
<1> QED
  BY <1>1, <1>2, <1>3, NewObjectBalance DEF CopyHandle, Acquire

(* A reference passes from one owner to another.                           *)
LEMMA MoveConstructBalance ==
  ASSUME IInv, NEW th \in Threads, NEW s \in Slots, NEW to \in Slots, MoveConstruct(th, s, to)
  PROVE  RefsBalance'
<1> SUFFICES ASSUME NEW e \in Devs PROVE refs'[e] = Cardinality(Owners(e)')
  BY DEF RefsBalance
<1>0. /\ refs[e] = Cardinality(Owners(e)) /\ info[to] = None /\ info[s] # None /\ s # to
      /\ info[s] \in Devs \cup {Null} /\ UNCHANGED <<plugged, refs, opened, unref, array>>
      /\ \A x \in Slots : info'[x] = IF x = to THEN info[s] ELSE IF x = s THEN Null ELSE info[x]
  BY DEF MoveConstruct, MayUse, Free, IInv, TypeOK, RefsBalance
<1>1. CASE e = info[s]
  <2>1. Swaps(e, "info", s, "info", to)
    BY <1>0, <1>1, DeviceInfoAssumption DEF Swaps, Owns, Kinds, Things
  <2> QED
    BY <1>0, <2>1, SwapsCount
<1>2. CASE e # info[s]
  <2>1. Same(e)
    BY <1>0, <1>2, DeviceInfoAssumption DEF Same, Owns
  <2> QED
    BY <1>0, <2>1, SameCount
<1> QED
  BY <1>1, <1>2

LEMMA DestroyBalance ==
  ASSUME IInv, NEW th \in Threads, NEW s \in Slots, Destroy(th, s) PROVE RefsBalance'
<1> SUFFICES ASSUME NEW e \in Devs PROVE refs'[e] = Cardinality(Owners(e)')
  BY DEF RefsBalance
<1>0. /\ refs[e] = Cardinality(Owners(e)) /\ info[s] # None /\ info[s] \in Devs \cup {Null}
      /\ unref[th] = None /\ UNCHANGED <<plugged, refs, opened, array>>
      /\ \A x \in Slots : info'[x] = IF x = s THEN None ELSE info[x]
      /\ \A x \in Threads \cup {Hotplug} :
           unref'[x] = IF x = th THEN (IF info[s] \in Devs THEN info[s] ELSE None) ELSE unref[x]
  BY DEF Destroy, Deleting, MayUse, Ready, IInv, TypeOK, RefsBalance
<1>1. CASE e = info[s]
  <2>1. Swaps(e, "info", s, "unref", th)
    BY <1>0, <1>1, DeviceInfoAssumption DEF Swaps, Owns, Kinds, Things
  <2> QED
    BY <1>0, <2>1, SwapsCount
<1>2. CASE e # info[s]
  <2>1. Same(e)
    BY <1>0, <1>2, DeviceInfoAssumption DEF Same, Owns
  <2> QED
    BY <1>0, <2>1, SameCount
<1> QED
  BY <1>1, <1>2

LEMMA FreeDeviceBalance ==
  ASSUME IInv, NEW th \in Threads, NEW d \in Devs, FreeDevice(th, d) PROVE RefsBalance'
<1> SUFFICES ASSUME NEW e \in Devs PROVE refs'[e] = Cardinality(Owners(e)')
  BY DEF RefsBalance
<1>0. /\ refs[e] = Cardinality(Owners(e)) /\ d \in array[th]
      /\ unref[th] = None /\ UNCHANGED <<plugged, refs, opened, info>>
      /\ \A x \in Threads, y \in Devs : y \in array'[x] <=> y \in array[x] /\ ~(x = th /\ y = d)
      /\ th \in Threads \cup {Hotplug} /\ e \in Devs /\ d \in Devs
      /\ \A x \in Threads \cup {Hotplug} : unref'[x] = IF x = th THEN d ELSE unref[x]
  BY DEF FreeDevice, FreeDeviceList, Deleting, IInv, TypeOK, RefsBalance
<1>1. CASE e = d
  <2>1. Swaps(e, "list", th, "unref", th)
    BY <1>0, <1>1, DeviceInfoAssumption DEF Swaps, Owns, Kinds, Things
  <2> QED
    BY <1>0, <2>1, SwapsCount
<1>2. CASE e # d
  <2>1. Same(e)
    BY <1>0, <1>2, DeviceInfoAssumption DEF Same, Owns
  <2> QED
    BY <1>0, <2>1, SameCount
<1> QED
  BY <1>1, <1>2

LEMMA CloseBalance ==
  ASSUME IInv, NEW th \in Threads, NEW d \in Devs, Close(th, d) PROVE RefsBalance'
<1> SUFFICES ASSUME NEW e \in Devs PROVE refs'[e] = Cardinality(Owners(e)')
  BY DEF RefsBalance
<1>0. /\ refs[e] = Cardinality(Owners(e)) /\ d \in opened /\ opened' = opened \ {d}
      /\ unref[th] = None /\ UNCHANGED <<plugged, refs, array, info>>
      /\ \A x \in Threads \cup {Hotplug} : unref'[x] = IF x = th THEN d ELSE unref[x]
  BY DEF Close, Ready, Deleting, IInv, TypeOK, RefsBalance
<1>1. CASE e = d
  <2>1. Swaps(e, "handle", d, "unref", th)
    BY <1>0, <1>1, DeviceInfoAssumption DEF Swaps, Owns, Kinds, Things
  <2> QED
    BY <1>0, <2>1, SwapsCount
<1>2. CASE e # d
  <2>1. Same(e)
    BY <1>0, <1>2, DeviceInfoAssumption DEF Same, Owns
  <2> QED
    BY <1>0, <2>1, SameCount
<1> QED
  BY <1>1, <1>2

LEMMA UnplugBalance ==
  ASSUME IInv, NEW d \in Devs, Unplug(d) PROVE RefsBalance'
<1> SUFFICES ASSUME NEW e \in Devs PROVE refs'[e] = Cardinality(Owners(e)')
  BY DEF RefsBalance
<1>0. /\ refs[e] = Cardinality(Owners(e)) /\ d \in plugged /\ plugged' = plugged \ {d}
      /\ unref[Hotplug] = None /\ UNCHANGED <<opened, refs, array, info>>
      /\ \A x \in Threads \cup {Hotplug} : unref'[x] = IF x = Hotplug THEN d ELSE unref[x]
  BY DEF Unplug, Deleting, IInv, TypeOK, RefsBalance
<1>1. CASE e = d
  <2>1. Swaps(e, "libusb", d, "unref", Hotplug)
    BY <1>0, <1>1, DeviceInfoAssumption DEF Swaps, Owns, Kinds, Things
  <2> QED
    BY <1>0, <2>1, SwapsCount
<1>2. CASE e # d
  <2>1. Same(e)
    BY <1>0, <1>2, DeviceInfoAssumption DEF Same, Owns
  <2> QED
    BY <1>0, <2>1, SameCount
<1> QED
  BY <1>1, <1>2

LEMMA CopyAssignBalance ==
  ASSUME IInv, NEW th \in Threads, NEW s \in Slots, NEW to \in Slots, CopyAssign(th, s, to)
  PROVE  RefsBalance'
<1> SUFFICES ASSUME NEW e \in Devs PROVE refs'[e] = Cardinality(Owners(e)')
  BY DEF RefsBalance
<1> DEFINE d == info[s]
           o == info[to]
<1>0. /\ refs[e] = Cardinality(Owners(e)) /\ refs \in [Devs -> Nat] /\ unref[th] = None
      /\ d \in Devs /\ refs[d] > 0 /\ o \in Devs \cup {Null}
      /\ \A x \in Devs : refs'[x] = IF x = d THEN refs[x] + 1 ELSE refs[x]
      /\ \A x \in Slots : info'[x] = IF x = to THEN d ELSE info[x]
      /\ \A x \in Threads \cup {Hotplug} :
           unref'[x] = IF x = th THEN (IF o \in Devs THEN o ELSE None) ELSE unref[x]
      /\ UNCHANGED <<plugged, opened, array>>
  BY InfoIsAlive
     DEF CopyAssign, Acquire, Ref, Deleting, MayUse, Ready, IInv, TypeOK, RefsBalance
<1>c. \A x \in Devs : refs'[x] > 0 <=> refs[x] > 0
  BY <1>0
<1>1. CASE e = d /\ o = d
  <2>1. Gains(e, "unref", th)
    BY <1>0, <1>1, <1>c, DeviceInfoAssumption DEF Gains, Owns, Kinds, Things
  <2> QED
    BY <1>0, <1>1, <2>1, GainsCount
<1>2. CASE e = d /\ o # d
  <2>1. Gains(e, "info", to)
    BY <1>0, <1>2, <1>c, DeviceInfoAssumption DEF Gains, Owns, Kinds, Things
  <2> QED
    BY <1>0, <1>2, <2>1, GainsCount
<1>3. CASE e # d /\ e = o
  <2>1. Swaps(e, "info", to, "unref", th)
    BY <1>0, <1>3, <1>c, DeviceInfoAssumption DEF Swaps, Owns, Kinds, Things
  <2> QED
    BY <1>0, <1>3, <2>1, SwapsCount
<1>4. CASE e # d /\ e # o
  <2>1. Same(e)
    BY <1>0, <1>4, <1>c, DeviceInfoAssumption DEF Same, Owns
  <2> QED
    BY <1>0, <1>4, <2>1, SameCount
<1> QED
  BY <1>1, <1>2, <1>3, <1>4

LEMMA MoveAssignBalance ==
  ASSUME IInv, NEW th \in Threads, NEW s \in Slots, NEW to \in Slots, MoveAssign(th, s, to)
  PROVE  RefsBalance'
<1> SUFFICES ASSUME NEW e \in Devs PROVE refs'[e] = Cardinality(Owners(e)')
  BY DEF RefsBalance
<1> DEFINE d == info[s]
           o == IF s = to THEN Null ELSE info[to]
<1>0. /\ refs[e] = Cardinality(Owners(e)) /\ unref[th] = None
      /\ d \in Devs \cup {Null} /\ o \in Devs \cup {Null} /\ (s # to => o = info[to])
      /\ \A x \in Slots : info'[x] = IF x = to THEN d ELSE IF x = s THEN Null ELSE info[x]
      /\ \A x \in Threads \cup {Hotplug} :
           unref'[x] = IF x = th THEN (IF o \in Devs THEN o ELSE None) ELSE unref[x]
      /\ UNCHANGED <<plugged, refs, opened, array>>
  BY DEF MoveAssign, Deleting, MayUse, Ready, IInv, TypeOK, RefsBalance
<1>1. CASE e = d /\ e = o
  <2>1. Swaps(e, "info", s, "unref", th)
    BY <1>0, <1>1, DeviceInfoAssumption DEF Swaps, Owns, Kinds, Things
  <2> QED
    BY <1>0, <2>1, SwapsCount
<1>2. CASE e = d /\ e # o /\ s # to
  <2>1. Swaps(e, "info", s, "info", to)
    BY <1>0, <1>2, DeviceInfoAssumption DEF Swaps, Owns, Kinds, Things
  <2> QED
    BY <1>0, <2>1, SwapsCount
<1>3. CASE e # d /\ e = o
  <2>1. Swaps(e, "info", to, "unref", th)
    BY <1>0, <1>3, DeviceInfoAssumption DEF Swaps, Owns, Kinds, Things
  <2> QED
    BY <1>0, <2>1, SwapsCount
<1>4. CASE (e # d /\ e # o) \/ (e # o /\ s = to)
  <2>1. Same(e)
    BY <1>0, <1>4, DeviceInfoAssumption DEF Same, Owns
  <2> QED
    BY <1>0, <2>1, SameCount
<1> QED
  BY <1>1, <1>2, <1>3, <1>4

LEMMA OpenBalance ==
  ASSUME IInv, NEW th \in Threads, NEW s \in Slots, Open(th, s) PROVE RefsBalance'
<1> SUFFICES ASSUME NEW e \in Devs PROVE refs'[e] = Cardinality(Owners(e)')
  BY DEF RefsBalance
<1> DEFINE d == info[s]
<1>0. /\ refs[e] = Cardinality(Owners(e)) /\ refs \in [Devs -> Nat]
      /\ d \in Devs /\ d \notin opened /\ opened' = opened \cup {d} /\ refs[d] > 0
      /\ \A x \in Devs : refs'[x] = IF x = d THEN refs[x] + 1 ELSE refs[x]
      /\ UNCHANGED <<plugged, info, unref, array>>
  BY PluggedIsAlive DEF Open, Ref, IInv, TypeOK, RefsBalance
<1>c. \A x \in Devs : refs'[x] > 0 <=> refs[x] > 0
  BY <1>0
<1>1. CASE e = d
  <2>1. Gains(e, "handle", d)
    BY <1>0, <1>1, <1>c, DeviceInfoAssumption DEF Gains, Owns, Kinds, Things
  <2> QED
    BY <1>0, <1>1, <2>1, GainsCount
<1>2. CASE e # d
  <2>1. Same(e)
    BY <1>0, <1>2, <1>c, DeviceInfoAssumption DEF Same, Owns
  <2> QED
    BY <1>0, <1>2, <2>1, SameCount
<1> QED
  BY <1>1, <1>2

LEMMA GetDeviceListBalance ==
  ASSUME IInv, NEW th \in Threads, GetDeviceList(th) PROVE RefsBalance'
<1> SUFFICES ASSUME NEW e \in Devs PROVE refs'[e] = Cardinality(Owners(e)')
  BY DEF RefsBalance
<1>0. /\ refs[e] = Cardinality(Owners(e)) /\ refs \in [Devs -> Nat] /\ array[th] = {}
      /\ \A x \in plugged : refs[x] > 0
      /\ \A x \in Devs : refs'[x] = IF x \in plugged THEN refs[x] + 1 ELSE refs[x]
      /\ \A x \in Threads : array'[x] = IF x = th THEN plugged ELSE array[x]
      /\ UNCHANGED <<plugged, info, unref, opened>>
  BY PluggedIsAlive DEF GetDeviceList, Ready, Ref, IInv, TypeOK, CallInv, Holds, RefsBalance
<1>c. \A x \in Devs : refs'[x] > 0 <=> refs[x] > 0
  BY <1>0
<1>1. CASE e \in plugged
  <2>1. Gains(e, "list", th)
    BY <1>0, <1>1, <1>c, DeviceInfoAssumption DEF Gains, Owns, Kinds, Things
  <2> QED
    BY <1>0, <1>1, <2>1, GainsCount
<1>2. CASE e \notin plugged
  <2>1. Same(e)
    BY <1>0, <1>2, <1>c, DeviceInfoAssumption DEF Same, Owns
  <2> QED
    BY <1>0, <1>2, <2>1, SameCount
<1> QED
  BY <1>1, <1>2

LEMMA OthersBalance ==
  ASSUME RefsBalance, UNCHANGED <<plugged, refs, info, opened, unref, array>> PROVE RefsBalance'
<1>1. \A d \in Devs : Same(d)
  BY DEF Same, Owns
<1> QED
  BY <1>1, SameCount DEF RefsBalance

LEMMA NextBalance == IInv /\ [Next]_vars => RefsBalance'
<1> SUFFICES ASSUME IInv, [Next]_vars PROVE RefsBalance'
  OBVIOUS
<1>0. RefsBalance
  BY DEF IInv
<1>1. ASSUME NEW th \in Threads, ClientStep(th) PROVE RefsBalance'
  <2>1. ASSUME NEW s \in Slots, Query(th, s) \/ PortNumbers(th, s) PROVE RefsBalance'
    BY <1>0, <2>1, OthersBalance DEF Query, PortNumbers, Begin
  <2>2. ASSUME NEW s \in Slots, NEW to \in Slots, Parent(th, s, to) PROVE RefsBalance'
    BY <1>0, <2>2, OthersBalance DEF Parent, Begin
  <2> QED
    BY <1>1, <2>1, <2>2, GetDeviceListBalance, CloseBalance, DestroyBalance, OpenBalance,
       CopyConstructBalance, MoveConstructBalance, CopyAssignBalance, MoveAssignBalance
    DEF ClientStep
<1>2. ASSUME NEW th \in Threads, CallStep(th) \/ PortsThrow(th) PROVE RefsBalance'
  <2>1. CASE QueryReturns(th) \/ PortsOverflow(th) \/ PortsReturned(th) \/ PortsThrow(th)
    BY <1>0, <2>1, OthersBalance DEF QueryReturns, PortsOverflow, PortsReturned, PortsThrow, Begin
  <2>2. CASE Reserve(th) \/ ReserveThrows(th) \/ Transformed(th) \/ ListReturns(th)
    BY <1>0, <2>2, OthersBalance DEF Reserve, ReserveThrows, Transformed, ListReturns, Begin
  <2> QED
    BY <1>2, <2>1, <2>2, ConstructParentBalance, CopyHandleBalance, FreeDeviceBalance DEF CallStep
<1>3. CASE UNCHANGED vars
  BY <1>0, <1>3, OthersBalance DEF vars
<1> QED
  BY <1>1, <1>2, <1>3, UnrefBalance, PlugBalance, UnplugBalance DEF Next

-----------------------------------------------------------------------------
(* The values the variables take.                                          *)

LEMMA RefType ==
  ASSUME NEW D, refs \in [Devs -> Nat], Ref(D) PROVE refs' \in [Devs -> Nat]
BY DEF Ref

LEMMA DeletingType ==
  ASSUME NEW th, NEW p, unref \in [Threads \cup {Hotplug} -> Devs \cup {None}], Deleting(th, p)
  PROVE  unref' \in [Threads \cup {Hotplug} -> Devs \cup {None}]
BY DEF Deleting

Calls == [pc : {"idle", "query", "parent", "ports", "reserve", "copy", "free"},
          slot : Slots \cup {None}, dev : Devs \cup {None},
          to : Slots \cup {None}, todo : SUBSET Devs, size : Nat]

LEMMA BeginType ==
  ASSUME TypeOK, NEW th \in Threads, NEW c \in Calls, Begin(th, c) PROVE TypeOK'
BY DEF Begin, TypeOK, Calls

LEMMA NextType == IInv /\ [Next]_vars => TypeOK'
<1> SUFFICES ASSUME IInv, [Next]_vars PROVE TypeOK'
  OBVIOUS
<1>0. TypeOK
  BY DEF IInv
<1> USE DeviceInfoAssumption
<1> USE DEF TypeOK
<1>n. NoCall \in Calls
  BY <1>0 DEF NoCall, Calls
<1>1. ASSUME NEW th \in Threads, ClientStep(th) PROVE TypeOK'
  <2>1. CASE GetDeviceList(th)
    <3>1. [NoCall EXCEPT !.pc = "reserve", !.todo = plugged] \in Calls
      BY <1>0 DEF NoCall, Calls
    <3> QED
      BY <1>0, <2>1, <3>1, RefType DEF GetDeviceList, Calls
  <2>2. ASSUME NEW d \in Devs, Close(th, d) PROVE TypeOK'
    BY <1>0, <2>2, DeletingType DEF Close
  <2>3. ASSUME NEW s \in Slots, Destroy(th, s) PROVE TypeOK'
    BY <1>0, <2>3, DeletingType DEF Destroy
  <2>4. ASSUME NEW s \in Slots, Open(th, s) PROVE TypeOK'
    BY <1>0, <2>4, RefType DEF Open
  <2>5. ASSUME NEW s \in Slots, Query(th, s) PROVE TypeOK'
    <3>1. [NoCall EXCEPT !.pc = "query", !.slot = s, !.dev = info[s]] \in Calls
      BY <1>0, <2>5 DEF NoCall, Calls, Query, MayUse
    <3> QED
      BY <1>0, <2>5, <3>1, BeginType DEF Query
  <2>6. ASSUME NEW s \in Slots, PortNumbers(th, s) PROVE TypeOK'
    <3>1. [NoCall EXCEPT !.pc = "ports", !.slot = s, !.dev = info[s], !.size = max_depth] \in Calls
      BY <1>0, <2>6 DEF NoCall, Calls, PortNumbers, MayUse
    <3> QED
      BY <1>0, <2>6, <3>1, BeginType DEF PortNumbers
  <2>7. ASSUME NEW s \in Slots, NEW to \in Slots, Parent(th, s, to) PROVE TypeOK'
    <3>1. [NoCall EXCEPT !.pc = "parent", !.slot = s, !.dev = ParentOf[info[s]], !.to = to] \in Calls
      BY <1>0, <2>7 DEF NoCall, Calls, Parent, MayUse
    <3> QED
      BY <1>0, <2>7, <3>1, BeginType DEF Parent
  <2>8. ASSUME NEW s \in Slots, NEW to \in Slots, CopyConstruct(th, s, to) PROVE TypeOK'
    BY <1>0, <2>8, RefType DEF CopyConstruct, Acquire, MayUse
  <2>9. ASSUME NEW s \in Slots, NEW to \in Slots, MoveConstruct(th, s, to) PROVE TypeOK'
    BY <1>0, <2>9 DEF MoveConstruct
  <2>10. ASSUME NEW s \in Slots, NEW to \in Slots, CopyAssign(th, s, to) PROVE TypeOK'
    BY <1>0, <2>10, RefType, DeletingType DEF CopyAssign, Acquire, MayUse
  <2>11. ASSUME NEW s \in Slots, NEW to \in Slots, MoveAssign(th, s, to) PROVE TypeOK'
    BY <1>0, <2>11, DeletingType DEF MoveAssign
  <2> QED
    BY <1>1, <2>1, <2>2, <2>3, <2>4, <2>5, <2>6, <2>7, <2>8, <2>9, <2>10, <2>11 DEF ClientStep
<1>2. ASSUME NEW th \in Threads, CallStep(th) \/ PortsThrow(th) PROVE TypeOK'
  <2>1. CASE QueryReturns(th) \/ PortsReturned(th) \/ PortsThrow(th)
    BY <1>0, <1>n, <2>1, BeginType DEF QueryReturns, PortsReturned, PortsThrow
  <2>2. CASE ConstructParent(th)
    <3>1. call[th].dev \in Devs /\ call[th].to \in Slots
      BY <2>2 DEF ConstructParent, IInv, CallInv, Holds
    <3> QED
      BY <1>0, <1>n, <2>2, <3>1, RefType DEF ConstructParent, Acquire, Calls
  <2>3. CASE PortsOverflow(th)
    <3>1. [call[th] EXCEPT !.size = Resized(@)] \in Calls
      BY <1>0 DEF Calls, Resized
    <3> QED
      BY <1>0, <2>3, <3>1, BeginType DEF PortsOverflow
  <2>4. CASE Reserve(th)
    <3>1. [call[th] EXCEPT !.pc = "copy"] \in Calls
      BY <1>0 DEF Calls
    <3>2. call' \in [Threads -> Calls]
      BY <1>0, <2>4, <3>1 DEF Reserve, Calls
    <3>3. room' \in [Threads -> SUBSET Slots]
      BY <1>0, <2>4 DEF Reserve
    <3> QED
      BY <1>0, <2>4, <3>2, <3>3 DEF Reserve, Calls
  <2>5. CASE ReserveThrows(th) \/ Transformed(th)
    <3>1. [NoCall EXCEPT !.pc = "free"] \in Calls
      BY <1>0 DEF NoCall, Calls
    <3> QED
      BY <1>0, <2>5, <3>1, BeginType DEF ReserveThrows, Transformed
  <2>6. CASE ListReturns(th)
    BY <1>0, <1>n, <2>6 DEF ListReturns, Calls
  <2>7. ASSUME NEW d \in Devs, CopyHandle(th, d) PROVE TypeOK'
    <3>1. [call[th] EXCEPT !.todo = @ \ {d}] \in Calls
      BY <1>0 DEF Calls
    <3>2. call' \in [Threads -> Calls]
      BY <1>0, <2>7, <3>1 DEF CopyHandle, Calls
    <3>3. info' \in [Slots -> Devs \cup {Null, None}]
      BY <1>0, <2>7 DEF CopyHandle
    <3> QED
      BY <1>0, <2>7, <3>2, <3>3, RefType DEF CopyHandle, Acquire, Calls
  <2>8. ASSUME NEW d \in Devs, FreeDevice(th, d) PROVE TypeOK'
    BY <1>0, <2>8, DeletingType DEF FreeDevice, FreeDeviceList
  <2> QED
    BY <1>2, <2>1, <2>2, <2>3, <2>4, <2>5, <2>6, <2>7, <2>8 DEF CallStep
<1>3. ASSUME NEW th \in Threads \cup {Hotplug}, Unref(th) PROVE TypeOK'
  <2>1. unref[th] \in Devs /\ refs[unref[th]] > 0
    BY <1>0, <1>3, UnrefIsAlive DEF Unref
  <2> QED
    BY <1>0, <1>3, <2>1, DeviceInfoAssumption DEF Unref
<1>4. ASSUME NEW d \in Devs, Plug(d) \/ Unplug(d) PROVE TypeOK'
  BY <1>0, <1>4, RefType, DeletingType DEF Plug, Unplug
<1>5. CASE UNCHANGED vars
  BY <1>0, <1>5 DEF vars
<1> QED
  BY <1>1, <1>2, <1>3, <1>4, <1>5 DEF Next

-----------------------------------------------------------------------------
(* The objects that a call uses or is going to make are left alone.        *)

LEMMA ReservedHas ==
  ASSUME NEW th \in Threads PROVE call[th].to \in Reserved /\ room[th] \subseteq Reserved
BY DEF Reserved

LEMMA LeftAlone ==
  ASSUME CallInv, UNCHANGED <<call, room, array>>,
         \A s \in Slots : InUse(s) /\ info[s] # None => info'[s] = info[s],
         \A s \in Slots : s \in Reserved => info'[s] = info[s]
  PROVE  CallInv'
<1> SUFFICES ASSUME NEW th \in Threads, NEW other \in Threads PROVE Holds(th)' /\ Apart(th, other)'
  BY DEF CallInv
<1>1. call[th].slot \in Slots /\ info[call[th].slot] # None => info'[call[th].slot] = info[call[th].slot]
  BY DEF InUse
<1>2. call[th].to \in Reserved
  BY ReservedHas
<1>3. Holds(th) /\ Apart(th, other)
  BY DEF CallInv
<1> QED
  BY <1>1, <1>2, <1>3, DeviceInfoAssumption DEF Holds, Apart

LEMMA FreeIsApart ==
  ASSUME NEW s, Free(s), NEW th \in Threads
  PROVE  info[s] = None /\ s \notin room[th] /\ call[th].to # s
BY ReservedHas DEF Free

(* A call begins, goes on or returns: the others are not concerned.        *)
LEMMA Others ==
  ASSUME CallInv, NEW th \in Threads, NEW c, call' = [call EXCEPT ![th] = c], TypeOK,
         UNCHANGED <<info, room>>, \A x \in Threads : x # th => array'[x] = array[x],
         c.pc # "parent", c.to = None, Holds(th)'
  PROVE  CallInv'
<1> SUFFICES ASSUME NEW x \in Threads, NEW y \in Threads PROVE Holds(x)' /\ Apart(x, y)'
  BY DEF CallInv
<1>0. DOMAIN call = Threads
  BY DEF TypeOK
<1>1. CASE x = th
  BY <1>0, <1>1 DEF Apart
<1>2. CASE x # th
  <2>1. Holds(x) /\ Apart(x, y)
    BY DEF CallInv
  <2>2. call'[x] = call[x] /\ array'[x] = array[x] /\ (call'[y] = call[y] \/ call'[y].to = None)
    BY <1>0, <1>2
  <2>3. Holds(x)'
    BY <2>1, <2>2 DEF Holds
  <2>4. Apart(x, y)'
    BY <2>1, <2>2, <2>3, DeviceInfoAssumption DEF Apart, Holds
  <2> QED
    BY <2>3, <2>4
<1> QED
  BY <1>1, <1>2

LEMMA NextCallInv == IInv /\ [Next]_vars => CallInv'
<1> SUFFICES ASSUME IInv, [Next]_vars PROVE CallInv'
  OBVIOUS
<1>0. TypeOK /\ CallInv
  BY DEF IInv
<1>h. \A th \in Threads : Holds(th)
  BY <1>0 DEF CallInv
<1> USE DeviceInfoAssumption DEF TypeOK
<1>1. ASSUME NEW th \in Threads, ClientStep(th) PROVE CallInv'
  <2>1. CASE GetDeviceList(th)
    <3>1. Holds(th)'
      BY <1>0, <2>1 DEF GetDeviceList, Holds, NoCall
    <3> DEFINE c == [NoCall EXCEPT !.pc = "reserve", !.todo = plugged]
    <3>2. c.pc # "parent" /\ c.to = None
      BY DEF NoCall
    <3>3. /\ call' = [call EXCEPT ![th] = c] /\ UNCHANGED <<info, room>>
          /\ \A x \in Threads : x # th => array'[x] = array[x]
      BY <1>0, <2>1 DEF GetDeviceList
    <3> HIDE DEF c
    <3> QED
      BY <1>0, <3>1, <3>2, <3>3, Others
  <2>2. ASSUME NEW d \in Devs, Close(th, d) PROVE CallInv'
    BY <1>0, <2>2, LeftAlone DEF Close
  <2>3. ASSUME NEW s \in Slots, Destroy(th, s) PROVE CallInv'
    BY <1>0, <2>3, LeftAlone DEF Destroy, MayUse, InUse
  <2>4. ASSUME NEW s \in Slots, Open(th, s) PROVE CallInv'
    BY <1>0, <2>4, LeftAlone DEF Open
  <2>5. ASSUME NEW s \in Slots, Query(th, s) PROVE CallInv'
    <3>1. Holds(th)'
      BY <1>0, <1>h, <2>5 DEF Query, Begin, MayUse, Ready, Holds, NoCall
    <3> DEFINE c == [NoCall EXCEPT !.pc = "query", !.slot = s, !.dev = info[s]]
    <3>2. c.pc # "parent" /\ c.to = None
      BY DEF NoCall
    <3>3. call' = [call EXCEPT ![th] = c] /\ UNCHANGED <<info, room, array>>
      BY <2>5 DEF Query, Begin
    <3> HIDE DEF c
    <3> QED
      BY <1>0, <3>1, <3>2, <3>3, Others
  <2>6. ASSUME NEW s \in Slots, PortNumbers(th, s) PROVE CallInv'
    <3>1. Holds(th)'
      BY <1>0, <1>h, <2>6 DEF PortNumbers, Begin, MayUse, Ready, Holds, NoCall
    <3> DEFINE c == [NoCall EXCEPT !.pc = "ports", !.slot = s, !.dev = info[s], !.size = max_depth]
    <3>2. c.pc # "parent" /\ c.to = None
      BY DEF NoCall
    <3>3. call' = [call EXCEPT ![th] = c] /\ UNCHANGED <<info, room, array>>
      BY <2>6 DEF PortNumbers, Begin
    <3> HIDE DEF c
    <3> QED
      BY <1>0, <3>1, <3>2, <3>3, Others
  <2>7. ASSUME NEW s \in Slots, NEW to \in Slots, Parent(th, s, to) PROVE CallInv'
    <3>1. /\ \A other \in Threads : to \notin room[other] /\ call[other].to # to
          /\ info[to] = None
      BY <2>7, FreeIsApart DEF Parent
    <3>2. info[s] \in Devs /\ ParentOf[info[s]] \in Devs /\ array[th] = {} /\ to # None
      BY <1>0, <1>h, <2>7 DEF Parent, MayUse, Ready, Holds
    <3>3. /\ \A x \in Threads : call'[x] = IF x = th
                THEN [NoCall EXCEPT !.pc = "parent", !.slot = s, !.dev = ParentOf[info[s]], !.to = to]
                ELSE call[x]
          /\ UNCHANGED <<info, array, room>>
      BY <1>0, <2>7 DEF Parent, Begin
    <3>4. ASSUME NEW x \in Threads PROVE Holds(x)'
      <4>1. CASE x = th
        <5>1. /\ call'[x].pc = "parent" /\ call'[x].slot = s /\ call'[x].dev = ParentOf[info[s]]
              /\ call'[x].to = to
          BY <3>3, <4>1 DEF NoCall
        <5> QED
          BY <3>1, <3>2, <3>3, <4>1, <5>1 DEF Holds
      <4>2. CASE x # th
        <5>1. Holds(x) /\ call'[x] = call[x] /\ array'[x] = array[x] /\ info' = info
          BY <1>h, <3>3, <4>2
        <5> QED
          BY <5>1 DEF Holds
      <4> QED
        BY <4>1, <4>2
    <3>5. ASSUME NEW x \in Threads, NEW y \in Threads PROVE Apart(x, y)'
      <4>1. Apart(x, y)
        BY <1>0 DEF CallInv
      <4> QED
        <5>1. call'[th].to = to /\ to # None
          BY <3>2, <3>3 DEF NoCall
        <5>2. \A z \in Threads : z # th => call'[z] = call[z]
          BY <3>3
        <5> QED
          BY <3>1, <3>3, <4>1, <5>1, <5>2 DEF Apart
    <3> QED
      BY <3>4, <3>5 DEF CallInv
  <2>8. ASSUME NEW s \in Slots, NEW to \in Slots, CopyConstruct(th, s, to) PROVE CallInv'
    BY <1>0, <2>8, LeftAlone DEF CopyConstruct, Free
  <2>9. ASSUME NEW s \in Slots, NEW to \in Slots, MoveConstruct(th, s, to) PROVE CallInv'
    BY <1>0, <2>9, LeftAlone DEF MoveConstruct, MayUse, Free, InUse
  <2>10. ASSUME NEW s \in Slots, NEW to \in Slots, CopyAssign(th, s, to) \/ MoveAssign(th, s, to)
         PROVE CallInv'
    BY <1>0, <2>10, LeftAlone DEF CopyAssign, MoveAssign, MayUse, InUse
  <2> QED
    BY <1>1, <2>1, <2>2, <2>3, <2>4, <2>5, <2>6, <2>7, <2>8, <2>9, <2>10 DEF ClientStep
<1>2. ASSUME NEW th \in Threads, CallStep(th) \/ PortsThrow(th) PROVE CallInv'
  <2>1. CASE QueryReturns(th) \/ PortsReturned(th) \/ PortsThrow(th)
    <3>1. Holds(th)'
      BY <1>0, <1>h, <2>1 DEF QueryReturns, PortsReturned, PortsThrow, Begin, Holds, NoCall
    <3> QED
      BY <1>0, <2>1, <3>1, Others DEF QueryReturns, PortsReturned, PortsThrow, Begin, NoCall
  <2>2. CASE ConstructParent(th)
    <3>1. /\ \A x \in Threads : call'[x] = IF x = th THEN NoCall ELSE call[x]
          /\ \A s \in Slots : info'[s] = IF s = call[th].to THEN call[th].dev ELSE info[s]
          /\ UNCHANGED <<array, room>> /\ call[th].pc = "parent"
      BY <1>0, <2>2 DEF ConstructParent
    <3>2. ASSUME NEW x \in Threads PROVE Holds(x)'
      <4>1. Apart(x, th)
        BY <1>0 DEF CallInv
      <4> QED
        BY <1>h, <3>1, <4>1 DEF Holds, Apart, NoCall
    <3>3. ASSUME NEW x \in Threads, NEW y \in Threads PROVE Apart(x, y)'
      <4>1. Apart(x, y) /\ Holds(x)
        BY <1>0, <1>h DEF CallInv
      <4> QED
        BY <3>1, <4>1 DEF Apart, Holds, NoCall
    <3> QED
      BY <3>2, <3>3 DEF CallInv
  <2>3. CASE PortsOverflow(th)
    <3>1. /\ \A x \in Threads : /\ call'[x].pc = call[x].pc /\ call'[x].slot = call[x].slot
                                /\ call'[x].dev = call[x].dev /\ call'[x].to = call[x].to
                                /\ call'[x].todo = call[x].todo
          /\ UNCHANGED <<info, array, room>>
      BY <1>0, <2>3 DEF PortsOverflow, Begin
    <3> QED
      BY <1>0, <3>1 DEF CallInv, Holds, Apart
  <2>4. CASE Reserve(th)
    <3>1. PICK R \in SUBSET {s \in Slots : Free(s)} : room' = [room EXCEPT ![th] = R]
      BY <2>4 DEF Reserve
    <3>2. \A x \in Threads : call[x].to \notin R
      BY FreeIsApart
    <3>3. /\ \A x \in Threads : call'[x] = IF x = th THEN [call[x] EXCEPT !.pc = "copy"] ELSE call[x]
          /\ UNCHANGED <<info, array>> /\ call[th].pc = "reserve"
      BY <1>0, <2>4 DEF Reserve
    <3>4. ASSUME NEW x \in Threads PROVE Holds(x)'
      <4>1. CASE x = th
        <5>1. call'[x].pc = "copy" /\ call'[x].todo = call[x].todo /\ call'[x].dev = call[x].dev
          BY <1>0, <3>3, <4>1
        <5> QED
          BY <1>h, <3>3, <4>1, <5>1 DEF Holds
      <4>2. CASE x # th
        <5>1. Holds(x) /\ call'[x] = call[x] /\ array' = array /\ info' = info
          BY <1>h, <3>3, <4>2
        <5> QED
          BY <5>1 DEF Holds
      <4> QED
        BY <4>1, <4>2
    <3>5. ASSUME NEW x \in Threads, NEW y \in Threads PROVE Apart(x, y)'
      <4>1. Apart(x, y)
        BY <1>0 DEF CallInv
      <4>2. room'[y] = room[y] \/ room'[y] = R
        BY <1>0, <3>1
      <4> QED
        BY <1>0, <3>2, <3>3, <4>1, <4>2 DEF Apart
    <3> QED
      BY <3>4, <3>5 DEF CallInv
  <2>5. CASE ReserveThrows(th) \/ Transformed(th)
    <3>1. Holds(th)'
      BY <1>0, <2>5 DEF ReserveThrows, Transformed, Begin, Holds, NoCall
    <3> QED
      BY <1>0, <2>5, <3>1, Others DEF ReserveThrows, Transformed, Begin, NoCall
  <2>6. CASE ListReturns(th)
    <3>1. /\ \A x \in Threads : /\ call'[x] = IF x = th THEN NoCall ELSE call[x]
                                /\ room'[x] \subseteq room[x]
          /\ UNCHANGED <<info, array>> /\ array[th] = {}
      BY <1>0, <2>6 DEF ListReturns
    <3>2. ASSUME NEW x \in Threads PROVE Holds(x)'
      BY <1>h, <3>1 DEF Holds, NoCall
    <3>3. ASSUME NEW x \in Threads, NEW y \in Threads PROVE Apart(x, y)'
      <4>1. Apart(x, y) /\ Holds(x)
        BY <1>0, <1>h DEF CallInv
      <4> QED
        BY <3>1, <4>1 DEF Apart, Holds, NoCall
    <3> QED
      BY <3>2, <3>3 DEF CallInv
  <2>7. ASSUME NEW d \in Devs, CopyHandle(th, d) PROVE CallInv'
    <3>1. PICK s \in room[th] : info[s] = None /\ info' = [info EXCEPT ![s] = d]
      BY <2>7 DEF CopyHandle
    <3>2. /\ \A x \in Slots : info'[x] = IF x = s THEN d ELSE info[x]
          /\ \A x \in Threads : call'[x] = IF x = th THEN [call[x] EXCEPT !.todo = @ \ {d}] ELSE call[x]
          /\ UNCHANGED <<array, room>> /\ call[th].pc = "copy"
      BY <1>0, <2>7, <3>1 DEF CopyHandle
    <3>3. ASSUME NEW x \in Threads PROVE Holds(x)'
      <4>1. Apart(x, th)
        BY <1>0 DEF CallInv
      <4>2. call[x].pc = "parent" => call[x].to # s
        BY <3>1, <4>1 DEF Apart
      <4>3. CASE x = th
        <5>1. call'[th].pc = "copy" /\ call'[th].todo = call[th].todo \ {d} /\ call'[th].dev = call[th].dev
          BY <1>0, <3>2
        <5> QED
          BY <1>h, <3>2, <4>3, <5>1 DEF Holds
      <4>4. CASE x # th
        <5>1. Holds(x) /\ call'[x] = call[x] /\ array' = array
          BY <1>h, <3>2, <4>4
        <5>2. \A y \in Slots : y # s => info'[y] = info[y]
          BY <3>2
        <5>3. info[s] = None /\ None \notin Devs
          BY <3>1
        <5> QED
          BY <4>2, <5>1, <5>2, <5>3 DEF Holds
      <4> QED
        BY <4>3, <4>4
    <3>4. ASSUME NEW x \in Threads, NEW y \in Threads PROVE Apart(x, y)'
      <4>1. Apart(x, y)
        BY <1>0 DEF CallInv
      <4> QED
        BY <1>0, <3>2, <4>1 DEF Apart
    <3> QED
      BY <3>3, <3>4 DEF CallInv
  <2>8. ASSUME NEW d \in Devs, FreeDevice(th, d) PROVE CallInv'
    <3>1. /\ \A x \in Threads : array'[x] = array[x] \/ (x = th /\ call[x].pc = "free")
          /\ UNCHANGED <<info, call, room>>
      BY <1>0, <2>8 DEF FreeDevice
    <3> QED
      BY <1>0, <3>1 DEF CallInv, Holds, Apart
  <2> QED
    BY <1>2, <2>1, <2>2, <2>3, <2>4, <2>5, <2>6, <2>7, <2>8 DEF CallStep
<1>3. ASSUME NEW th \in Threads \cup {Hotplug}, Unref(th) PROVE CallInv'
  BY <1>0, <1>3, LeftAlone DEF Unref
<1>4. ASSUME NEW d \in Devs, Plug(d) \/ Unplug(d) PROVE CallInv'
  BY <1>0, <1>4, LeftAlone DEF Plug, Unplug
<1>5. CASE UNCHANGED vars
  BY <1>0, <1>5, LeftAlone DEF vars
<1> QED
  BY <1>1, <1>2, <1>3, <1>4, <1>5 DEF Next

-----------------------------------------------------------------------------
(* The theorems.                                                           *)

THEOREM Invariance == Spec => []IInv
<1>1. IInv /\ [Next]_vars => IInv'
  BY NextType, NextCallInv, NextBalance DEF IInv
<1> QED
  BY <1>1, InitIInv, PTL DEF Spec, Safety

(* Every variable keeps its type: no count of references falls below 0.    *)
THEOREM TypeCorrect == Spec => []TypeOK
<1>1. IInv => TypeOK
  BY DEF IInv
<1> QED
  BY <1>1, Invariance, PTL

(* libusb's counts are those of the owners, through every copy, move, list *)
(* that throws half-way, unplugging and freeing.                           *)
THEOREM RefsBalanceCorrect == Spec => []RefsBalance
<1>1. IInv => RefsBalance
  BY DEF IInv
<1> QED
  BY <1>1, Invariance, PTL

(* No thread hands libusb a device that has been freed, not even the one   *)
(* that holds libusb_get_parent's pointer, which is no reference.          *)
THEOREM HandedIsAliveCorrect == Spec => []HandedIsAlive
<1>1. IInv => HandedIsAlive
  <2> SUFFICES ASSUME IInv, NEW d \in Handed \cap Devs PROVE refs[d] > 0
    BY DEF HandedIsAlive
  <2>1. CASE \E s \in Slots : info[s] = d
    BY <2>1, InfoIsAlive
  <2>2. CASE d \in opened
    <3>1. Owns("handle", d, d) /\ "handle" \in Kinds /\ d \in Things
      BY <2>2 DEF Owns, Kinds, Things
    <3> QED
      BY <3>1, OwnedIsAlive DEF IInv
  <2>3. CASE \E th \in Threads : d \in array[th]
    BY <2>3, ListedIsAlive
  <2>4. CASE \E th \in Threads : unref[th] = d
    BY <2>4, UnrefIsAlive
  <2>5. CASE \E th \in Threads : call[th].dev = d
    <3>1. PICK th \in Threads : call[th].dev = d
      BY <2>5
    <3>2. Holds(th) /\ TypeOK
      BY DEF IInv, CallInv
    <3>3. CASE call[th].pc = "parent"
      BY <3>1, <3>3, ParentIsAlive
    <3>4. CASE call[th].pc \in {"query", "ports"}
      BY <3>1, <3>2, <3>4, InfoIsAlive DEF Holds
    <3>5. call[th].pc \in {"query", "ports", "parent"}
      BY <3>1, <3>2, DeviceInfoAssumption DEF Holds
    <3> QED
      BY <3>3, <3>4, <3>5
  <2> QED
    BY <2>1, <2>2, <2>3, <2>4, <2>5 DEF Handed
<1> QED
  BY <1>1, Invariance, PTL
=============================================================================
