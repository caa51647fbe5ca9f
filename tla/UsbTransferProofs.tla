------------------------- MODULE UsbTransferProofs -------------------------
(***************************************************************************)
(* Safety of UsbTransfer, for any transfers and operations.                *)
(*                                                                         *)
(* OpInv holds for both kinds of client and is about operations: at most   *)
(* one per transfer is unfinished, and it is the one libusb has, the one   *)
(* the callback completes, or the one async_submit_impl is busy with.      *)
(*                                                                         *)
(* HandlingInv is about completion_context::handler.  It is inductive for  *)
(* a client that leaves a transfer alone until the callback of that        *)
(* transfer has returned (ClientStepAway).  The last part shows that a     *)
(* quiescent client does; how another program knows that a callback has    *)
(* returned is that program's matter, see UsbSystemProofs.                 *)
(***************************************************************************)
EXTENDS UsbTransfer, SequenceTheorems, SequenceLemmas, TLAPS

Pending == initiated \ (Range(queue) \cup invoked)
Unfinished == called \ invoked

(* libusb has the transfer, or its callback has not yet posted the handler. *)
InFlight(t) == lib[t] # "idle" \/ (evt.pc = "post" /\ evt.t = t)

Called ==
  /\ Range(queue) \cup invoked \subseteq initiated
  /\ initiated \subseteq called
  /\ IsInjective(queue)
  /\ Range(queue) \cap invoked = {}

OneUnfinished ==
  \A a, b \in Unfinished : TransferOf[a] = TransferOf[b] => a = b

UnfinishedAlive ==
  \A o \in Unfinished : buffer[TransferOf[o]] = o /\ life[TransferOf[o]] = "alive"

FlightPending ==
  /\ evt.pc = "post" => lib[evt.t] = "idle"
  /\ \A t \in Transfers : InFlight(t) =>
       /\ wire[t] \in Pending
       /\ TransferOf[wire[t]] = t
       /\ handler[t] \in {None, wire[t]}

InitiationQuiet ==
  /\ \A o \in called \ initiated : ~InFlight(TransferOf[o])
  /\ app # AppIdle => ~InFlight(TransferOf[app.op])
  /\ app.pc \in {"assign", "submit", "post"} => app.op \in Pending
  /\ app.pc \in {"submit", "post"} => handler[TransferOf[app.op]] \in {None, app.op}
  /\ app.pc \in {"reset", "delete"} => app.op \in Range(queue)

OpInv ==
  /\ TypeOK
  /\ Called
  /\ OneUnfinished
  /\ UnfinishedAlive
  /\ FlightPending
  /\ InitiationQuiet
  /\ OwnResults

-----------------------------------------------------------------------------
(* What the types say of the two threads.                                  *)
LEMMA ThreadTypes ==
  ASSUME TypeOK
  PROVE  /\ app = AppIdle <=> app.pc = "idle"
         /\ app # AppIdle => app.op \in Ops /\ TransferOf[app.op] \in Transfers
         /\ app.old \in Ops \cup {None}
         /\ app.pc \in {"idle", "assign", "submit", "post", "reset", "delete"}
         /\ evt = EvtIdle <=> evt.pc = "idle"
         /\ evt # EvtIdle => evt.t \in Transfers /\ evt.status \in Status
         /\ evt = EvtIdle => evt.t = None
         /\ evt.old \in Ops \cup {None}
         /\ evt.pc \in {"idle", "post", "reset", "delete"}
BY ConstantsAssumption DEF TypeOK, AppIdle, EvtIdle

(* A handler that is posted is appended to the queue.                      *)
LEMMA PostTypes ==
  ASSUME TypeOK, NEW t \in Transfers, NEW ec \in Status \cup {"rejected"},
         handler[t] # None, PostHandler(t, ec)
  PROVE  /\ queue' \in Seq(Ops)
         /\ result' \in [Ops -> Status \cup {"rejected", None}]
         /\ handler[t] \in Ops
         /\ Range(queue') = Range(queue) \cup {handler[t]}
<1>1. handler[t] \in Ops
  BY DEF TypeOK
<1> QED
  BY <1>1, AppendProperties, RangeAppend DEF TypeOK, PostHandler

(* Deleting a handler keeps the types.                                     *)
LEMMA DeleteTypes ==
  ASSUME TypeOK, NEW o \in Ops \cup {None}, Delete(o)
  PROVE  /\ freed' \subseteq Ops
         /\ fault' \in {fault, "double_delete"}
BY DEF TypeOK, Delete

(* Every step keeps the types.                                             *)
LEMMA TypeStep ==
  ASSUME TypeOK, [Next]_vars
  PROVE  TypeOK'
<1>0. /\ TransferOf \in [Ops -> Transfers] /\ None \notin Ops /\ None \notin Transfers
  BY ConstantsAssumption
<1>1. ASSUME NEW t \in Transfers, Construct(t)
      PROVE  TypeOK'
  BY <1>1 DEF TypeOK, Construct, objVars, opVars
<1>2. ASSUME NEW o \in Ops, Call(o)
      PROVE  TypeOK'
  BY <1>0, <1>2 DEF TypeOK, Call
<1>3. ASSUME NEW t \in Transfers, Destroy(t)
      PROVE  TypeOK'
  <2>1. freed' \subseteq Ops /\ fault' \in {fault, "double_delete"}
    BY <1>3, DeleteTypes DEF Destroy, TypeOK
  <2> QED
    BY <1>3, <2>1 DEF TypeOK, Destroy, opVars
<1>4. ASSUME NEW t \in Transfers, Cancel(t)
      PROVE  TypeOK'
  BY <1>4 DEF TypeOK, Cancel, opVars
<1>5. ASSUME NEW o \in Ops, Initiate(o)
      PROVE  TypeOK'
  <2>1. app' \in [pc : {"assign", "submit", "post", "reset", "delete"}, op : Ops, old : Ops \cup {None}]
    BY <1>0, <1>5 DEF TypeOK, Initiate
  <2> QED
    BY <1>5, <2>1 DEF TypeOK, Initiate, objVars
<1>6. CASE AssignHandler
  <2>1. app # AppIdle /\ app.op \in Ops /\ app.old \in Ops \cup {None}
    BY <1>6, ThreadTypes DEF AssignHandler
  <2>2. freed' \subseteq Ops /\ fault' \in {fault, "double_delete"}
    BY <1>6, <2>1, DeleteTypes DEF AssignHandler
  <2>3. app' \in [pc : {"assign", "submit", "post", "reset", "delete"}, op : Ops, old : Ops \cup {None}]
    BY <1>6, <2>1 DEF TypeOK, AssignHandler
  <2> QED
    BY <1>0, <1>6, <2>1, <2>2, <2>3 DEF TypeOK, AssignHandler, opVars
<1>7. CASE Submit
  <2>1. app.op \in Ops
    BY <1>7, ThreadTypes DEF Submit
  <2> QED
    BY <1>0, <1>7, <2>1 DEF TypeOK, Submit, opVars
<1>8. CASE SubmitFails \/ ErrorReset
  <2>1. app # AppIdle /\ app.op \in Ops
    BY <1>8, ThreadTypes DEF SubmitFails, ErrorReset
  <2>2. app' \in [pc : {"assign", "submit", "post", "reset", "delete"}, op : Ops, old : Ops \cup {None}]
    BY <1>0, <1>8, <2>1 DEF TypeOK, SubmitFails, ErrorReset
  <2> QED
    BY <1>8, <2>2 DEF TypeOK, SubmitFails, ErrorReset, objVars, opVars
<1>9. CASE PostError
  <2>1. app # AppIdle /\ app.op \in Ops /\ TransferOf[app.op] \in Transfers
    BY <1>9, ThreadTypes DEF PostError
  <2>2. queue' \in Seq(Ops) /\ result' \in [Ops -> Status \cup {"rejected", None}]
    BY <1>9, <2>1, PostTypes DEF PostError
  <2>3. app' \in [pc : {"assign", "submit", "post", "reset", "delete"}, op : Ops, old : Ops \cup {None}]
    BY <1>9, <2>1 DEF TypeOK, PostError
  <2> QED
    BY <1>9, <2>2, <2>3 DEF TypeOK, PostError, objVars
<1>10. CASE ErrorDelete
  <2>1. app.op \in Ops /\ app.old \in Ops \cup {None}
    BY <1>10, ThreadTypes DEF ErrorDelete
  <2>2. freed' \subseteq Ops /\ fault' \in {fault, "double_delete"}
    BY <1>10, <2>1, DeleteTypes DEF ErrorDelete
  <2> QED
    BY <1>0, <1>10, <2>1, <2>2 DEF TypeOK, ErrorDelete, opVars
<1>11. CASE RunHandler
  <2>1. Head(queue) \in Ops /\ Tail(queue) \in Seq(Ops)
    BY <1>11, HeadTailProperties DEF TypeOK, RunHandler
  <2> QED
    BY <1>0, <1>11, <2>1 DEF TypeOK, RunHandler, objVars
<1>12. CASE RunReturns
  BY <1>12 DEF TypeOK, RunReturns, objVars, opVars
<1>13. ASSUME NEW t \in Transfers, Reap(t)
       PROVE  TypeOK'
  <2>1. evt' \in [pc : {"post", "reset", "delete"}, t : Transfers, status : Status, old : Ops \cup {None}]
    BY <1>13 DEF Reap
  <2> QED
    BY <1>13, <2>1 DEF TypeOK, Reap, opVars
<1>14. CASE CallbackPost
  <2>1. evt # EvtIdle /\ evt.t \in Transfers /\ evt.status \in Status
    BY <1>14, ThreadTypes DEF CallbackPost, InCallback
  <2>2. queue' \in Seq(Ops) /\ result' \in [Ops -> Status \cup {"rejected", None}]
    BY <1>14, <2>1, PostTypes DEF CallbackPost
  <2>3. evt' \in [pc : {"post", "reset", "delete"}, t : Transfers, status : Status, old : Ops \cup {None}]
    BY <1>14, <2>1 DEF TypeOK, CallbackPost
  <2> QED
    BY <1>14, <2>1, <2>2, <2>3 DEF TypeOK, CallbackPost
<1>15. CASE CallbackReset
  <2>1. evt # EvtIdle /\ evt.t \in Transfers
    BY <1>15, ThreadTypes DEF CallbackReset, InCallback
  <2>2. evt' \in [pc : {"post", "reset", "delete"}, t : Transfers, status : Status, old : Ops \cup {None}]
    BY <1>15, <2>1 DEF TypeOK, CallbackReset
  <2> QED
    BY <1>15, <2>2 DEF TypeOK, CallbackReset, objVars, opVars
<1>16. CASE CallbackDelete
  <2>1. evt.t \in Transfers /\ evt.old \in Ops \cup {None}
    BY <1>16, ThreadTypes DEF CallbackDelete, InCallback
  <2>2. freed' \subseteq Ops /\ fault' \in {fault, "double_delete"}
    BY <1>16, <2>1, DeleteTypes DEF CallbackDelete
  <2> QED
    BY <1>16, <2>1, <2>2 DEF TypeOK, CallbackDelete, opVars
<1>17. CASE NullHandler \/ FreedContext
  BY <1>17 DEF TypeOK, NullHandler, FreedContext, Crash, objVars, opVars
<1>18. CASE UNCHANGED vars
  BY <1>18 DEF TypeOK, vars, objVars, opVars
<1> QED
  BY <1>1, <1>2, <1>3, <1>4, <1>5, <1>6, <1>7, <1>8, <1>9, <1>10, <1>11, <1>12, <1>13,
     <1>14, <1>15, <1>16, <1>17, <1>18
     DEF Next, Step, ClientStep, InitiationStep, CallbackStep, Terminated

(* The variables only take values of their types, whatever the client.     *)
THEOREM TypeCorrect == Safety => []TypeOK
<1>1. Init => TypeOK
  BY EmptySeq DEF Init, TypeOK
<1>2. TypeOK /\ [Next]_vars => TypeOK'
  BY TypeStep
<1> QED
  BY <1>1, <1>2, PTL DEF Safety

-----------------------------------------------------------------------------
(* A transfer the client may use is not with libusb, nor with a callback   *)
(* that has its handler still to post.                                     *)
LEMMA MayUseNotInFlight ==
  ASSUME OpInv, NEW t \in Transfers, MayUse(t)
  PROVE  ~InFlight(t) /\ \A o \in Unfinished : TransferOf[o] # t
<1>1. \A o \in Unfinished : TransferOf[o] # t
  BY DEF MayUse, Outstanding, Unfinished
<1>2. Pending \subseteq Unfinished
  BY DEF OpInv, Called, Pending, Unfinished
<1> QED
  BY <1>1, <1>2 DEF OpInv, FlightPending

(* The client's steps.                                                     *)
LEMMA OpClientStep ==
  ASSUME OpInv, TypeOK', ClientStep
  PROVE  OpInv'
<1> USE DEF OpInv
<1>0. /\ TransferOf \in [Ops -> Transfers] /\ None \notin Ops /\ None \notin Transfers
  BY ConstantsAssumption
<1>1. ASSUME NEW t \in Transfers, Construct(t)
      PROVE  OpInv'
  <2>1. /\ life' = [life EXCEPT ![t] = "alive"]
        /\ UNCHANGED <<buffer, handler, storage, lib, wire, called, initiated, queue, result, invoked, app, evt>>
    BY <1>1 DEF Construct, opVars
  <2>2. \A u \in Transfers : life[u] = "alive" => life'[u] = "alive"
    BY <2>1 DEF TypeOK
  <2>3. Called' /\ OneUnfinished' /\ FlightPending' /\ InitiationQuiet'
    BY <2>1 DEF Called, OneUnfinished, Unfinished, FlightPending, InitiationQuiet, InFlight, Pending
  <2>4. UnfinishedAlive'
    BY <1>0, <2>1, <2>2 DEF UnfinishedAlive, Unfinished, TypeOK
  <2>5. OwnResults'
    BY <1>0, <2>1, <2>2, RangeOfSeq DEF OwnResults, TypeOK
  <2> QED
    BY <2>3, <2>4, <2>5
<1>2. ASSUME NEW o \in Ops, Call(o)
      PROVE  OpInv'
  <2>1. /\ MayUse(TransferOf[o]) /\ o \notin called /\ app = AppIdle
        /\ called' = called \cup {o}
        /\ buffer' = [buffer EXCEPT ![TransferOf[o]] = o]
        /\ UNCHANGED <<life, handler, storage, lib, wire, initiated, queue, result, invoked, app, evt>>
    BY <1>2 DEF Call, InClient
  <2>2. ~InFlight(TransferOf[o]) /\ \A a \in Unfinished : TransferOf[a] # TransferOf[o]
    BY <1>0, <2>1, MayUseNotInFlight
  <2>3. Unfinished' = Unfinished \cup {o} /\ o \notin Unfinished
    BY <2>1 DEF Unfinished, Called
  <2>4. Called' /\ FlightPending'
    BY <2>1 DEF Called, FlightPending, InFlight, Pending
  <2>5. OneUnfinished'
    BY <2>2, <2>3 DEF OneUnfinished
  <2>6. UnfinishedAlive'
    <3>1. ASSUME NEW a \in Unfinished'
          PROVE  buffer'[TransferOf[a]] = a /\ life'[TransferOf[a]] = "alive"
      <4>1. CASE a = o
        BY <1>0, <2>1, <4>1 DEF MayUse, TypeOK
      <4>2. CASE a # o
        <5>1. a \in Unfinished /\ a \in Ops
          BY <2>3, <4>2 DEF Unfinished, TypeOK
        <5>2. TransferOf[a] # TransferOf[o] /\ TransferOf[a] \in Transfers
          BY <1>0, <2>2, <5>1
        <5> QED
          BY <2>1, <5>1, <5>2 DEF UnfinishedAlive, TypeOK
      <4> QED
        BY <4>1, <4>2
    <3> QED
      BY <3>1 DEF UnfinishedAlive
  <2>7. InitiationQuiet'
    BY <2>1, <2>2 DEF InitiationQuiet, InFlight, AppIdle
  <2>8. OwnResults'
    BY <2>1 DEF OwnResults
  <2> QED
    BY <2>4, <2>5, <2>6, <2>7, <2>8
<1>3. ASSUME NEW t \in Transfers, Destroy(t)
      PROVE  OpInv'
  <2>1. /\ MayUse(t)
        /\ life' = [life EXCEPT ![t] = "dead"]
        /\ UNCHANGED <<buffer, handler, storage, lib, wire, called, initiated, queue, result, invoked, app, evt>>
    BY <1>3 DEF Destroy, opVars
  <2>2. \A a \in Unfinished : TransferOf[a] # t
    BY <2>1, MayUseNotInFlight
  <2>3. Called' /\ OneUnfinished' /\ FlightPending' /\ InitiationQuiet'
    BY <2>1 DEF Called, OneUnfinished, Unfinished, FlightPending, InitiationQuiet, InFlight, Pending
  <2>4. UnfinishedAlive'
    BY <1>0, <2>1, <2>2 DEF UnfinishedAlive, Unfinished, TypeOK
  <2>5. OwnResults'
    <3>1. Range(queue) \subseteq Unfinished /\ Range(queue) \subseteq Ops
      BY RangeOfSeq DEF Called, Unfinished, TypeOK
    <3> QED
      BY <1>0, <2>1, <2>2, <3>1 DEF OwnResults, TypeOK
  <2> QED
    BY <2>3, <2>4, <2>5
<1>4. ASSUME NEW t \in Transfers, Cancel(t)
      PROVE  OpInv'
  <2>1. /\ lib[t] = "inflight" /\ app = AppIdle
        /\ lib' = [lib EXCEPT ![t] = "cancelling"]
        /\ UNCHANGED <<life, buffer, handler, storage, wire, called, initiated, queue, result, invoked, app, evt>>
    BY <1>4 DEF Cancel, opVars, InClient
  <2>2. \A u \in Transfers : lib'[u] = "idle" <=> lib[u] = "idle"
    BY <2>1 DEF TypeOK
  <2>3. Called' /\ OneUnfinished' /\ UnfinishedAlive' /\ OwnResults'
    BY <2>1 DEF Called, OneUnfinished, Unfinished, UnfinishedAlive, OwnResults
  <2>4. FlightPending'
    BY <2>1, <2>2, ThreadTypes DEF FlightPending, InFlight, Pending
  <2>5. InitiationQuiet'
    BY <1>0, <2>1, <2>2 DEF InitiationQuiet, InFlight, AppIdle, TypeOK
  <2> QED
    BY <2>3, <2>4, <2>5
<1>5. ASSUME NEW o \in Ops, Initiate(o)
      PROVE  OpInv'
  <2>1. /\ o \in called /\ o \notin initiated
        /\ initiated' = initiated \cup {o}
        /\ app' = [pc |-> "assign", op |-> o, old |-> handler[TransferOf[o]]]
        /\ UNCHANGED <<life, buffer, handler, storage, lib, wire, called, queue, result, invoked, evt>>
    BY <1>5 DEF Initiate, objVars
  <2>2. Pending' = Pending \cup {o}
    BY <2>1 DEF Pending, Called
  <2>3. Called' /\ OneUnfinished' /\ UnfinishedAlive' /\ OwnResults'
    BY <2>1 DEF Called, OneUnfinished, Unfinished, UnfinishedAlive, OwnResults
  <2>4. FlightPending'
    BY <2>1, <2>2 DEF FlightPending, InFlight
  <2>5. InitiationQuiet'
    BY <2>1, <2>2 DEF InitiationQuiet, InFlight
  <2> QED
    BY <2>3, <2>4, <2>5
<1> QED
  BY <1>1, <1>2, <1>3, <1>4, <1>5 DEF ClientStep

(* The steps of async_submit_impl.                                         *)
LEMMA OpInitiationStep ==
  ASSUME OpInv, TypeOK', InitiationStep
  PROVE  OpInv'
<1> USE DEF OpInv
<1>0. /\ TransferOf \in [Ops -> Transfers] /\ None \notin Ops /\ None \notin Transfers
  BY ConstantsAssumption
<1> DEFINE t == TransferOf[app.op]
<1>t. app.pc # "idle" => /\ app # AppIdle /\ app.op \in Ops /\ t \in Transfers /\ ~InFlight(t)
  BY ThreadTypes DEF InitiationQuiet
<1>1. CASE AssignHandler
  <2>1. /\ app.pc = "assign"
        /\ handler' = [handler EXCEPT ![t] = app.op]
        /\ app' = [app EXCEPT !.pc = "submit", !.old = None]
        /\ UNCHANGED <<life, buffer, storage, lib, wire, called, initiated, queue, result, invoked, evt>>
    BY <1>1 DEF AssignHandler, opVars
  <2>2. app'.pc = "submit" /\ app'.op = app.op
    BY <1>t, <2>1 DEF TypeOK
  <2>3. Called' /\ OneUnfinished' /\ UnfinishedAlive' /\ OwnResults'
    BY <2>1 DEF Called, OneUnfinished, Unfinished, UnfinishedAlive, OwnResults
  <2>4. \A u \in Transfers : InFlight(u)' => InFlight(u) /\ handler'[u] = handler[u]
    BY <1>t, <2>1 DEF InFlight, TypeOK
  <2>5. FlightPending'
    BY <2>1, <2>4 DEF FlightPending, Pending
  <2>6. handler'[t] = app.op
    BY <1>t, <2>1 DEF TypeOK
  <2>7. InitiationQuiet'
    BY <1>t, <2>1, <2>2, <2>6 DEF InitiationQuiet, InFlight, Pending
  <2> QED
    BY <2>3, <2>5, <2>7
<1>2. CASE Submit
  <2>1. /\ app.pc = "submit" /\ lib[t] = "idle"
        /\ lib' = [lib EXCEPT ![t] = "inflight"]
        /\ wire' = [wire EXCEPT ![t] = buffer[t]]
        /\ app' = AppIdle
        /\ UNCHANGED <<life, buffer, handler, storage, called, initiated, queue, result, invoked, evt>>
    BY <1>2 DEF Submit, opVars
  <2>2. app.op \in Pending /\ app.op \in Unfinished /\ handler[t] \in {None, app.op}
    BY <2>1 DEF InitiationQuiet, Pending, Unfinished, Called
  <2>3. buffer[t] = app.op /\ wire'[t] = app.op
    BY <1>t, <2>1, <2>2 DEF UnfinishedAlive, TypeOK
  <2>4. Called' /\ OneUnfinished' /\ UnfinishedAlive' /\ OwnResults'
    BY <2>1 DEF Called, OneUnfinished, Unfinished, UnfinishedAlive, OwnResults
  <2>5. \A u \in Transfers : u # t => (InFlight(u)' <=> InFlight(u)) /\ wire'[u] = wire[u]
    BY <2>1 DEF InFlight, TypeOK
  <2>6. evt.pc = "post" => evt.t # t
    BY <1>t, <2>1 DEF InFlight
  <2>7. FlightPending'
    <3>1. evt'.pc = "post" => lib'[evt'.t] = "idle"
      BY <1>t, <2>1, <2>6, ThreadTypes DEF FlightPending, TypeOK
    <3>2. ASSUME NEW u \in Transfers, InFlight(u)'
          PROVE  wire'[u] \in Pending' /\ TransferOf[wire'[u]] = u /\ handler'[u] \in {None, wire'[u]}
      <4>1. CASE u = t
        BY <2>1, <2>2, <2>3, <4>1 DEF Pending
      <4>2. CASE u # t
        BY <2>1, <2>5, <3>2, <4>2 DEF FlightPending, Pending
      <4> QED
        BY <4>1, <4>2
    <3> QED
      BY <3>1, <3>2 DEF FlightPending
  <2>8. InitiationQuiet'
    <3>1. \A o \in called \ initiated : TransferOf[o] # t /\ TransferOf[o] \in Transfers
      BY <1>0, <2>2 DEF OneUnfinished, Unfinished, Pending, Called, TypeOK
    <3>2. \A o \in called' \ initiated' : ~InFlight(TransferOf[o])'
      BY <2>1, <2>5, <3>1 DEF InitiationQuiet
    <3> QED
      BY <2>1, <3>2 DEF InitiationQuiet, AppIdle
  <2> QED
    BY <2>4, <2>7, <2>8
<1>3. CASE SubmitFails \/ ErrorReset
  <2>1. /\ app'.op = app.op
        /\ \/ app.pc = "submit" /\ app'.pc = "post"
           \/ app.pc = "reset" /\ app'.pc = "delete"
        /\ UNCHANGED <<life, buffer, handler, storage, lib, wire, called, initiated, queue, result, invoked, evt>>
    <3>1. CASE SubmitFails
      BY <1>t, <3>1 DEF SubmitFails, opVars, objVars, TypeOK
    <3>2. CASE ErrorReset
      BY <1>t, <3>2 DEF ErrorReset, opVars, objVars, TypeOK
    <3> QED
      BY <1>3, <3>1, <3>2
  <2>2. Called' /\ OneUnfinished' /\ UnfinishedAlive' /\ OwnResults' /\ FlightPending'
    BY <2>1 DEF Called, OneUnfinished, Unfinished, UnfinishedAlive, OwnResults, FlightPending, InFlight, Pending
  <2>3. InitiationQuiet'
    BY <1>t, <2>1 DEF InitiationQuiet, InFlight, Pending
  <2> QED
    BY <2>2, <2>3
<1>4. CASE PostError
  <2>1. /\ app.pc = "post" /\ handler[t] # None
        /\ PostHandler(t, "rejected")
        /\ app'.pc = "reset" /\ app'.op = app.op
        /\ UNCHANGED <<life, buffer, handler, storage, lib, wire, called, initiated, invoked, evt>>
    BY <1>t, <1>4 DEF PostError, objVars, TypeOK
  <2>2. handler[t] = app.op /\ app.op \in Pending
    BY <2>1 DEF InitiationQuiet
  <2>3. Range(queue') = Range(queue) \cup {app.op}
    BY <1>t, <2>1, <2>2, PostTypes
  <2>4. Pending' = Pending \ {app.op}
    BY <2>1, <2>3 DEF Pending
  <2>5. Called'
    <3>1. app.op \notin Range(queue) /\ app.op \notin invoked /\ app.op \in initiated
      BY <2>2 DEF Pending
    <3>2. IsInjective(queue')
      BY <1>t, <2>1, <2>2, <3>1, InjectiveAppend DEF Called, PostHandler, TypeOK
    <3> QED
      BY <2>1, <2>3, <3>1, <3>2 DEF Called
  <2>6. OneUnfinished' /\ UnfinishedAlive'
    BY <2>1 DEF OneUnfinished, Unfinished, UnfinishedAlive
  <2>7. FlightPending'
    <3>1. \A u \in Transfers : InFlight(u) => wire[u] # app.op
      BY <1>t, <2>1 DEF FlightPending
    <3> QED
      BY <2>1, <2>4, <3>1 DEF FlightPending, InFlight
  <2>8. InitiationQuiet'
    BY <1>t, <2>1, <2>3 DEF InitiationQuiet, InFlight
  <2>9. OwnResults'
    <3>1. result'[app.op] = "rejected" /\ \A o \in Ops : o # app.op => result'[o] = result[o]
      BY <1>t, <2>1, <2>2 DEF PostHandler, TypeOK
    <3>2. Range(queue) \subseteq Ops
      BY RangeOfSeq DEF TypeOK
    <3> QED
      BY <2>1, <2>3, <3>1, <3>2 DEF OwnResults
  <2> QED
    BY <2>5, <2>6, <2>7, <2>8, <2>9
<1>5. CASE ErrorDelete
  <2>1. /\ handler' = [handler EXCEPT ![t] = None]
        /\ app.pc = "delete" /\ app' = AppIdle
        /\ UNCHANGED <<life, buffer, storage, lib, wire, called, initiated, queue, result, invoked, evt>>
    BY <1>5 DEF ErrorDelete, opVars
  <2>2. Called' /\ OneUnfinished' /\ UnfinishedAlive' /\ OwnResults'
    BY <2>1 DEF Called, OneUnfinished, Unfinished, UnfinishedAlive, OwnResults
  <2>3. \A u \in Transfers : handler'[u] \in {None, handler[u]}
    BY <2>1 DEF TypeOK
  <2>4. FlightPending'
    BY <2>1, <2>3 DEF FlightPending, InFlight, Pending
  <2>5. InitiationQuiet'
    BY <2>1 DEF InitiationQuiet, InFlight, AppIdle
  <2> QED
    BY <2>2, <2>4, <2>5
<1> QED
  BY <1>1, <1>2, <1>3, <1>4, <1>5 DEF InitiationStep

(* The steps of libusb and completion_callback.                            *)
LEMMA OpCallbackStep ==
  ASSUME OpInv, TypeOK', CallbackStep \/ \E t \in Transfers : Reap(t)
  PROVE  OpInv'
<1> USE DEF OpInv
<1>0. /\ TransferOf \in [Ops -> Transfers] /\ None \notin Ops /\ None \notin Transfers
  BY ConstantsAssumption
<1>t. app # AppIdle => app.op \in Ops /\ TransferOf[app.op] \in Transfers
  BY ThreadTypes
<1>1. ASSUME NEW t \in Transfers, Reap(t)
      PROVE  OpInv'
  <2>1. /\ evt = EvtIdle /\ lib[t] # "idle"
        /\ lib' = [lib EXCEPT ![t] = "idle"]
        /\ evt'.pc = "post" /\ evt'.t = t
        /\ UNCHANGED <<life, buffer, handler, storage, wire, called, initiated, queue, result, invoked, app>>
    BY <1>1 DEF Reap, opVars
  <2>2. \A u \in Transfers : InFlight(u)' <=> InFlight(u)
    BY <2>1 DEF InFlight, EvtIdle, TypeOK
  <2>3. Called' /\ OneUnfinished' /\ UnfinishedAlive' /\ OwnResults'
    BY <2>1 DEF Called, OneUnfinished, Unfinished, UnfinishedAlive, OwnResults
  <2>4. FlightPending'
    BY <2>1, <2>2 DEF FlightPending, Pending, TypeOK
  <2>5. InitiationQuiet'
    BY <1>0, <1>t, <2>1, <2>2 DEF InitiationQuiet, Pending, TypeOK
  <2> QED
    BY <2>3, <2>4, <2>5
<1>2. CASE CallbackPost
  <2> DEFINE t == evt.t
             o == wire[t]
  <2>1. /\ evt.pc = "post" /\ handler[t] # None /\ life[t] = "alive"
        /\ storage' = [storage EXCEPT ![t] = o]
        /\ PostHandler(t, evt.status)
        /\ evt'.pc = "reset" /\ evt'.t = t
        /\ UNCHANGED <<life, buffer, handler, lib, wire, called, initiated, invoked, app>>
    BY <1>2, ThreadTypes DEF CallbackPost, InCallback, TypeOK
  <2>2. t \in Transfers /\ evt.status \in Status /\ evt # EvtIdle
    BY <2>1, ThreadTypes
  <2>3. /\ InFlight(t) /\ lib[t] = "idle" /\ handler[t] = o
        /\ o \in Pending /\ TransferOf[o] = t /\ o \in Unfinished /\ o \in Ops
    BY <2>1, <2>2 DEF FlightPending, InFlight, Pending, Unfinished, Called, TypeOK
  <2>4. Range(queue') = Range(queue) \cup {o}
    BY <2>1, <2>2, <2>3, PostTypes
  <2>5. Pending' = Pending \ {o}
    BY <2>1, <2>4 DEF Pending
  <2>6. Called'
    <3>1. o \notin Range(queue) /\ o \notin invoked /\ o \in initiated
      BY <2>3 DEF Pending
    <3>2. IsInjective(queue')
      BY <2>1, <2>3, <3>1, InjectiveAppend DEF Called, PostHandler, TypeOK
    <3> QED
      BY <2>1, <2>4, <3>1, <3>2 DEF Called
  <2>7. OneUnfinished' /\ UnfinishedAlive'
    BY <2>1 DEF OneUnfinished, Unfinished, UnfinishedAlive
  <2>8. \A u \in Transfers : InFlight(u)' => InFlight(u) /\ u # t
    BY <2>1, <2>2, <2>3 DEF InFlight
  <2>9. FlightPending'
    BY <2>1, <2>3, <2>5, <2>8 DEF FlightPending
  <2>10. InitiationQuiet'
    <3>1. app # AppIdle => TransferOf[app.op] # t
      BY <2>3 DEF InitiationQuiet
    <3>2. app.op \in Pending /\ app # AppIdle => app.op \in Pending'
      BY <2>3, <2>5, <3>1
    <3> QED
      BY <1>0, <1>t, <2>1, <2>4, <2>8, <3>1, <3>2, ThreadTypes DEF InitiationQuiet, TypeOK
  <2>11. OwnResults'
    <3>1. storage'[t] = o
      BY <2>1, <2>2 DEF TypeOK
    <3>2. Range(queue) \subseteq Ops /\ Range(queue) \subseteq Unfinished /\ o \notin Range(queue)
      BY <2>3, RangeOfSeq DEF Called, Pending, Unfinished, TypeOK
    <3>3. ASSUME NEW a \in Range(queue), result'[a] # "rejected"
          PROVE  life'[TransferOf[a]] = "alive" /\ storage'[TransferOf[a]] = a
      <4>1. a # o /\ TransferOf[a] # t
        BY <2>3, <3>2, <3>3 DEF OneUnfinished
      <4>2. result'[a] = result[a] /\ TransferOf[a] \in Transfers
        BY <1>0, <2>1, <2>3, <3>2, <4>1 DEF PostHandler, TypeOK
      <4>3. storage'[TransferOf[a]] = storage[TransferOf[a]]
        BY <2>1, <4>1, <4>2 DEF TypeOK
      <4> QED
        BY <2>1, <3>3, <4>2, <4>3 DEF OwnResults
    <3> QED
      BY <2>1, <2>3, <2>4, <3>1, <3>3 DEF OwnResults
  <2> QED
    BY <2>6, <2>7, <2>9, <2>10, <2>11
<1>3. CASE CallbackReset \/ CallbackDelete
  <2>1. /\ evt.pc # "post" /\ evt'.pc # "post"
        /\ \A u \in Transfers : handler'[u] \in {None, handler[u]}
        /\ UNCHANGED <<life, buffer, storage, lib, wire, called, initiated, queue, result, invoked, app>>
    <3>1. CASE CallbackReset
      <4>1. evt # EvtIdle /\ evt'.pc = "delete"
        BY <3>1, ThreadTypes DEF CallbackReset, InCallback, TypeOK
      <4> QED
        BY <3>1, <4>1 DEF CallbackReset, InCallback, objVars, opVars
    <3>2. CASE CallbackDelete
      <4>1. \A u \in Transfers : handler'[u] \in {None, handler[u]}
        BY <3>2 DEF CallbackDelete, TypeOK
      <4> QED
        BY <3>2, <4>1 DEF CallbackDelete, InCallback, opVars, EvtIdle
    <3> QED
      BY <1>3, <3>1, <3>2
  <2>2. Called' /\ OneUnfinished' /\ UnfinishedAlive' /\ OwnResults'
    BY <2>1 DEF Called, OneUnfinished, Unfinished, UnfinishedAlive, OwnResults
  <2>3. FlightPending'
    BY <2>1 DEF FlightPending, InFlight, Pending
  <2>4. InitiationQuiet'
    BY <1>t, <2>1, ThreadTypes DEF InitiationQuiet, InFlight, Pending, AppIdle
  <2> QED
    BY <2>2, <2>3, <2>4
<1> QED
  BY <1>1, <1>2, <1>3 DEF CallbackStep

(* The execution context's steps.                                          *)
LEMMA OpRunStep ==
  ASSUME OpInv, TypeOK', RunHandler
  PROVE  OpInv'
<1> USE DEF OpInv
<1>0. /\ TransferOf \in [Ops -> Transfers] /\ None \notin Ops /\ None \notin Transfers
  BY ConstantsAssumption
<1> DEFINE o == Head(queue)
<1>1. /\ queue # << >> /\ queue \in Seq(Ops) /\ app = AppIdle
      /\ invoked' = invoked \cup {o}
      /\ queue' = Tail(queue)
      /\ UNCHANGED <<life, buffer, handler, storage, lib, wire, called, initiated, result, app, evt>>
  BY DEF RunHandler, InClient, objVars, TypeOK
<1>2. /\ Range(queue) = {o} \cup Range(queue')
      /\ IsInjective(queue')
      /\ o \notin Range(queue')
  BY <1>1, HeadThenTail, InjectiveTail DEF Called
<1>3. Pending' = Pending
  BY <1>1, <1>2 DEF Pending
<1>4. Called'
  BY <1>1, <1>2 DEF Called
<1>5. OneUnfinished' /\ UnfinishedAlive'
  BY <1>1 DEF OneUnfinished, UnfinishedAlive, Unfinished
<1>6. FlightPending'
  BY <1>1, <1>3 DEF FlightPending, InFlight
<1>7. InitiationQuiet'
  BY <1>1 DEF InitiationQuiet, InFlight, AppIdle
<1>8. OwnResults'
  BY <1>1, <1>2 DEF OwnResults
<1> QED
  BY <1>4, <1>5, <1>6, <1>7, <1>8

(* Every step preserves OpInv.                                             *)
LEMMA OpStep ==
  ASSUME OpInv, [Next]_vars
  PROVE  OpInv'
<1>1. TypeOK'
  BY TypeStep DEF OpInv
<1>2. CASE RunReturns \/ NullHandler \/ FreedContext \/ UNCHANGED vars
  <2>1. UNCHANGED <<life, buffer, handler, storage, lib, wire, called, initiated, queue, result, invoked, app, evt>>
    BY <1>2 DEF RunReturns, NullHandler, FreedContext, Crash, vars, objVars, opVars
  <2> QED
    BY <1>1, <2>1 DEF OpInv, Called, OneUnfinished, UnfinishedAlive, Unfinished, FlightPending,
                      InitiationQuiet, InFlight, Pending, OwnResults
<1> QED
  BY <1>1, <1>2, OpClientStep, OpInitiationStep, OpCallbackStep, OpRunStep
     DEF Next, Step, Terminated

(* OpInv holds at the start.                                               *)
LEMMA OpInit == Init => OpInv
<1> SUFFICES ASSUME Init PROVE OpInv
  OBVIOUS
<1>1. TypeOK
  BY EmptySeq DEF Init, TypeOK
<1>2. Range(queue) = {} /\ IsInjective(queue)
  BY DEF Init, Range, IsInjective
<1>3. Called /\ OneUnfinished /\ UnfinishedAlive /\ OwnResults
  BY <1>2 DEF Init, Called, OneUnfinished, UnfinishedAlive, Unfinished, OwnResults
<1>4. FlightPending /\ InitiationQuiet
  BY ConstantsAssumption DEF Init, FlightPending, InitiationQuiet, InFlight, AppIdle, EvtIdle
<1> QED
  BY <1>1, <1>3, <1>4 DEF OpInv

(* OpInv is an invariant.                                                  *)
LEMMA OpCorrect == Safety => []OpInv
BY OpInit, OpStep, PTL DEF Safety

(* An operation's handler is invoked with the packet results of its own    *)
(* transfer, as long as no operation is called on a transfer with one      *)
(* unfinished.                                                             *)
THEOREM OwnResultsCorrect == Safety => []OwnResults
BY OpCorrect, PTL DEF OpInv

-----------------------------------------------------------------------------
(* Every step is a step of AsyncOperation, or leaves its variables alone:  *)
(* only a handler that is pending is ever posted.                          *)
LEMMA RefinementStep ==
  ASSUME OpInv, [Next]_vars
  PROVE  [Abs!AbsNext]_(Abs!absVars)
<1> USE DEF OpInv
<1>0. Abs!Range(queue) = Range(queue)
  BY DEF Abs!Range, Range
<1>1. CASE UNCHANGED <<initiated, queue, invoked>>
  BY <1>1 DEF Abs!absVars
<1>2. ASSUME NEW o \in Ops, Initiate(o)
      PROVE  Abs!AbsNext
  <2>1. /\ o \notin initiated /\ initiated' = initiated \cup {o}
        /\ UNCHANGED <<queue, invoked>>
    BY <1>2 DEF Initiate
  <2>2. o \notin Range(queue) \cup invoked
    BY <2>1 DEF Called
  <2>3. Abs!AbsInitiate(o)
    BY <1>0, <2>1, <2>2 DEF Abs!AbsInitiate
  <2> QED
    BY <2>3 DEF Abs!AbsNext
<1>3. CASE RunHandler
  <2>1. Range(queue) = {Head(queue)} \cup Range(queue')
    BY <1>3, HeadThenTail DEF RunHandler, TypeOK
  <2>2. Abs!AbsInvoke
    BY <1>3, <2>1 DEF Abs!AbsInvoke, RunHandler
  <2> QED
    BY <2>2 DEF Abs!AbsNext
<1>4. ASSUME NEW t \in Transfers, NEW ec \in Status \cup {"rejected"},
             handler[t] \in Pending, PostHandler(t, ec), UNCHANGED <<initiated, invoked>>
      PROVE  Abs!AbsNext
  <2>1. handler[t] \in Ops /\ handler[t] # None
    BY <1>4, ConstantsAssumption DEF Pending, TypeOK
  <2>2. Range(queue') = Range(queue) \cup {handler[t]} /\ queue' = Append(queue, handler[t])
    BY <1>4, <2>1, PostTypes DEF PostHandler
  <2>3. Abs!AbsComplete(handler[t])
    BY <1>0, <1>4, <2>2 DEF Abs!AbsComplete, Pending
  <2> QED
    BY <2>1, <2>3 DEF Abs!AbsNext
<1>5. CASE PostError
  <2>1. TransferOf[app.op] \in Transfers /\ handler[TransferOf[app.op]] \in Pending
    BY <1>5, ThreadTypes DEF PostError, InitiationQuiet
  <2> QED
    BY <1>4, <1>5, <2>1 DEF PostError
<1>6. CASE CallbackPost
  <2>1. evt.t \in Transfers /\ evt.status \in Status
    BY <1>6, ThreadTypes DEF CallbackPost, InCallback
  <2>2. handler[evt.t] \in Pending
    BY <1>6, <2>1 DEF CallbackPost, InCallback, FlightPending, InFlight
  <2> QED
    BY <1>4, <1>6, <2>1, <2>2 DEF CallbackPost
<1> QED
  BY <1>1, <1>2, <1>3, <1>5, <1>6
     DEF Next, Step, ClientStep, InitiationStep, CallbackStep, Terminated, Construct, Call,
         Destroy, Cancel, AssignHandler, Submit, SubmitFails, ErrorReset, ErrorDelete, RunReturns,
         Reap, CallbackReset, CallbackDelete, NullHandler, FreedContext, Crash, vars, objVars, opVars

(* An operation completes at most once and handlers are invoked in the     *)
(* order they were posted, whatever the client and the device do.          *)
THEOREM RefinementCorrect == Safety => AtMostOnce
<1>1. Init => Abs!AbsInit
  BY DEF Init, Abs!AbsInit
<1>2. OpInv /\ [Next]_vars => [Abs!AbsNext]_(Abs!absVars)
  BY RefinementStep
<1> QED
  BY <1>1, <1>2, OpCorrect, PTL DEF Safety, AtMostOnce, Abs!AbsSafety

-----------------------------------------------------------------------------
(* Every operation whose handler has not been posted is in somebody's      *)
(* hands.                                                                  *)
InInitiation(o) == app.pc \in {"assign", "submit", "post"} /\ app.op = o

LEMMA NotForgottenStep ==
  ASSUME OpInv, NotForgotten, [Next]_vars
  PROVE  NotForgotten'
<1> USE DEF OpInv
<1>0. /\ \A o \in Pending : o \in Ops /\ (InInitiation(o) \/ InFlight(TransferOf[o]))
      /\ TransferOf \in [Ops -> Transfers]
  BY ConstantsAssumption DEF NotForgotten, Pending, InInitiation, InFlight, TypeOK
<1>1. SUFFICES \A o \in Pending' : InInitiation(o)' \/ InFlight(TransferOf[o])'
  BY DEF NotForgotten, Pending, InInitiation, InFlight
<1> SUFFICES ASSUME NEW o \in Pending' PROVE InInitiation(o)' \/ InFlight(TransferOf[o])'
  BY <1>1
<1>2. CASE UNCHANGED <<initiated, queue, invoked, app, evt, lib>>
  BY <1>0, <1>2 DEF Pending, InInitiation, InFlight
<1>3. ASSUME NEW t \in Transfers, Cancel(t)
      PROVE  InInitiation(o)' \/ InFlight(TransferOf[o])'
  BY <1>0, <1>3 DEF Cancel, TypeOK, opVars, Pending, InInitiation, InFlight
<1>4. ASSUME NEW p \in Ops, Initiate(p)
      PROVE  InInitiation(o)' \/ InFlight(TransferOf[o])'
  <2>1. app.pc = "idle" /\ app'.pc = "assign" /\ app'.op = p /\ UNCHANGED <<evt, lib>>
    BY <1>4 DEF Initiate, InClient, AppIdle, objVars
  <2>2. o = p \/ o \in Pending
    BY <1>4 DEF Initiate, Pending
  <2> QED
    BY <1>0, <2>1, <2>2 DEF InInitiation, InFlight
<1>5. CASE AssignHandler \/ SubmitFails
  <2>1. /\ app.pc \in {"assign", "submit"} /\ app'.pc \in {"submit", "post"} /\ app'.op = app.op
        /\ UNCHANGED <<initiated, queue, invoked, evt, lib>>
    BY <1>5, ThreadTypes DEF AssignHandler, SubmitFails, TypeOK, opVars, objVars
  <2> QED
    BY <1>0, <2>1 DEF Pending, InInitiation, InFlight
<1>6. CASE Submit
  <2>1. app.pc = "submit" /\ app.op \in Ops /\ lib' = [lib EXCEPT ![TransferOf[app.op]] = "inflight"]
    BY <1>6, ThreadTypes DEF Submit
  <2>2. \A u \in Transfers : InFlight(u) => InFlight(u)'
    BY <1>6, <2>1 DEF Submit, InFlight, TypeOK
  <2>3. \A u \in Transfers : u = TransferOf[app.op] => InFlight(u)'
    BY <2>1 DEF InFlight, TypeOK
  <2>4. o \in Pending
    BY <1>6 DEF Submit, opVars, Pending
  <2> QED
    BY <1>0, <2>1, <2>2, <2>3, <2>4 DEF InInitiation
<1>7. CASE PostError
  <2> DEFINE t == TransferOf[app.op]
  <2>1. app.pc = "post" /\ t \in Transfers /\ handler[t] = app.op /\ app.op \in Ops
    BY <1>7, ThreadTypes DEF PostError, InitiationQuiet
  <2>2. /\ Range(queue') = Range(queue) \cup {app.op}
        /\ UNCHANGED <<initiated, invoked, evt, lib>>
    BY <1>7, <2>1, PostTypes DEF PostError, PostHandler, objVars
  <2>3. o \in Pending /\ o # app.op
    BY <2>2 DEF Pending
  <2> QED
    BY <1>0, <2>2, <2>3 DEF InInitiation, InFlight
<1>8. CASE ErrorReset \/ ErrorDelete
  <2>1. app.pc \in {"reset", "delete"} /\ UNCHANGED <<initiated, queue, invoked, evt, lib>>
    BY <1>8 DEF ErrorReset, ErrorDelete, opVars, objVars
  <2> QED
    BY <1>0, <2>1 DEF Pending, InInitiation, InFlight
<1>9. CASE RunHandler
  <2>1. Range(queue) = {Head(queue)} \cup Range(queue')
    BY <1>9, HeadThenTail DEF RunHandler, TypeOK
  <2>2. o \in Pending /\ UNCHANGED <<app, evt, lib>>
    BY <1>9, <2>1 DEF RunHandler, Pending, objVars
  <2> QED
    BY <1>0, <2>2 DEF InInitiation, InFlight
<1>10. ASSUME NEW t \in Transfers, Reap(t)
       PROVE  InInitiation(o)' \/ InFlight(TransferOf[o])'
  <2>1. /\ evt.pc = "idle" /\ evt'.pc = "post" /\ evt'.t = t
        /\ \A u \in Transfers : u # t => lib'[u] = lib[u]
        /\ UNCHANGED <<initiated, queue, invoked, app>>
    BY <1>10 DEF Reap, EvtIdle, TypeOK, opVars
  <2> QED
    BY <1>0, <2>1 DEF Pending, InInitiation, InFlight
<1>11. CASE CallbackPost
  <2> DEFINE t == evt.t
  <2>1. evt.pc = "post" /\ t \in Transfers /\ evt.status \in Status /\ handler[t] # None
    BY <1>11, ThreadTypes DEF CallbackPost, InCallback
  <2>2. wire[t] \in Pending /\ TransferOf[wire[t]] = t /\ handler[t] = wire[t]
    BY <2>1 DEF FlightPending, InFlight
  <2>3. /\ Range(queue') = Range(queue) \cup {wire[t]}
        /\ UNCHANGED <<initiated, invoked, app, lib>>
    BY <1>11, <2>1, <2>2, PostTypes DEF CallbackPost, PostHandler
  <2>4. o \in Pending /\ o # wire[t]
    BY <2>3 DEF Pending
  <2>5. TransferOf[o] # t
    BY <2>2, <2>4 DEF OneUnfinished, Unfinished, Pending, Called
  <2> QED
    BY <1>0, <2>3, <2>4, <2>5 DEF InInitiation, InFlight
<1>12. CASE CallbackReset \/ CallbackDelete
  <2>1. evt.pc \in {"reset", "delete"} /\ UNCHANGED <<initiated, queue, invoked, app, lib>>
    BY <1>12 DEF CallbackReset, CallbackDelete, InCallback, opVars, objVars
  <2> QED
    BY <1>0, <2>1 DEF Pending, InInitiation, InFlight
<1> QED
  BY <1>2, <1>3, <1>4, <1>5, <1>6, <1>7, <1>8, <1>9, <1>10, <1>11, <1>12
     DEF Next, Step, ClientStep, InitiationStep, CallbackStep, Terminated, Construct, Call,
         Destroy, RunReturns, NullHandler, FreedContext, Crash, vars, objVars, opVars

(* An operation whose handler has not been posted is the initiation's,     *)
(* libusb's or the callback's, for either client.                          *)
THEOREM NotForgottenCorrect == Safety => []NotForgotten
<1>1. Init => NotForgotten
  BY DEF Init, NotForgotten
<1>2. OpInv /\ NotForgotten /\ [Next]_vars => NotForgotten'
  BY NotForgottenStep
<1> QED
  BY <1>1, <1>2, OpCorrect, PTL DEF Safety

-----------------------------------------------------------------------------
(* What completion_context::handler holds.                                 *)

(* The callback works on a transfer that is alive and not with libusb, and *)
(* after it has posted the handler that handler is on its way.             *)
CallbackKnown ==
  /\ evt # EvtIdle => lib[evt.t] = "idle" /\ life[evt.t] = "alive"
  /\ evt.pc \in {"reset", "delete"} =>
       /\ wire[evt.t] \in Range(queue) \cup invoked
       /\ TransferOf[wire[evt.t]] = evt.t

ClientAway ==
  /\ \A o \in called \ initiated : evt.t # TransferOf[o]
  /\ app # AppIdle => evt.t # TransferOf[app.op]

(* Whose handler the completion context holds, if any.                     *)
Holds(t) ==
  IF app.pc \in {"submit", "post", "reset", "delete"} /\ TransferOf[app.op] = t THEN app.op
  ELSE IF lib[t] # "idle" \/ evt.t = t THEN wire[t]
  ELSE None

HandlerHeld ==
  /\ \A t \in Transfers : handler[t] = Holds(t)
  /\ app.pc = "assign" => app.old = None
  /\ app.pc = "delete" => app.old = app.op
  /\ evt.pc = "delete" => evt.old = wire[evt.t]

HandlerFresh ==
  /\ freed \subseteq Range(queue) \cup invoked
  /\ \A t \in Transfers : handler[t] # None => handler[t] \notin freed

HandlingInv ==
  /\ CallbackKnown
  /\ ClientAway
  /\ HandlerHeld
  /\ HandlerFresh
  /\ fault = "none"

(* A step of a client that leaves the transfer whose callback is running   *)
(* alone.  (The initiation of an operation called before is about another, *)
(* by ClientAway.)                                                         *)
ClientStepAway ==
  \/ \E t \in Transfers : Construct(t) \/ Cancel(t) \/ (evt.t # t /\ Destroy(t))
  \/ \E o \in Ops : Initiate(o) \/ (evt.t # TransferOf[o] /\ Call(o))

(* The delete of a null pointer has no effect.                             *)
LEMMA DeleteNone ==
  ASSUME TypeOK, Delete(None)
  PROVE  freed' = freed /\ fault' = fault
BY ConstantsAssumption DEF TypeOK, Delete

(* A transfer that neither libusb nor the callback has, while the client   *)
(* is between two steps, holds no handler.                                 *)
LEMMA NothingHeld ==
  ASSUME OpInv, HandlingInv, app = AppIdle, NEW t \in Transfers, ~InFlight(t), evt.t # t
  PROVE  handler[t] = None
BY DEF HandlingInv, HandlerHeld, Holds, AppIdle, InFlight

(* A completion context holds the handler of an operation of its transfer. *)
LEMMA HeldIsOwn ==
  ASSUME OpInv, HandlingInv, NEW t \in Transfers, handler[t] # None
  PROVE  TransferOf[handler[t]] = t /\ handler[t] \in Ops
<1>1. handler[t] \in Ops /\ handler[t] = Holds(t)
  BY DEF OpInv, TypeOK, HandlingInv, HandlerHeld
<1>2. CASE app.pc \in {"submit", "post", "reset", "delete"} /\ TransferOf[app.op] = t
  BY <1>1, <1>2 DEF Holds
<1>3. CASE ~(app.pc \in {"submit", "post", "reset", "delete"} /\ TransferOf[app.op] = t)
  <2>1. handler[t] = wire[t] /\ (lib[t] # "idle" \/ evt.t = t)
    BY <1>1, <1>3 DEF Holds
  <2>2. CASE InFlight(t)
    BY <1>1, <2>1, <2>2 DEF OpInv, FlightPending
  <2>3. CASE ~InFlight(t)
    <3>1. evt.t = t /\ evt.pc \in {"reset", "delete"}
      BY <2>1, <2>3, ThreadTypes, ConstantsAssumption DEF InFlight, OpInv
    <3> QED
      BY <1>1, <2>1, <3>1 DEF HandlingInv, CallbackKnown
  <2> QED
    BY <2>2, <2>3
<1> QED
  BY <1>2, <1>3

(* A step that leaves everything HandlingInv speaks of alone keeps it.     *)
LEMMA HandlingUnchanged ==
  ASSUME OpInv, HandlingInv,
         UNCHANGED <<life, handler, lib, wire, freed, called, initiated, queue, result, invoked,
                     last, app, evt, fault>>
  PROVE  HandlingInv'
BY DEF HandlingInv, CallbackKnown, ClientAway, HandlerHeld, Holds, HandlerFresh

(* The client's steps.                                                     *)
LEMMA HandlingClientStep ==
  ASSUME OpInv, HandlingInv, ClientStepAway
  PROVE  HandlingInv'
<1> USE DEF HandlingInv
<1>0. /\ TransferOf \in [Ops -> Transfers] /\ None \notin Ops /\ None \notin Transfers
  BY ConstantsAssumption
<1>t. TypeOK /\ (evt # EvtIdle => evt.t \in Transfers) /\ (evt = EvtIdle => evt.t = None)
  BY ThreadTypes DEF OpInv
<1>1. ASSUME NEW t \in Transfers, Construct(t)
      PROVE  HandlingInv'
  <2>1. /\ life' = [life EXCEPT ![t] = "alive"]
        /\ UNCHANGED <<handler, lib, wire, freed, called, initiated, queue, result, invoked, last, app, evt, fault>>
    BY <1>1 DEF Construct, opVars
  <2>2. CallbackKnown'
    BY <1>t, <2>1 DEF CallbackKnown, TypeOK
  <2> QED
    BY <2>1, <2>2 DEF ClientAway, HandlerHeld, Holds, HandlerFresh
<1>2. ASSUME NEW o \in Ops, evt.t # TransferOf[o], Call(o)
      PROVE  HandlingInv'
  <2>1. /\ MayUse(TransferOf[o]) /\ app = AppIdle
        /\ called' = called \cup {o}
        /\ UNCHANGED <<life, handler, lib, wire, freed, initiated, queue, result, invoked, last, app, evt, fault>>
    BY <1>2 DEF Call, InClient
  <2>2. ClientAway'
    BY <1>2, <2>1 DEF ClientAway
  <2> QED
    BY <2>1, <2>2 DEF CallbackKnown, HandlerHeld, Holds, HandlerFresh
<1>3. ASSUME NEW t \in Transfers, evt.t # t, Destroy(t)
      PROVE  HandlingInv'
  <2>1. /\ MayUse(t) /\ app = AppIdle
        /\ life' = [life EXCEPT ![t] = "dead"]
        /\ Delete(handler[t])
        /\ UNCHANGED <<handler, lib, wire, called, initiated, queue, result, invoked, last, app, evt>>
    BY <1>3 DEF Destroy, opVars, InClient
  <2>2. handler[t] = None
    BY <1>3, <2>1, MayUseNotInFlight, NothingHeld
  <2>3. freed' = freed /\ fault' = fault
    BY <1>t, <2>1, <2>2, DeleteNone
  <2>4. CallbackKnown'
    BY <1>t, <1>3, <2>1 DEF CallbackKnown, TypeOK
  <2> QED
    BY <2>1, <2>3, <2>4 DEF ClientAway, HandlerHeld, Holds, HandlerFresh
<1>4. ASSUME NEW t \in Transfers, Cancel(t)
      PROVE  HandlingInv'
  <2>1. /\ lib[t] # "idle"
        /\ lib' = [lib EXCEPT ![t] = "cancelling"]
        /\ UNCHANGED <<life, handler, wire, freed, called, initiated, queue, result, invoked, last, app, evt, fault>>
    BY <1>4 DEF Cancel, opVars
  <2>2. \A u \in Transfers : lib'[u] = "idle" <=> lib[u] = "idle"
    BY <1>t, <2>1 DEF TypeOK
  <2>3. CallbackKnown'
    BY <1>t, <2>1, <2>2 DEF CallbackKnown
  <2>4. HandlerHeld'
    BY <2>1, <2>2 DEF HandlerHeld, Holds
  <2> QED
    BY <2>1, <2>3, <2>4 DEF ClientAway, HandlerFresh
<1>5. ASSUME NEW o \in Ops, Initiate(o)
      PROVE  HandlingInv'
  <2>1. /\ app = AppIdle /\ o \in called \ initiated
        /\ initiated' = initiated \cup {o}
        /\ app'.pc = "assign" /\ app'.op = o /\ app'.old = handler[TransferOf[o]]
        /\ UNCHANGED <<life, handler, lib, wire, freed, called, queue, result, invoked, last, evt, fault>>
    BY <1>5 DEF Initiate, InClient, objVars
  <2>2. evt.t # TransferOf[o] /\ handler[TransferOf[o]] = None
    BY <1>0, <2>1, NothingHeld DEF ClientAway, OpInv, InitiationQuiet
  <2>3. ClientAway'
    BY <2>1, <2>2 DEF ClientAway
  <2>4. HandlerHeld'
    BY <2>1, <2>2 DEF HandlerHeld, Holds, AppIdle
  <2> QED
    BY <2>1, <2>3, <2>4 DEF CallbackKnown, HandlerFresh
<1> QED
  BY <1>1, <1>2, <1>3, <1>4, <1>5 DEF ClientStepAway

(* The steps of async_submit_impl.                                         *)
LEMMA HandlingInitiationStep ==
  ASSUME OpInv, HandlingInv, InitiationStep
  PROVE  HandlingInv'
<1> USE DEF HandlingInv
<1> DEFINE t == TransferOf[app.op]
<1>0. /\ TransferOf \in [Ops -> Transfers] /\ None \notin Ops /\ None \notin Transfers
  BY ConstantsAssumption
<1>t. /\ TypeOK /\ app # AppIdle /\ app.op \in Ops /\ t \in Transfers
      /\ (evt # EvtIdle => evt.t \in Transfers) /\ (evt = EvtIdle => evt.t = None)
      /\ lib[t] = "idle" /\ evt.t # t
  <2>1. app # AppIdle
    BY DEF InitiationStep, AssignHandler, Submit, SubmitFails, PostError, ErrorReset, ErrorDelete, AppIdle
  <2> QED
    BY <2>1, ThreadTypes DEF OpInv, InitiationQuiet, InFlight, ClientAway
<1>p. Pending \subseteq Unfinished /\ Pending \cap (Range(queue) \cup invoked) = {}
  BY DEF OpInv, Called, Pending, Unfinished
<1>1. CASE AssignHandler
  <2>1. /\ app.pc = "assign" /\ app'.pc = "submit" /\ app'.op = app.op
        /\ handler' = [handler EXCEPT ![t] = app.op]
        /\ Delete(app.old)
        /\ UNCHANGED <<life, lib, wire, called, initiated, queue, result, invoked, last, evt>>
    BY <1>t, <1>1 DEF AssignHandler, opVars, TypeOK
  <2>2. freed' = freed /\ fault' = fault
    BY <1>t, <2>1, DeleteNone DEF HandlerHeld
  <2>3. app.op \in Pending /\ app.op \notin freed
    BY <1>p, <2>1 DEF OpInv, InitiationQuiet, HandlerFresh
  <2>4. HandlerHeld'
    BY <1>t, <2>1 DEF HandlerHeld, Holds, TypeOK
  <2>5. HandlerFresh'
    BY <1>t, <2>1, <2>2, <2>3 DEF HandlerFresh, TypeOK
  <2>6. ClientAway'
    BY <1>t, <2>1 DEF ClientAway
  <2> QED
    BY <2>1, <2>2, <2>4, <2>5, <2>6 DEF CallbackKnown
<1>2. CASE Submit
  <2>1. /\ app.pc = "submit" /\ app' = AppIdle
        /\ lib' = [lib EXCEPT ![t] = "inflight"]
        /\ wire' = [wire EXCEPT ![t] = buffer[t]]
        /\ UNCHANGED <<life, handler, freed, called, initiated, queue, result, invoked, last, evt, fault>>
    BY <1>2 DEF Submit, opVars
  <2>2. buffer[t] = app.op
    BY <1>p, <2>1 DEF OpInv, InitiationQuiet, UnfinishedAlive
  <2>3. CallbackKnown'
    BY <1>t, <2>1 DEF CallbackKnown, TypeOK
  <2>4. ASSUME NEW u \in Transfers
        PROVE  Holds(u)' = Holds(u)
    BY <1>t, <2>1, <2>2 DEF Holds, AppIdle, TypeOK
  <2>5. HandlerHeld'
    <3>1. evt.pc = "delete" => evt # EvtIdle /\ wire'[evt.t] = wire[evt.t]
      BY <1>t, <2>1 DEF EvtIdle, TypeOK
    <3> QED
      BY <2>1, <2>4, <3>1 DEF HandlerHeld, AppIdle
  <2> QED
    BY <2>1, <2>3, <2>5 DEF ClientAway, HandlerFresh
<1>3. CASE SubmitFails \/ ErrorReset
  <2>1. /\ app'.op = app.op
        /\ \/ app.pc = "submit" /\ app'.pc = "post"
           \/ app.pc = "reset" /\ app'.pc = "delete" /\ app'.old = handler[t]
        /\ UNCHANGED <<life, handler, lib, wire, freed, called, initiated, queue, result, invoked, last, evt, fault>>
    <3>1. CASE SubmitFails
      BY <1>t, <3>1 DEF SubmitFails, opVars, objVars, TypeOK
    <3>2. CASE ErrorReset
      BY <1>t, <3>2 DEF ErrorReset, opVars, objVars, TypeOK
    <3> QED
      BY <1>3, <3>1, <3>2
  <2>2. \A u \in Transfers : Holds(u)' = Holds(u)
    BY <2>1 DEF Holds
  <2>3. app.pc = "reset" => handler[t] = app.op
    BY <1>t DEF HandlerHeld, Holds
  <2>4. HandlerHeld'
    BY <2>1, <2>2, <2>3 DEF HandlerHeld
  <2>5. ClientAway'
    BY <1>t, <2>1 DEF ClientAway
  <2> QED
    BY <2>1, <2>4, <2>5 DEF CallbackKnown, HandlerFresh
<1>4. CASE PostError
  <2>1. /\ app.pc = "post" /\ handler[t] # None
        /\ PostHandler(t, "rejected")
        /\ app'.pc = "reset" /\ app'.op = app.op
        /\ UNCHANGED <<life, handler, lib, wire, freed, called, initiated, invoked, last, evt, fault>>
    BY <1>t, <1>4 DEF PostError, objVars, TypeOK
  <2>2. handler[t] = app.op /\ app.op \notin Range(queue)
    BY <1>t, <1>p, <2>1 DEF OpInv, InitiationQuiet
  <2>3. Range(queue') = Range(queue) \cup {app.op}
    BY <1>t, <2>1, <2>2, PostTypes
  <2>4. CallbackKnown'
    BY <1>t, <2>1, <2>3, ThreadTypes DEF CallbackKnown
  <2>5. HandlerHeld'
    BY <2>1 DEF HandlerHeld, Holds
  <2>6. ClientAway'
    BY <1>t, <2>1 DEF ClientAway
  <2> QED
    BY <2>1, <2>3, <2>4, <2>5, <2>6 DEF HandlerFresh
<1>5. CASE ErrorDelete
  <2>1. /\ app.pc = "delete" /\ app' = AppIdle
        /\ handler' = [handler EXCEPT ![t] = None]
        /\ Delete(app.old)
        /\ UNCHANGED <<life, lib, wire, called, initiated, queue, result, invoked, last, evt>>
    BY <1>5 DEF ErrorDelete, opVars
  <2>2. app.old = app.op /\ handler[t] = app.op
    BY <1>t, <2>1 DEF HandlerHeld, Holds
  <2>3. app.op \in Range(queue) /\ app.op \notin freed
    BY <1>0, <1>t, <2>1, <2>2 DEF OpInv, InitiationQuiet, HandlerFresh
  <2>4. freed' = freed \cup {app.op} /\ fault' = fault
    BY <1>0, <1>t, <2>1, <2>2, <2>3 DEF Delete
  <2>5. HandlerHeld'
    BY <1>0, <1>t, <2>1 DEF HandlerHeld, Holds, AppIdle, TypeOK
  <2>6. ASSUME NEW u \in Transfers, handler'[u] # None
        PROVE  handler'[u] \notin freed'
    <3>1. u # t /\ handler'[u] = handler[u]
      BY <1>t, <2>1, <2>6 DEF TypeOK
    <3>2. handler[u] # app.op
      BY <2>6, <3>1, HeldIsOwn
    <3> QED
      BY <2>4, <2>6, <3>1, <3>2 DEF HandlerFresh
  <2>7. HandlerFresh'
    BY <2>1, <2>3, <2>4, <2>6 DEF HandlerFresh
  <2> QED
    BY <2>1, <2>4, <2>5, <2>7 DEF CallbackKnown, ClientAway
<1> QED
  BY <1>1, <1>2, <1>3, <1>4, <1>5 DEF InitiationStep

(* The steps of libusb and completion_callback.                            *)
LEMMA HandlingCallbackStep ==
  ASSUME OpInv, HandlingInv, CallbackStep \/ \E t \in Transfers : Reap(t)
  PROVE  HandlingInv'
<1> USE DEF HandlingInv
<1>0. /\ TransferOf \in [Ops -> Transfers] /\ None \notin Ops /\ None \notin Transfers
  BY ConstantsAssumption
<1>t. TypeOK /\ (app # AppIdle <=> app.pc # "idle") /\ (evt = EvtIdle => evt.t = None)
  BY ThreadTypes DEF OpInv
<1>1. ASSUME NEW t \in Transfers, Reap(t)
      PROVE  HandlingInv'
  <2>1. /\ evt = EvtIdle /\ lib[t] # "idle" /\ life[t] = "alive"
        /\ lib' = [lib EXCEPT ![t] = "idle"]
        /\ evt'.pc = "post" /\ evt'.t = t
        /\ UNCHANGED <<life, handler, wire, freed, called, initiated, queue, result, invoked, last, app, fault>>
    BY <1>1 DEF Reap, opVars
  <2>2. /\ \A o \in called \ initiated : TransferOf[o] # t
        /\ app # AppIdle => TransferOf[app.op] # t
    BY <2>1 DEF OpInv, InitiationQuiet, InFlight
  <2>3. CallbackKnown'
    BY <1>t, <2>1 DEF CallbackKnown, TypeOK
  <2>4. HandlerHeld'
    BY <1>0, <1>t, <2>1 DEF HandlerHeld, Holds, TypeOK
  <2> QED
    BY <2>1, <2>2, <2>3, <2>4 DEF ClientAway, HandlerFresh
<1>2. CASE CallbackPost
  <2> DEFINE t == evt.t
             o == wire[t]
  <2>1. /\ evt.pc = "post" /\ handler[t] # None
        /\ PostHandler(t, evt.status)
        /\ evt'.pc = "reset" /\ evt'.t = t
        /\ UNCHANGED <<life, handler, lib, wire, freed, called, initiated, invoked, last, app, fault>>
    BY <1>2, ThreadTypes DEF CallbackPost, InCallback, TypeOK, OpInv
  <2>2. t \in Transfers /\ evt.status \in Status /\ evt # EvtIdle
    BY <2>1, ThreadTypes DEF OpInv
  <2>3. handler[t] = o /\ TransferOf[o] = t /\ o \in Ops
    BY <1>t, <2>1, <2>2 DEF OpInv, FlightPending, InFlight, TypeOK
  <2>4. Range(queue') = Range(queue) \cup {o}
    BY <1>t, <2>1, <2>2, <2>3, PostTypes
  <2>5. CallbackKnown'
    BY <2>1, <2>2, <2>3, <2>4 DEF CallbackKnown
  <2>6. HandlerHeld'
    BY <2>1 DEF HandlerHeld, Holds
  <2> QED
    BY <2>1, <2>4, <2>5, <2>6 DEF ClientAway, HandlerFresh
<1>3. CASE CallbackReset
  <2> DEFINE t == evt.t
  <2>1. /\ evt.pc = "reset" /\ evt # EvtIdle /\ t \in Transfers
        /\ evt'.pc = "delete" /\ evt'.t = t /\ evt'.old = handler[t]
        /\ UNCHANGED <<life, handler, lib, wire, freed, called, initiated, queue, result, invoked, last, app, fault>>
    BY <1>3, ThreadTypes DEF CallbackReset, InCallback, TypeOK, OpInv, objVars, opVars
  <2>2. handler[t] = wire[t]
    BY <1>t, <2>1 DEF HandlerHeld, Holds, ClientAway
  <2>3. CallbackKnown'
    BY <2>1 DEF CallbackKnown
  <2>4. HandlerHeld'
    BY <2>1, <2>2 DEF HandlerHeld, Holds
  <2> QED
    BY <2>1, <2>3, <2>4 DEF ClientAway, HandlerFresh
<1>4. CASE CallbackDelete
  <2> DEFINE t == evt.t
             o == wire[t]
  <2>1. /\ evt.pc = "delete" /\ evt # EvtIdle /\ t \in Transfers
        /\ evt' = EvtIdle
        /\ handler' = [handler EXCEPT ![t] = None]
        /\ Delete(evt.old)
        /\ UNCHANGED <<life, lib, wire, called, initiated, queue, result, invoked, last, app>>
    BY <1>4, ThreadTypes DEF CallbackDelete, InCallback, OpInv, opVars
  <2>2. /\ evt.old = o /\ handler[t] = o /\ lib[t] = "idle"
        /\ o \in Range(queue) \cup invoked /\ TransferOf[o] = t
        /\ app # AppIdle => TransferOf[app.op] # t
    BY <1>t, <2>1 DEF HandlerHeld, Holds, ClientAway, CallbackKnown
  <2>3. o # None /\ o \notin freed
    <3>1. Range(queue) \cup invoked \subseteq Ops
      BY <1>t, RangeOfSeq DEF TypeOK
    <3> QED
      BY <1>0, <2>1, <2>2, <3>1 DEF HandlerFresh
  <2>4. freed' = freed \cup {o} /\ fault' = fault
    BY <2>1, <2>2, <2>3 DEF Delete
  <2>5. HandlerHeld'
    <3>1. ASSUME NEW u \in Transfers
          PROVE  handler'[u] = Holds(u)'
      <4>1. CASE u = t
        BY <1>0, <1>t, <2>1, <2>2, <4>1 DEF Holds, EvtIdle, TypeOK
      <4>2. CASE u # t
        BY <1>0, <1>t, <2>1, <4>2 DEF HandlerHeld, Holds, EvtIdle, TypeOK
      <4> QED
        BY <4>1, <4>2
    <3> QED
      BY <2>1, <3>1 DEF HandlerHeld, EvtIdle
  <2>6. ASSUME NEW u \in Transfers, handler'[u] # None
        PROVE  handler'[u] \notin freed'
    <3>1. u # t /\ handler'[u] = handler[u]
      BY <1>t, <2>1, <2>6 DEF TypeOK
    <3>2. handler[u] # o
      BY <2>2, <2>6, <3>1, HeldIsOwn
    <3> QED
      BY <2>4, <2>6, <3>1, <3>2 DEF HandlerFresh
  <2>7. HandlerFresh'
    BY <2>1, <2>2, <2>4, <2>6 DEF HandlerFresh
  <2>8. ClientAway'
    BY <1>0, <1>t, <2>1, ThreadTypes DEF ClientAway, EvtIdle, OpInv, TypeOK
  <2> QED
    BY <2>1, <2>4, <2>5, <2>7, <2>8 DEF CallbackKnown, EvtIdle
<1> QED
  BY <1>1, <1>2, <1>3, <1>4 DEF CallbackStep

(* A posted handler is invoked.                                            *)
LEMMA HandlingRunStep ==
  ASSUME OpInv, HandlingInv, RunHandler
  PROVE  HandlingInv'
<1> USE DEF HandlingInv
<1>1. /\ TypeOK /\ queue # << >> /\ queue \in Seq(Ops)
      /\ invoked' = invoked \cup {Head(queue)}
      /\ queue' = Tail(queue)
      /\ UNCHANGED <<life, handler, lib, wire, freed, called, initiated, result, app, evt, fault>>
  BY DEF RunHandler, objVars, OpInv, TypeOK
<1>2. Range(queue) \cup invoked = Range(queue') \cup invoked'
  <2>1. Range(queue) = {Head(queue)} \cup Range(Tail(queue))
    BY <1>1, HeadThenTail
  <2> QED
    BY <1>1, <2>1
<1>3. CallbackKnown'
  <2>1. evt.pc \in {"reset", "delete"} => evt.t \in Transfers
    BY <1>1, ThreadTypes
  <2> QED
    BY <1>1, <1>2, <2>1 DEF CallbackKnown
<1>4. HandlerHeld' /\ ClientAway' /\ HandlerFresh'
  BY <1>1, <1>2 DEF HandlerHeld, Holds, ClientAway, HandlerFresh
<1> QED
  BY <1>1, <1>3, <1>4

(* The callback finds its completion context, and in it a handler to post. *)
LEMMA CallbackFinds ==
  ASSUME OpInv, HandlingInv
  PROVE  /\ evt # EvtIdle => life[evt.t] = "alive"
         /\ evt.pc = "post" => handler[evt.t] # None
<1>1. ASSUME evt.pc = "post"
      PROVE  handler[evt.t] # None
  <2>1. evt # EvtIdle /\ evt.t \in Transfers
    BY <1>1, ThreadTypes DEF OpInv
  <2>2. wire[evt.t] \in Ops
    BY <1>1, <2>1 DEF OpInv, FlightPending, InFlight, Pending, TypeOK
  <2>3. handler[evt.t] = wire[evt.t]
    BY <2>1, ThreadTypes DEF OpInv, HandlingInv, HandlerHeld, Holds, ClientAway
  <2> QED
    BY <2>2, <2>3, ConstantsAssumption
<1> QED
  BY <1>1 DEF HandlingInv, CallbackKnown

(* Nothing undefined happens in a state that satisfies the invariants.     *)
LEMMA NoFault ==
  ASSUME OpInv, HandlingInv
  PROVE  ~NullHandler /\ ~FreedContext
<1>1. app.pc = "post" => handler[TransferOf[app.op]] # None
  BY ConstantsAssumption, ThreadTypes DEF OpInv, HandlingInv, HandlerHeld, Holds
<1> QED
  BY <1>1, CallbackFinds DEF NullHandler, FreedContext, InCallback, EvtIdle

(* Every step that is not too early preserves HandlingInv.                 *)
LEMMA HandlingStep ==
  ASSUME OpInv, HandlingInv, ClientStep => ClientStepAway, [Next]_vars
  PROVE  HandlingInv'
<1>1. CASE RunReturns \/ UNCHANGED vars
  BY <1>1, HandlingUnchanged DEF RunReturns, vars, objVars, opVars
<1> QED
  BY <1>1, NoFault, HandlingClientStep, HandlingInitiationStep, HandlingCallbackStep, HandlingRunStep
     DEF Next, Step, Terminated

(* HandlingInv holds at the start.                                         *)
LEMMA HandlingInit == Init => HandlingInv
BY ConstantsAssumption
   DEF Init, HandlingInv, CallbackKnown, ClientAway, HandlerHeld, Holds, HandlerFresh, AppIdle, EvtIdle

(* What HandlingInv is for.                                                *)
LEMMA HandlingGives ==
  HandlingInv => HandlerNotShared /\ NoUndefinedBehaviour /\ NoHandlerLost
<1>1. ClientAway => HandlerNotShared
  BY DEF ClientAway, HandlerNotShared
<1>2. HandlerFresh => NoHandlerLost
  BY DEF HandlerFresh, NoHandlerLost
<1> QED
  BY <1>1, <1>2 DEF HandlingInv, NoUndefinedBehaviour

(* run() returns only when no operation is unfinished, because the handler *)
(* of every operation has been posted when it is deleted.                  *)
LEMMA ReturnStep ==
  ASSUME OpInv, HandlingInv, RunsWhileOutstanding, [Next]_vars
  PROVE  RunsWhileOutstanding'
<1>1. CASE RunReturns
  <2>1. Range(queue) = {}
    BY <1>1 DEF RunReturns, Range
  <2>2. initiated \subseteq freed /\ freed \subseteq invoked
    BY <1>1, <2>1 DEF RunReturns, OutstandingWork, HandlingInv, HandlerFresh
  <2>3. invoked \subseteq initiated
    BY DEF OpInv, Called
  <2> QED
    BY <1>1, <2>2, <2>3 DEF RunReturns, RunsWhileOutstanding, opVars
<1>2. CASE UNCHANGED <<running, initiated, invoked>>
  BY <1>2 DEF RunsWhileOutstanding
<1>3. CASE running' = running /\ running
  BY <1>3 DEF RunsWhileOutstanding
<1> QED
  BY <1>1, <1>2, <1>3
     DEF Next, Step, ClientStep, InitiationStep, CallbackStep, Terminated, Construct, Call, Initiate,
         Destroy, Cancel, AssignHandler, Submit, SubmitFails, PostError, ErrorReset, ErrorDelete,
         RunHandler, InClient, Reap, CallbackPost, CallbackReset, CallbackDelete, NullHandler,
         FreedContext, Crash, vars, objVars, opVars

-----------------------------------------------------------------------------
(* The quiescent client keeps away: while the callback of a transfer has   *)
(* not returned, the last device completion the client knows of, or will   *)
(* know of, is that transfer's.                                            *)

(* The last completion of a device among those handled and those posted is *)
(* a completion of t.                                                      *)
LastCompleted(t) ==
  \/ last = t /\ \A i \in DOMAIN queue : result[queue[i]] = "rejected"
  \/ \E i \in DOMAIN queue :
       /\ TransferOf[queue[i]] = t
       /\ result[queue[i]] # "rejected"
       /\ \A j \in DOMAIN queue : j > i => result[queue[j]] = "rejected"

QuietInv == evt.pc \in {"reset", "delete"} => LastCompleted(evt.t)

(* A rejected operation's handler is appended.                             *)
LEMMA LastKeptByRejection ==
  ASSUME TypeOK, NEW t \in Transfers, LastCompleted(t),
         NEW o \in Ops, o \notin Range(queue),
         queue' = Append(queue, o),
         result' = [result EXCEPT ![o] = "rejected"],
         last' = last
  PROVE  LastCompleted(t)'
<1> DEFINE q == Append(queue, o)
<1>1. /\ queue \in Seq(Ops) /\ Len(queue) \in Nat /\ DOMAIN queue = 1 .. Len(queue)
      /\ Len(q) = Len(queue) + 1 /\ q \in Seq(Ops)
      /\ \A i \in 1 .. Len(queue) : q[i] = queue[i]
      /\ q[Len(queue) + 1] = o
  BY AppendProperties, LenProperties DEF TypeOK
<1>2. DOMAIN q = 1 .. Len(queue) + 1
  BY <1>1, LenProperties
<1>3. queue' = q
  OBVIOUS
<1> HIDE DEF q
<1>4. \A i \in DOMAIN queue : queue[i] \in Ops /\ queue[i] # o /\ result'[queue[i]] = result[queue[i]]
  BY <1>1 DEF TypeOK, Range
<1>5. result'[o] = "rejected"
  BY DEF TypeOK
<1>6. CASE last = t /\ \A i \in DOMAIN queue : result[queue[i]] = "rejected"
  <2>1. \A i \in DOMAIN q : result'[q[i]] = "rejected"
    BY <1>1, <1>2, <1>4, <1>5, <1>6
  <2> QED
    BY <1>3, <1>6, <2>1 DEF LastCompleted
<1>7. ASSUME NEW i \in DOMAIN queue,
             TransferOf[queue[i]] = t, result[queue[i]] # "rejected",
             \A j \in DOMAIN queue : j > i => result[queue[j]] = "rejected"
      PROVE  LastCompleted(t)'
  <2>1. i \in DOMAIN q /\ TransferOf[q[i]] = t /\ result'[q[i]] # "rejected"
    BY <1>1, <1>2, <1>4, <1>7
  <2>2. ASSUME NEW j \in DOMAIN q, j > i
        PROVE  result'[q[j]] = "rejected"
    BY <1>1, <1>2, <1>4, <1>5, <1>7, <2>2
  <2> QED
    BY <1>3, <2>1, <2>2 DEF LastCompleted
<1> QED
  BY <1>6, <1>7 DEF LastCompleted

(* A device completion of t is appended.                                   *)
LEMMA LastMadeByCompletion ==
  ASSUME TypeOK, NEW t \in Transfers, NEW o \in Ops, TransferOf[o] = t,
         NEW ec \in Status,
         queue' = Append(queue, o),
         result' = [result EXCEPT ![o] = ec]
  PROVE  LastCompleted(t)'
<1> DEFINE q == Append(queue, o)
<1>1. /\ Len(queue) \in Nat /\ Len(q) = Len(queue) + 1 /\ q \in Seq(Ops)
      /\ q[Len(queue) + 1] = o
  BY AppendProperties, LenProperties DEF TypeOK
<1>2. DOMAIN q = 1 .. Len(queue) + 1
  BY <1>1, LenProperties
<1>3. queue' = q
  OBVIOUS
<1> HIDE DEF q
<1>4. result'[o] # "rejected"
  BY DEF TypeOK, Status
<1>5. /\ Len(queue) + 1 \in DOMAIN q
      /\ \A j \in DOMAIN q : ~(j > Len(queue) + 1)
  BY <1>1, <1>2
<1> QED
  BY <1>1, <1>3, <1>4, <1>5 DEF LastCompleted

(* The handler at the head of the queue is invoked: what was known of the  *)
(* last completion from the queue is now known to the client.              *)
LEMMA LastKeptByInvocation ==
  ASSUME TypeOK, NEW t \in Transfers, LastCompleted(t), RunHandler
  PROVE  LastCompleted(t)'
<1> DEFINE rest == Tail(queue)
<1>1. /\ queue \in Seq(Ops) /\ queue # << >> /\ Len(queue) \in Nat
      /\ rest \in Seq(Ops) /\ Len(rest) = Len(queue) - 1
      /\ \A i \in 1 .. Len(rest) : rest[i] = queue[i + 1]
      /\ Head(queue) = queue[1] /\ DOMAIN queue = 1 .. Len(queue) /\ Len(queue) # 0
  BY HeadTailProperties, LenProperties, EmptySeq DEF TypeOK, RunHandler
<1>2. DOMAIN rest = 1 .. Len(rest)
  BY <1>1, LenProperties
<1>3. queue' = rest /\ result' = result
  BY DEF RunHandler
<1>4. last' = IF result[queue[1]] = "rejected" THEN last ELSE TransferOf[queue[1]]
  BY <1>1 DEF RunHandler
<1> HIDE DEF rest
<1>5. \A i \in DOMAIN rest : i + 1 \in DOMAIN queue /\ rest[i] = queue[i + 1]
  BY <1>1, <1>2
<1>6. CASE last = t /\ \A i \in DOMAIN queue : result[queue[i]] = "rejected"
  <2>1. last' = t
    BY <1>1, <1>4, <1>6
  <2>2. \A i \in DOMAIN rest : result[rest[i]] = "rejected"
    BY <1>5, <1>6
  <2> QED
    BY <1>3, <2>1, <2>2 DEF LastCompleted
<1>7. ASSUME NEW i \in DOMAIN queue,
             TransferOf[queue[i]] = t, result[queue[i]] # "rejected",
             \A j \in DOMAIN queue : j > i => result[queue[j]] = "rejected"
      PROVE  LastCompleted(t)'
  <2>1. CASE i = 1
    <3>1. last' = t
      BY <1>4, <1>7, <2>1
    <3>2. ASSUME NEW j \in DOMAIN rest
          PROVE  result[rest[j]] = "rejected"
      <4>1. j + 1 > i
        BY <1>1, <1>2, <2>1
      <4> QED
        BY <1>5, <1>7, <4>1
    <3> QED
      BY <1>3, <3>1, <3>2 DEF LastCompleted
  <2>2. CASE i # 1
    <3>1. i - 1 \in DOMAIN rest /\ rest[i - 1] = queue[i]
      <4>1. i - 1 \in DOMAIN rest
        BY <1>1, <1>2, <2>2
      <4>2. i - 1 + 1 = i
        BY <1>1
      <4> QED
        BY <1>5, <4>1, <4>2
    <3>2. ASSUME NEW j \in DOMAIN rest, j > i - 1
          PROVE  result[rest[j]] = "rejected"
      <4>1. j + 1 > i
        BY <1>1, <1>2, <3>2
      <4> QED
        BY <1>5, <1>7, <4>1
    <3> QED
      BY <1>3, <1>7, <3>1, <3>2 DEF LastCompleted
  <2> QED
    BY <2>1, <2>2
<1> QED
  BY <1>6, <1>7 DEF LastCompleted

(* The transfer whose callback is running has no completion of another     *)
(* after its own: nobody who asks for one uses it.                         *)
LEMMA QuietUse ==
  ASSUME OpInv, QuietInv, NEW t \in Transfers, MayUse(t), t # last
  PROVE  evt.t # t
<1>1. SUFFICES ASSUME evt.t = t PROVE FALSE
  OBVIOUS
<1>2. evt # EvtIdle
  BY <1>1, ThreadTypes, ConstantsAssumption DEF OpInv
<1>3. ~InFlight(t) /\ \A o \in Unfinished : TransferOf[o] # t
  BY MayUseNotInFlight
<1>4. evt.pc \in {"reset", "delete"}
  BY <1>1, <1>2, <1>3, ThreadTypes DEF OpInv, InFlight
<1>5. PICK i \in DOMAIN queue : TransferOf[queue[i]] = t
  BY <1>1, <1>4 DEF QuietInv, LastCompleted
<1>6. queue[i] \in Unfinished
  BY <1>5 DEF OpInv, Called, Unfinished, Range
<1> QED
  BY <1>3, <1>5, <1>6

LEMMA QuietKeepsAway ==
  ASSUME OpInv, QuietInv, Client = "quiescent"
  PROVE  ClientStep => ClientStepAway
<1>1. ASSUME NEW t \in Transfers, MayUse(t)
      PROVE  evt.t # t
  BY <1>1, QuietUse DEF MayUse
<1> QED
  BY <1>1, ConstantsAssumption DEF ClientStep, ClientStepAway, Call, Destroy

(* Every step preserves QuietInv: what is posted after a completion that   *)
(* is still being handled is at most a rejection.                          *)
LEMMA QuietStep ==
  ASSUME OpInv, HandlingInv, QuietInv, [Next]_vars
  PROVE  QuietInv'
<1>0. None \notin Ops /\ None \notin Transfers
  BY ConstantsAssumption
<1>t. /\ TypeOK /\ (evt # EvtIdle => evt.t \in Transfers /\ evt.status \in Status)
      /\ EvtIdle.pc = "idle"
  BY ThreadTypes DEF OpInv, EvtIdle
<1>1. CASE UNCHANGED <<queue, result, last, evt>>
  BY <1>1 DEF QuietInv, LastCompleted
<1>2. CASE PostError
  <2> DEFINE t == TransferOf[app.op]
  <2>1. /\ app.pc = "post" /\ handler[t] # None /\ app # AppIdle
        /\ PostHandler(t, "rejected")
        /\ UNCHANGED <<last, evt>>
    BY <1>2, ThreadTypes DEF PostError, OpInv
  <2>2. handler[t] = app.op /\ app.op \in Ops /\ app.op \notin Range(queue)
    BY <1>t, <2>1, ThreadTypes DEF OpInv, InitiationQuiet, Pending
  <2>3. \A u \in Transfers : LastCompleted(u) => LastCompleted(u)'
    BY <1>t, <2>1, <2>2, LastKeptByRejection DEF PostHandler
  <2>4. evt.pc \in {"reset", "delete"} => evt.t \in Transfers
    BY <1>t
  <2> QED
    BY <2>1, <2>3, <2>4 DEF QuietInv
<1>3. CASE RunHandler
  <2>1. \A u \in Transfers : LastCompleted(u) => LastCompleted(u)'
    BY <1>t, <1>3, LastKeptByInvocation
  <2>2. evt.pc \in {"reset", "delete"} => evt.t \in Transfers
    BY <1>t
  <2> QED
    BY <1>3, <2>1, <2>2 DEF QuietInv, RunHandler
<1>4. CASE CallbackPost
  <2> DEFINE t == evt.t
             o == wire[t]
  <2>1. /\ evt.pc = "post" /\ handler[t] # None /\ t \in Transfers /\ evt.status \in Status
        /\ PostHandler(t, evt.status)
        /\ evt'.t = t
    BY <1>4, <1>t DEF CallbackPost, InCallback, TypeOK
  <2>2. handler[t] = o /\ TransferOf[o] = t /\ o \in Ops
    BY <1>t, <2>1 DEF OpInv, FlightPending, InFlight, TypeOK
  <2>3. LastCompleted(t)'
    BY <1>t, <2>1, <2>2, LastMadeByCompletion DEF PostHandler
  <2> QED
    BY <2>1, <2>3 DEF QuietInv
<1>5. CASE CallbackReset
  <2>1. evt.pc = "reset" /\ evt'.t = evt.t
    BY <1>5, <1>t DEF CallbackReset, InCallback, TypeOK
  <2> QED
    BY <1>5, <2>1 DEF QuietInv, LastCompleted, CallbackReset, opVars
<1>6. CASE CallbackDelete \/ \E t \in Transfers : Reap(t)
  <2>1. evt'.pc \in {"idle", "post"}
    BY <1>6 DEF CallbackDelete, Reap, EvtIdle
  <2> QED
    BY <2>1 DEF QuietInv
<1> QED
  BY <1>1, <1>2, <1>3, <1>4, <1>5, <1>6
     DEF Next, Step, ClientStep, InitiationStep, CallbackStep, Terminated, Construct, Call, Initiate,
         Destroy, Cancel, AssignHandler, Submit, SubmitFails, ErrorReset, ErrorDelete, RunReturns,
         NullHandler, FreedContext, Crash, vars, objVars, opVars

LEMMA QuietInit == Init => QuietInv
BY DEF Init, QuietInv, EvtIdle

(* With a quiescent client all of this is invariant.                       *)
LEMMA QuietCorrect ==
  ASSUME Client = "quiescent"
  PROVE  Safety => [](OpInv /\ HandlingInv /\ RunsWhileOutstanding)
<1> DEFINE IInv == OpInv /\ HandlingInv /\ QuietInv /\ RunsWhileOutstanding
<1>1. Init => IInv
  BY OpInit, HandlingInit, QuietInit DEF Init, RunsWhileOutstanding
<1>2. IInv /\ [Next]_vars => IInv'
  BY OpStep, QuietKeepsAway, HandlingStep, QuietStep, ReturnStep
<1> QED
  BY <1>1, <1>2, PTL DEF Safety

-----------------------------------------------------------------------------
(* The unique_ptr of a completion context is never in use by               *)
(* async_submit_impl and completion_callback at the same time.             *)
THEOREM HandlerNotSharedCorrect ==
  ASSUME Client = "quiescent"
  PROVE  Safety => []HandlerNotShared
BY HandlingGives, QuietCorrect, PTL

(* Nothing the language leaves undefined ever happens: the callback finds  *)
(* its handler, deletes it once, in an object that exists.                 *)
THEOREM DefinedCorrect ==
  ASSUME Client = "quiescent"
  PROVE  Safety => []NoUndefinedBehaviour
BY HandlingGives, QuietCorrect, PTL

(* A handler is posted before it is deleted.                               *)
THEOREM NoHandlerLostCorrect ==
  ASSUME Client = "quiescent"
  PROVE  Safety => []NoHandlerLost
BY HandlingGives, QuietCorrect, PTL

(* The tracked executors keep run() from returning while libusb has an     *)
(* operation.                                                              *)
THEOREM RunsWhileOutstandingCorrect ==
  ASSUME Client = "quiescent"
  PROVE  Safety => []RunsWhileOutstanding
BY QuietCorrect, PTL
=============================================================================
