-------------------------- MODULE BlockingOpsProofs --------------------------
(***************************************************************************)
(* Safety of BlockingOps, and that it implements AsyncOperation, for any   *)
(* set of operations.                                                      *)
(***************************************************************************)
EXTENDS BlockingOps, SequenceTheorems, SequenceLemmas, TLAPS

-----------------------------------------------------------------------------
(* The variables take values of their types.                               *)
LEMMA TypeStep ==
  ASSUME TypeOK, [Next]_vars
  PROVE  TypeOK'
<1> USE DEF TypeOK
<1>1. thread.ops \in Seq(Ops)
  OBVIOUS
<1>2. CASE ConstructExecutor \/ DestroyExecutor \/ Join
  BY <1>2 DEF ConstructExecutor, DestroyExecutor, Join
<1>3. ASSUME NEW o \in Ops, Initiate(o)
      PROVE  TypeOK'
  BY <1>3, AppendProperties DEF Initiate
<1>4. CASE RunHandler
  BY <1>4, AppendProperties, HeadTailProperties DEF RunHandler
<1>5. CASE EnterRun \/ RunReturns
  <2>1. << >> \in Seq(Ops) /\ Len(<< >>) = 0
    BY EmptySeq
  <2>2. missed' \in BOOLEAN
    BY <1>5 DEF EnterRun, RunReturns
  <2> QED
    BY <1>5, <2>1, <2>2 DEF EnterRun, RunReturns, Idle
<1>6. CASE TakeFunction
  BY <1>6, HeadTailProperties DEF TakeFunction, Working
<1>7. CASE BlockingCallReturns
  <2>1. executed' \subseteq Ops
    BY <1>1, <1>7, RangeOfSeq DEF BlockingCallReturns
  <2> QED
    BY <1>7, <2>1 DEF BlockingCallReturns
<1>8. CASE PostHandler
  BY <1>1, <1>8, ConcatProperties DEF PostHandler, Idle
<1>9. CASE UNCHANGED vars
  BY <1>9 DEF vars
<1> QED
  BY <1>2, <1>3, <1>4, <1>5, <1>6, <1>7, <1>8, <1>9 DEF Next, ThreadStep, Terminated

(* The variables only take values of their types.                          *)
THEOREM TypeCorrect == Safety => []TypeOK
<1>1. Init => TypeOK
  <2>1. << >> \in Seq(Ops) /\ Len(<< >>) = 0
    BY EmptySeq
  <2>2. ASSUME Init PROVE thread.pc = "starting" /\ thread.ops = << >>
    BY <2>2 DEF Init, Idle
  <2> QED
    BY <2>1, <2>2 DEF Init, TypeOK, Idle
<1>2. TypeOK /\ [Next]_vars => TypeOK'
  BY TypeStep
<1> QED
  BY <1>1, <1>2, PTL DEF Safety

-----------------------------------------------------------------------------
(* What each action moves from one sequence to the next.                   *)
LEMMA OrderStep ==
  ASSUME TypeOK, InInitiationOrder, [Next]_vars
  PROVE  InInitiationOrder'
<1>0. /\ thread.ops \in Seq(Ops) /\ invoked \in Seq(Ops) /\ queue \in Seq(Ops)
      /\ blocking_queue \in Seq(Ops) /\ initiated \in Seq(Ops)
      /\ invoked \o queue \in Seq(Ops)
      /\ invoked \o queue \o thread.ops \in Seq(Ops)
      /\ queue \o thread.ops \in Seq(Ops)
  BY ConcatProperties DEF TypeOK
<1>1. CASE UNCHANGED <<initiated, invoked, queue, thread.ops, blocking_queue>>
  BY <1>1 DEF InInitiationOrder
<1>2. ASSUME NEW o \in Ops, Initiate(o)
      PROVE  InInitiationOrder'
  <2>1. /\ initiated' = Append(initiated, o)
        /\ blocking_queue' = Append(blocking_queue, o)
        /\ UNCHANGED <<invoked, queue, thread>>
    BY <1>2 DEF Initiate
  <2> DEFINE taken == invoked \o queue \o thread.ops
  <2>2. initiated = taken \o blocking_queue /\ taken \in Seq(Ops)
    BY <1>0 DEF InInitiationOrder
  <2>3. initiated' = taken' \o blocking_queue' <=> initiated' = taken \o blocking_queue'
    BY <2>1
  <2> HIDE DEF taken
  <2>4. blocking_queue \in Seq(Ops)
    BY <1>0
  <2>5. taken \o Append(blocking_queue, o) = Append(taken \o blocking_queue, o)
    BY <2>2, <2>4, AppendToSecond
  <2>6. initiated' = taken \o blocking_queue'
    BY <2>1, <2>2, <2>5
  <2> QED
    BY <2>3, <2>6 DEF InInitiationOrder, taken
<1>3. CASE RunHandler
  <2>1. invoked' \o queue' = invoked \o queue
    BY <1>0, <1>3, MoveHead DEF RunHandler
  <2>2. UNCHANGED <<initiated, thread, blocking_queue>>
    BY <1>3 DEF RunHandler
  <2> QED
    BY <2>1, <2>2 DEF InInitiationOrder
<1>4. CASE TakeFunction
  <2>1. thread.ops = << >>
    BY <1>0, <1>4, EmptySeq DEF TakeFunction, TypeOK
  <2>2. /\ thread'.ops = <<Head(blocking_queue)>> /\ <<Head(blocking_queue)>> \in Seq(Ops)
        /\ blocking_queue' = Tail(blocking_queue) /\ blocking_queue' \in Seq(Ops)
        /\ blocking_queue = thread'.ops \o blocking_queue'
    BY <1>0, <1>4, HeadTailProperties, HeadThenTail DEF TakeFunction, Working
  <2>3. UNCHANGED <<initiated, invoked, queue>>
    BY <1>4 DEF TakeFunction
  <2>4. invoked \o queue \o thread.ops = invoked \o queue
    BY <1>0, <2>1, ConcatEmptySeq
  <2>5. thread'.ops \in Seq(Ops)
    BY <2>2
  <2>6. (invoked \o queue) \o (thread'.ops \o blocking_queue') = (invoked \o queue) \o thread'.ops \o blocking_queue'
    <3> DEFINE ops == thread'.ops
               rest == blocking_queue'
               first == invoked \o queue
    <3>1. ops \in Seq(Ops) /\ rest \in Seq(Ops) /\ first \in Seq(Ops)
      BY <1>0, <2>2, <2>5
    <3> HIDE DEF ops, rest, first
    <3>2. first \o (ops \o rest) = first \o ops \o rest
      BY <3>1, Associative
    <3> QED
      BY <3>2 DEF ops, rest, first
  <2> QED
    BY <2>2, <2>3, <2>4, <2>6 DEF InInitiationOrder
<1>5. CASE PostHandler
  <2>1. /\ queue' = queue \o thread.ops
        /\ thread'.ops = << >>
        /\ UNCHANGED <<initiated, invoked, blocking_queue>>
    BY <1>5 DEF PostHandler, Idle
  <2>2. invoked \o (queue \o thread.ops) = invoked \o queue \o thread.ops
    <3> DEFINE ops == thread.ops
    <3>1. invoked \in Seq(Ops) /\ queue \in Seq(Ops) /\ ops \in Seq(Ops)
      BY <1>0
    <3> HIDE DEF ops
    <3>2. invoked \o (queue \o ops) = invoked \o queue \o ops
      BY <3>1, Associative
    <3> QED
      BY <3>2 DEF ops
  <2>3. invoked' \o queue' \o thread'.ops = invoked \o queue \o thread.ops
    BY <1>0, <2>1, <2>2, ConcatEmptySeq
  <2> QED
    BY <2>1, <2>3 DEF InInitiationOrder
<1>6. CASE EnterRun \/ RunReturns \/ BlockingCallReturns
  <2>1. thread'.ops = thread.ops
    BY <1>6 DEF EnterRun, RunReturns, BlockingCallReturns, Idle, TypeOK
  <2> QED
    BY <1>1, <1>6, <2>1 DEF EnterRun, RunReturns, BlockingCallReturns
<1>7. CASE ConstructExecutor \/ DestroyExecutor \/ Join \/ UNCHANGED vars
  BY <1>1, <1>7 DEF ConstructExecutor, DestroyExecutor, Join, vars
<1> QED
  BY <1>2, <1>3, <1>4, <1>5, <1>6, <1>7 DEF Next, ThreadStep, Terminated

(* Operations are carried out and complete in the order of initiation.     *)
THEOREM OrderCorrect == Safety => []InInitiationOrder
<1>1. Init => InInitiationOrder
  BY DEF Init, InInitiationOrder, Idle
<1>2. TypeOK /\ InInitiationOrder /\ [Next]_vars => InInitiationOrder'
  BY OrderStep
<1> QED
  BY <1>1, <1>2, TypeCorrect, PTL DEF Safety

-----------------------------------------------------------------------------
(* How the owner, blocking_op_executor_ and the thread are tied together.  *)
LifeInv ==
  /\ blocking_op_work <=> owner = "using"
  /\ owner = "constructing" => blocking_queue = << >>
  /\ thread.pc \in {"idle", "blocking", "returned"} => owner # "constructing"
  /\ owner = "joined" => thread.pc = "exited"
  /\ thread.pc = "exited" /\ ~missed => owner \in {"joining", "joined"} /\ blocking_queue = << >>

(* Every step preserves LifeInv.                                           *)
LEMMA LifeStep ==
  ASSUME TypeOK, LifeInv, [Next]_vars
  PROVE  LifeInv'
<1> USE DEF LifeInv
<1>1. CASE ConstructExecutor \/ DestroyExecutor \/ Join
  BY <1>1 DEF ConstructExecutor, DestroyExecutor, Join
<1>2. ASSUME NEW o \in Ops, Initiate(o)
      PROVE  LifeInv'
  BY <1>2 DEF Initiate
<1>3. CASE RunHandler
  BY <1>3 DEF RunHandler
<1>4. CASE EnterRun
  <2>1. CASE Work
    <3>1. thread'.pc = "idle" /\ UNCHANGED <<owner, blocking_op_work, blocking_queue>>
      BY <1>4, <2>1 DEF EnterRun, Idle
    <3>2. owner # "constructing"
      BY <2>1 DEF Work
    <3> QED
      BY <1>4, <3>1, <3>2 DEF EnterRun
  <2>2. CASE ~Work
    <3>1. thread'.pc = "exited" /\ missed' /\ UNCHANGED <<owner, blocking_op_work, blocking_queue>>
      BY <1>4, <2>2 DEF EnterRun, Idle
    <3> QED
      BY <3>1, <1>4 DEF EnterRun
  <2> QED
    BY <2>1, <2>2
<1>7. CASE RunReturns
  BY <1>7 DEF RunReturns, Idle, Work, TypeOK
<1>5. CASE TakeFunction \/ BlockingCallReturns \/ PostHandler
  BY <1>5 DEF TakeFunction, BlockingCallReturns, PostHandler, Idle, Working, TypeOK
<1>6. CASE UNCHANGED vars
  BY <1>6 DEF vars
<1> QED
  BY <1>1, <1>2, <1>3, <1>4, <1>5, <1>6, <1>7 DEF Next, ThreadStep, Terminated

(* LifeInv is an invariant.                                                *)
LEMMA LifeCorrect == Safety => []LifeInv
<1>1. Init => LifeInv
  BY DEF Init, LifeInv, Idle
<1>2. TypeOK /\ LifeInv /\ [Next]_vars => LifeInv'
  BY LifeStep
<1> QED
  BY <1>1, <1>2, TypeCorrect, PTL DEF Safety

(* blocking_op_executor_ keeps the thread, if it was in time, until the    *)
(* service is destroyed.                                                   *)
THEOREM StaysCorrect == Safety => []StaysUntilDestroyed
<1>1. LifeInv => StaysUntilDestroyed
  BY DEF LifeInv, StaysUntilDestroyed
<1> QED
  BY <1>1, LifeCorrect, PTL

-----------------------------------------------------------------------------
(* The operations carried out are those that left the blocking thread and  *)
(* the one about to leave it.                                              *)
Leaving == IF thread.pc = "returned" THEN Range(thread.ops) ELSE {}

ExecutedInv == executed = Range(invoked) \cup Range(queue) \cup Leaving

(* Every step preserves ExecutedInv.                                       *)
LEMMA ExecutedStep ==
  ASSUME TypeOK, ExecutedInv, [Next]_vars
  PROVE  ExecutedInv'
<1> USE DEF ExecutedInv
<1>1. CASE UNCHANGED <<executed, invoked, queue, thread>>
  BY <1>1 DEF Leaving
<1>2. CASE RunHandler
  <2>1. invoked \in Seq(Ops) /\ queue \in Seq(Ops) /\ queue # << >> /\ Head(queue) \in Ops
    BY <1>2, HeadTailProperties DEF TypeOK, RunHandler
  <2>2. Range(Append(invoked, Head(queue))) = Range(invoked) \cup {Head(queue)}
    BY <2>1, RangeAppend
  <2>3. Range(queue) = {Head(queue)} \cup Range(Tail(queue))
    BY <2>1, HeadThenTail
  <2>4. Leaving' = Leaving /\ executed' = executed
    BY <1>2 DEF RunHandler, Leaving
  <2> QED
    BY <1>2, <2>2, <2>3, <2>4 DEF RunHandler
<1>3. CASE EnterRun \/ RunReturns \/ TakeFunction
  <2>1. Leaving = {} /\ Leaving' = {}
    BY <1>3 DEF EnterRun, RunReturns, TakeFunction, Idle, Working, Leaving
  <2> QED
    BY <1>3, <2>1 DEF EnterRun, RunReturns, TakeFunction
<1>4. CASE BlockingCallReturns
  <2>1. Leaving = {} /\ Leaving' = Range(thread.ops)
    BY <1>4 DEF BlockingCallReturns, Leaving, TypeOK
  <2> QED
    BY <1>4, <2>1 DEF BlockingCallReturns
<1>5. CASE PostHandler
  <2>1. Leaving = Range(thread.ops) /\ Leaving' = {}
    BY <1>5 DEF PostHandler, Leaving, Idle
  <2>2. Range(queue \o thread.ops) = Range(queue) \cup Range(thread.ops)
    <3>1. queue \in Seq(Ops) /\ thread.ops \in Seq(Ops)
      BY DEF TypeOK
    <3> QED
      BY <3>1, RangeConcatenation
  <2> QED
    BY <1>5, <2>1, <2>2 DEF PostHandler
<1> QED
  BY <1>1, <1>2, <1>3, <1>4, <1>5
     DEF Next, ThreadStep, ConstructExecutor, Initiate, DestroyExecutor, Join, Terminated, vars

(* ExecutedInv is an invariant.                                            *)
LEMMA ExecutedCorrect == Safety => []ExecutedInv
<1>1. Init => ExecutedInv
  BY DEF Init, ExecutedInv, Leaving, Idle, Range
<1>2. TypeOK /\ ExecutedInv /\ [Next]_vars => ExecutedInv'
  BY ExecutedStep
<1> QED
  BY <1>1, <1>2, TypeCorrect, PTL DEF Safety

(* ~usb_service returns only when all that was posted has been carried out. *)
THEOREM DrainCorrect == Safety => []DestructionDrains
<1>1. ASSUME TypeOK, InInitiationOrder, LifeInv, ExecutedInv
      PROVE  DestructionDrains
  <2> SUFFICES ASSUME owner = "joined", ~missed
               PROVE  executed = Range(initiated)
    BY DEF DestructionDrains
  <2>1. thread.pc = "exited" /\ blocking_queue = << >>
    BY <1>1 DEF LifeInv
  <2>2. thread.ops = << >>
    BY <1>1, <2>1, EmptySeq DEF TypeOK
  <2>3. invoked \in Seq(Ops) /\ queue \in Seq(Ops) /\ invoked \o queue \in Seq(Ops)
    BY <1>1, ConcatProperties DEF TypeOK
  <2>4. initiated = invoked \o queue
    BY <1>1, <2>1, <2>2, <2>3, ConcatEmptySeq DEF InInitiationOrder
  <2>5. Range(initiated) = Range(invoked) \cup Range(queue)
    BY <2>3, <2>4, RangeConcatenation
  <2> QED
    BY <1>1, <2>1, <2>5 DEF ExecutedInv, Leaving
<1> QED
  BY <1>1, TypeCorrect, OrderCorrect, LifeCorrect, ExecutedCorrect, PTL

-----------------------------------------------------------------------------
(* No operation is initiated twice, so one that is with the blocking       *)
(* thread is not among those whose handlers have been posted.              *)
NoRepeats ==
  \A i, j \in 1 .. Len(initiated) : initiated[i] = initiated[j] => i = j

(* Every step preserves NoRepeats.                                         *)
LEMMA NoRepeatsStep ==
  ASSUME TypeOK, NoRepeats, [Next]_vars
  PROVE  NoRepeats'
<1>1. CASE UNCHANGED initiated
  BY <1>1 DEF NoRepeats
<1>2. ASSUME NEW o \in Ops, Initiate(o)
      PROVE  NoRepeats'
  <2>1. initiated \in Seq(Ops) /\ initiated' = Append(initiated, o)
    BY <1>2 DEF TypeOK, Initiate
  <2>2. \A i \in 1 .. Len(initiated) : initiated[i] # o
    BY <1>2, <2>1 DEF Initiate, Range
  <2>3. /\ Len(initiated') = Len(initiated) + 1
        /\ Len(initiated) \in Nat
        /\ \A i \in 1 .. Len(initiated) : initiated'[i] = initiated[i]
        /\ initiated'[Len(initiated) + 1] = o
    BY <2>1, AppendProperties
  <2> QED
    BY <2>2, <2>3 DEF NoRepeats
<1> QED
  BY <1>1, <1>2
     DEF Next, ThreadStep, ConstructExecutor, RunHandler, DestroyExecutor, Join, EnterRun,
         TakeFunction, BlockingCallReturns, PostHandler, RunReturns, Terminated, vars

(* NoRepeats is an invariant.                                              *)
LEMMA NoRepeatsCorrect == Safety => []NoRepeats
<1>1. Init => NoRepeats
  BY DEF Init, NoRepeats
<1>2. TypeOK /\ NoRepeats /\ [Next]_vars => NoRepeats'
  BY NoRepeatsStep
<1> QED
  BY <1>1, <1>2, TypeCorrect, PTL DEF Safety

(* The operation with the blocking thread is pending.                      *)
LEMMA ThreadPending ==
  ASSUME TypeOK, InInitiationOrder, NoRepeats, NEW o \in Ops, thread.ops = <<o>>
  PROVE  o \in Range(initiated) \ (Range(queue) \cup Range(invoked))
<1> DEFINE p == invoked \o queue
<1>1. invoked \in Seq(Ops) /\ queue \in Seq(Ops) /\ blocking_queue \in Seq(Ops)
  BY DEF TypeOK
<1>2. p \in Seq(Ops) /\ Range(p) = Range(invoked) \cup Range(queue)
  BY <1>1, ConcatProperties, RangeConcatenation
<1>3. initiated = (p \o <<o>>) \o blocking_queue
  BY DEF InInitiationOrder
<1> HIDE DEF p
<1>4. o \notin Range(p) /\ o \in Range((p \o <<o>>) \o blocking_queue)
  BY <1>1, <1>2, <1>3, ElementOnce DEF NoRepeats
<1> QED
  BY <1>2, <1>3, <1>4

(* What has been posted was initiated.                                     *)
LEMMA PostedInitiated ==
  ASSUME TypeOK, InInitiationOrder
  PROVE  Range(queue) \cup Range(invoked) \subseteq Range(initiated)
<1>1. invoked \in Seq(Ops) /\ queue \in Seq(Ops) /\ blocking_queue \in Seq(Ops) /\ thread.ops \in Seq(Ops)
  BY DEF TypeOK
<1> DEFINE ops == thread.ops
           posted == (invoked \o queue) \o ops
<1>2. ops \in Seq(Ops)
  BY <1>1
<1>3. initiated = posted \o blocking_queue
  BY DEF InInitiationOrder
<1> HIDE DEF ops
<1>4. posted \in Seq(Ops) /\ Range(posted) = Range(invoked) \cup Range(queue) \cup Range(ops)
  BY <1>1, <1>2, RangeOfThree
<1> HIDE DEF posted
<1>5. Range(initiated) = Range(posted) \cup Range(blocking_queue)
  BY <1>1, <1>3, <1>4, RangeConcatenation
<1> QED
  BY <1>4, <1>5

(* Every step is a step of AsyncOperation, or leaves its variables alone.  *)
LEMMA RefinementStep ==
  ASSUME TypeOK, InInitiationOrder, NoRepeats, [Next]_vars
  PROVE  [Abs!AbsNext]_(Abs!absVars)
<1> DEFINE pending == Range(initiated) \ (Range(queue) \cup Range(invoked))
<1>1. CASE UNCHANGED <<initiated, queue, invoked>>
  BY <1>1 DEF Abs!absVars
<1>2. ASSUME NEW o \in Ops, Initiate(o)
      PROVE  Abs!AbsNext
  <2>1. UNCHANGED <<queue, invoked>> /\ o \notin Range(initiated)
    BY <1>2 DEF Initiate
  <2>2. Range(initiated') = Range(initiated) \cup {o}
    BY <1>2, RangeAppend DEF Initiate, TypeOK
  <2>3. o \notin pending \cup Range(queue) \cup Range(invoked)
    BY <2>1, PostedInitiated
  <2>4. pending' = pending \cup {o}
    BY <2>1, <2>2, <2>3
  <2>5. Abs!AbsInitiate(o)
    <3>1. Abs!Range(queue) = Range(queue)
      BY DEF Abs!Range, Range
    <3>2. UNCHANGED <<queue, Range(invoked)>>
      BY <2>1
    <3> QED
      BY <2>3, <2>4, <3>1, <3>2 DEF Abs!AbsInitiate
  <2> QED
    BY <2>5 DEF Abs!AbsNext
<1>3. CASE RunHandler
  <2>1. queue \in Seq(Ops) /\ invoked \in Seq(Ops) /\ queue # << >> /\ Head(queue) \in Ops
    BY <1>3, HeadTailProperties DEF TypeOK, RunHandler
  <2>2. Range(invoked') = Range(invoked) \cup {Head(queue)}
    BY <1>3, <2>1, RangeAppend DEF RunHandler
  <2>3. Range(queue) = {Head(queue)} \cup Range(queue')
    BY <1>3, <2>1, HeadThenTail DEF RunHandler
  <2>4. Abs!AbsInvoke
    BY <1>3, <2>1, <2>2, <2>3 DEF Abs!AbsInvoke, RunHandler
  <2> QED
    BY <2>4 DEF Abs!AbsNext
<1>4. CASE PostHandler
  <2>1. PICK o \in Ops : thread.ops = <<o>>
    <3>1. thread.ops \in Seq(Ops) /\ Len(thread.ops) = 1
      BY <1>4 DEF PostHandler, TypeOK
    <3>2. thread.ops[1] \in Ops /\ thread.ops = <<thread.ops[1]>>
      BY <3>1
    <3> QED
      BY <3>2
  <2>2. queue \in Seq(Ops) /\ queue' = Append(queue, o)
    BY <1>4, <2>1, AppendIsConcat DEF PostHandler, TypeOK
  <2>3. Range(queue') = Range(queue) \cup {o}
    BY <2>2, RangeAppend
  <2>4. UNCHANGED <<initiated, invoked>>
    BY <1>4 DEF PostHandler
  <2>5. Abs!AbsComplete(o)
    BY <2>1, <2>2, <2>3, <2>4, ThreadPending DEF Abs!AbsComplete
  <2> QED
    BY <2>5 DEF Abs!AbsNext
<1> QED
  BY <1>1, <1>2, <1>3, <1>4
     DEF Next, ThreadStep, ConstructExecutor, DestroyExecutor, Join, EnterRun,
         TakeFunction, BlockingCallReturns, RunReturns, Terminated, vars

(* A blocking operation completes at most once, and handlers are invoked   *)
(* in the order they were posted.                                          *)
THEOREM RefinementCorrect == Safety => AtMostOnce
<1>1. Init => Abs!AbsInit
  BY DEF Init, Abs!AbsInit, Range
<1>2. TypeOK /\ InInitiationOrder /\ NoRepeats /\ [Next]_vars => [Abs!AbsNext]_(Abs!absVars)
  BY RefinementStep
<1> QED
  BY <1>1, <1>2, TypeCorrect, OrderCorrect, NoRepeatsCorrect, PTL
     DEF Safety, AtMostOnce, Abs!AbsSafety
=============================================================================
