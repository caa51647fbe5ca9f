----------------------------- MODULE BlockingOps -----------------------------
(***************************************************************************)
(* async_try_blocking_with_ec: the operations async_set_configuration,     *)
(* async_clear_halt, async_reset_device, async_unclaim and                 *)
(* async_set_alt_setting.  A call of libusb that blocks is posted to       *)
(* blocking_op_ioc_, whose only thread is blocking_op_thread_ of           *)
(* usb_service; the thread posts the handler to the completion executor.   *)
(* The module follows the service from its constructor to its destructor:  *)
(* what keeps the thread in run() is blocking_op_executor_, the last       *)
(* member to be constructed and the first to be destroyed.                 *)
(***************************************************************************)
EXTENDS Sequences, Functions

CONSTANT Ops         \* calls of async_try_blocking_with_ec

VARIABLES
  owner,             \* where the owner of the service is in its life
  blocking_op_work,  \* blocking_op_executor_ exists and counts as work
  thread,            \* what blocking_op_thread_ executes, and for whom
  missed,            \* it entered run() when there was no work
  initiated,         \* operations, in the order they were initiated
  blocking_queue,    \* functions posted to blocking_op_ioc_, oldest first
  executed,          \* operations whose call of libusb has returned
  queue,             \* handlers posted to the completion executor
  invoked            \* operations whose handler was invoked, in order

vars == <<owner, blocking_op_work, thread, missed, initiated, blocking_queue,
          executed, queue, invoked>>

Idle(pc) == [pc |-> pc, ops |-> << >>]
Working(pc, o) == [pc |-> pc, ops |-> <<o>>]

(* The constructor of usb_service has started blocking_op_thread_ and not  *)
(* yet initialised blocking_op_executor_.                                  *)
Init ==
  /\ owner = "constructing"
  /\ blocking_op_work = FALSE
  /\ thread = Idle("starting")
  /\ missed = FALSE
  /\ initiated = << >>
  /\ blocking_queue = << >>
  /\ executed = {}
  /\ queue = << >>
  /\ invoked = << >>

-----------------------------------------------------------------------------
(* The owner of the service, and the client's thread.                      *)

(* Mutant of ConstructExecutor: the executor does not track work.          *)
ConstructExecutorUntracked ==
  /\ owner = "constructing"
  /\ owner' = "using"
  /\ UNCHANGED <<blocking_op_work, thread, missed, initiated, blocking_queue, executed, queue, invoked>>

ConstructExecutor ==
  /\ owner = "constructing"
  /\ owner' = "using"
  /\ blocking_op_work' = TRUE
  /\ UNCHANGED <<thread, missed, initiated, blocking_queue, executed, queue, invoked>>

(* Mutant of Initiate: the function overtakes those already posted.        *)
InitiateFirst(o) ==
  /\ owner = "using"
  /\ o \notin Range(initiated)
  /\ initiated' = Append(initiated, o)
  /\ blocking_queue' = <<o>> \o blocking_queue
  /\ UNCHANGED <<owner, blocking_op_work, thread, missed, executed, queue, invoked>>

(* async_try_blocking_with_ec: the function is posted, whether or not a    *)
(* thread is there to run it.                                              *)
Initiate(o) ==
  /\ owner = "using"
  /\ o \notin Range(initiated)
  /\ initiated' = Append(initiated, o)
  /\ blocking_queue' = Append(blocking_queue, o)
  /\ UNCHANGED <<owner, blocking_op_work, thread, missed, executed, queue, invoked>>

RunHandler ==
  /\ owner = "using"
  /\ queue # << >>
  /\ invoked' = Append(invoked, Head(queue))
  /\ queue' = Tail(queue)
  /\ UNCHANGED <<owner, blocking_op_work, thread, missed, initiated, blocking_queue, executed>>

(* The execution context is destroyed, by a client that may have stopped   *)
(* it with operations unfinished: their handlers are not invoked any more. *)
(* ~usb_service destroys blocking_op_executor_ ...                         *)
DestroyExecutor ==
  /\ owner = "using"
  /\ owner' = "joining"
  /\ blocking_op_work' = FALSE
  /\ UNCHANGED <<thread, missed, initiated, blocking_queue, executed, queue, invoked>>

(* ... and joins blocking_op_thread_.                                      *)
Join ==
  /\ owner = "joining"
  /\ thread.pc = "exited"
  /\ owner' = "joined"
  /\ UNCHANGED <<blocking_op_work, thread, missed, initiated, blocking_queue, executed, queue, invoked>>

-----------------------------------------------------------------------------
(* blocking_op_thread_ in blocking_op_ioc_.run().                          *)

Work == blocking_op_work \/ blocking_queue # << >>

(* Mutant of EnterRun: the thread polls until there is work.               *)
EnterRunPolling ==
  /\ thread.pc = "starting"
  /\ thread' = Idle(IF Work THEN "idle" ELSE "starting")
  /\ missed' = FALSE
  /\ UNCHANGED <<owner, blocking_op_work, initiated, blocking_queue, executed, queue, invoked>>

EnterRun ==
  /\ thread.pc = "starting"
  /\ thread' = Idle(IF Work THEN "idle" ELSE "exited")
  /\ missed' = ~Work
  /\ UNCHANGED <<owner, blocking_op_work, initiated, blocking_queue, executed, queue, invoked>>

(* The posted function is taken and calls libusb.                          *)
TakeFunction ==
  /\ thread.pc = "idle"
  /\ blocking_queue # << >>
  /\ thread' = Working("blocking", Head(blocking_queue))
  /\ blocking_queue' = Tail(blocking_queue)
  /\ UNCHANGED <<owner, blocking_op_work, missed, initiated, executed, queue, invoked>>

(* Mutant of BlockingCallReturns: the handler is posted here as well.      *)
BlockingCallReturnsAndPosts ==
  /\ thread.pc = "blocking"
  /\ executed' = executed \cup Range(thread.ops)
  /\ thread' = [thread EXCEPT !.pc = "returned"]
  /\ queue' = queue \o thread.ops
  /\ UNCHANGED <<owner, blocking_op_work, missed, initiated, blocking_queue, invoked>>

(* libusb returns, successfully or not.                                    *)
BlockingCallReturns ==
  /\ thread.pc = "blocking"
  /\ executed' = executed \cup Range(thread.ops)
  /\ thread' = [thread EXCEPT !.pc = "returned"]
  /\ UNCHANGED <<owner, blocking_op_work, missed, initiated, blocking_queue, queue, invoked>>

(* The handler is posted to the completion executor with the error code.   *)
PostHandler ==
  /\ thread.pc = "returned"
  /\ queue' = queue \o thread.ops
  /\ thread' = Idle("idle")
  /\ UNCHANGED <<owner, blocking_op_work, missed, initiated, blocking_queue, executed, invoked>>

(* Mutant of RunReturns: run() is stopped and does not drain the queue.    *)
RunReturnsStopped ==
  /\ thread.pc = "idle"
  /\ ~blocking_op_work
  /\ thread' = Idle("exited")
  /\ UNCHANGED <<owner, blocking_op_work, missed, initiated, blocking_queue, executed, queue, invoked>>

RunReturns ==
  /\ thread.pc = "idle"
  /\ ~Work
  /\ thread' = Idle("exited")
  /\ UNCHANGED <<owner, blocking_op_work, missed, initiated, blocking_queue, executed, queue, invoked>>

ThreadStep == EnterRun \/ TakeFunction \/ BlockingCallReturns \/ PostHandler \/ RunReturns

-----------------------------------------------------------------------------
Terminated == owner = "joined" /\ UNCHANGED vars

Next ==
  \/ ConstructExecutor
  \/ \E o \in Ops : Initiate(o)
  \/ RunHandler
  \/ DestroyExecutor \/ Join
  \/ ThreadStep
  \/ Terminated

Safety == Init /\ [][Next]_vars

(* The threads are scheduled and the calls of libusb return.  Nobody has   *)
(* to initiate an operation or to destroy the execution context.           *)
Spec ==
  /\ Safety
  /\ WF_vars(ConstructExecutor)
  /\ WF_vars(ThreadStep)
  /\ WF_vars(RunHandler)
  /\ WF_vars(Join)

-----------------------------------------------------------------------------
(* Properties.                                                             *)

(* The values the variables take.                                          *)
TypeOK ==
  /\ owner \in {"constructing", "using", "joining", "joined"}
  /\ blocking_op_work \in BOOLEAN
  /\ thread \in [pc : {"starting", "idle", "blocking", "returned", "exited"}, ops : Seq(Ops)]
  /\ Len(thread.ops) = IF thread.pc \in {"blocking", "returned"} THEN 1 ELSE 0
  /\ missed \in BOOLEAN
  /\ initiated \in Seq(Ops) /\ blocking_queue \in Seq(Ops)
  /\ executed \subseteq Ops
  /\ queue \in Seq(Ops) /\ invoked \in Seq(Ops)

(* No operation is lost, repeated or overtaken by a later one: those whose *)
(* handlers were invoked, those whose handlers are posted, the one in a    *)
(* call of libusb and those waiting follow one another as initiated.       *)
InInitiationOrder == initiated = invoked \o queue \o thread.ops \o blocking_queue

(* The thread returns from run() because the service is being destroyed,   *)
(* or because it entered it before the service was constructed.            *)
StaysUntilDestroyed ==
  thread.pc = "exited" => missed \/ owner \in {"joining", "joined"}

(* ~usb_service returns when every function posted to the blocking thread  *)
(* has run, though nobody is left to be told: an interface whose           *)
(* async_unclaim was initiated is released before libusb_exit.  Not so if  *)
(* the thread entered run() before the service had an executor: it is gone.*)
DestructionDrains == owner = "joined" /\ ~missed => executed = Range(initiated)

(* Each operation completes at most once, and handlers are invoked in the  *)
(* order they were posted.                                                 *)
Abs == INSTANCE AsyncOperation WITH
  pending <- Range(initiated) \ (Range(queue) \cup Range(invoked)),
  outbox <- queue,
  invoked <- Range(invoked)

AtMostOnce == Abs!AbsSafety

(* An operation initiated while the blocking thread is there is carried    *)
(* out, even if the service is destroyed before it was its turn.           *)
OperationsCarriedOut ==
  \A o \in Ops : o \in Range(initiated) /\ thread.pc # "exited" ~> o \in executed

(* The destruction of the service does not wait for the thread for ever.   *)
DestructionReturns == owner = "joining" ~> owner = "joined"

(* Every operation completes as long as the execution context is run.      *)
OperationsComplete ==
  \A o \in Ops : o \in Range(initiated) ~> o \in Range(invoked) \/ owner # "using"
=============================================================================
