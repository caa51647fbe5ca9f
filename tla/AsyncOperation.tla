--------------------------- MODULE AsyncOperation ---------------------------
(***************************************************************************)
(* What every asynchronous operation of the library promises, whatever     *)
(* carries it out: an operation is initiated once, completed at most once  *)
(* by posting its handler to the completion executor, and posted handlers  *)
(* are invoked one by one in the order they were posted.  usb_transfer     *)
(* operations and blocking operations (async_unclaim, async_reset_device,  *)
(* ...) are both shown to implement it.                                    *)
(***************************************************************************)
EXTENDS Sequences, Functions

CONSTANT Ops   \* the asynchronous operations of one execution

VARIABLES
  pending,     \* operations initiated, whose handler has not been posted
  outbox,      \* handlers posted to the completion executor, oldest first
  invoked      \* operations whose handler has been invoked

absVars == <<pending, outbox, invoked>>

AbsInit ==
  /\ pending = {}
  /\ outbox = << >>
  /\ invoked = {}

AbsInitiate(o) ==
  /\ o \notin pending \cup Range(outbox) \cup invoked
  /\ pending' = pending \cup {o}
  /\ UNCHANGED <<outbox, invoked>>

AbsComplete(o) ==
  /\ o \in pending
  /\ pending' = pending \ {o}
  /\ outbox' = Append(outbox, o)
  /\ UNCHANGED invoked

AbsInvoke ==
  /\ outbox # << >>
  /\ outbox' = Tail(outbox)
  /\ invoked' = invoked \cup {Head(outbox)}
  /\ UNCHANGED pending

AbsNext ==
  \/ \E o \in Ops : AbsInitiate(o) \/ AbsComplete(o)
  \/ AbsInvoke

AbsSafety == AbsInit /\ [][AbsNext]_absVars

(* Nothing is promised about when the device answers; a posted handler,    *)
(* however, is run by whoever runs the execution context.                  *)
AbsSpec == AbsSafety /\ WF_absVars(AbsInvoke)
=============================================================================
