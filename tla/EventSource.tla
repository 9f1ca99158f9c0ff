----------------------------- MODULE EventSource -----------------------------
(***************************************************************************)
(* What watchDockerEvents may rely on when it holds an EventStream         *)
(* (internal/daemon/docker_runtime.go): events come in the order in which  *)
(* Docker wrote them, none is left out, and the stream reports its end     *)
(* only after the last of them.  Watcher takes this for granted;           *)
(* EventStream, the reader goroutine in detail, is shown to implement it.  *)
(***************************************************************************)
EXTENDS Sequences

CONSTANT Events

VARIABLES
  queue,     \* events the stream still owes its consumer
  received,  \* events the consumer has received
  status     \* "open", "ended", "failed" (the end was reported), "closed"

sourceVars == <<queue, received, status>>

Init == queue = <<>> /\ received = <<>> /\ status = "open"

Publish ==
  /\ status = "open"
  /\ \E e \in Events : queue' = Append(queue, e)
  /\ UNCHANGED <<received, status>>

End ==
  /\ status = "open"
  /\ status' = "ended"
  /\ UNCHANGED <<queue, received>>

Receive ==
  /\ status \in {"open", "ended"}
  /\ queue # <<>>
  /\ received' = Append(received, Head(queue))
  /\ queue' = Tail(queue)
  /\ UNCHANGED status

Fail ==
  /\ status = "ended"
  /\ queue = <<>>
  /\ status' = "failed"
  /\ UNCHANGED <<queue, received>>

\* The consumer gives the stream up, with what it still holds.
Close ==
  /\ status \in {"open", "ended"}
  /\ status' = "closed"
  /\ queue' = <<>>
  /\ UNCHANGED received

Next == Publish \/ End \/ Receive \/ Fail \/ Close

Spec == Init /\ [][Next]_sourceVars

\* The end of a stream is reported, unless the consumer gives it up before.
EndReported == (status = "ended") ~> (status \in {"failed", "closed"})
==============================================================================
