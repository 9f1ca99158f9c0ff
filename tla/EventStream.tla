----------------------------- MODULE EventStream -----------------------------
(***************************************************************************)
(* DefaultDockerEvents (internal/daemon/docker_runtime.go) in detail: the  *)
(* "docker events" process, the pipe, the reader goroutine, the unbuffered *)
(* channel Events, the channel Errors with room for one, and the stream's  *)
(* context; and the consumer, watchDockerEvents (app.go), as far as it     *)
(* receives from one stream and gives it up.                               *)
(***************************************************************************)
EXTENDS Integers, Sequences

CONSTANTS
  Actions,   \* the actions docker announces
  MaxLines   \* bound: lines the process writes

ASSUME LinesAssumption == MaxLines \in Nat
ASSUME ActionsAssumption == Actions \cap {"blank", "malformed", "long"} = {}

\* A line of output: an event, an event without action and status, a line that
\* is not JSON, or one beyond the scanner's limit of 64 KiB.
Lines == Actions \cup {"blank", "malformed", "long"}
Fatal == {"malformed", "long"}

VARIABLES
  written,   \* every line the process wrote (history)
  due,       \* where the events stand in written that can be received: those
             \* before the first fatal line (history)
  pipe,      \* lines the reader has not scanned
  proc,      \* "running", "exited" (status 0), "failed", "killed", "reaped"
  ctxDone,   \* streamCtx is done
  stopped,   \* the daemon's context, its parent, is done
  reader,    \* what the reader goroutine does next
  hand,      \* the event it is sending
  errs,      \* buffered in Errors
  shut,      \* channels closed: a subset of {"Errors", "Events"}
  consumer,  \* "resync", "select", "handling", "failed" or "gone"
  got        \* events received (history)

procVars     == <<written, due, pipe, proc>>
ctxVars      == <<ctxDone, stopped>>
readerVars   == <<reader, hand, errs, shut>>
consumerVars == <<consumer, got>>
vars == <<procVars, ctxVars, readerVars, consumerVars>>

Away == consumer \in {"failed", "gone"}
\* A line was written that the reader will not get past.
Broken == \E i \in DOMAIN written : written[i] \in Fatal

Init ==
  /\ written = <<>> /\ due = <<>> /\ pipe = <<>> /\ proc = "running"
  /\ ctxDone = FALSE /\ stopped = FALSE
  /\ reader = "scan" /\ hand = "blank" /\ errs = <<>> /\ shut = {}
  /\ consumer \in {"resync", "select"} /\ got = <<>>

(***************************************************************************)
(* The process                                                             *)
(***************************************************************************)
ProcessWrites ==
  /\ proc = "running"
  /\ Len(written) < MaxLines
  /\ \E l \in Lines :
       /\ written' = Append(written, l)
       /\ pipe' = Append(pipe, l)
       /\ due' = IF l \in Actions /\ ~Broken THEN Append(due, Len(written) + 1) ELSE due
  /\ UNCHANGED <<proc, ctxVars, readerVars, consumerVars>>

ProcessExits ==
  /\ proc = "running"
  /\ proc' \in {"exited", "failed"}
  /\ UNCHANGED <<written, due, pipe, ctxVars, readerVars, consumerVars>>

\* exec.CommandContext kills the process when the context is done.
ProcessKilled ==
  /\ proc = "running"
  /\ ctxDone
  /\ proc' = "killed"
  /\ UNCHANGED <<written, due, pipe, ctxVars, readerVars, consumerVars>>

\* The daemon is told to stop.
Stop ==
  /\ ~stopped
  /\ stopped' = TRUE
  /\ ctxDone' = TRUE
  /\ UNCHANGED <<procVars, readerVars, consumerVars>>

(***************************************************************************)
(* The reader goroutine                                                    *)
(***************************************************************************)
\* scanner.Scan returns a line.  With the context done the goroutine returns
\* at once, without cmd.Wait; a line it cannot decode is reported and the
\* context cancelled; an event without an action is skipped.
ScanLine ==
  /\ reader = "scan"
  /\ pipe # <<>>
  /\ Head(pipe) # "long"
  /\ pipe' = Tail(pipe)
  /\ LET bad == ~ctxDone /\ Head(pipe) = "malformed"
     IN  /\ reader' = CASE ctxDone -> "return"
                        [] bad -> "reap"
                        [] ~ctxDone /\ Head(pipe) = "blank" -> "scan"
                        [] ~ctxDone /\ Head(pipe) \in Actions -> "send"
         /\ errs' = IF bad THEN Append(errs, "decode") ELSE errs
         /\ ctxDone' = (ctxDone \/ bad)
         /\ hand' = IF reader' = "send" THEN Head(pipe) ELSE hand
  /\ UNCHANGED <<written, due, proc, stopped, shut, consumerVars>>

\* scanner.Scan returns false with an error, for a line that is too long.
ScanFails ==
  /\ reader = "scan"
  /\ pipe # <<>>
  /\ Head(pipe) = "long"
  /\ errs' = IF ctxDone THEN errs ELSE Append(errs, "read")
  /\ ctxDone' = TRUE
  /\ reader' = "reap"
  /\ UNCHANGED <<procVars, stopped, hand, shut, consumerVars>>

\* scanner.Scan returns false at the end of the output.
ScanEnds ==
  /\ reader = "scan"
  /\ pipe = <<>>
  /\ proc # "running"
  /\ reader' = "wait"
  /\ UNCHANGED <<procVars, ctxVars, hand, errs, shut, consumerVars>>

\* Mutant of Send: the sender does not wait for a receiver.
SendDropped ==
  /\ reader = "send"
  /\ reader' = "scan"
  /\ IF consumer = "select"
       THEN got' = Append(got, hand) /\ consumer' = "handling"
       ELSE UNCHANGED consumerVars
  /\ UNCHANGED <<procVars, ctxVars, hand, errs, shut>>

\* events <- DockerEvent: the send completes when the consumer receives.
Send ==
  /\ reader = "send"
  /\ consumer = "select"
  /\ got' = Append(got, hand)
  /\ consumer' = "handling"
  /\ reader' = "scan"
  /\ UNCHANGED <<procVars, ctxVars, hand, errs, shut>>

\* Mutant of WaitReturns: an end without an error status is waited for anew.
WaitReturnsSilent ==
  /\ reader = "wait"
  /\ proc # "exited" \/ ctxDone
  /\ reader' = "return"
  /\ proc' = "reaped"
  /\ errs' = IF ctxDone THEN errs ELSE Append(errs, "failed")
  /\ UNCHANGED <<written, due, pipe, ctxVars, hand, shut, consumerVars>>

\* cmd.Wait after the end of the output: the exit status or io.EOF is the
\* error, unless the context is done by now.
WaitReturns ==
  /\ reader = "wait"
  /\ reader' = "return"
  /\ errs' = IF ctxDone THEN errs
             ELSE Append(errs, IF proc = "exited" THEN "EOF" ELSE "failed")
  /\ proc' = "reaped"
  /\ UNCHANGED <<written, due, pipe, ctxVars, hand, shut, consumerVars>>

\* Mutant of ReapReturns: the goroutine returns without cmd.Wait.
ReapReturnsUnwaited ==
  /\ reader = "reap"
  /\ reader' = "return"
  /\ UNCHANGED <<procVars, ctxVars, hand, errs, shut, consumerVars>>

\* cancel() and cmd.Wait() after an error was reported.
ReapReturns ==
  /\ reader = "reap"
  /\ proc # "running"
  /\ reader' = "return"
  /\ proc' = "reaped"
  /\ UNCHANGED <<written, due, pipe, ctxVars, hand, errs, shut, consumerVars>>

\* The deferred calls: close(errs), then close(events).
CloseChannels ==
  \/ /\ reader = "return"
     /\ reader' = "returning"
     /\ shut' = {"Errors"}
     /\ UNCHANGED <<procVars, ctxVars, hand, errs, consumerVars>>
  \/ /\ reader = "returning"
     /\ reader' = "done"
     /\ shut' = {"Errors", "Events"}
     /\ UNCHANGED <<procVars, ctxVars, hand, errs, consumerVars>>

(***************************************************************************)
(* The consumer: consumeDockerEvents and watchDockerEvents                 *)
(***************************************************************************)
\* handleDockerEvent returns.
Handled ==
  /\ consumer = "handling"
  /\ consumer' = "select"
  /\ UNCHANGED <<procVars, ctxVars, readerVars, got>>

\* An error is received and the stream closed.
ReceiveError ==
  /\ consumer = "select"
  /\ errs # <<>>
  /\ errs' = Tail(errs)
  /\ consumer' = "failed"
  /\ ctxDone' = TRUE
  /\ UNCHANGED <<procVars, stopped, reader, hand, shut, got>>

\* A closed channel is an error too: "docker event stream closed".  It does not
\* count as the report of an end when the daemon has been told to stop.
ReceiveClosed ==
  /\ consumer = "select"
  /\ "Events" \in shut \/ ("Errors" \in shut /\ errs = <<>>)
  /\ consumer' = IF stopped THEN "gone" ELSE "failed"
  /\ ctxDone' = TRUE
  /\ UNCHANGED <<procVars, stopped, readerVars, got>>

\* <-ctx.Done() in consumeDockerEvents.
ConsumerStops ==
  /\ consumer = "select"
  /\ stopped
  /\ consumer' = "gone"
  /\ UNCHANGED <<procVars, ctxVars, readerVars, got>>

\* resyncWatcher succeeds and the consumer turns to the stream.
Resynced ==
  /\ consumer = "resync"
  /\ consumer' = "select"
  /\ UNCHANGED <<procVars, ctxVars, readerVars, got>>

\* Mutant of ResyncFails: the stream is left open.
ResyncFailsOpen ==
  /\ consumer = "resync"
  /\ consumer' = "gone"
  /\ UNCHANGED <<procVars, ctxVars, readerVars, got>>

\* resyncWatcher fails: stream.Close() before anything was received.
ResyncFails ==
  /\ consumer = "resync"
  /\ consumer' = "gone"
  /\ ctxDone' = TRUE
  /\ UNCHANGED <<procVars, stopped, readerVars, got>>

\* Nothing is left to do.  A reader that holds an event when its consumer is
\* gone stays in its send.
Terminated ==
  /\ Away
  /\ proc # "running"
  /\ reader \in {"send", "done"}
  /\ UNCHANGED vars

ReaderStep ==
  ScanLine \/ ScanFails \/ ScanEnds \/ Send \/ WaitReturns \/ ReapReturns \/ CloseChannels
ConsumerStep ==
  Handled \/ ReceiveError \/ ReceiveClosed \/ ConsumerStops \/ Resynced \/ ResyncFails

Next ==
  \/ ProcessWrites \/ ProcessExits \/ ProcessKilled \/ Stop
  \/ ReaderStep
  \/ ConsumerStep
  \/ Terminated

Spec == Init /\ [][Next]_vars

(***************************************************************************)
(* Goroutines are scheduled, a scan ends, a killed process dies.  Nothing  *)
(* makes Docker write or end.                                              *)
(***************************************************************************)
Fairness == WF_vars(ReaderStep) /\ WF_vars(ConsumerStep) /\ WF_vars(ProcessKilled)

FairSpec == Spec /\ Fairness

(***************************************************************************)
(* Properties                                                              *)
(***************************************************************************)
TypeOK ==
  /\ written \in Seq(Lines) /\ Len(written) <= MaxLines
  /\ due \in Seq(Nat)
  /\ pipe \in Seq(Lines)
  /\ proc \in {"running", "exited", "failed", "killed", "reaped"}
  /\ ctxDone \in BOOLEAN /\ stopped \in BOOLEAN
  /\ reader \in {"scan", "send", "wait", "reap", "return", "returning", "done"}
  /\ hand \in Actions \cup {"blank"}
  /\ errs \in Seq({"decode", "read", "EOF", "failed"})
  /\ shut \in SUBSET {"Errors", "Events"}
  /\ consumer \in {"resync", "select", "handling", "failed", "gone"}
  /\ got \in Seq(Actions)

\* The events the consumer is to receive and has not.
Owed == [j \in 1..(Len(due) - Len(got)) |-> written[due[Len(got) + j]]]

Source == INSTANCE EventSource WITH
  Events   <- Actions,
  queue    <- IF Away THEN <<>> ELSE Owed,
  received <- got,
  status   <- IF consumer = "failed" THEN "failed"
              ELSE IF consumer = "gone" THEN "closed"
              ELSE IF proc # "running" \/ Broken THEN "ended" ELSE "open"

\* DefaultDockerEvents implements EventSource: its consumer learns of an end
\* only when it has received every event written before it, in the order written.
ImplementsSource == Source!Spec

\* The consumer learns of every end, also when the process goes on running.
EndReported == Source!EndReported

\* A stream that reports its end leaves no process behind: it is waited for.
EndReaped == (consumer = "failed") ~> (proc = "reaped")

\* When the consumer has given the stream up, the process ends and so does the
\* reader, unless it is caught in the send of an event nobody will receive.
ReaderEndsOrHolds ==
  Away ~> (proc # "running" /\ (reader = "done" \/ (reader = "send" /\ ctxDone)))
==============================================================================
