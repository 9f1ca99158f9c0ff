--------------------------- MODULE EventStreamProofs ---------------------------
(***************************************************************************)
(* EventStream implements EventSource, for any set of actions and every    *)
(* number of lines.                                                        *)
(***************************************************************************)
EXTENDS EventStream, TLAPS, SequenceTheorems

\* How many lines the reader has scanned.
Scanned == Len(written) - Len(pipe)

\* The pipe holds the lines that are not scanned.
PipeInv ==
  /\ Len(pipe) <= Len(written)
  /\ \A i \in 1..Len(pipe) : pipe[i] = written[Scanned + i]

\* No line up to the n-th is fatal.
Clean(n) == \A i \in 1..n : written[i] \notin Fatal

\* due names the events before the first fatal line, all of them, in order.
DueInv ==
  /\ \A j \in 1..Len(due) :
       /\ due[j] \in 1..Len(written) /\ written[due[j]] \in Actions
       /\ Clean(due[j])
  /\ \A j, k \in 1..Len(due) : j < k => due[j] < due[k]
  /\ \A i \in 1..Len(written) : written[i] \in Actions /\ Clean(i) => \E j \in 1..Len(due) : due[j] = i

\* What was received is what was due, from the first on.
GotInv ==
  /\ Len(got) <= Len(due)
  /\ \A j \in 1..Len(got) : got[j] = written[due[j]]

\* The reader is past n events that are due and no fatal line.
InStep(n) ==
  /\ Clean(Scanned)
  /\ \A j \in 1..Len(due) : j <= n <=> due[j] <= Scanned

\* Everything due is received and nothing more will be.
Complete == Len(got) = Len(due) /\ (proc # "running" \/ Broken)

ReaderInv ==
  /\ reader \in {"scan", "wait"} => InStep(Len(got))
  /\ reader = "send" =>
       /\ Len(got) < Len(due) /\ InStep(Len(got) + 1)
       /\ hand = written[due[Len(got) + 1]]
  /\ reader = "wait" => pipe = <<>> /\ proc # "running"
  /\ reader \in {"scan", "send", "wait"} => errs = <<>> /\ shut = {}
  /\ shut # {} => reader \in {"returning", "done"}

\* An end is known only when everything due is received; the reader stops short of it
\* only for a consumer that is gone or going.
EndInv ==
  /\ errs # <<>> => Complete
  /\ ctxDone => stopped \/ Away \/ errs # <<>>
  /\ reader \in {"reap", "return", "returning", "done"} => stopped \/ Away \/ Complete

StreamInv == TypeOK /\ PipeInv /\ DueInv /\ GotInv /\ ReaderInv /\ EndInv

USE LinesAssumption, ActionsAssumption

(***************************************************************************)
(* Facts of one state                                                      *)
(***************************************************************************)
LEMMA Lengths ==
  ASSUME StreamInv
  PROVE  /\ written \in Seq(Lines) /\ pipe \in Seq(Lines) /\ due \in Seq(Nat) /\ got \in Seq(Actions)
         /\ Len(written) \in Nat /\ Len(pipe) \in Nat /\ Len(due) \in Nat /\ Len(got) \in Nat
         /\ Scanned \in Nat /\ Scanned + Len(pipe) = Len(written) /\ Len(got) <= Len(due)
         /\ \A j \in 1..Len(due) : due[j] \in 1..Len(written) /\ due[j] \in Nat
<1>1. /\ written \in Seq(Lines) /\ pipe \in Seq(Lines) /\ due \in Seq(Nat) /\ got \in Seq(Actions)
  BY DEF StreamInv, TypeOK
<1>2. Len(written) \in Nat /\ Len(pipe) \in Nat /\ Len(due) \in Nat /\ Len(got) \in Nat
  BY <1>1
<1>3. Scanned \in Nat /\ Scanned + Len(pipe) = Len(written)
  BY <1>2 DEF StreamInv, PipeInv, Scanned
<1>4. \A j \in 1..Len(due) : due[j] \in 1..Len(written) /\ due[j] \in Nat
  BY <1>1 DEF StreamInv, DueInv
<1> QED
  BY <1>1, <1>2, <1>3, <1>4 DEF StreamInv, GotInv

\* A reader in step, with nothing due beyond what it has scanned, has delivered all.
LEMMA AllDelivered ==
  ASSUME StreamInv, InStep(Len(got)), \A j \in 1..Len(due) : due[j] <= Scanned
  PROVE  Len(got) = Len(due)
<1>1. Len(due) \in Nat /\ Len(got) \in Nat /\ Len(got) <= Len(due)
  BY Lengths
<1>2. \A j \in 1..Len(due) : j <= Len(got)
  BY DEF InStep
<1> HIDE DEF InStep
<1>3. Len(due) # 0 => Len(due) \in 1..Len(due)
  BY <1>1
<1> QED
  BY <1>1, <1>2, <1>3

\* The line scanned next.
LEMMA NextLine ==
  ASSUME StreamInv, pipe # <<>>
  PROVE  /\ Scanned + 1 \in 1..Len(written) /\ Head(pipe) = written[Scanned + 1]
         /\ Head(pipe) \in Lines
         /\ Tail(pipe) \in Seq(Lines) /\ Len(Tail(pipe)) = Len(pipe) - 1
         /\ \A i \in 1..Len(Tail(pipe)) : Tail(pipe)[i] = pipe[i + 1]
<1>1. /\ pipe \in Seq(Lines) /\ Len(pipe) \in Nat /\ Len(written) \in Nat /\ Scanned \in Nat
      /\ Scanned + Len(pipe) = Len(written)
  BY Lengths
<1>2. Len(pipe) # 0
  BY <1>1, EmptySeq
<1>3. 1 \in 1..Len(pipe)
  BY <1>1, <1>2
<1>4. pipe[1] = written[Scanned + 1]
  BY <1>3 DEF StreamInv, PipeInv
<1>5. Scanned + 1 \in 1..Len(written)
  BY <1>1, <1>2
<1>6. Head(pipe) = pipe[1] /\ pipe[1] \in Lines
  BY <1>1, <1>3
<1>7. /\ Tail(pipe) \in Seq(Lines) /\ Len(Tail(pipe)) = Len(pipe) - 1
      /\ \A i \in 1..Len(Tail(pipe)) : Tail(pipe)[i] = pipe[i + 1]
  BY <1>1, HeadTailProperties
<1> QED
  BY <1>4, <1>5, <1>6, <1>7

\* Before a fatal line the reader has delivered all that will be due.
LEMMA FatalNext ==
  ASSUME StreamInv, InStep(Len(got)), pipe # <<>>, Head(pipe) \in Fatal
  PROVE  Len(got) = Len(due) /\ Broken
<1>1. Scanned + 1 \in 1..Len(written) /\ written[Scanned + 1] \in Fatal
  BY NextLine
<1>2. Scanned \in Nat /\ \A j \in 1..Len(due) : due[j] \in Nat
  BY Lengths
<1>3. \A j \in 1..Len(due) : Clean(due[j])
  BY DEF StreamInv, DueInv
<1>4. ASSUME NEW j \in 1..Len(due) PROVE due[j] <= Scanned
  <2>1. Scanned + 1 \notin 1..due[j]
    BY <1>1, <1>3 DEF Clean
  <2>2. due[j] \in Nat
    BY <1>2
  <2> QED
    BY <1>2, <2>1, <2>2
<1>5. Len(got) = Len(due)
  BY <1>4, AllDelivered
<1>6. Broken
  <2>1. DOMAIN written = 1..Len(written)
    BY Lengths
  <2> QED
    BY <1>1, <2>1 DEF Broken
<1> QED
  BY <1>5, <1>6

\* A line that is an event is the next one due.
LEMMA EventNext ==
  ASSUME StreamInv, InStep(Len(got)), pipe # <<>>, Head(pipe) \in Actions
  PROVE  Len(got) < Len(due) /\ due[Len(got) + 1] = Scanned + 1
<1> DEFINE g == Len(got)
           n == Scanned + 1
<1>1. /\ Len(due) \in Nat /\ g \in Nat /\ Scanned \in Nat /\ n \in Nat
      /\ \A j \in 1..Len(due) : due[j] \in Nat
  BY Lengths
<1>2. n \in 1..Len(written) /\ written[n] \in Actions
  BY NextLine
<1>3. Clean(n)
  <2>1. \A i \in 1..n : i = n \/ i \in 1..Scanned
    BY <1>1
  <2>2. \A i \in 1..Scanned : written[i] \notin Fatal
    BY DEF InStep, Clean
  <2>3. written[n] \notin Fatal
    BY <1>2 DEF Fatal
  <2> QED
    BY <2>1, <2>2, <2>3 DEF Clean
<1>4. PICK j \in 1..Len(due) : due[j] = n
  BY <1>2, <1>3 DEF StreamInv, DueInv
<1>5. \A k \in 1..Len(due) : k <= g <=> due[k] <= Scanned
  BY DEF InStep
<1> HIDE DEF g, n
<1>6. ~(j <= g) /\ j \in Nat
  BY <1>1, <1>4, <1>5 DEF n
<1>7. g + 1 \in 1..Len(due)
  BY <1>1, <1>6
<1>8. ~(due[g + 1] <= Scanned) /\ due[g + 1] \in Nat
  <2>1. ~(g + 1 <= g)
    BY <1>1
  <2> QED
    BY <1>1, <1>5, <1>7, <2>1
<1>9. ~(g + 1 < j)
  <2>1. g + 1 < j => due[g + 1] < n
    BY <1>4, <1>7 DEF StreamInv, DueInv
  <2> QED
    BY <1>1, <1>8, <2>1 DEF n
<1>10. j = g + 1
  BY <1>1, <1>6, <1>9
<1> QED
  BY <1>1, <1>4, <1>7, <1>10 DEF g, n
(***************************************************************************)
(* The steps                                                               *)
(***************************************************************************)
LEMMA Still ==
  ASSUME StreamInv, UNCHANGED <<written, due, pipe, got>>, TypeOK', ReaderInv', EndInv'
  PROVE  StreamInv'
BY DEF StreamInv, PipeInv, DueInv, GotInv, Clean, Scanned

\* The process ends, the daemon is told to stop, or the consumer goes on.
LEMMA OutsideSteps ==
  ASSUME StreamInv,
         \/ ProcessExits \/ ProcessKilled \/ Stop \/ Handled \/ Resynced \/ ConsumerStops
         \/ ResyncFails \/ UNCHANGED vars
  PROVE  StreamInv'
<1>1. UNCHANGED <<written, due, pipe, got, reader, hand, errs, shut>>
  BY DEF ProcessExits, ProcessKilled, Stop, Handled, Resynced, ConsumerStops, ResyncFails,
     vars, procVars, readerVars, consumerVars
<1>2. TypeOK'
  <2>1. proc' = proc \/ proc' \in {"exited", "failed", "killed"}
    BY DEF ProcessExits, ProcessKilled, Stop, Handled, Resynced, ConsumerStops, ResyncFails,
       vars, procVars
  <2>2. ctxDone' \in BOOLEAN /\ stopped' \in BOOLEAN
    <3>1. ctxDone \in BOOLEAN /\ stopped \in BOOLEAN
      BY DEF StreamInv, TypeOK
    <3> QED
      BY <3>1 DEF ProcessExits, ProcessKilled, Stop, Handled, Resynced, ConsumerStops,
         ResyncFails, vars, ctxVars
  <2>3. consumer' = consumer \/ consumer' \in {"select", "gone"}
    BY DEF ProcessExits, ProcessKilled, Stop, Handled, Resynced, ConsumerStops, ResyncFails,
       vars, consumerVars
  <2> QED
    BY <1>1, <2>1, <2>2, <2>3 DEF StreamInv, TypeOK
<1>3. proc' = proc \/ proc' # "running"
  BY DEF ProcessExits, ProcessKilled, Stop, Handled, Resynced, ConsumerStops, ResyncFails,
     vars, procVars
<1>4. ReaderInv'
  BY <1>1, <1>3 DEF StreamInv, ReaderInv, InStep, Clean, Scanned
<1>5. Complete => Complete'
  BY <1>1, <1>3 DEF Complete, Broken
<1>6. (stopped => stopped') /\ (Away => Away')
  BY DEF ProcessExits, ProcessKilled, Stop, Handled, Resynced, ConsumerStops, ResyncFails,
     vars, consumerVars, ctxVars, Away
<1>7. ctxDone' => ctxDone \/ stopped' \/ Away'
  BY DEF ProcessExits, ProcessKilled, Stop, Handled, Resynced, ConsumerStops, ResyncFails,
     vars, ctxVars, Away
<1>8. EndInv'
  BY <1>1, <1>5, <1>6, <1>7 DEF StreamInv, EndInv
<1> QED
  BY <1>1, <1>2, <1>4, <1>8, Still

\* The consumer learns of an end.
LEMMA ReceiveSteps ==
  ASSUME StreamInv, ReceiveError \/ ReceiveClosed
  PROVE  StreamInv'
<1>1. /\ UNCHANGED <<written, due, pipe, got, reader, hand, shut, proc, stopped>>
      /\ consumer' \in {"failed", "gone"} /\ ctxDone' = TRUE
      /\ errs' = errs \/ (errs # <<>> /\ errs' = Tail(errs))
  BY DEF ReceiveError, ReceiveClosed, procVars, readerVars
<1>2. errs' \in Seq({"decode", "read", "EOF", "failed"})
  <2> DEFINE E == {"decode", "read", "EOF", "failed"}
  <2>1. errs \in Seq(E)
    BY DEF StreamInv, TypeOK
  <2> HIDE DEF E
  <2>2. errs' \in Seq(E)
    BY <1>1, <2>1, HeadTailProperties
  <2> QED
    BY <2>2 DEF E
<1>3. TypeOK'
  BY <1>1, <1>2 DEF StreamInv, TypeOK
<1>4. errs = <<>> => errs' = <<>>
  BY <1>1
<1>5. ReaderInv'
  BY <1>1, <1>4 DEF StreamInv, ReaderInv, InStep, Clean, Scanned
<1>6. EndInv'
  BY <1>1, <1>4 DEF StreamInv, EndInv, Complete, Broken, Away
<1> QED
  BY <1>1, <1>3, <1>5, <1>6, Still

\* The reader after its last line.
LEMMA LeavingSteps ==
  ASSUME StreamInv, ScanEnds \/ ReapReturns \/ CloseChannels
  PROVE  StreamInv'
<1>1. UNCHANGED <<written, due, pipe, got, hand, errs, ctxDone, stopped, consumer>>
  BY DEF ScanEnds, ReapReturns, CloseChannels, procVars, ctxVars, consumerVars
<1>2. TypeOK'
  BY <1>1 DEF StreamInv, TypeOK, ScanEnds, ReapReturns, CloseChannels, procVars
<1>3. proc' = proc \/ proc' # "running"
  BY DEF ScanEnds, ReapReturns, CloseChannels, procVars
<1>4. ReaderInv'
  <2>1. CASE ScanEnds
    BY <1>1, <2>1 DEF ScanEnds, procVars, StreamInv, ReaderInv, InStep, Clean, Scanned
  <2>2. CASE ReapReturns \/ CloseChannels
    BY <1>1, <2>2 DEF ReapReturns, CloseChannels, StreamInv, ReaderInv
  <2> QED
    BY <2>1, <2>2
<1>5. Complete => Complete'
  BY <1>1, <1>3 DEF Complete, Broken
<1>6. reader' \in {"reap", "return", "returning", "done"} =>
        reader \in {"reap", "return", "returning", "done"}
  BY DEF ScanEnds, ReapReturns, CloseChannels
<1>7. EndInv'
  BY <1>1, <1>5, <1>6 DEF StreamInv, EndInv, Away
<1> QED
  BY <1>1, <1>2, <1>4, <1>7, Still

\* cmd.Wait returns: with an empty pipe and no more writer all is delivered.
LEMMA WaitStep ==
  ASSUME StreamInv, WaitReturns
  PROVE  StreamInv'
<1>1. /\ UNCHANGED <<written, due, pipe, got, hand, shut, ctxDone, stopped, consumer>>
      /\ reader = "wait" /\ reader' = "return" /\ proc' = "reaped"
      /\ errs' = IF ctxDone THEN errs ELSE Append(errs, IF proc = "exited" THEN "EOF" ELSE "failed")
  BY DEF WaitReturns, ctxVars, consumerVars
<1>2. /\ InStep(Len(got)) /\ pipe = <<>> /\ errs = <<>> /\ shut = {}
  BY <1>1 DEF StreamInv, ReaderInv
<1>3. Complete'
  <2>1. Len(pipe) = 0 /\ Len(written) \in Nat /\ Scanned + Len(pipe) = Len(written) /\ Scanned \in Nat
    BY <1>2, Lengths
  <2>2. \A j \in 1..Len(due) : due[j] <= Scanned
    BY <2>1, Lengths
  <2>3. Len(got) = Len(due)
    BY <1>2, <2>2, AllDelivered
  <2> QED
    BY <1>1, <2>3 DEF Complete
<1>4. errs' \in Seq({"decode", "read", "EOF", "failed"})
  <2> DEFINE E == {"decode", "read", "EOF", "failed"}
  <2>1. errs \in Seq(E) /\ "EOF" \in E /\ "failed" \in E
    BY DEF StreamInv, TypeOK
  <2> HIDE DEF E
  <2>2. errs' \in Seq(E)
    BY <1>1, <2>1, AppendProperties
  <2> QED
    BY <2>2 DEF E
<1>5. TypeOK'
  BY <1>1, <1>4 DEF StreamInv, TypeOK
<1>6. ReaderInv'
  BY <1>1, <1>2 DEF ReaderInv
<1>7. EndInv'
  <2>1. ctxDone => stopped \/ Away
    BY <1>2 DEF StreamInv, EndInv
  <2> QED
    BY <1>1, <1>3, <2>1 DEF EndInv, Away
<1> QED
  BY <1>1, <1>5, <1>6, <1>7, Still

\* A line too long: all that was before it is delivered.
LEMMA ScanFailsStep ==
  ASSUME StreamInv, ScanFails
  PROVE  StreamInv'
<1>1. /\ UNCHANGED <<written, due, pipe, got, hand, shut, proc, stopped, consumer>>
      /\ reader = "scan" /\ reader' = "reap" /\ ctxDone' = TRUE
      /\ errs' = IF ctxDone THEN errs ELSE Append(errs, "read")
      /\ pipe # <<>> /\ Head(pipe) \in Fatal
  BY DEF ScanFails, procVars, consumerVars, Fatal
<1>2. /\ InStep(Len(got)) /\ errs = <<>> /\ shut = {}
  BY <1>1 DEF StreamInv, ReaderInv
<1>3. Complete'
  BY <1>1, <1>2, FatalNext DEF Complete, Broken
<1>4. /\ errs' \in Seq({"decode", "read", "EOF", "failed"}) /\ (~ctxDone => errs' # <<>>)
  <2> DEFINE E == {"decode", "read", "EOF", "failed"}
  <2>1. errs \in Seq(E) /\ "read" \in E
    BY DEF StreamInv, TypeOK
  <2> HIDE DEF E
  <2>2. errs' \in Seq(E) /\ (~ctxDone => errs' # <<>>)
    BY <1>1, <2>1, AppendProperties
  <2> QED
    BY <2>2 DEF E
<1>5. TypeOK'
  BY <1>1, <1>4 DEF StreamInv, TypeOK
<1>6. ReaderInv'
  BY <1>1, <1>2 DEF ReaderInv
<1>7. EndInv'
  <2>1. ctxDone => stopped \/ Away
    BY <1>2 DEF StreamInv, EndInv
  <2> QED
    BY <1>1, <1>3, <1>4, <2>1 DEF EndInv, Away
<1> QED
  BY <1>1, <1>5, <1>6, <1>7, Still
\* A line leaves the pipe.
LEMMA Popped ==
  ASSUME StreamInv, pipe # <<>>, pipe' = Tail(pipe), UNCHANGED <<written, due, got>>
  PROVE  PipeInv' /\ DueInv' /\ GotInv' /\ Scanned' = Scanned + 1 /\ pipe' \in Seq(Lines)
<1>1. /\ Len(pipe) \in Nat /\ Len(written) \in Nat /\ Scanned + Len(pipe) = Len(written)
      /\ Scanned \in Nat
  BY Lengths
<1>2. /\ pipe' \in Seq(Lines) /\ Len(pipe') = Len(pipe) - 1
      /\ \A i \in 1..Len(pipe') : pipe'[i] = pipe[i + 1]
  BY NextLine
<1>3. Scanned' = Scanned + 1
  BY <1>1, <1>2 DEF Scanned
<1>4. PipeInv'
  <2>1. ASSUME NEW i \in 1..Len(pipe') PROVE pipe'[i] = written'[Scanned' + i]
    <3>1. i \in Nat /\ i + 1 \in 1..Len(pipe)
      BY <1>1, <1>2
    <3>2. pipe[i + 1] = written[Scanned + (i + 1)]
      BY <3>1 DEF StreamInv, PipeInv
    <3>3. Scanned + (i + 1) = Scanned' + i
      BY <1>1, <1>3, <3>1
    <3> QED
      BY <1>2, <3>2, <3>3
  <2>2. Len(pipe') <= Len(written')
    BY <1>1, <1>2
  <2> QED
    BY <2>1, <2>2 DEF PipeInv
<1>5. DueInv' /\ GotInv'
  BY DEF StreamInv, DueInv, GotInv, Clean
<1> QED
  BY <1>2, <1>3, <1>4, <1>5

LEMMA ScanLineStep ==
  ASSUME StreamInv, ScanLine
  PROVE  StreamInv'
<1> DEFINE g == Len(got)
           n == Scanned + 1
<1>1. /\ UNCHANGED <<written, due, got, proc, stopped, shut, consumer>>
      /\ reader = "scan" /\ pipe # <<>> /\ pipe' = Tail(pipe) /\ Head(pipe) # "long"
  BY DEF ScanLine, consumerVars
<1>2. /\ InStep(g) /\ errs = <<>> /\ shut = {}
  BY <1>1 DEF StreamInv, ReaderInv
<1>3. /\ PipeInv' /\ DueInv' /\ GotInv' /\ Scanned' = n /\ pipe' \in Seq(Lines)
  BY <1>1, Popped
<1>4. /\ n \in 1..Len(written) /\ Head(pipe) = written[n] /\ Head(pipe) \in Lines
  BY <1>1, NextLine
<1>5. /\ Scanned \in Nat /\ n \in Nat /\ Len(due) \in Nat /\ g \in Nat
      /\ \A j \in 1..Len(due) : due[j] \in Nat
  BY Lengths
<1>6. \A i \in 1..n : i = n \/ i \in 1..Scanned
  BY <1>5
<1>7. /\ \A i \in 1..Scanned : written[i] \notin Fatal
      /\ \A j \in 1..Len(due) : j <= g <=> due[j] <= Scanned
  BY <1>2 DEF InStep, Clean
<1>8. CASE ctxDone
  <2>1. reader' = "return" /\ errs' = errs /\ ctxDone' = TRUE /\ hand' = hand
    BY <1>8 DEF ScanLine
  <2>2. TypeOK'
    BY <1>1, <1>3, <2>1 DEF StreamInv, TypeOK
  <2>3. ReaderInv'
    BY <1>1, <1>2, <2>1 DEF ReaderInv
  <2>4. stopped \/ Away
    BY <1>2, <1>8 DEF StreamInv, EndInv
  <2>5. EndInv'
    BY <1>1, <1>2, <2>1, <2>4 DEF EndInv, Away
  <2> QED
    BY <1>3, <2>2, <2>3, <2>5 DEF StreamInv
<1>9. CASE ~ctxDone /\ Head(pipe) = "malformed"
  <2>1. reader' = "reap" /\ errs' = Append(errs, "decode") /\ ctxDone' = TRUE /\ hand' = hand
    BY <1>9 DEF ScanLine
  <2>2. errs' \in Seq({"decode", "read", "EOF", "failed"}) /\ errs' # <<>>
    <3> DEFINE E == {"decode", "read", "EOF", "failed"}
    <3>1. errs \in Seq(E) /\ "decode" \in E
      BY DEF StreamInv, TypeOK
    <3> HIDE DEF E
    <3>2. errs' \in Seq(E) /\ errs' # <<>>
      BY <2>1, <3>1, AppendProperties
    <3> QED
      BY <3>2 DEF E
  <2>3. TypeOK'
    BY <1>1, <1>3, <2>1, <2>2 DEF StreamInv, TypeOK
  <2>4. ReaderInv'
    BY <1>1, <1>2, <2>1 DEF ReaderInv
  <2>5. g = Len(due) /\ Broken
    BY <1>1, <1>2, <1>9, FatalNext DEF Fatal
  <2>6. Complete'
    BY <1>1, <2>5 DEF Complete, Broken
  <2>7. EndInv'
    BY <2>2, <2>6 DEF EndInv
  <2> QED
    BY <1>3, <2>3, <2>4, <2>7 DEF StreamInv
<1>10. CASE ~ctxDone /\ Head(pipe) = "blank"
  <2>0. Head(pipe) # "malformed" /\ Head(pipe) \notin Actions
    BY <1>10
  <2>1. reader' = "scan" /\ errs' = errs /\ ctxDone' = FALSE /\ hand' = hand
    BY <1>10, <2>0 DEF ScanLine
  <2>2. TypeOK'
    BY <1>1, <1>3, <2>1 DEF StreamInv, TypeOK
  <2>3. written[n] \notin Fatal /\ written[n] \notin Actions
    BY <1>4, <1>10 DEF Fatal
  <2>4. \A i \in 1..n : written[i] \notin Fatal
    BY <1>6, <1>7, <2>3
  <2>5. \A j \in 1..Len(due) : due[j] # n
    BY <2>3 DEF StreamInv, DueInv
  <2> HIDE DEF g
  <2>6. \A j \in 1..Len(due) : j <= g <=> due[j] <= n
    <3> TAKE j \in 1..Len(due)
    <3>1. due[j] \in Nat /\ due[j] # n /\ (j <= g <=> due[j] <= Scanned)
      BY <1>5, <1>7, <2>5
    <3> QED
      BY <1>5, <3>1
  <2>7. InStep(Len(got))'
    BY <1>1, <1>3, <2>4, <2>6 DEF InStep, Clean, g
  <2>8. ReaderInv'
    BY <1>1, <1>2, <2>1, <2>7 DEF ReaderInv
  <2>9. EndInv'
    BY <1>1, <1>2, <1>10, <2>1 DEF EndInv
  <2> QED
    BY <1>3, <2>2, <2>8, <2>9 DEF StreamInv
<1>11. CASE ~ctxDone /\ Head(pipe) \in Actions
  <2>0. Head(pipe) # "malformed" /\ Head(pipe) # "blank"
    BY <1>11
  <2>1. reader' = "send" /\ errs' = errs /\ ctxDone' = FALSE /\ hand' = written[n]
    BY <1>4, <1>11, <2>0 DEF ScanLine
  <2>2. TypeOK'
    BY <1>1, <1>3, <1>4, <1>11, <2>1 DEF StreamInv, TypeOK
  <2>3. written[n] \notin Fatal
    BY <1>4, <1>11 DEF Fatal
  <2>4. \A i \in 1..n : written[i] \notin Fatal
    BY <1>6, <1>7, <2>3
  <2>5. g < Len(due) /\ due[g + 1] = n
    BY <1>1, <1>2, <1>11, EventNext
  <2> HIDE DEF g, n
  <2>6. g + 1 \in 1..Len(due)
    BY <1>5, <2>5
  <2>7. \A j \in 1..Len(due) : j <= g + 1 <=> due[j] <= n
    <3> TAKE j \in 1..Len(due)
    <3>1. /\ due[j] \in Nat /\ (j <= g <=> due[j] <= Scanned)
          /\ g + 1 < j => n < due[j]
      BY <1>5, <1>7, <2>5, <2>6 DEF StreamInv, DueInv
    <3>2. CASE j <= g
      BY <1>5, <3>1, <3>2 DEF n
    <3>3. CASE j = g + 1
      BY <1>5, <2>5, <3>3
    <3>4. CASE g + 1 < j
      BY <1>5, <3>1, <3>4
    <3> QED
      BY <1>5, <3>2, <3>3, <3>4
  <2>8. g' = g /\ Len(due') = Len(due)
    BY <1>1 DEF g
  <2>9. /\ Len(got') < Len(due') /\ InStep(Len(got) + 1)'
        /\ hand' = written'[due'[Len(got') + 1]]
    BY <1>1, <1>3, <2>1, <2>4, <2>5, <2>7 DEF InStep, Clean, g
  <2>10. ReaderInv'
    BY <1>1, <1>2, <2>1, <2>9 DEF ReaderInv
  <2>11. EndInv'
    BY <1>2, <2>1 DEF EndInv
  <2> QED
    BY <1>3, <2>2, <2>10, <2>11 DEF StreamInv
<1> QED
  BY <1>1, <1>4, <1>8, <1>9, <1>10, <1>11 DEF Lines
\* The consumer receives what is due next.
LEMMA SendStep ==
  ASSUME StreamInv, Send
  PROVE  StreamInv'
<1> DEFINE g == Len(got)
<1>1. /\ UNCHANGED <<written, due, pipe, proc, ctxDone, stopped, hand, errs, shut>>
      /\ reader = "send" /\ reader' = "scan" /\ consumer = "select" /\ consumer' = "handling"
      /\ got' = Append(got, hand)
  BY DEF Send, procVars, ctxVars
<1>2. /\ g < Len(due) /\ InStep(g + 1) /\ hand = written[due[g + 1]] /\ errs = <<>> /\ shut = {}
  BY <1>1 DEF StreamInv, ReaderInv
<1>3. g \in Nat /\ Len(due) \in Nat /\ got \in Seq(Actions) /\ g + 1 \in 1..Len(due)
  BY <1>2, Lengths
<1>4. hand \in Actions
  BY <1>2, <1>3 DEF StreamInv, DueInv
<1>5. /\ got' \in Seq(Actions) /\ Len(got') = g + 1 /\ got'[g + 1] = hand
      /\ \A j \in 1..g : got'[j] = got[j]
  BY <1>1, <1>3, <1>4, AppendProperties
<1>6. TypeOK'
  BY <1>1, <1>5 DEF StreamInv, TypeOK
<1>7. PipeInv' /\ DueInv'
  BY <1>1 DEF StreamInv, PipeInv, DueInv, Clean, Scanned
<1>8. GotInv'
  <2>1. \A j \in 1..g : got[j] = written[due[j]]
    BY DEF StreamInv, GotInv
  <2> HIDE DEF g
  <2>2. \A j \in 1..(g + 1) : j = g + 1 \/ j \in 1..g
    BY <1>3
  <2>3. \A j \in 1..(g + 1) : got'[j] = written[due[j]]
    BY <1>2, <1>5, <2>1, <2>2
  <2>4. g + 1 <= Len(due)
    BY <1>3
  <2> QED
    BY <1>1, <1>5, <2>3, <2>4 DEF GotInv
<1>9. InStep(Len(got))'
  BY <1>1, <1>2, <1>5 DEF InStep, Clean, Scanned
<1>10. ReaderInv'
  BY <1>1, <1>2, <1>9 DEF ReaderInv
<1>11. EndInv'
  BY <1>1, <1>2 DEF StreamInv, EndInv, Away
<1> QED
  BY <1>6, <1>7, <1>8, <1>10, <1>11 DEF StreamInv

\* What a line written adds to the history.
LEMMA Written ==
  ASSUME StreamInv, NEW l \in Lines, proc = "running", Len(written) < MaxLines,
         written' = Append(written, l), pipe' = Append(pipe, l),
         due' = IF l \in Actions /\ ~Broken THEN Append(due, Len(written) + 1) ELSE due
  PROVE  /\ written' \in Seq(Lines) /\ Len(written') = Len(written) + 1
         /\ written'[Len(written) + 1] = l
         /\ \A i \in 1..Len(written) : written'[i] = written[i]
         /\ pipe' \in Seq(Lines) /\ Len(pipe') = Len(pipe) + 1 /\ pipe'[Len(pipe) + 1] = l
         /\ \A i \in 1..Len(pipe) : pipe'[i] = pipe[i]
         /\ due' \in Seq(Nat) /\ Len(due) <= Len(due') /\ Len(due') \in Nat
         /\ \A j \in 1..Len(due) : due'[j] = due[j]
         /\ Scanned' = Scanned
         /\ Broken <=> ~Clean(Len(written))
<1>1. /\ written \in Seq(Lines) /\ pipe \in Seq(Lines) /\ due \in Seq(Nat)
      /\ Len(written) \in Nat /\ Len(pipe) \in Nat /\ Len(due) \in Nat /\ Len(written) + 1 \in Nat
  BY Lengths
<1>2. /\ written' \in Seq(Lines) /\ Len(written') = Len(written) + 1
      /\ written'[Len(written) + 1] = l
      /\ \A i \in 1..Len(written) : written'[i] = written[i]
  BY <1>1, AppendProperties
<1>3. /\ pipe' \in Seq(Lines) /\ Len(pipe') = Len(pipe) + 1 /\ pipe'[Len(pipe) + 1] = l
      /\ \A i \in 1..Len(pipe) : pipe'[i] = pipe[i]
  BY <1>1, AppendProperties
<1>4. /\ due' \in Seq(Nat) /\ Len(due) <= Len(due') /\ Len(due') \in Nat
      /\ \A j \in 1..Len(due) : due'[j] = due[j]
  <2>1. CASE due' = due
    BY <1>1, <2>1
  <2>2. CASE due' = Append(due, Len(written) + 1)
    BY <1>1, <2>2, AppendProperties
  <2> QED
    BY <2>1, <2>2
<1>5. Scanned' = Scanned
  BY <1>1, <1>2, <1>3 DEF Scanned
<1>6. Broken <=> ~Clean(Len(written))
  <2>1. DOMAIN written = 1..Len(written)
    BY <1>1
  <2> QED
    BY <2>1 DEF Broken, Clean
<1> QED
  BY <1>2, <1>3, <1>4, <1>5, <1>6

LEMMA WriteStep ==
  ASSUME StreamInv, ProcessWrites
  PROVE  StreamInv'
<1>1. /\ UNCHANGED <<proc, ctxDone, stopped, reader, hand, errs, shut, consumer, got>>
      /\ proc = "running" /\ Len(written) < MaxLines
  BY DEF ProcessWrites, ctxVars, readerVars, consumerVars
<1>2. PICK l \in Lines :
        /\ written' = Append(written, l) /\ pipe' = Append(pipe, l)
        /\ due' = IF l \in Actions /\ ~Broken THEN Append(due, Len(written) + 1) ELSE due
  BY DEF ProcessWrites
<1> DEFINE n == Len(written)
           d == Len(due)
           p == Len(pipe)
<1>3. /\ written' \in Seq(Lines) /\ Len(written') = n + 1 /\ written'[n + 1] = l
      /\ \A i \in 1..n : written'[i] = written[i]
      /\ pipe' \in Seq(Lines) /\ Len(pipe') = p + 1 /\ pipe'[p + 1] = l
      /\ \A i \in 1..p : pipe'[i] = pipe[i]
      /\ due' \in Seq(Nat) /\ d <= Len(due') /\ Len(due') \in Nat
      /\ \A j \in 1..d : due'[j] = due[j]
      /\ Scanned' = Scanned
      /\ Broken <=> ~Clean(n)
  BY <1>1, <1>2, Written
<1>4. /\ n \in Nat /\ d \in Nat /\ p \in Nat /\ Scanned \in Nat /\ Scanned + p = n
      /\ Len(got) \in Nat /\ Len(got) <= d /\ due \in Seq(Nat)
      /\ \A j \in 1..d : due[j] \in 1..n /\ due[j] \in Nat
  BY Lengths
<1>5. \A i \in 1..(n + 1) : i = n + 1 \/ i \in 1..n
  BY <1>4
<1>6. TypeOK'
  <2>1. Len(written') <= MaxLines
    BY <1>1, <1>3, <1>4
  <2> QED
    BY <1>1, <1>3, <2>1 DEF StreamInv, TypeOK
<1>7. PipeInv'
  <2>1. \A i \in 1..p : pipe[i] = written[Scanned + i]
    BY DEF StreamInv, PipeInv
  <2> HIDE DEF n, p
  <2>2. ASSUME NEW i \in 1..(p + 1) PROVE pipe'[i] = written'[Scanned + i]
    <3>1. CASE i = p + 1
      <4>1. Scanned + i = n + 1
        BY <1>4, <3>1
      <4> QED
        BY <1>3, <3>1, <4>1
    <3>2. CASE i # p + 1
      <4>1. i \in 1..p /\ Scanned + i \in 1..n
        BY <1>4, <3>2
      <4> QED
        BY <1>3, <2>1, <4>1
    <3> QED
      BY <3>1, <3>2
  <2>3. p + 1 <= n + 1
    BY <1>4
  <2> QED
    BY <1>3, <2>2, <2>3 DEF PipeInv
\* The lines before are as clean as they were.
<1>8. ASSUME NEW k \in Nat, k <= n
      PROVE  Clean(k) <=> \A i \in 1..k : written'[i] \notin Fatal
  <2>1. \A i \in 1..k : i \in 1..n
    BY <1>4, <1>8
  <2> QED
    BY <1>3, <2>1 DEF Clean
<1>9. DueInv'
  <2>1. /\ \A j \in 1..d : written[due[j]] \in Actions /\ Clean(due[j])
        /\ \A j, k \in 1..d : j < k => due[j] < due[k]
        /\ \A i \in 1..n : written[i] \in Actions /\ Clean(i) => \E j \in 1..d : due[j] = i
    BY DEF StreamInv, DueInv
  <2> HIDE DEF n, d
  <2>2. ASSUME NEW j \in 1..d
        PROVE  /\ due'[j] \in 1..(n + 1) /\ written'[due'[j]] \in Actions
               /\ \A i \in 1..due'[j] : written'[i] \notin Fatal
    <3> DEFINE i == due[j]
    <3>1. due'[j] = i /\ i \in 1..n /\ i \in Nat
      BY <1>3, <1>4
    <3>2. Clean(i) /\ written[i] \in Actions
      BY <2>1
    <3> HIDE DEF i
    <3>3. i <= n /\ i \in 1..(n + 1)
      BY <1>4, <3>1
    <3>4. written'[i] = written[i]
      BY <1>3, <3>1
    <3>5. \A k \in 1..i : written'[k] \notin Fatal
      BY <1>8, <3>1, <3>2, <3>3
    <3> QED
      BY <3>1, <3>2, <3>3, <3>4, <3>5
  <2>3. ASSUME NEW i \in 1..n, written'[i] \in Actions, \A k \in 1..i : written'[k] \notin Fatal
        PROVE  \E j \in 1..d : due'[j] = i
    <3>1. i \in Nat /\ i <= n
      BY <1>4
    <3>2. Clean(i)
      BY <1>8, <2>3, <3>1
    <3> QED
      BY <1>3, <2>1, <2>3, <3>2
  <2>4. CASE l \in Actions /\ ~Broken
    <3>1. Len(due') = d + 1 /\ due'[d + 1] = n + 1
      BY <1>2, <1>4, <2>4, AppendProperties DEF d, n
    <3>2. \A j \in 1..(d + 1) : j = d + 1 \/ j \in 1..d
      BY <1>4
    <3>3. \A i \in 1..(n + 1) : written'[i] \notin Fatal
      <4>1. \A i \in 1..n : written'[i] \notin Fatal
        BY <1>3, <2>4 DEF Clean
      <4>2. l \notin Fatal
        BY <2>4 DEF Fatal
      <4> QED
        BY <1>3, <1>5, <4>1, <4>2
    <3>4. ASSUME NEW j \in 1..(d + 1)
          PROVE  /\ due'[j] \in 1..(n + 1) /\ written'[due'[j]] \in Actions
                 /\ \A i \in 1..due'[j] : written'[i] \notin Fatal
      <4>1. CASE j = d + 1
        <5>1. n + 1 \in 1..(n + 1)
          BY <1>4
        <5> QED
          BY <1>3, <2>4, <3>1, <3>3, <4>1, <5>1
      <4>2. CASE j \in 1..d
        BY <2>2, <4>2
      <4> QED
        BY <3>2, <4>1, <4>2
    <3>5. ASSUME NEW j \in 1..(d + 1), NEW k \in 1..(d + 1), j < k
          PROVE  due'[j] < due'[k]
      <4>1. j \in 1..d
        BY <1>4, <3>5
      <4>2. due'[j] = due[j] /\ due[j] \in 1..n
        BY <1>3, <1>4, <4>1
      <4>3. CASE k = d + 1
        BY <1>4, <3>1, <4>2, <4>3
      <4>4. CASE k \in 1..d
        BY <1>3, <2>1, <3>5, <4>1, <4>4
      <4> QED
        BY <3>2, <4>3, <4>4
    <3>6. ASSUME NEW i \in 1..(n + 1), written'[i] \in Actions, \A k \in 1..i : written'[k] \notin Fatal
          PROVE  \E j \in 1..(d + 1) : due'[j] = i
      <4>1. CASE i = n + 1
        <5>1. d + 1 \in 1..(d + 1)
          BY <1>4
        <5> QED
          BY <3>1, <4>1, <5>1
      <4>2. CASE i \in 1..n
        <5>1. PICK j \in 1..d : due'[j] = i
          BY <2>3, <3>6, <4>2
        <5>2. j \in 1..(d + 1)
          BY <1>4
        <5> QED
          BY <5>1, <5>2
      <4> QED
        BY <1>5, <4>1, <4>2
    <3> QED
      BY <1>3, <3>1, <3>4, <3>5, <3>6 DEF DueInv, Clean
  <2>5. CASE ~(l \in Actions /\ ~Broken)
    <3>1. due' = due /\ Len(due') = d
      BY <1>2, <2>5 DEF d
    <3>2. \A j, k \in 1..d : j < k => due'[j] < due'[k]
      BY <2>1, <3>1
    <3>3. ASSUME NEW i \in 1..(n + 1), written'[i] \in Actions, \A k \in 1..i : written'[k] \notin Fatal
          PROVE  \E j \in 1..d : due'[j] = i
      <4>1. CASE i = n + 1
        <5>1. \A k \in 1..n : k \in 1..i
          BY <1>4, <4>1
        <5>2. Clean(n)
          BY <1>3, <3>3, <5>1 DEF Clean
        <5>3. l \in Actions
          BY <1>3, <3>3, <4>1
        <5> QED
          BY <1>3, <2>5, <5>2, <5>3
      <4>2. CASE i \in 1..n
        BY <2>3, <3>3, <4>2
      <4> QED
        BY <1>5, <4>1, <4>2
    <3> QED
      BY <1>3, <2>2, <3>1, <3>2, <3>3 DEF DueInv, Clean
  <2> QED
    BY <2>4, <2>5
<1>10. GotInv'
  <2>1. \A j \in 1..Len(got) : got[j] = written[due[j]]
    BY DEF StreamInv, GotInv
  <2> HIDE DEF n, d
  <2>2. ASSUME NEW j \in 1..Len(got) PROVE got'[j] = written'[due'[j]]
    <3>1. j \in 1..d
      BY <1>4
    <3>2. due'[j] = due[j] /\ due[j] \in 1..n
      BY <1>3, <1>4, <3>1
    <3>3. written'[due'[j]] = written[due[j]]
      BY <1>3, <3>2
    <3> QED
      BY <1>1, <2>1, <3>3
  <2>3. Len(got) <= Len(due')
    BY <1>3, <1>4
  <2> QED
    BY <1>1, <2>2, <2>3 DEF GotInv
<1>11. ASSUME NEW g \in Nat, g <= d, InStep(g)
       PROVE  /\ \A i \in 1..Scanned' : written'[i] \notin Fatal
              /\ \A j \in 1..Len(due') : j <= g <=> due'[j] <= Scanned'
  <2>1. /\ Clean(Scanned) /\ \A j \in 1..d : j <= g <=> due[j] <= Scanned
    BY <1>11 DEF InStep
  <2>2. Scanned <= n
    BY <1>4
  <2>3. \A i \in 1..Scanned' : written'[i] \notin Fatal
    BY <1>3, <1>4, <1>8, <2>1, <2>2
  <2> HIDE DEF n, d
  <2>4. ASSUME NEW j \in 1..Len(due') PROVE j <= g <=> due'[j] <= Scanned
    <3>1. CASE j \in 1..d
      BY <1>3, <2>1, <3>1
    <3>2. CASE j \notin 1..d
      <4>1. due' # due
        BY <1>4, <3>2 DEF d
      <4>2. Len(due') = d + 1 /\ due'[d + 1] = n + 1
        BY <1>2, <1>4, <4>1, AppendProperties DEF d, n
      <4>3. j = d + 1
        BY <1>4, <3>2, <4>2
      <4> QED
        BY <1>4, <1>11, <2>2, <4>2, <4>3
    <3> QED
      BY <3>1, <3>2
  <2> QED
    BY <1>3, <2>3, <2>4
<1>12. ReaderInv'
  <2>1. reader \in {"scan", "wait"} => InStep(Len(got))'
    <3> SUFFICES ASSUME reader \in {"scan", "wait"} PROVE InStep(Len(got))'
      OBVIOUS
    <3>1. InStep(Len(got))
      BY DEF StreamInv, ReaderInv
    <3>2. /\ \A i \in 1..Scanned' : written'[i] \notin Fatal
          /\ \A j \in 1..Len(due') : j <= Len(got) <=> due'[j] <= Scanned'
      BY <1>4, <1>11, <3>1
    <3> QED
      BY <1>1, <3>2 DEF InStep, Clean
  <2>2. reader = "send" => /\ Len(got') < Len(due') /\ InStep(Len(got) + 1)'
                           /\ hand' = written'[due'[Len(got') + 1]]
    <3> SUFFICES ASSUME reader = "send"
                 PROVE  /\ Len(got') < Len(due') /\ InStep(Len(got) + 1)'
                        /\ hand' = written'[due'[Len(got') + 1]]
      OBVIOUS
    <3> DEFINE g == Len(got) + 1
    <3>1. Len(got) < d /\ InStep(g) /\ hand = written[due[g]]
      BY DEF StreamInv, ReaderInv
    <3>2. g \in Nat /\ g <= d /\ g \in 1..d /\ Len(got) < Len(due')
      <4>1. d \in Nat /\ Len(got) \in Nat /\ Len(due') \in Nat /\ d <= Len(due')
        BY <1>3, <1>4
      <4>2. Len(got) < d
        BY <3>1
      <4> HIDE DEF d
      <4> QED
        BY <4>1, <4>2
    <3>3. due'[g] = due[g] /\ due[g] \in 1..n
      BY <1>3, <1>4, <3>2
    <3>4. hand' = written'[due'[g]]
      BY <1>1, <1>3, <3>1, <3>3
    <3>5. /\ \A i \in 1..Scanned' : written'[i] \notin Fatal
          /\ \A j \in 1..Len(due') : j <= g <=> due'[j] <= Scanned'
      BY <1>11, <3>1, <3>2
    <3> QED
      BY <1>1, <3>2, <3>4, <3>5 DEF InStep, Clean
  <2>3. reader # "wait"
    BY <1>1 DEF StreamInv, ReaderInv
  <2> QED
    BY <1>1, <2>1, <2>2, <2>3 DEF StreamInv, ReaderInv
<1>13. Complete => Complete'
  <2> SUFFICES ASSUME Complete PROVE Complete'
    OBVIOUS
  <2>1. Broken /\ Len(got) = d
    BY <1>1 DEF Complete
  <2>2. due' = due
    BY <1>2, <2>1
  <2>3. PICK i \in 1..n : written[i] \in Fatal
    BY <1>3, <2>1 DEF Clean
  <2>4. i \in 1..Len(written') /\ written'[i] \in Fatal
    BY <1>3, <1>4, <2>3
  <2>5. DOMAIN written' = 1..Len(written')
    BY <1>3
  <2> QED
    BY <1>1, <2>1, <2>2, <2>4, <2>5 DEF Complete, Broken
<1>14. EndInv'
  BY <1>1, <1>13 DEF StreamInv, EndInv, Away
<1> QED
  BY <1>6, <1>7, <1>9, <1>10, <1>12, <1>14 DEF StreamInv

LEMMA InitStream == Init => StreamInv
<1> SUFFICES ASSUME Init PROVE StreamInv
  OBVIOUS
<1>1. /\ written = <<>> /\ due = <<>> /\ pipe = <<>> /\ got = <<>> /\ errs = <<>> /\ shut = {}
      /\ reader = "scan" /\ ctxDone = FALSE
  BY DEF Init
<1>2. Len(<<>>) = 0 /\ 1..0 = {}
  OBVIOUS
<1>3. TypeOK
  <2>1. /\ written \in Seq(Lines) /\ pipe \in Seq(Lines) /\ due \in Seq(Nat) /\ got \in Seq(Actions)
        /\ errs \in Seq({"decode", "read", "EOF", "failed"})
    BY <1>1, EmptySeq
  <2>2. Len(written) <= MaxLines
    BY <1>1, <1>2
  <2>3. ctxDone \in BOOLEAN /\ stopped \in BOOLEAN /\ shut \in SUBSET {"Errors", "Events"}
    BY DEF Init
  <2>4. /\ proc = "running" /\ reader = "scan" /\ hand = "blank" /\ consumer \in {"resync", "select"}
    BY DEF Init
  <2> QED
    BY <2>1, <2>2, <2>3, <2>4 DEF TypeOK
<1>4. Scanned = 0
  BY <1>1, <1>2 DEF Scanned
<1>5. PipeInv /\ DueInv /\ GotInv
  BY <1>1, <1>2 DEF PipeInv, DueInv, GotInv
<1>6. ReaderInv
  BY <1>1, <1>2, <1>4 DEF ReaderInv, InStep, Clean
<1>7. EndInv
  BY <1>1 DEF EndInv
<1> QED
  BY <1>3, <1>5, <1>6, <1>7 DEF StreamInv

LEMMA NextStream ==
  ASSUME StreamInv, [Next]_vars
  PROVE  StreamInv'
BY OutsideSteps, ReceiveSteps, LeavingSteps, WaitStep, ScanFailsStep, ScanLineStep, SendStep, WriteStep
   DEF Next, ReaderStep, ConsumerStep, Terminated

\* The invariant the refinement rests on: what the reader has scanned, what it has
\* handed over and what is due keep in step until an end is known.
THEOREM Invariance == Spec => []StreamInv
<1>1. StreamInv /\ [Next]_vars => StreamInv'
  BY NextStream
<1> QED
  BY <1>1, InitStream, PTL DEF Spec

\* Types of DefaultDockerEvents and its consumer.
THEOREM TypeCorrect == Spec => []TypeOK
<1>1. StreamInv => TypeOK
  BY DEF StreamInv
<1> QED
  BY <1>1, Invariance, PTL

(***************************************************************************)
(* The refinement                                                          *)
(***************************************************************************)
LEMMA OwedType ==
  ASSUME StreamInv
  PROVE  /\ Owed \in Seq(Actions) /\ Len(Owed) = Len(due) - Len(got)
         /\ \A j \in 1..Len(Owed) : Owed[j] = written[due[Len(got) + j]]
         /\ Len(Owed) \in Nat
<1> DEFINE g == Len(got)
           m == Len(due) - g
<1>1. g \in Nat /\ Len(due) \in Nat /\ m \in Nat
  BY Lengths
<1>2. ASSUME NEW j \in 1..m PROVE written[due[g + j]] \in Actions
  <2>1. g + j \in 1..Len(due)
    BY <1>1
  <2> QED
    BY <2>1 DEF StreamInv, DueInv
<1> HIDE DEF m
<1>3. Owed = [j \in 1..m |-> written[due[g + j]]]
  BY DEF Owed, m
<1> HIDE DEF g
<1>4. Owed \in [1..m -> Actions]
  BY <1>2, <1>3
<1>5. Owed \in Seq(Actions) /\ Len(Owed) = m
  BY <1>1, <1>4, SeqDef, LenProperties
<1> QED
  BY <1>1, <1>3, <1>5 DEF m, g

OwedOK ==
  /\ Owed \in Seq(Actions) /\ Len(Owed) = Len(due) - Len(got)
  /\ \A j \in 1..Len(Owed) : Owed[j] = written[due[Len(got) + j]]

LEMMA OwedNext == StreamInv' => OwedOK'
<1>1. StreamInv => OwedOK
  BY OwedType DEF OwedOK
<1> QED
  BY <1>1, PTL

LEMMA NothingOwed ==
  ASSUME StreamInv, Len(got) = Len(due)
  PROVE  Owed = <<>>
<1>1. Owed \in Seq(Actions) /\ Len(Owed) = 0
  BY OwedType, Lengths
<1> QED
  BY <1>1, EmptySeq

\* Steps after the consumer has given the stream up.
LEMMA AwayStep ==
  ASSUME StreamInv, [Next]_vars, Away
  PROVE  UNCHANGED Source!sourceVars
<1>1. UNCHANGED <<consumer, got>>
  BY DEF Away, Next, ReaderStep, ConsumerStep, Terminated, ProcessWrites, ProcessExits,
     ProcessKilled, Stop, ScanLine, ScanFails, ScanEnds, Send, WaitReturns, ReapReturns,
     CloseChannels, Handled, ReceiveError, ReceiveClosed, ConsumerStops, Resynced, ResyncFails,
     vars, consumerVars
<1> QED
  BY <1>1 DEF Source!sourceVars, Away

\* A step of the process maps to an event published, to the end, or to nothing.
LEMMA ProcessMaps ==
  ASSUME StreamInv, StreamInv', ~Away, ProcessWrites \/ ProcessExits \/ ProcessKilled
  PROVE  Source!Next \/ UNCHANGED Source!sourceVars
<1>1. UNCHANGED <<got, consumer>> /\ ~Away'
  BY DEF ProcessWrites, ProcessExits, ProcessKilled, consumerVars, Away
<1>2. proc = "running" /\ consumer # "failed" /\ consumer # "gone"
  BY DEF ProcessWrites, ProcessExits, ProcessKilled, Away
<1>3. CASE ProcessExits \/ ProcessKilled
  <2>1. UNCHANGED <<written, due>> /\ proc' # "running"
    BY <1>3 DEF ProcessExits, ProcessKilled
  <2>2. Owed' = Owed /\ Broken' = Broken
    BY <1>1, <2>1 DEF Owed, Broken
  <2>3. CASE Broken
    BY <1>1, <1>2, <2>2, <2>3 DEF Source!sourceVars, Away
  <2>4. CASE ~Broken
    <3>1. Source!End
      BY <1>1, <1>2, <2>1, <2>2, <2>4 DEF Source!End, Away
    <3> QED
      BY <3>1 DEF Source!Next
  <2> QED
    BY <2>3, <2>4
<1>4. CASE ProcessWrites
  <2>1. proc' = proc /\ Len(written) < MaxLines
    BY <1>4 DEF ProcessWrites
  <2>2. PICK l \in Lines :
          /\ written' = Append(written, l) /\ pipe' = Append(pipe, l)
          /\ due' = IF l \in Actions /\ ~Broken THEN Append(due, Len(written) + 1) ELSE due
    BY <1>4 DEF ProcessWrites
  <2>3. /\ written' \in Seq(Lines) /\ Len(written') = Len(written) + 1
        /\ written'[Len(written) + 1] = l
        /\ \A i \in 1..Len(written) : written'[i] = written[i]
        /\ \A j \in 1..Len(due) : due'[j] = due[j]
    BY <1>2, <2>1, <2>2, Written
  <2>4. /\ written \in Seq(Lines) /\ due \in Seq(Nat) /\ Len(written) \in Nat
        /\ Len(due) \in Nat /\ Len(got) \in Nat /\ Len(got) <= Len(due)
        /\ \A j \in 1..Len(due) : due[j] \in 1..Len(written)
    BY Lengths
  <2>5. DOMAIN written = 1..Len(written) /\ DOMAIN written' = 1..(Len(written) + 1)
    BY <2>3, <2>4
  <2>6. Broken' <=> Broken \/ l \in Fatal
    <3>1. \A i \in 1..(Len(written) + 1) : i = Len(written) + 1 \/ i \in 1..Len(written)
      BY <2>4
    <3>2. /\ \A i \in 1..Len(written) : i \in 1..(Len(written) + 1)
          /\ Len(written) + 1 \in 1..(Len(written) + 1)
      BY <2>4
    <3> QED
      BY <2>3, <2>5, <3>1, <3>2 DEF Broken
  <2>7. /\ Owed \in Seq(Actions) /\ Len(Owed) = Len(due) - Len(got) /\ Len(Owed) \in Nat
        /\ \A j \in 1..Len(Owed) : Owed[j] = written[due[Len(got) + j]]
    BY OwedType
  <2>8. /\ Owed' \in Seq(Actions) /\ Len(Owed') = Len(due') - Len(got)
        /\ \A j \in 1..Len(Owed') : Owed'[j] = written'[due'[Len(got) + j]]
    <3>1. /\ Owed' \in Seq(Actions) /\ Len(Owed') = Len(due') - Len(got')
          /\ \A j \in 1..Len(Owed') : Owed'[j] = written'[due'[Len(got') + j]]
      BY OwedNext DEF OwedOK
    <3> QED
      BY <1>1, <3>1
  <2>9. \A j \in 1..Len(Owed) : written'[due'[Len(got) + j]] = Owed[j]
    <3> TAKE j \in 1..Len(Owed)
    <3>1. Len(got) + j \in 1..Len(due)
      BY <2>4, <2>7
    <3>2. due'[Len(got) + j] = due[Len(got) + j] /\ due[Len(got) + j] \in 1..Len(written)
      BY <2>3, <2>4, <3>1
    <3> QED
      BY <2>3, <2>7, <3>2
  <2>10. CASE l \in Actions /\ ~Broken
    <3>1. Len(due') = Len(due) + 1 /\ due'[Len(due) + 1] = Len(written) + 1
      BY <2>2, <2>4, <2>10, AppendProperties
    <3>2. Len(Owed') = Len(Owed) + 1
      BY <2>4, <2>7, <2>8, <3>1
    <3>3. /\ Append(Owed, l) \in Seq(Actions) /\ Len(Append(Owed, l)) = Len(Owed) + 1
          /\ \A j \in 1..Len(Owed) : Append(Owed, l)[j] = Owed[j]
          /\ Append(Owed, l)[Len(Owed) + 1] = l
      BY <2>7, <2>10, AppendProperties
    <3>4. ASSUME NEW j \in 1..Len(Owed') PROVE Owed'[j] = Append(Owed, l)[j]
      <4>1. CASE j = Len(Owed) + 1
        <5>1. Len(got) + j = Len(due) + 1
          BY <2>4, <2>7, <4>1
        <5>2. Owed'[j] = written'[due'[Len(due) + 1]]
          BY <2>8, <5>1
        <5> QED
          BY <2>3, <3>1, <3>3, <4>1, <5>2
      <4>2. CASE j # Len(Owed) + 1
        <5>1. j \in 1..(Len(Owed) + 1) /\ Len(Owed) \in Nat
          BY <2>7, <3>2
        <5>2. j \in 1..Len(Owed)
          BY <4>2, <5>1
        <5> QED
          BY <2>8, <2>9, <3>3, <5>2
      <4> QED
        BY <4>1, <4>2
    <3>5. Owed' = Append(Owed, l)
      BY <2>8, <3>2, <3>3, <3>4, SeqEqual
    <3>6. l \notin Fatal
      BY <2>10 DEF Fatal
    <3>7. Source!Publish
      BY <1>1, <1>2, <2>1, <2>6, <2>10, <3>5, <3>6 DEF Source!Publish, Away
    <3> QED
      BY <3>7 DEF Source!Next
  <2>11. CASE ~(l \in Actions /\ ~Broken)
    <3>1. due' = due
      BY <2>2, <2>11
    <3>2. Owed' = Owed
      BY <2>7, <2>8, <2>9, <3>1, SeqEqual
    <3>3. CASE Broken' <=> Broken
      BY <1>1, <1>2, <2>1, <3>2, <3>3 DEF Source!sourceVars, Away
    <3>4. CASE Broken' /\ ~Broken
      <4>1. Source!End
        BY <1>1, <1>2, <2>1, <3>2, <3>4 DEF Source!End, Away
      <4> QED
        BY <4>1 DEF Source!Next
    <3> QED
      BY <2>6, <3>3, <3>4
  <2> QED
    BY <2>10, <2>11
<1> QED
  BY <1>3, <1>4
\* The consumer receives the first event owed.
LEMMA SendMaps ==
  ASSUME StreamInv, StreamInv', Send
  PROVE  Source!Receive
<1>1. /\ UNCHANGED <<written, due, proc>> /\ reader = "send" /\ consumer = "select"
      /\ consumer' = "handling" /\ got' = Append(got, hand)
  BY DEF Send, procVars
<1>2. Len(got) < Len(due) /\ hand = written[due[Len(got) + 1]]
  BY <1>1 DEF StreamInv, ReaderInv
<1>3. /\ Owed \in Seq(Actions) /\ Len(Owed) = Len(due) - Len(got) /\ Len(Owed) \in Nat
      /\ \A j \in 1..Len(Owed) : Owed[j] = written[due[Len(got) + j]]
  BY OwedType
<1>4. /\ Owed' \in Seq(Actions) /\ Len(Owed') = Len(due') - Len(got')
      /\ \A j \in 1..Len(Owed') : Owed'[j] = written'[due'[Len(got') + j]]
  BY OwedNext DEF OwedOK
<1>5. Len(got) \in Nat /\ Len(due) \in Nat /\ got \in Seq(Actions)
  BY Lengths
<1>6. Len(got') = Len(got) + 1
  BY <1>1, <1>5
<1>7. 1 \in 1..Len(Owed) /\ Len(Owed) # 0
  BY <1>2, <1>3, <1>5
<1>8. Owed # <<>>
  BY <1>7, EmptySeq
<1>9. Head(Owed) = hand
  <2>1. Head(Owed) = Owed[1]
    BY <1>3, <1>8
  <2> QED
    BY <1>2, <1>3, <1>7, <2>1
<1>10. /\ Tail(Owed) \in Seq(Actions) /\ Len(Tail(Owed)) = Len(Owed) - 1
       /\ \A j \in 1..Len(Tail(Owed)) : Tail(Owed)[j] = Owed[j + 1]
  BY <1>3, <1>8, HeadTailProperties
<1>11. Len(Owed') = Len(Tail(Owed)) /\ Len(Owed') = Len(Owed) - 1
  BY <1>1, <1>3, <1>4, <1>5, <1>6, <1>10
<1>12. ASSUME NEW j \in 1..Len(Owed') PROVE Owed'[j] = Tail(Owed)[j]
  <2>1. j \in 1..(Len(Owed) - 1) /\ Len(Owed) \in Nat
    BY <1>3, <1>11
  <2>2. j + 1 \in 1..Len(Owed) /\ j \in Nat
    BY <2>1
  <2>3. Len(got') + j = Len(got) + (j + 1)
    BY <1>5, <1>6, <2>2
  <2>4. Owed'[j] = written[due[Len(got) + (j + 1)]]
    BY <1>1, <1>4, <2>3
  <2>5. Owed[j + 1] = written[due[Len(got) + (j + 1)]]
    BY <1>3, <2>2
  <2>6. Tail(Owed)[j] = Owed[j + 1]
    BY <1>10, <1>11
  <2> QED
    BY <2>4, <2>5, <2>6
<1>13. Owed' = Tail(Owed)
  BY <1>4, <1>10, <1>11, <1>12, SeqEqual
<1>14. Broken' = Broken /\ ~Away /\ ~Away'
  BY <1>1 DEF Broken, Away
<1> QED
  BY <1>1, <1>8, <1>9, <1>13, <1>14 DEF Source!Receive

\* The consumer learns of the end, or gives the stream up.
LEMMA LeaveMaps ==
  ASSUME StreamInv, ReceiveError \/ ReceiveClosed \/ ConsumerStops \/ ResyncFails
  PROVE  Source!Fail \/ Source!Close
<1>1. /\ UNCHANGED <<got>> /\ ~Away /\ consumer \in {"select", "resync"}
  BY DEF ReceiveError, ReceiveClosed, ConsumerStops, ResyncFails, Away
<1>2. CASE consumer' = "gone"
  BY <1>1, <1>2 DEF Source!Close, Away
<1>3. CASE consumer' = "failed"
  <2>1. Complete
    <3>1. CASE ReceiveError
      BY <3>1 DEF ReceiveError, StreamInv, EndInv
    <3>2. CASE ReceiveClosed
      <4>1. ~stopped /\ shut # {}
        BY <1>3, <3>2 DEF ReceiveClosed
      <4>2. reader \in {"returning", "done"}
        BY <4>1 DEF StreamInv, ReaderInv
      <4> QED
        BY <1>1, <4>1, <4>2 DEF StreamInv, EndInv
    <3> QED
      BY <1>3, <3>1, <3>2 DEF ConsumerStops, ResyncFails
  <2>2. Owed = <<>>
    BY <2>1, NothingOwed DEF Complete
  <2>3. Source!Fail
    BY <1>1, <1>3, <2>1, <2>2 DEF Source!Fail, Complete, Away
  <2> QED
    BY <2>3
<1> QED
  BY <1>2, <1>3 DEF ReceiveError, ReceiveClosed, ConsumerStops, ResyncFails

\* The other steps are not seen.
LEMMA UnseenMaps ==
  ASSUME StreamInv, ~Away,
         \/ Stop \/ ScanLine \/ ScanFails \/ ScanEnds \/ WaitReturns \/ ReapReturns
         \/ CloseChannels \/ Handled \/ Resynced \/ UNCHANGED vars
  PROVE  UNCHANGED Source!sourceVars
<1>1. UNCHANGED <<written, due, got>>
  BY DEF Stop, ScanLine, ScanFails, ScanEnds, WaitReturns, ReapReturns, CloseChannels, Handled,
     Resynced, vars, procVars, consumerVars
<1>2. consumer' = consumer \/ consumer' = "select"
  BY DEF Stop, ScanLine, ScanFails, ScanEnds, WaitReturns, ReapReturns, CloseChannels, Handled,
     Resynced, vars, consumerVars
<1>3. proc' = "running" <=> proc = "running"
  <2>1. reader = "wait" => proc # "running"
    BY DEF StreamInv, ReaderInv
  <2> QED
    BY <2>1 DEF Stop, ScanLine, ScanFails, ScanEnds, WaitReturns, ReapReturns, CloseChannels,
       Handled, Resynced, vars, procVars
<1>4. Owed' = Owed /\ Broken' = Broken
  BY <1>1 DEF Owed, Broken
<1>5. ~Away' /\ consumer' # "failed" /\ consumer' # "gone" /\ consumer # "failed" /\ consumer # "gone"
  BY <1>2 DEF Away
<1> QED
  BY <1>1, <1>3, <1>4, <1>5 DEF Source!sourceVars

\* DefaultDockerEvents implements EventSource: the consumer receives the events in the
\* order in which Docker wrote them, none is left out, and it learns of an end only
\* after the last of them.
THEOREM Implements == Spec => ImplementsSource
<1>1. Init => Source!Init
  <2> SUFFICES ASSUME Init PROVE Source!Init
    OBVIOUS
  <2>1. StreamInv /\ got = <<>> /\ due = <<>>
    BY InitStream DEF Init
  <2>2. Owed = <<>>
    BY <2>1, NothingOwed
  <2>3. ~Broken
    BY DEF Init, Broken
  <2> QED
    BY <2>1, <2>2, <2>3 DEF Source!Init, Init, Away
<1>2. StreamInv /\ StreamInv' /\ [Next]_vars => [Source!Next]_Source!sourceVars
  <2> SUFFICES ASSUME StreamInv, StreamInv', [Next]_vars
               PROVE  Source!Next \/ UNCHANGED Source!sourceVars
    OBVIOUS
  <2>1. CASE Away
    BY <2>1, AwayStep
  <2>2. CASE ~Away
    <3>1. CASE ProcessWrites \/ ProcessExits \/ ProcessKilled
      BY <2>2, <3>1, ProcessMaps
    <3>2. CASE Send
      BY <3>2, SendMaps DEF Source!Next
    <3>3. CASE ReceiveError \/ ReceiveClosed \/ ConsumerStops \/ ResyncFails
      BY <3>3, LeaveMaps DEF Source!Next
    <3>4. CASE \/ Stop \/ ScanLine \/ ScanFails \/ ScanEnds \/ WaitReturns \/ ReapReturns
               \/ CloseChannels \/ Handled \/ Resynced \/ UNCHANGED vars
      BY <2>2, <3>4, UnseenMaps
    <3> QED
      BY <3>1, <3>2, <3>3, <3>4 DEF Next, ReaderStep, ConsumerStep, Terminated
  <2> QED
    BY <2>1, <2>2
<1> QED
  BY <1>1, <1>2, Invariance, PTL DEF Spec, ImplementsSource, Source!Spec
===============================================================================
