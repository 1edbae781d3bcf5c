-------------------------- MODULE MessageLoggerProofs --------------------------
(***************************************************************************)
(* For any number of logging threads and messages, and wherever they stop  *)
(* or crash: the logger's thread writes each message once and in order,    *)
(* and whoever stops the logger returns with what was due written.         *)
(***************************************************************************)
EXTENDS MessageLogger, SequenceTheorems, TLAPS

(* The messages a crash handler has logged.                                *)
CrashMessages(c) == IF c \in {"no", "fatal"} THEN 0 ELSE IF c = "crash" THEN 1 ELSE 2

(* The calls of a thread: a message is under way only while its number is  *)
(* free, and a thread past SetQuit has set m_quit, as has close().         *)
CallsOK ==
  /\ \A t \in Threads :
       /\ at[t] = "append" =>
            sent[t] < MaxMessages + CrashMessages(crashed[t]) + (IF InHandler(t) THEN 1 ELSE 0)
       /\ sent[t] <= MaxMessages + CrashMessages(crashed[t])
       /\ at[t] \in {"wake", "spin", "stopped"} => quit
  /\ instance # "live" => quit

(* How run() hands the list over, and what it has written once it stops.   *)
RunOK ==
  /\ threadFinished <=> run \in {"new", "starting", "done"}
  /\ run \notin {"output", "lastOutput"} => batch = <<>>
  /\ run \in {"lastTake", "lastOutput", "done"} => quit
  /\ run \in {"new", "starting"} => due = 0
  /\ ~quit => due = 0
  /\ due <= Len(logged)
  /\ run = "lastOutput" => due <= Len(output) + Len(batch)
  /\ run = "done" => due <= Len(output)

(* What close() has waited for stays written.                              *)
ClosedFlushed == instance # "live" => due <= Len(output)

LoggerInvariant == TypeOK /\ CallsOK /\ RunOK /\ OnceInOrder /\ StopFlushes /\ ClosedFlushed

-----------------------------------------------------------------------------
LEMMA InitInvariant == Init => LoggerInvariant
  <1> SUFFICES ASSUME Init PROVE LoggerInvariant OBVIOUS
  <1>1. TypeOK
    <2>1. {messageList, batch, logged, output} \subseteq Seq(Message) BY DEF Init
    <2>2. at \in [Threads -> {"free", "append", "running", "unhook", "quit",
                             "wake", "spin", "stopped"}]
      BY DEF Init
    <2>3. sent \in [Threads -> 0 .. MaxMessages + 2] BY LoggerAssumption DEF Init
    <2> QED BY <2>1, <2>2, <2>3 DEF Init, TypeOK
  <1>2. CallsOK BY LoggerAssumption DEF Init, CallsOK, CrashMessages, InHandler
  <1>3. RunOK /\ StopFlushes BY DEF Init, RunOK, StopFlushes
  <1>4. OnceInOrder BY DEF Init, OnceInOrder
  <1> QED BY <1>1, <1>2, <1>3, <1>4 DEF LoggerInvariant, ClosedFlushed, Init

(* What a thread does when its message is out of its hands.                *)
LEMMA AfterMessageCases ==
  ASSUME TypeOK, NEW t \in Threads, AfterMessage(t)
  PROVE  \/ /\ crashed[t] \in {"no", "done"}
            /\ Goto(t, "free") /\ UNCHANGED crashed
         \/ /\ crashed[t] = "fatal"
            /\ Goto(t, "free") /\ crashed' = [crashed EXCEPT ![t] = "crash"]
         \/ /\ crashed[t] = "crash"
            /\ Goto(t, "unhook") /\ crashed' = [crashed EXCEPT ![t] = "done"]
  <1>1. crashed[t] \in {"no", "fatal", "crash", "done"} BY DEF TypeOK
  <1>2. CASE crashed[t] \in {"no", "done"} BY <1>2 DEF AfterMessage
  <1>3. CASE crashed[t] = "fatal" BY <1>3 DEF AfterMessage
  <1>4. CASE crashed[t] = "crash" BY <1>4 DEF AfterMessage
  <1> QED BY <1>1, <1>2, <1>3, <1>4

(* A step of the logger's thread leaves what the callers do alone, and a   *)
(* message appended is a message.                                          *)
LEMMA TypeStep ==
  ASSUME TypeOK, CallsOK, [Next]_vars
  PROVE  TypeOK'
  <1> USE DEF TypeOK, Goto, WakeOne, threadVars, callerVars, pointerVars
  <1>1. CASE Start BY <1>1 DEF Start
  <1>2. CASE Close BY <1>2 DEF Close
  <1>3. CASE LoggerStep
    <2>1. CASE RunBegins BY <2>1 DEF RunBegins
    <2>2. CASE WaitIfIdle BY <2>2 DEF WaitIfIdle
    <2>3. CASE Take BY <2>3 DEF Take, TakeAll
    <2>4. CASE OutputMessage
      <3>1. grumbles' \in Nat BY <2>4 DEF OutputMessage, SaveToFile
      <3>2. output' \in Seq(Message) /\ batch' \in Seq(Message) /\ batchGrumbles' \in Nat
        <4>1. CASE batch # <<>> /\ output' = Append(output, Head(batch))
                   /\ batch' = Tail(batch) /\ batchGrumbles' = batchGrumbles
          BY <4>1, HeadTailProperties, AppendProperties
        <4>2. CASE batchGrumbles > 0 /\ batchGrumbles' = batchGrumbles - 1
                   /\ output' = output /\ batch' = batch
          BY <4>2
        <4> QED BY <2>4, <4>1, <4>2 DEF OutputMessage
      <3> QED BY <2>4, <3>1, <3>2 DEF OutputMessage
    <2>5. CASE LoopOrLeave BY <2>5 DEF LoopOrLeave
    <2>6. CASE LastTake BY <2>6 DEF LastTake, TakeAll
    <2>7. CASE RunEnds BY <2>7 DEF RunEnds
    <2> QED BY <1>3, <2>1, <2>2, <2>3, <2>4, <2>5, <2>6, <2>7 DEF LoggerStep
  <1>4. CASE SpuriousWakeUp BY <1>4 DEF SpuriousWakeUp
  <1>5. ASSUME NEW t \in Threads, Log(t) PROVE TypeOK'
    <2>1. CASE target BY <1>5, <2>1 DEF Log
    <2>2. CASE ~target
      <3> QED BY <1>5, <2>2, AfterMessageCases DEF Log
    <2> QED BY <2>1, <2>2
  <1>6. ASSUME NEW t \in Threads, Crash(t) PROVE TypeOK'
    BY <1>6 DEF Crash
  <1>7. ASSUME NEW t \in Threads, CallerStep(t) PROVE TypeOK'
    <2>1. CASE AppendMessage(t)
      <3>1. sent[t] \in 0 .. MaxMessages + 1
        <4>1. sent[t] < MaxMessages + CrashMessages(crashed[t]) + (IF InHandler(t) THEN 1 ELSE 0)
          BY <2>1 DEF AppendMessage, CallsOK
        <4>2. crashed[t] \in {"no", "fatal", "crash", "done"} OBVIOUS
        <4> QED BY <4>1, <4>2, LoggerAssumption DEF CrashMessages, InHandler
      <3>2. <<t, sent[t] + 1>> \in Message BY <3>1, LoggerAssumption DEF Message
      <3>3. messageList' \in Seq(Message) /\ logged' \in Seq(Message)
        BY <2>1, <3>2, AppendProperties DEF AppendMessage
      <3>4. sent' \in [Threads -> 0 .. MaxMessages + 2]
        BY <2>1, <3>1, LoggerAssumption DEF AppendMessage
      <3>6. /\ at' \in [Threads -> {"free", "append", "running", "unhook", "quit",
                                    "wake", "spin", "stopped"}]
            /\ crashed' \in [Threads -> {"no", "fatal", "crash", "done"}]
        BY <2>1, AfterMessageCases DEF AppendMessage
      <3> QED BY <2>1, <3>3, <3>4, <3>6 DEF AppendMessage
    <2>2. CASE Unhook(t) BY <2>2 DEF Unhook
    <2>3. CASE SetQuit(t) BY <2>3 DEF SetQuit
    <2>4. CASE WakeLogger(t) BY <2>4 DEF WakeLogger
    <2>5. CASE StopReturns(t) BY <2>5 DEF StopReturns
    <2>6. CASE StopAnother(t) BY <2>6 DEF StopAnother
    <2>7. CASE GoOn(t) BY <2>7 DEF GoOn
    <2>8. CASE UseDeleted(t) BY <2>8 DEF UseDeleted
    <2> QED BY <1>5, <1>7, <2>1, <2>2, <2>3, <2>4, <2>5, <2>6, <2>7, <2>8 DEF CallerStep
  <1>8. CASE UNCHANGED vars BY <1>8 DEF vars
  <1>9. CASE DeleteLogger BY <1>9 DEF DeleteLogger
  <1> QED BY <1>1, <1>2, <1>3, <1>4, <1>5, <1>6, <1>7, <1>8, <1>9 DEF Next

LEMMA CallsStep ==
  ASSUME TypeOK, CallsOK, [Next]_vars
  PROVE  CallsOK'
  <1> USE LoggerAssumption DEF TypeOK, CallsOK, Goto, CrashMessages, InHandler, pointerVars
  <1>1. CASE Start BY <1>1 DEF Start, callerVars
  <1>2. CASE Close BY <1>2 DEF Close
  <1>3. CASE LoggerStep \/ SpuriousWakeUp
    <2>1. UNCHANGED <<at, crashed, sent, quit, instance>>
      BY <1>3 DEF LoggerStep, RunBegins, WaitIfIdle, Take, OutputMessage, LoopOrLeave,
                  LastTake, RunEnds, SpuriousWakeUp, callerVars, pointerVars
    <2> QED BY <2>1
  <1>4. ASSUME NEW t \in Threads, Log(t) PROVE CallsOK'
    <2>1. CASE target BY <1>4, <2>1 DEF Log
    <2>2. CASE ~target
      <3>1. AfterMessage(t) /\ UNCHANGED <<sent, quit, instance>>
        BY <1>4, <2>2 DEF Log, pointerVars
      <3> QED BY SMTT(30), <3>1, AfterMessageCases
    <2> QED BY <2>1, <2>2
  <1>5. ASSUME NEW t \in Threads, Crash(t) PROVE CallsOK'
    BY <1>5 DEF Crash
  <1>6. ASSUME NEW t \in Threads, CallerStep(t) PROVE CallsOK'
    <2>1. CASE AppendMessage(t)
      <3>1. /\ at[t] = "append" /\ AfterMessage(t)
            /\ sent' = [sent EXCEPT ![t] = @ + 1] /\ UNCHANGED <<quit, instance>>
        BY <2>1 DEF AppendMessage, pointerVars
      <3>2. sent[t] \in Nat /\ sent'[t] = sent[t] + 1 /\ \A u \in Threads \ {t} : sent'[u] = sent[u]
        BY <3>1
      <3>3. CASE crashed[t] \in {"no", "done"} /\ Goto(t, "free") /\ UNCHANGED crashed
        BY <3>1, <3>2, <3>3
      <3>4. CASE /\ crashed[t] = "fatal"
                 /\ Goto(t, "free") /\ crashed' = [crashed EXCEPT ![t] = "crash"]
        BY <3>1, <3>2, <3>4
      <3>5. CASE /\ crashed[t] = "crash"
                 /\ Goto(t, "unhook") /\ crashed' = [crashed EXCEPT ![t] = "done"]
        BY <3>1, <3>2, <3>5
      <3> QED BY <3>1, <3>3, <3>4, <3>5, AfterMessageCases
    <2>2. CASE Unhook(t) BY <2>2 DEF Unhook
    <2>3. CASE SetQuit(t) BY <2>3 DEF SetQuit
    <2>4. CASE WakeLogger(t) BY <2>4 DEF WakeLogger
    <2>5. CASE StopReturns(t) BY <2>5 DEF StopReturns
    <2>6. CASE StopAnother(t) BY <2>6 DEF StopAnother
    <2>7. CASE GoOn(t) BY <2>7 DEF GoOn
    <2>8. CASE UseDeleted(t) BY <2>8 DEF UseDeleted
    <2> QED BY <1>4, <1>6, <2>1, <2>2, <2>3, <2>4, <2>5, <2>6, <2>7, <2>8 DEF CallerStep
  <1>7. CASE UNCHANGED vars BY <1>7 DEF vars
  <1>8. CASE DeleteLogger BY <1>8 DEF DeleteLogger
  <1> QED BY <1>1, <1>2, <1>3, <1>4, <1>5, <1>6, <1>7, <1>8 DEF Next

LEMMA RunStep ==
  ASSUME TypeOK, RunOK, OnceInOrder, [Next]_vars
  PROVE  RunOK'
  <1> USE DEF TypeOK, RunOK, WakeOne, threadVars, callerVars, pointerVars
  <1>1. CASE Start BY <1>1 DEF Start
  <1>2. CASE Close BY <1>2 DEF Close
  <1>3. CASE LoggerStep
    <2>1. CASE RunBegins BY <2>1 DEF RunBegins
    <2>2. CASE WaitIfIdle BY <2>2 DEF WaitIfIdle
    <2>3. CASE Take BY <2>3 DEF Take, TakeAll
    <2>4. CASE OutputMessage
      <3>1. /\ Len(output) <= Len(output')
            /\ Len(output') + Len(batch') = Len(output) + Len(batch)
        <4>1. CASE batch # <<>> /\ output' = Append(output, Head(batch)) /\ batch' = Tail(batch)
          BY <4>1, HeadTailProperties, AppendProperties
        <4>2. CASE UNCHANGED <<output, batch>> BY <4>2
        <4> QED BY <2>4, <4>1, <4>2 DEF OutputMessage
      <3> QED BY <2>4, <3>1 DEF OutputMessage
    <2>5. CASE LoopOrLeave BY <2>5 DEF LoopOrLeave, BatchDone
    <2>6. CASE LastTake
      <3>1. batch = <<>> /\ batch' = messageList /\ UNCHANGED <<output, logged, due>>
        BY <2>6 DEF LastTake, TakeAll
      <3>2. Len(logged) = Len(output) + Len(messageList)
        BY <3>1, ConcatProperties, ConcatEmptySeq DEF OnceInOrder
      <3> QED BY <2>6, <3>1, <3>2 DEF LastTake
    <2>7. CASE RunEnds BY <2>7 DEF RunEnds, BatchDone
    <2> QED BY <1>3, <2>1, <2>2, <2>3, <2>4, <2>5, <2>6, <2>7 DEF LoggerStep
  <1>4. CASE SpuriousWakeUp BY <1>4 DEF SpuriousWakeUp
  <1>5. ASSUME NEW t \in Threads, Log(t) PROVE RunOK' BY <1>5 DEF Log
  <1>6. ASSUME NEW t \in Threads, Crash(t) PROVE RunOK' BY <1>6 DEF Crash
  <1>7. ASSUME NEW t \in Threads, CallerStep(t) PROVE RunOK'
    <2>1. CASE AppendMessage(t)
      <3>1. PICK m : logged' = Append(logged, m) BY <2>1 DEF AppendMessage
      <3>2. Len(logged') = Len(logged) + 1 BY <3>1
      <3> QED BY SMTT(30), <2>1, <3>2 DEF AppendMessage
    <2>2. CASE Unhook(t) BY <2>2 DEF Unhook
    <2>3. CASE SetQuit(t)
      <3>1. due <= Len(logged) /\ Len(logged) \in Nat BY DEF TypeOK
      <3> QED BY <2>3, <3>1 DEF SetQuit
    <2>4. CASE WakeLogger(t) BY <2>4 DEF WakeLogger
    <2>5. CASE StopReturns(t) BY <2>5 DEF StopReturns
    <2>6. CASE StopAnother(t) BY <2>6 DEF StopAnother
    <2>7. CASE GoOn(t) BY <2>7 DEF GoOn
    <2>8. CASE UseDeleted(t) BY <2>8 DEF UseDeleted
    <2> QED BY <1>5, <1>7, <2>1, <2>2, <2>3, <2>4, <2>5, <2>6, <2>7, <2>8 DEF CallerStep
  <1>8. CASE UNCHANGED vars BY <1>8 DEF vars
  <1>9. CASE DeleteLogger BY <1>9 DEF DeleteLogger
  <1> QED BY <1>1, <1>2, <1>3, <1>4, <1>5, <1>6, <1>7, <1>8, <1>9 DEF Next

LEMMA HeadMoves ==
  ASSUME NEW S, NEW o \in Seq(S), NEW b \in Seq(S), b # <<>>
  PROVE  Append(o, Head(b)) \o Tail(b) = o \o b
  <1>1. Head(b) \in S /\ Tail(b) \in Seq(S) BY HeadTailProperties
  <1>2. Append(o, Head(b)) = o \o <<Head(b)>> BY <1>1, AppendIsConcat
  <1>3. b = <<Head(b)>> \o Tail(b) BY <1>1
  <1>4. <<Head(b)>> \in Seq(S) BY <1>1
  <1> QED BY <1>1, <1>2, <1>3, <1>4, ConcatAssociative

LEMMA LastAppends ==
  ASSUME NEW S, NEW o \in Seq(S), NEW b \in Seq(S), NEW l \in Seq(S), NEW m \in S
  PROVE  o \o b \o Append(l, m) = Append(o \o b \o l, m)
  <1>1. o \o b \in Seq(S) /\ o \o b \o l \in Seq(S) /\ <<m>> \in Seq(S) BY ConcatProperties
  <1>2. Append(l, m) = l \o <<m>> BY AppendIsConcat
  <1>3. Append(o \o b \o l, m) = (o \o b \o l) \o <<m>> BY <1>1, AppendIsConcat
  <1> QED BY <1>1, <1>2, <1>3, ConcatAssociative

(* The list goes into an empty batch, and the batch out from its head.     *)
LEMMA OrderStep ==
  ASSUME TypeOK, RunOK, OnceInOrder, [Next]_vars, TypeOK'
  PROVE  OnceInOrder'
  <1> USE DEF OnceInOrder, threadVars, callerVars
  <1> DEFINE S == Message
  <1>1. /\ messageList \in Seq(S) /\ batch \in Seq(S) /\ output \in Seq(S)
        /\ messageList' \in Seq(S) /\ batch' \in Seq(S) /\ output' \in Seq(S)
    BY DEF TypeOK
  <1> HIDE DEF S
  <1>2. CASE UNCHANGED <<logged, output, batch, messageList>> BY <1>2
  <1>3. CASE Take \/ LastTake
    <2>1. batch = <<>> /\ batch' = messageList /\ messageList' = <<>>
          /\ UNCHANGED <<logged, output>>
      BY <1>3 DEF Take, LastTake, TakeAll, RunOK
    <2>2. (output \o <<>>) \o messageList = (output \o messageList) \o <<>>
      BY <1>1, ConcatEmptySeq, ConcatProperties
    <2> QED BY <2>1, <2>2
  <1>4. CASE OutputMessage
    <2>1. CASE UNCHANGED <<output, batch>> BY <1>4, <2>1 DEF OutputMessage
    <2>2. CASE batch # <<>> /\ output' = Append(output, Head(batch)) /\ batch' = Tail(batch)
      <3>1. output' \o batch' = output \o batch BY <1>1, <2>2, HeadMoves
      <3> QED BY <1>4, <3>1 DEF OutputMessage
    <2> QED BY <1>4, <2>1, <2>2 DEF OutputMessage
  <1>5. ASSUME NEW t \in Threads, AppendMessage(t) PROVE OnceInOrder'
    <2>1. PICK m : /\ logged' = Append(logged, m) /\ messageList' = Append(messageList, m)
                   /\ UNCHANGED <<output, batch>>
      BY <1>5 DEF AppendMessage
    <2>2. m \in S
      <3>1. messageList'[Len(messageList')] = m /\ Len(messageList') \in 1 .. Len(messageList')
        BY <2>1, <1>1
      <3> QED BY <3>1, <1>1
    <2>3. output \o batch \o Append(messageList, m) = Append(output \o batch \o messageList, m)
      BY SMTT(30), <1>1, <2>2, LastAppends
    <2> QED BY <2>1, <2>3
  <1>6. [Next]_vars =>
          \/ UNCHANGED <<logged, output, batch, messageList>>
          \/ Take \/ LastTake \/ OutputMessage \/ \E t \in Threads : AppendMessage(t)
    BY DEF Next, vars, Start, Close, LoggerStep, RunBegins, WaitIfIdle, LoopOrLeave, RunEnds,
           SpuriousWakeUp, DeleteLogger, Log, Crash, CallerStep, Unhook, SetQuit, WakeLogger,
           StopReturns, StopAnother, GoOn, UseDeleted
  <1> QED BY <1>2, <1>3, <1>4, <1>5, <1>6

(* What was due is fixed once m_quit is set, and output only grows.        *)
LEMMA StopStep ==
  ASSUME TypeOK, CallsOK, RunOK, StopFlushes, ClosedFlushed, [Next]_vars
  PROVE  StopFlushes' /\ ClosedFlushed'
  <1> USE DEF TypeOK, threadVars, callerVars, pointerVars, Goto, ClosedFlushed
  <1>1. Len(output) <= Len(output')
    <2>1. CASE UNCHANGED output BY <2>1
    <2>2. CASE output' = Append(output, Head(batch)) BY <2>2
    <2> QED BY <2>1, <2>2
      DEF Next, vars, Start, Close, LoggerStep, RunBegins, WaitIfIdle, LoopOrLeave, RunEnds,
          SpuriousWakeUp, DeleteLogger, Log, Crash, CallerStep, Unhook, SetQuit, WakeLogger,
           StopReturns, StopAnother, GoOn, UseDeleted,
          Take, LastTake, OutputMessage, AppendMessage
  <1> DEFINE NoneStops == \A t \in Threads : at'[t] = "stopped" => at[t] = "stopped"
  <1>2. CASE UNCHANGED <<due, instance>> /\ NoneStops
    BY <1>1, <1>2 DEF StopFlushes
  <1>3. ASSUME NEW t \in Threads, SetQuit(t) PROVE StopFlushes' /\ ClosedFlushed'
    <2>1. CASE UNCHANGED due BY <1>1, <1>3, <2>1 DEF SetQuit, StopFlushes
    <2>2. CASE ~quit
      <3>1. instance = "live" /\ \A u \in Threads : at[u] # "stopped" BY <2>2 DEF CallsOK
      <3> QED BY <1>3, <3>1 DEF SetQuit, StopFlushes
    <2> QED BY <1>3, <2>1, <2>2 DEF SetQuit
  <1>4. ASSUME NEW t \in Threads, StopReturns(t) PROVE StopFlushes' /\ ClosedFlushed'
    BY <1>4 DEF StopReturns, StopFlushes, RunOK
  <1>5. ASSUME NEW t \in Threads, StopAnother(t) PROVE StopFlushes' /\ ClosedFlushed'
    BY <1>5 DEF StopAnother, StopFlushes
  <1>6. CASE DeleteLogger BY <1>6 DEF DeleteLogger, StopFlushes
  <1>7. ASSUME NEW t \in Threads, AfterMessage(t) PROVE NoneStops
    BY <1>7, AfterMessageCases
  <1>8. ASSUME NEW t \in Threads, Log(t) \/ AppendMessage(t)
        PROVE  UNCHANGED <<due, instance>> /\ NoneStops
    <2>1. CASE AppendMessage(t) BY <2>1, <1>7 DEF AppendMessage
    <2>2. CASE Log(t) /\ target BY <2>2 DEF Log
    <2>3. CASE Log(t) /\ ~target BY <2>3, <1>7 DEF Log
    <2> QED BY <1>8, <2>1, <2>2, <2>3
  <1>9. [Next]_vars =>
          \/ UNCHANGED <<due, instance>> /\ NoneStops
          \/ DeleteLogger
          \/ \E t \in Threads : SetQuit(t) \/ StopReturns(t) \/ StopAnother(t)
    <2>1. CASE Start \/ Close \/ LoggerStep \/ SpuriousWakeUp \/ UNCHANGED vars
      BY <2>1 DEF vars, Start, Close, LoggerStep, RunBegins, WaitIfIdle, LoopOrLeave, RunEnds,
                  SpuriousWakeUp, Take, LastTake, OutputMessage
    <2>2. ASSUME NEW t \in Threads,
                 Crash(t) \/ Unhook(t) \/ WakeLogger(t) \/ GoOn(t) \/ UseDeleted(t)
          PROVE  UNCHANGED <<due, instance>> /\ NoneStops
      BY <2>2 DEF Crash, Unhook, WakeLogger, GoOn, UseDeleted
    <2> QED BY <1>8, <2>1, <2>2 DEF Next, CallerStep
  <1> QED BY <1>2, <1>3, <1>4, <1>5, <1>6, <1>9

-----------------------------------------------------------------------------
LEMMA LoggerInvariantHolds == Spec => []LoggerInvariant
  <1>1. LoggerInvariant /\ [Next]_vars => LoggerInvariant'
    BY TypeStep, CallsStep, RunStep, OrderStep, StopStep DEF LoggerInvariant
  <1> QED BY InitInvariant, <1>1, PTL DEF Spec

(* Every variable of the logger keeps to its range.                        *)
THEOREM LoggerTypes == Spec => []TypeOK
  BY LoggerInvariantHolds, PTL DEF LoggerInvariant

(* Each message appended is written once and in order, or still waits in   *)
(* the batch or the list: appendMessage and run() of the logger.           *)
THEOREM LoggerWritesOnceInOrder == Spec => []OnceInOrder
  BY LoggerInvariantHolds, PTL DEF LoggerInvariant

(* stopLogger returns only when what was appended before it is written, if *)
(* run() had begun.                                                        *)
THEOREM StoppingFlushes == Spec => []StopFlushes
  BY LoggerInvariantHolds, PTL DEF LoggerInvariant
=============================================================================
