----------------------------- MODULE MessageLogger -----------------------------
(***************************************************************************)
(* The asynchronous logger (core/logger): any thread logs by appending to  *)
(* a list under a mutex, one QThread takes the list in batches and writes  *)
(* it, and close() or the crash handler stops that thread.  What happens   *)
(* under the mutex is one step; reads outside it (the static pointer to    *)
(* the logger, m_quit at the end of the loop) are steps of their own.      *)
(* A message is <<thread, number>>; its text, type and target are not      *)
(* modelled, only whether writing it makes Qt complain (saveToFile).  A    *)
(* logger that is made after close() has no thread and is not modelled.    *)
(***************************************************************************)
EXTENDS Naturals, Sequences

CONSTANTS
  Main,         \* the thread that starts and closes the logger
  Others,       \* the other threads that log
  Logger,       \* the logger's own thread
  MaxMessages,  \* messages a thread logs besides those of a crash (bound)
  MayCrash      \* the threads that may get the signal (one of those of enableCrashHandler)

Threads == Others \cup {Main, Logger}
Message == Threads \X (1 .. MaxMessages + 2)

ASSUME LoggerAssumption ==
  /\ MaxMessages \in Nat
  /\ Main # Logger /\ {Main, Logger} \cap Others = {}
  /\ MayCrash \subseteq Threads

VARIABLES
  run,            \* where run() of the logger's thread is
  messageList,    \* m_messageList
  batch,          \* the messageList of run(), not yet written
  quit,           \* m_quit
  threadFinished, \* m_threadFinished
  target,         \* LogMessage::m_messageLoggerBase is the logger
  instance,       \* the logger: m_instance, given up by close(), or deleted
  qtHook,         \* logQtDebug is installed
  grumbles,       \* Qt's complaints in messageList, and
  batchGrumbles,  \* in batch: their place among the messages is left open
  at,             \* what each thread is doing
  crashed,        \* for each thread the crash message it logs next, or "no"
  sent,           \* messages each thread has appended
  exited,         \* the process has ended, or has used the deleted logger
  logged,         \* history: every message appended, in order
  output,         \* history: every message outputMessage was called with
  due             \* history: how many were appended when m_quit was set

threadVars == <<run, batch, threadFinished, batchGrumbles, output>>
callerVars == <<at, crashed, sent, exited>>
pointerVars == <<target, instance>>
vars == <<run, messageList, batch, quit, threadFinished, target, instance, qtHook,
          grumbles, batchGrumbles, at, crashed, sent, exited, logged, output, due>>

Init ==
  /\ run = "new" /\ messageList = <<>> /\ batch = <<>>
  /\ quit = FALSE /\ threadFinished = TRUE
  /\ target = TRUE /\ qtHook = TRUE /\ instance = "live"
  /\ grumbles = 0 /\ batchGrumbles = 0
  /\ at = [t \in Threads |-> IF t = Logger THEN "running" ELSE "free"]
  /\ crashed = [t \in Threads |-> "no"]
  /\ sent = [t \in Threads |-> 0]
  /\ exited = FALSE
  /\ logged = <<>> /\ output = <<>> /\ due = 0

Goto(t, place) == at' = [at EXCEPT ![t] = place]

(* cond.wakeOne(): only the logger's thread ever waits.                    *)
WakeOne == run' = IF run = "waiting" THEN "take" ELSE run

-----------------------------------------------------------------------------
(* Threads that log.                                                       *)

(* A crash handler logs LOGFATAL, then LOGCRASH, then calls stopLogger.    *)
AfterMessage(t) ==
  CASE crashed[t] = "fatal" -> Goto(t, "free") /\ crashed' = [crashed EXCEPT ![t] = "crash"]
    [] crashed[t] = "crash" -> Goto(t, "unhook") /\ crashed' = [crashed EXCEPT ![t] = "done"]
    [] OTHER                -> Goto(t, "free") /\ UNCHANGED crashed
InHandler(t) == crashed[t] \in {"fatal", "crash"}

(* ~LogMessage reads the pointer to the logger ...                         *)
Log(t) ==
  /\ at[t] = "free" /\ ~exited
  /\ \/ crashed[t] = "no" /\ sent[t] < MaxMessages
     \/ crashed[t] = "done" /\ sent[t] < MaxMessages + 2
     \/ InHandler(t)
  /\ IF target THEN Goto(t, "append") /\ UNCHANGED crashed ELSE AfterMessage(t)
  /\ UNCHANGED <<threadVars, messageList, quit, pointerVars, qtHook, grumbles, sent, exited,
                 logged, due>>

(* Mutant: appendMessage without cond.wakeOne().                           *)
AppendSilently(t) ==
  /\ at[t] = "append" /\ instance # "deleted" /\ ~exited
  /\ LET m == <<t, sent[t] + 1>>
     IN  messageList' = Append(messageList, m) /\ logged' = Append(logged, m)
  /\ sent' = [sent EXCEPT ![t] = @ + 1]
  /\ AfterMessage(t)
  /\ UNCHANGED <<run, batch, quit, threadFinished, pointerVars, qtHook, grumbles, batchGrumbles,
                 exited, output, due>>

(* ... and then calls appendMessage.                                       *)
AppendMessage(t) ==
  /\ at[t] = "append" /\ instance # "deleted" /\ ~exited
  /\ LET m == <<t, sent[t] + 1>>
     IN  messageList' = Append(messageList, m) /\ logged' = Append(logged, m)
  /\ sent' = [sent EXCEPT ![t] = @ + 1]
  /\ WakeOne
  /\ AfterMessage(t)
  /\ UNCHANGED <<batch, quit, threadFinished, pointerVars, qtHook, grumbles, batchGrumbles,
                 exited, output, due>>

(* A signal interrupts the thread: signalHandler, then afterCrashDump.     *)
(* signalHandler first restores the default action, so the same signal in  *)
(* a second thread ends the process at once.                               *)
Crash(t) ==
  /\ t \in MayCrash /\ crashed[t] = "no" /\ ~exited
  /\ \/ at[t] = "free"
     \/ t = Logger /\ at[t] = "running" /\ run \in {"output", "lastOutput"}
  /\ Goto(t, "free")
  /\ crashed' = [crashed EXCEPT ![t] = "fatal"]
  /\ exited' = (\E other \in Threads : crashed[other] # "no")
  /\ UNCHANGED <<threadVars, messageList, quit, pointerVars, qtHook, grumbles, sent, logged, due>>

-----------------------------------------------------------------------------
(* Starting and stopping.                                                  *)

(* MessageLogger::instance()->start()                                      *)
Start ==
  /\ at[Main] = "free" /\ ~InHandler(Main) /\ run = "new" /\ instance = "live" /\ ~exited
  /\ run' = "starting"
  /\ UNCHANGED <<messageList, batch, quit, threadFinished, pointerVars, qtHook, grumbles,
                 batchGrumbles, callerVars, logged, output, due>>

(* MessageLogger::close() before its call of stopLogger.                   *)
Close ==
  /\ at[Main] = "free" /\ ~InHandler(Main) /\ instance = "live" /\ ~exited
  /\ target' = FALSE
  /\ Goto(Main, "unhook")
  /\ UNCHANGED <<threadVars, messageList, quit, instance, qtHook, grumbles, crashed, sent, exited,
                 logged, due>>

(* stopLogger: uninstallQtMessageLogger ...                                *)
Unhook(t) ==
  /\ at[t] = "unhook" /\ instance = "live" /\ ~exited
  /\ qtHook' = FALSE
  /\ Goto(t, "quit")
  /\ UNCHANGED <<threadVars, messageList, quit, pointerVars, grumbles, crashed, sent, exited,
                 logged, due>>

(* ... m_quit under the mutex ...                                          *)
SetQuit(t) ==
  /\ at[t] = "quit" /\ instance # "deleted" /\ ~exited
  /\ quit' = TRUE
  /\ due' = IF quit \/ run \in {"new", "starting"} THEN due ELSE Len(logged)
  /\ Goto(t, "wake")
  /\ UNCHANGED <<threadVars, messageList, pointerVars, qtHook, grumbles, crashed, sent, exited,
                 logged>>

(* Mutant: stopLogger does not wake the thread.                            *)
WakeNobody(t) ==
  /\ at[t] = "wake" /\ instance # "deleted" /\ ~exited
  /\ Goto(t, "spin")
  /\ UNCHANGED <<threadVars, messageList, quit, pointerVars, qtHook, grumbles, crashed, sent,
                 exited,
                 logged, due>>

(* ... wakeOne after it ...                                                *)
WakeLogger(t) ==
  /\ at[t] = "wake" /\ instance # "deleted" /\ ~exited
  /\ WakeOne
  /\ Goto(t, "spin")
  /\ UNCHANGED <<messageList, batch, quit, threadFinished, pointerVars, qtHook, grumbles,
                 batchGrumbles, crashed, sent, exited, logged, output, due>>

(* ... and the wait for isThreadFinished().  After it close() gives the    *)
(* logger up, and the crash handler ends the process by exit() or returns. *)
StopReturns(t) ==
  /\ at[t] = "spin" /\ threadFinished /\ instance # "deleted" /\ ~exited
  /\ Goto(t, "stopped")
  /\ instance' = IF crashed[t] = "done" THEN instance ELSE "closed"
  /\ exited' \in {FALSE, crashed[t] = "done"}
  /\ UNCHANGED <<threadVars, messageList, quit, target, qtHook, grumbles, crashed, sent, logged,
                 due>>

(* The crash handler after close(): instance() makes another logger, which *)
(* has nothing to stop.                                                    *)
StopAnother(t) ==
  /\ at[t] = "unhook" /\ instance # "live" /\ ~exited
  /\ Goto(t, "stopped")
  /\ exited' \in BOOLEAN
  /\ UNCHANGED <<threadVars, messageList, quit, pointerVars, qtHook, grumbles, crashed, sent,
                 logged, due>>

(* close() has returned, or the signal handler: the default action of the  *)
(* signal or of its cause ends the process, or the thread goes on.         *)
GoOn(t) ==
  /\ at[t] = "stopped" /\ ~exited
  /\ Goto(t, IF t = Logger THEN "running" ELSE "free")
  /\ UNCHANGED <<threadVars, messageList, quit, pointerVars, qtHook, grumbles, crashed, sent,
                 exited,
                 logged, due>>

(* deleteLater: the event loop of the main thread deletes the logger.      *)
(* ~QThread ends the process when the thread has not finished, which it    *)
(* may just not have after the end of run().                               *)
DeleteLogger ==
  /\ at[Main] = "free" /\ ~InHandler(Main) /\ instance = "closed" /\ ~exited
  /\ instance' = "deleted"
  /\ exited' \in {run \notin {"new", "done"}, run # "new"}
  /\ UNCHANGED <<threadVars, messageList, quit, target, qtHook, grumbles, at, crashed, sent,
                 logged, due>>

(* A thread that read the pointer before goes on with freed memory.        *)
UseDeleted(t) ==
  /\ at[t] \in {"append", "quit", "wake", "spin"} /\ instance = "deleted" /\ ~exited
  /\ exited' = TRUE
  /\ UNCHANGED <<threadVars, messageList, quit, pointerVars, qtHook, grumbles, at, crashed, sent,
                 logged, due>>

-----------------------------------------------------------------------------
(* The logger's thread.                                                    *)

Running == at[Logger] = "running" /\ ~exited

RunBegins ==
  /\ run = "starting" /\ Running
  /\ run' = "wait" /\ threadFinished' = FALSE
  /\ UNCHANGED <<messageList, batch, quit, pointerVars, qtHook, grumbles, batchGrumbles,
                 callerVars, logged, output, due>>

(* "Go to sleep if there's nothing to do": one test, no loop around it.    *)
WaitIfIdle ==
  /\ run = "wait" /\ Running
  /\ run' = IF ~quit /\ messageList = <<>> /\ grumbles = 0 THEN "waiting" ELSE "take"
  /\ UNCHANGED <<messageList, batch, quit, threadFinished, pointerVars, qtHook, grumbles,
                 batchGrumbles, callerVars, logged, output, due>>

(* A condition variable may wake without a call of wakeOne.                *)
SpuriousWakeUp ==
  /\ run = "waiting" /\ Running
  /\ run' = "take"
  /\ UNCHANGED <<messageList, batch, quit, threadFinished, pointerVars, qtHook, grumbles,
                 batchGrumbles, callerVars, logged, output, due>>

(* Mutant: m_messageList is copied and not cleared.                        *)
CopyAll ==
  /\ batch' = messageList /\ UNCHANGED messageList
  /\ batchGrumbles' = grumbles /\ grumbles' = 0

TakeAll ==
  /\ batch' = messageList /\ messageList' = <<>>
  /\ batchGrumbles' = grumbles /\ grumbles' = 0

Take ==
  /\ run = "take" /\ Running
  /\ TakeAll
  /\ run' = "output"
  /\ UNCHANGED <<quit, threadFinished, pointerVars, qtHook, callerVars, logged, output, due>>

(* When the log file cannot be opened, saveToFile says so with qCritical,  *)
(* which comes back as a message while the hook is in.                     *)
SaveToFile ==
  \/ UNCHANGED grumbles
  \/ qtHook /\ target /\ grumbles' = grumbles + 1

OutputMessage ==
  /\ run \in {"output", "lastOutput"} /\ Running
  /\ \/ /\ batch # <<>>
        /\ output' = Append(output, Head(batch)) /\ batch' = Tail(batch)
        /\ UNCHANGED batchGrumbles
     \/ /\ batchGrumbles > 0
        /\ batchGrumbles' = batchGrumbles - 1
        /\ UNCHANGED <<output, batch>>
  /\ SaveToFile
  /\ UNCHANGED <<run, messageList, quit, threadFinished, pointerVars, qtHook, callerVars, logged,
                 due>>

BatchDone == batch = <<>> /\ batchGrumbles = 0

(* while(!m_quit), read without the mutex.                                 *)
LoopOrLeave ==
  /\ run = "output" /\ BatchDone /\ Running
  /\ run' = IF quit THEN "lastTake" ELSE "wait"
  /\ UNCHANGED <<messageList, batch, quit, threadFinished, pointerVars, qtHook, grumbles,
                 batchGrumbles, callerVars, logged, output, due>>

(* Mutant: nothing is taken after the loop.                                *)
NoLastTake ==
  /\ run = "lastTake" /\ Running
  /\ run' = "lastOutput"
  /\ UNCHANGED <<messageList, batch, quit, threadFinished, pointerVars, qtHook, grumbles,
                 batchGrumbles, callerVars, logged, output, due>>

LastTake ==
  /\ run = "lastTake" /\ Running
  /\ TakeAll
  /\ run' = "lastOutput"
  /\ UNCHANGED <<quit, threadFinished, pointerVars, qtHook, callerVars, logged, output, due>>

(* closeFile, closeDatabase, setThreadFinished(true)                       *)
RunEnds ==
  /\ run = "lastOutput" /\ BatchDone /\ Running
  /\ run' = "done" /\ threadFinished' = TRUE
  /\ UNCHANGED <<messageList, batch, quit, pointerVars, qtHook, grumbles, batchGrumbles,
                 callerVars, logged, output, due>>

-----------------------------------------------------------------------------
LoggerStep ==
  \/ RunBegins \/ WaitIfIdle \/ Take \/ OutputMessage
  \/ LoopOrLeave \/ LastTake \/ RunEnds

CallerStep(t) ==
  \/ AppendMessage(t) \/ Unhook(t) \/ SetQuit(t) \/ WakeLogger(t) \/ StopReturns(t)
  \/ StopAnother(t) \/ GoOn(t) \/ UseDeleted(t)
  \/ InHandler(t) /\ Log(t)

Next ==
  \/ Start \/ Close \/ DeleteLogger \/ LoggerStep \/ SpuriousWakeUp
  \/ \E t \in Threads : Log(t) \/ Crash(t) \/ CallerStep(t)

Spec == Init /\ [][Next]_vars

(* The scheduler runs the logger's thread, and a thread inside a call of   *)
(* the logger; nobody has to log, crash, start or close.                   *)
FairSpec == Spec /\ WF_vars(LoggerStep) /\ \A t \in Threads : WF_vars(CallerStep(t))

-----------------------------------------------------------------------------
(* Every variable keeps to its range.                                      *)
TypeOK ==
  /\ run \in {"new", "starting", "wait", "waiting", "take", "output", "lastTake", "lastOutput", "done"}
  /\ {messageList, batch, logged, output} \subseteq Seq(Message)
  /\ {quit, threadFinished, target, qtHook, exited} \subseteq BOOLEAN
  /\ instance \in {"live", "closed", "deleted"}
  /\ grumbles \in Nat /\ batchGrumbles \in Nat /\ due \in Nat
  /\ at \in [Threads -> {"free", "append", "running", "unhook", "quit", "wake", "spin", "stopped"}]
  /\ crashed \in [Threads -> {"no", "fatal", "crash", "done"}]
  /\ sent \in [Threads -> 0 .. MaxMessages + 2]

(* Whatever threads append, stop and crash in between, each message that   *)
(* was appended is written, in a batch or in the list, once and in the     *)
(* order of appendMessage: the hand-over of m_messageList in run().        *)
OnceInOrder == logged = output \o batch \o messageList

(* When stopLogger returns, every message appended before m_quit was set   *)
(* has been written, if run() had begun by then: the second taking of the  *)
(* list after the loop, the wait for m_threadFinished.                     *)
StopFlushes == \A t \in Threads : at[t] = "stopped" => Len(output) >= due

(* A message appended while the logger runs is written, unless the process *)
(* ends or the logger's own thread crashes: no wake-up of the condition    *)
(* variable is lost.                                                       *)
EveryMessageWritten ==
  \A k \in 1 .. 2 * MaxMessages :
    (run # "new" /\ ~quit /\ Len(logged) >= k)
      ~> (Len(output) >= k \/ exited \/ crashed[Logger] # "no")

(* stopLogger returns, whoever calls it, unless the logger's own thread    *)
(* crashes: its handler then waits for itself.                             *)
StopEnds ==
  \A t \in Threads :
    at[t] = "unhook" ~> (at[t] = "stopped" \/ exited \/ crashed[Logger] # "no")
=============================================================================
