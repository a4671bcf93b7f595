---------------------------- MODULE Daemon_proofs ----------------------------
(***************************************************************************)
(* Proofs about Daemon, for any bound of the semaphore: what the threads   *)
(* use is freed after they have ended, and the capture thread never gets   *)
(* ahead of the probes.                                                    *)
(***************************************************************************)
EXTENDS Daemon, TLAPS

-----------------------------------------------------------------------------
(* The inductive invariant.                                                *)

\* catchb starts every worker, and keeps the handle of one that has not ended.
Started ==
    /\ catchb.at = "start" => \A i \in 1..6 : i < catchb.step => thread[StartOrder[i]] # "none"
    /\ catchb.at # "start" => \A t \in Workers : thread[t] # "none"
    /\ \A t \in Workers : thread[t] # "none" => t \in handle \/ thread[t] = "ended"

\* catchb stops every worker; nobody else stops the server, whose flag it
\* looks at.
Stopped ==
    /\ catchb.at \in {"start", "begin", "loop"} => ~bStop["server"]
    /\ catchb.at = "stop" /\ catchb.step = 1 => ~bStop["server"]
    /\ catchb.at \in {"stop", "join"} =>
          \A i \in 1..5 : i < catchb.step => thread[StopOrder[i]] = "ended"
    /\ catchb.at = "done" => \A t \in Workers \ {"logger"} : thread[t] = "ended"
    /\ quit \subseteq {"analyzer", "notifier"}
    /\ main \in {"destroy", "joinLogger", "destroyed"} => catchb.at = "done"

\* How far the semaphore's value is from the captures owed: the unit it has at
\* first is not owed, and the capture thread takes it away.
Captures ==
    /\ owed >= 0
    /\ catchb.at = "start" /\ catchb.step <= 2 => capture = "none"
    /\ capture \in {"none", "created", "first"} => key = owed + 1
    /\ capture \in {"check", "wait", "capturing"} => key = owed

IInv == TypeOK /\ Started /\ Stopped /\ Captures

-----------------------------------------------------------------------------
(* catchb's thread and the main thread.                                    *)

\* The workers, in either order.
LEMMA Orders ==
    /\ \A i \in 1..6 : StartOrder[i] \in Workers /\ StopOrder[i] \in Workers
    /\ \A t \in Workers : \E i \in 1..6 : t = StartOrder[i]
    /\ \A t \in Workers \ {"logger"} : \E i \in 1..5 : t = StopOrder[i]
    /\ \A i, j \in 1..6 : StopOrder[i] = StopOrder[j] => i = j
    /\ StopOrder[1] = "server" /\ StopOrder[6] = "logger"
    /\ \A i \in 1..6 : StartOrder[i] = "analyzer" <=> i = 2
<1>1. \A i \in 1..6 : i = 1 \/ i = 2 \/ i = 3 \/ i = 4 \/ i = 5 \/ i = 6
  OBVIOUS
<1>2. /\ StartOrder[1] = "logger" /\ StartOrder[2] = "analyzer" /\ StartOrder[3] = "detector"
      /\ StartOrder[4] = "notifier" /\ StartOrder[5] = "timer" /\ StartOrder[6] = "server"
  BY DEF StartOrder
<1>3. /\ StopOrder[1] = "server" /\ StopOrder[2] = "timer" /\ StopOrder[3] = "analyzer"
      /\ StopOrder[4] = "notifier" /\ StopOrder[5] = "detector" /\ StopOrder[6] = "logger"
  BY DEF StopOrder
<1>4. \A i \in 1..6 : StartOrder[i] \in Workers /\ StopOrder[i] \in Workers
  BY <1>1, <1>2, <1>3 DEF Workers
<1>5. \A t \in Workers : \E i \in 1..6 : t = StartOrder[i]
  BY <1>2 DEF Workers
<1>6. \A t \in Workers \ {"logger"} : \E i \in 1..5 : t = StopOrder[i]
  BY <1>3 DEF Workers
<1>7. \A i, j \in 1..6 : StopOrder[i] = StopOrder[j] => i = j
  BY <1>1, <1>3
<1>8. \A i \in 1..6 : StartOrder[i] = "analyzer" <=> i = 2
  BY <1>1, <1>2
<1> QED
  BY <1>3, <1>4, <1>5, <1>6, <1>7, <1>8

\* The next worker is started.
LEMMA StartNextStep ==
    ASSUME IInv, StartNext
    PROVE  IInv'
<1> USE DEF IInv
<1> DEFINE t == StartOrder[catchb.step]
<1>1. catchb.at = "start" /\ catchb.step \in 1..6 /\ t \in Workers
  BY Orders DEF StartNext, TypeOK
<1>2. /\ thread' = [thread EXCEPT ![t] = "created"]
      /\ handle' = handle \cup {t}
      /\ capture' = IF t = "analyzer" THEN "created" ELSE capture
      /\ bStop' = IF t = "timer" THEN [bStop EXCEPT ![t] = FALSE] ELSE bStop
      /\ catchb' = IF catchb.step = 6 THEN [at |-> "begin", step |-> 1]
                   ELSE [catchb EXCEPT !.step = catchb.step + 1]
      /\ UNCHANGED <<main, quit, key, owed>>
  BY DEF StartNext
<1> HIDE DEF t
<1>3. /\ catchb' \in [at : {"start", "begin", "loop", "stop", "join", "done"}, step : 1..6]
      /\ catchb.step = 6 => catchb'.at = "begin"
      /\ catchb.step # 6 => catchb'.at = "start" /\ catchb'.step = catchb.step + 1
  BY <1>1, <1>2 DEF TypeOK
<1>4. TypeOK'
  BY <1>1, <1>2, <1>3 DEF TypeOK
<1>5. Started'
  <2>1. \A i \in 1..6 : i <= catchb.step => thread'[StartOrder[i]] # "none"
    <3> SUFFICES ASSUME NEW i \in 1..6, i <= catchb.step
                 PROVE  thread'[StartOrder[i]] # "none"
      OBVIOUS
    <3>1. StartOrder[i] \in Workers
      BY Orders
    <3>2. i < catchb.step \/ StartOrder[i] = t
      BY <1>1 DEF t
    <3> QED
      BY <1>1, <1>2, <3>1, <3>2 DEF Started, TypeOK
  <2>2. catchb.step = 6 => \A u \in Workers : thread'[u] # "none"
    BY <2>1, Orders
  <2>3. \A u \in Workers : thread'[u] # "none" => u \in handle' \/ thread'[u] = "ended"
    BY <1>2 DEF Started, TypeOK
  <2>4. catchb'.at = "start" =>
           \A i \in 1..6 : i < catchb'.step => thread'[StartOrder[i]] # "none"
    BY <1>1, <1>3, <2>1
  <2> QED
    BY <1>3, <2>2, <2>3, <2>4 DEF Started
<1>6. Stopped'
  <2>1. ~bStop'["server"]
    BY <1>1, <1>2 DEF Stopped, TypeOK, Workers
  <2> QED
    BY <1>1, <1>2, <1>3, <2>1 DEF Stopped
<1>7. Captures'
  <2>1. t = "analyzer" <=> catchb.step = 2
    BY <1>1, Orders DEF t
  <2>2. CASE catchb.step = 2
    BY <1>1, <1>2, <1>3, <2>1, <2>2 DEF Captures
  <2>3. CASE catchb.step # 2
    <3>1. capture' = capture
      BY <1>2, <2>1, <2>3
    <3>2. catchb'.at = "start" /\ catchb'.step <= 2 => catchb.step <= 2
      BY <1>1, <1>3
    <3> QED
      BY <1>1, <1>2, <3>1, <3>2 DEF Captures
  <2> QED
    BY <2>2, <2>3
<1> QED
  BY <1>4, <1>5, <1>6, <1>7

\* The start is over, the loop begins and ends.
LEMMA LoopStep ==
    ASSUME IInv, BeginLoop \/ EndLoop
    PROVE  IInv'
<1> USE DEF IInv
<1>1. /\ catchb.at \in {"begin", "loop"} /\ catchb.step \in 1..6
      /\ catchb' \in [at : {"start", "begin", "loop", "stop", "join", "done"}, step : 1..6]
      /\ catchb'.at = "loop" \/ (catchb'.at = "stop" /\ catchb'.step = 1)
      /\ bStop' \in [Workers \cup {"catchb"} -> BOOLEAN]
      /\ bStop'["server"] = bStop["server"]
      /\ UNCHANGED <<main, thread, quit, handle, capture, key, owed>>
  <2>0. /\ catchb \in [at : {"start", "begin", "loop", "stop", "join", "done"}, step : 1..6]
        /\ bStop \in [Workers \cup {"catchb"} -> BOOLEAN] /\ "server" # "catchb"
        /\ "server" \in Workers
    BY DEF TypeOK, Workers
  <2>1. CASE BeginLoop
    BY <2>0, <2>1 DEF BeginLoop, captureVars
  <2>2. CASE EndLoop
    BY <2>0, <2>2 DEF EndLoop, captureVars, workerVars
  <2> QED
    BY <2>1, <2>2
<1>2. TypeOK'
  BY <1>1 DEF TypeOK
<1>3. Started'
  BY <1>1 DEF Started
<1>4. Stopped'
  BY <1>1 DEF Stopped
<1>5. Captures'
  BY <1>1 DEF Captures
<1> QED
  BY <1>2, <1>3, <1>4, <1>5

\* When catchb goes on to the next stop, the worker before has ended.
LEMMA AfterStep ==
    ASSUME IInv, catchb.at \in {"stop", "join"}, catchb' = After(catchb.step),
           StopOrder[catchb.step] = "logger" \/ thread[StopOrder[catchb.step]] = "ended",
           catchb.at = "join" \/ catchb.step # 1,
           handle' \subseteq handle,
           \A t \in handle \ handle' : thread[t] = "ended",
           UNCHANGED <<main, thread, bStop, quit, capture, key, owed>>
    PROVE  IInv'
<1> USE DEF IInv
<1>1. catchb.step \in 1..6
  BY DEF TypeOK
<1>2. /\ catchb' \in [at : {"start", "begin", "loop", "stop", "join", "done"}, step : 1..6]
      /\ catchb.step = 6 => catchb'.at = "done"
      /\ catchb.step # 6 => catchb'.at = "stop" /\ catchb'.step = catchb.step + 1
  BY <1>1 DEF After
<1>3. TypeOK'
  BY <1>2 DEF TypeOK
<1>4. Started'
  BY <1>2 DEF Started, TypeOK
<1>5. Stopped'
  <2>1. \A i \in 1..5 : i < catchb.step + 1 => thread[StopOrder[i]] = "ended"
    <3> SUFFICES ASSUME NEW i \in 1..5, i < catchb.step + 1
                 PROVE  thread[StopOrder[i]] = "ended"
      OBVIOUS
    <3>1. i < catchb.step \/ i = catchb.step
      BY <1>1
    <3>2. StopOrder[i] # "logger"
      BY Orders
    <3> QED
      BY <3>1, <3>2 DEF Stopped
  <2>2. catchb.step = 6 => \A t \in Workers \ {"logger"} : thread[t] = "ended"
    BY <2>1, Orders
  <2>3. catchb'.step # 1 \/ catchb'.at = "done"
    BY <1>1, <1>2
  <2>4. main' \in {"destroy", "joinLogger", "destroyed"} => FALSE
    BY DEF Stopped
  <2> QED
    BY <1>2, <2>1, <2>2, <2>3, <2>4 DEF Stopped
<1>6. Captures'
  BY <1>2 DEF Captures
<1> QED
  BY <1>3, <1>4, <1>5, <1>6

\* A stop tells its thread to end, unless the thread is gone.
LEMMA StopNextStep ==
    ASSUME IInv, StopNext
    PROVE  IInv'
<1> USE DEF IInv
<1> DEFINE t == StopOrder[catchb.step]
<1>1. catchb.at = "stop" /\ catchb.step \in 1..6 /\ t \in Workers
  BY Orders DEF StopNext, TypeOK
<1>2. UNCHANGED <<main, thread, handle, capture, key, owed>>
  BY DEF StopNext, captureVars
<1>3. CASE ToStop(t)
  <2>1. /\ quit' = quit \cup ({t} \cap QuitFor)
        /\ bStop' = [bStop EXCEPT ![t] = TRUE]
        /\ catchb' = [catchb EXCEPT !.at = "join"]
    BY <1>3 DEF StopNext
  <2>2. /\ catchb' \in [at : {"start", "begin", "loop", "stop", "join", "done"}, step : 1..6]
        /\ catchb'.at = "join" /\ catchb'.step = catchb.step
    BY <1>1, <2>1 DEF TypeOK
  <2>3. quit' \subseteq {"analyzer", "notifier"}
    BY <2>1 DEF QuitFor, Stopped
  <2> HIDE DEF t
  <2>4. TypeOK'
    BY <1>1, <1>2, <2>1, <2>2, <2>3 DEF TypeOK, Workers
  <2>5. Started'
    BY <1>1, <1>2, <2>2 DEF Started
  <2>6. Stopped'
    BY <1>1, <1>2, <2>2, <2>3 DEF Stopped
  <2>7. Captures'
    BY <1>1, <1>2, <2>2 DEF Captures
  <2> QED
    BY <2>4, <2>5, <2>6, <2>7
<1>4. CASE ~ToStop(t)
  <2>1. catchb' = After(catchb.step) /\ UNCHANGED <<quit, bStop>>
    BY <1>4 DEF StopNext
  <2>2. t = "logger" \/ thread[t] = "ended"
    <3>1. t # "server"
      BY <1>1, <1>4, Orders DEF ToStop, Stopped
    <3>2. t # "logger" => t \notin handle
      BY <1>4, <3>1 DEF ToStop
    <3> QED
      BY <1>1, <3>2 DEF Started
  <2>3. catchb.step # 1
    BY <1>1, <1>4, Orders DEF ToStop, Stopped
  <2> QED
    BY <1>1, <1>2, <2>1, <2>2, <2>3, AfterStep
<1> QED
  BY <1>3, <1>4

\* A join waits for the end of the thread.
LEMMA JoinWorkerStep ==
    ASSUME IInv, JoinWorker
    PROVE  IInv'
<1>1. /\ catchb.at = "join" /\ thread[StopOrder[catchb.step]] = "ended"
      /\ handle' = handle \ {StopOrder[catchb.step]} /\ catchb' = After(catchb.step)
      /\ UNCHANGED <<main, thread, bStop, quit, capture, key, owed>>
  BY DEF JoinWorker, captureVars
<1> QED
  BY <1>1, AfterStep

\* The main thread waits for catchb before it frees anything, and for a logger
\* that is still to end.
LEMMA MainSteps ==
    ASSUME IInv, Signal \/ MainStep
    PROVE  IInv'
<1> USE DEF IInv
<1>1. CASE Signal
  <2>1. /\ main' = "join" /\ bStop' = [bStop EXCEPT !["catchb"] = TRUE]
        /\ UNCHANGED <<catchb, thread, quit, handle, capture, key, owed>>
    BY <1>1 DEF Signal, captureVars
  <2>2. bStop'["server"] = bStop["server"]
    BY <2>1 DEF TypeOK, Workers
  <2> QED
    BY <2>1, <2>2 DEF TypeOK, Started, Stopped, Captures
<1>2. CASE JoinCatchb
  BY <1>2 DEF JoinCatchb, workerVars, captureVars, TypeOK, Started, Stopped, Captures
<1>3. CASE Destroy
  <2>1. /\ main = "destroy" /\ main' \in {"destroyed", "joinLogger"}
        /\ bStop' = [bStop EXCEPT !["logger"] = TRUE]
        /\ UNCHANGED <<catchb, thread, quit, handle, capture, key, owed>>
    BY <1>3 DEF Destroy, captureVars
  <2>2. bStop'["server"] = bStop["server"]
    BY <2>1 DEF TypeOK, Workers
  <2> QED
    BY <2>1, <2>2 DEF TypeOK, Started, Stopped, Captures
<1>4. CASE JoinLogger
  BY <1>4 DEF JoinLogger, captureVars, TypeOK, Started, Stopped, Captures
<1> QED
  BY <1>1, <1>2, <1>3, <1>4 DEF MainStep

-----------------------------------------------------------------------------
(* The workers and the capture.                                            *)

\* A worker that has begun has not ended before, and does not begin again; it
\* leaves the server's flag alone.
LEMMA WorkerSteps ==
    ASSUME IInv, (\E t \in Workers : WorkerStep(t)) \/ AnalyzerStep
    PROVE  IInv'
<1> USE DEF IInv
<1>1. PICK t \in Workers, to \in {"check", "ended", "work", "process", "probe"} :
         /\ thread[t] \notin {"none", "ended"}
         /\ thread' = [thread EXCEPT ![t] = to]
  BY DEF WorkerStep, Begin, Check, Work, AnalyzerStep, NoProbe, ProbeBegin, ProbeEnd, Workers
<1>2. /\ bStop' \in [Workers \cup {"catchb"} -> BOOLEAN]
      /\ bStop'["server"] = bStop["server"]
      /\ quit' \subseteq quit
      /\ UNCHANGED <<main, catchb, handle, capture>>
  <2>0. /\ bStop \in [Workers \cup {"catchb"} -> BOOLEAN] /\ "server" \in Workers
        /\ "server" \notin Clearing /\ "server" \notin quit
    BY DEF TypeOK, Workers, Clearing, Stopped
  <2>1. ASSUME NEW u \in Workers, Begin(u)
        PROVE  /\ bStop' \in [Workers \cup {"catchb"} -> BOOLEAN]
               /\ bStop'["server"] = bStop["server"]
    BY <2>0, <2>1 DEF Begin
  <2>2. ASSUME NEW u \in Workers, Work(u)
        PROVE  /\ bStop' \in [Workers \cup {"catchb"} -> BOOLEAN]
               /\ bStop'["server"] = bStop["server"]
    BY <2>0, <2>2 DEF Work
  <2>3. ASSUME NEW u \in Workers, Check(u)
        PROVE  bStop' = bStop
    BY <2>3 DEF Check
  <2>4. ASSUME AnalyzerStep PROVE bStop' = bStop
    BY <2>4 DEF AnalyzerStep, NoProbe, ProbeBegin, ProbeEnd
  <2>5. /\ bStop' \in [Workers \cup {"catchb"} -> BOOLEAN]
        /\ bStop'["server"] = bStop["server"]
    BY <2>0, <2>1, <2>2, <2>3, <2>4 DEF WorkerStep
  <2> QED
    BY <2>5 DEF WorkerStep, Begin, Check, Work, AnalyzerStep, NoProbe, ProbeBegin, ProbeEnd,
                captureVars
<1>3. (key' = key + 1 /\ owed' = owed + 1) \/ UNCHANGED <<key, owed>>
  BY DEF WorkerStep, Begin, Check, Work, AnalyzerStep, NoProbe, ProbeBegin, ProbeEnd,
         captureVars
<1>4. TypeOK'
  <2>1. thread' \in [Workers -> {"none", "created", "check", "work", "process", "probe", "ended"}]
    BY <1>1 DEF TypeOK
  <2>2. key' \in Nat /\ owed' \in Int
    BY <1>3 DEF TypeOK
  <2>3. quit' \subseteq Workers
    BY <1>2 DEF TypeOK
  <2> QED
    BY <1>2, <2>1, <2>2, <2>3 DEF TypeOK
<1>5. Started'
  <2>1. \A u \in Workers : thread[u] # "none" <=> thread'[u] # "none"
    BY <1>1 DEF TypeOK
  <2>2. \A u \in Workers : thread[u] = "ended" => thread'[u] = "ended"
    BY <1>1 DEF TypeOK
  <2> QED
    BY <1>2, <2>1, <2>2, Orders DEF Started
<1>6. Stopped'
  <2>1. \A u \in Workers : thread[u] = "ended" => thread'[u] = "ended"
    BY <1>1 DEF TypeOK
  <2> QED
    BY <1>2, <2>1, Orders DEF Stopped
<1>7. Captures'
  BY <1>2, <1>3 DEF Captures, TypeOK
<1> QED
  BY <1>4, <1>5, <1>6, <1>7

\* The capture thread takes a unit for each capture, after the first one.
LEMMA CaptureSteps ==
    ASSUME IInv, CaptureStep
    PROVE  IInv'
<1> USE DEF IInv
<1>1. /\ bStop' \in [Workers \cup {"catchb"} -> BOOLEAN]
      /\ bStop'["server"] = bStop["server"]
  <2>1. CASE CaptureBegin
    BY <2>1 DEF CaptureBegin, TypeOK, Workers
  <2>2. CASE CaptureStep /\ ~CaptureBegin
    BY <2>2 DEF CaptureStep, CaptureFails, FirstKey, CaptureCheck, CaptureStart, CaptureEnd,
                CaptureClose, workerVars, TypeOK
  <2> QED
    BY <2>1, <2>2
<1>2. UNCHANGED <<main, catchb, thread, quit, handle>>
  BY DEF CaptureStep, CaptureFails, CaptureBegin, FirstKey, CaptureCheck, CaptureStart,
         CaptureEnd, CaptureClose, workerVars
<1>3. /\ capture' \in {"none", "created", "first", "check", "wait", "capturing", "close", "ended"}
      /\ key' \in Nat /\ owed' \in Int /\ Captures'
  BY <1>2 DEF CaptureStep, CaptureFails, CaptureBegin, FirstKey, CaptureCheck, CaptureStart,
              CaptureEnd, CaptureClose, Captures, TypeOK
<1>4. TypeOK'
  BY <1>1, <1>2, <1>3 DEF TypeOK
<1>5. Started' /\ Stopped'
  BY <1>1, <1>2 DEF Started, Stopped
<1> QED
  BY <1>3, <1>4, <1>5

\* The program starts without workers.
LEMMA InitHolds == Init => IInv
<1> SUFFICES ASSUME Init PROVE IInv
  OBVIOUS
<1>1. TypeOK
  BY DEF Init, TypeOK
<1>2. Started
  <2>1. \A i \in 1..6 : ~(i < 1)
    OBVIOUS
  <2> QED
    BY <2>1 DEF Init, Started
<1>3. Stopped
  BY DEF Init, Stopped, Workers
<1>4. Captures
  BY DEF Init, Captures
<1> QED
  BY <1>1, <1>2, <1>3, <1>4 DEF IInv

\* Every step of every thread keeps the invariant.
LEMMA NextKeeps == IInv /\ [Next]_vars => IInv'
<1> SUFFICES ASSUME IInv, [Next]_vars PROVE IInv'
  OBVIOUS
<1>1. CASE Signal \/ MainStep
  BY <1>1, MainSteps
<1>2. CASE CatchbStep
  BY <1>2, StartNextStep, LoopStep, StopNextStep, JoinWorkerStep DEF CatchbStep
<1>3. CASE (\E t \in Workers : WorkerStep(t)) \/ AnalyzerStep
  BY <1>3, WorkerSteps
<1>4. CASE CaptureStep
  BY <1>4, CaptureSteps
<1>5. CASE UNCHANGED vars
  BY <1>5 DEF vars, IInv, TypeOK, Started, Stopped, Captures
<1> QED
  BY <1>1, <1>2, <1>3, <1>4, <1>5 DEF Next

\* The invariant holds throughout.
LEMMA Invariance == Spec => []IInv
  BY InitHolds, NextKeeps, PTL DEF Spec

-----------------------------------------------------------------------------
(* Theorems.                                                               *)

\* Every variable keeps its type, wherever start and stop are.
THEOREM TypeCorrect == Spec => []TypeOK
<1>1. IInv => TypeOK
  BY DEF IInv
<1> QED
  BY <1>1, Invariance, PTL

\* FTM_CATCHB_destroy comes after the end of catchb and of the workers.
THEOREM DestroyedAfterJoinCorrect == Spec => []DestroyedAfterJoin
<1>1. IInv => DestroyedAfterJoin
  <2> SUFFICES ASSUME IInv, main \in {"destroy", "joinLogger", "destroyed"}
               PROVE  /\ catchb.at = "done"
                      /\ \A t \in Workers \ {"logger"} : thread[t] = "ended"
                      /\ thread["logger"] = "ended" \/ "logger" \in handle
    BY DEF DestroyedAfterJoin
  <2>1. catchb.at = "done" /\ \A t \in Workers \ {"logger"} : thread[t] = "ended"
    BY DEF IInv, Stopped
  <2>2. thread["logger"] = "ended" \/ "logger" \in handle
    BY <2>1 DEF IInv, Started, Workers
  <2> QED
    BY <2>1, <2>2
<1> QED
  BY <1>1, Invariance, PTL

\* FTM_ANALYZER_threadPCAP captures once for each probe, and not before it.
THEOREM CaptureOnlyWhenProbedCorrect == Spec => []CaptureOnlyWhenProbed
<1>1. IInv => CaptureOnlyWhenProbed
  BY DEF IInv, Captures, CaptureOnlyWhenProbed
<1> QED
  BY <1>1, Invariance, PTL
=============================================================================
