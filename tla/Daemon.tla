------------------------------- MODULE Daemon -------------------------------
(***************************************************************************)
(* The life of the threads.  The main thread starts catchb's thread and    *)
(* waits for a signal; catchb's thread starts six others one by one, works *)
(* until it is told to stop, stops them one by one in another order, and   *)
(* ends, upon which the main thread frees everything.  Each thread has a   *)
(* flag bStop, which some of them clear when they begin to run.            *)
(*                                                                         *)
(* The analyzer has a second thread, which captures packets during each    *)
(* probe: it shares the analyzer's flag, waits at a semaphore that each    *)
(* probe posts, and nobody joins it.                                       *)
(***************************************************************************)
EXTENDS Integers, Sequences, FiniteSets

CONSTANT
    MaxKey          \* bound of the semaphore: posts the capture is behind with

ASSUME DaemonAssumption == MaxKey \in Nat \ {0}

\* FTM_CATCHB_process starts in this order ...
StartOrder == <<"logger", "analyzer", "detector", "notifier", "timer", "server">>
\* ... and stops in this one.
StopOrder == <<"server", "timer", "analyzer", "notifier", "detector", "logger">>

Workers == {"logger", "analyzer", "detector", "notifier", "timer", "server"}

VARIABLES
    main,           \* where the main thread is
    catchb,         \* where catchb's thread is: [at, step]
    thread,         \* where each worker's thread is
    bStop,          \* the flag of each worker, and catchb's
    quit,           \* workers with a QUIT message in their queue
    handle,         \* workers whose xThread is not 0
    capture,        \* where the capture thread is
    key,            \* value of the analyzer's pPCAPLock
    owed            \* ghost: probes begun less captures begun

vars == <<main, catchb, thread, bStop, quit, handle, capture, key, owed>>
captureVars == <<capture, key, owed>>
workerVars == <<thread, bStop, quit, handle>>

\* FTM_CATCHB_start; what each FTM_*_create leaves in bStop.
Init ==
    /\ main = "run"
    /\ catchb = [at |-> "start", step |-> 1]
    /\ thread = [t \in Workers |-> "none"]
    /\ bStop = [t \in Workers \cup {"catchb"} |->
                  t \in {"logger", "analyzer", "notifier", "timer"}]
    /\ quit = {} /\ handle = {}
    /\ capture = "none" /\ key = 1 /\ owed = 0

-----------------------------------------------------------------------------
(* The main thread.                                                        *)

\* FTM_signalStop, once the handlers are installed, or in debug mode the end of
\* the shell: FTM_CATCHB_stop.
Signal ==
    /\ main = "run"
    /\ main' = "join"
    /\ bStop' = [bStop EXCEPT !["catchb"] = TRUE]
    /\ UNCHANGED <<catchb, thread, quit, handle, captureVars>>

\* ... which sets xThread to 0 after the join, so that FTM_CATCHB_destroy, which
\* calls it again, finds nothing to stop.
JoinCatchb ==
    /\ main = "join" /\ catchb.at = "done"
    /\ main' = "destroy"
    /\ UNCHANGED <<catchb, workerVars, captureVars>>

\* FTM_CATCHB_destroy frees one part after the other; FTM_LOGGER_destroy, the
\* last, stops a logger that runs.  The other parts have been stopped before.
Destroy ==
    /\ main = "destroy"
    /\ main' = IF bStop["logger"] THEN "destroyed" ELSE "joinLogger"
    /\ bStop' = [bStop EXCEPT !["logger"] = TRUE]
    /\ UNCHANGED <<catchb, thread, quit, handle, captureVars>>

JoinLogger ==
    /\ main = "joinLogger" /\ thread["logger"] = "ended"
    /\ main' = "destroyed"
    /\ handle' = handle \ {"logger"}
    /\ UNCHANGED <<catchb, thread, bStop, quit, captureVars>>

-----------------------------------------------------------------------------
(* catchb's thread (FTM_CATCHB_process).                                   *)

\* The next of the FTM_*_start; the analyzer's creates two threads, and the
\* timer's clears the flag before there is a thread.
StartNext ==
    /\ catchb.at = "start"
    /\ LET t == StartOrder[catchb.step] IN
       /\ thread' = [thread EXCEPT ![t] = "created"]
       /\ handle' = handle \cup {t}
       /\ capture' = IF t = "analyzer" THEN "created" ELSE capture
       /\ bStop' = IF t = "timer" THEN [bStop EXCEPT ![t] = FALSE] ELSE bStop
    /\ catchb' = IF catchb.step = 6 THEN [at |-> "begin", step |-> 1]
                 ELSE [catchb EXCEPT !.step = catchb.step + 1]
    /\ UNCHANGED <<main, quit, key, owed>>

\* bStop = FALSE, which undoes a signal that came before.
BeginLoop ==
    /\ catchb.at = "begin"
    /\ bStop' = [bStop EXCEPT !["catchb"] = FALSE]
    /\ catchb' = [catchb EXCEPT !.at = "loop"]
    /\ UNCHANGED <<main, thread, quit, handle, captureVars>>

EndLoop ==
    /\ catchb.at = "loop" /\ bStop["catchb"]
    /\ catchb' = [at |-> "stop", step |-> 1]
    /\ UNCHANGED <<main, workerVars, captureVars>>

After(step) == IF step = 6 THEN [at |-> "done", step |-> 6]
               ELSE [at |-> "stop", step |-> step + 1]

\* Variant: every stop looks at the flag.
ToStopByFlag(t) == ~bStop[t]

\* The server's and the logger's stop look at the flag, the others at the
\* thread's handle.
ToStop(t) == IF t \in {"server", "logger"} THEN ~bStop[t] ELSE t \in handle

\* Variant: nobody is sent a QUIT.
QuitForNone == {}

\* The detector's QUIT is commented out; the others never had one.
QuitFor == {"analyzer", "notifier"}

\* The next of the FTM_*_stop tells its thread to end, or has nothing to do.
StopNext ==
    /\ catchb.at = "stop"
    /\ LET t == StopOrder[catchb.step] IN
       IF ToStop(t)
       THEN /\ quit' = quit \cup ({t} \cap QuitFor)
            /\ bStop' = [bStop EXCEPT ![t] = TRUE]
            /\ catchb' = [catchb EXCEPT !.at = "join"]
       ELSE /\ catchb' = After(catchb.step)
            /\ UNCHANGED <<quit, bStop>>
    /\ UNCHANGED <<main, thread, handle, captureVars>>

\* ... and joins it.
JoinWorker ==
    /\ catchb.at = "join"
    /\ LET t == StopOrder[catchb.step] IN
       /\ thread[t] = "ended"
       /\ handle' = handle \ {t}
    /\ catchb' = After(catchb.step)
    /\ UNCHANGED <<main, thread, bStop, quit, captureVars>>

-----------------------------------------------------------------------------
(* The workers' threads.                                                   *)

Clearing == {"logger", "analyzer", "detector", "notifier"}

\* A thread begins to run: these four clear their flag.
Begin(t) ==
    /\ thread[t] = "created"
    /\ thread' = [thread EXCEPT ![t] = "check"]
    /\ bStop' = [bStop EXCEPT ![t] = @ /\ t \notin Clearing]
    /\ UNCHANGED <<main, catchb, quit, handle, captureVars>>

\* while (!bStop)
Check(t) ==
    /\ thread[t] = "check"
    /\ thread' = [thread EXCEPT ![t] = IF bStop[t] THEN "ended" ELSE "work"]
    /\ UNCHANGED <<main, catchb, bStop, quit, handle, captureVars>>

\* One turn of a loop: a QUIT is taken out of the queue, if there is one.
Work(t) ==
    /\ thread[t] = "work"
    /\ bStop' = [bStop EXCEPT ![t] = @ \/ t \in quit]
    /\ quit' = quit \ {t}
    /\ thread' = [thread EXCEPT ![t] = IF t = "analyzer" THEN "process" ELSE "check"]
    /\ UNCHANGED <<main, catchb, handle, captureVars>>

\* FTM_ANALYZER_process: no camera is due ...
NoProbe ==
    /\ thread["analyzer"] = "process"
    /\ thread' = [thread EXCEPT !["analyzer"] = "check"]
    /\ UNCHANGED <<main, catchb, bStop, quit, handle, captureVars>>

\* ... or one is, and the capture is started ...
ProbeBegin ==
    /\ thread["analyzer"] = "process"
    /\ key < MaxKey
    /\ thread' = [thread EXCEPT !["analyzer"] = "probe"]
    /\ key' = key + 1 /\ owed' = owed + 1
    /\ UNCHANGED <<main, catchb, bStop, quit, handle, capture>>

\* ... and stopped: whether it has begun or not, the probe does not wait.
ProbeEnd ==
    /\ thread["analyzer"] = "probe"
    /\ thread' = [thread EXCEPT !["analyzer"] = "check"]
    /\ UNCHANGED <<main, catchb, bStop, quit, handle, captureVars>>

-----------------------------------------------------------------------------
(* The capture thread (FTM_ANALYZER_threadPCAP).                           *)

\* The network interface cannot be opened.
CaptureFails ==
    /\ capture = "created"
    /\ capture' = "ended"
    /\ UNCHANGED <<main, catchb, workerVars, key, owed>>

CaptureBegin ==
    /\ capture = "created"
    /\ capture' = "first"
    /\ bStop' = [bStop EXCEPT !["analyzer"] = FALSE]
    /\ UNCHANGED <<main, catchb, thread, quit, handle, key, owed>>

\* Variant: the semaphore is taken in the loop only.
FirstKeyNot ==
    /\ capture = "first"
    /\ capture' = "check"
    /\ UNCHANGED <<main, catchb, workerVars, key, owed>>

\* The one unit the semaphore has at first is taken away.
FirstKey ==
    /\ capture = "first" /\ key > 0
    /\ key' = key - 1
    /\ capture' = "check"
    /\ UNCHANGED <<main, catchb, workerVars, owed>>

CaptureCheck ==
    /\ capture = "check"
    /\ capture' = IF bStop["analyzer"] THEN "close" ELSE "wait"
    /\ UNCHANGED <<main, catchb, workerVars, key, owed>>

\* A probe has posted; unless a stop has come, packets are captured.
CaptureStart ==
    /\ capture = "wait" /\ key > 0
    /\ key' = key - 1
    /\ IF bStop["analyzer"] THEN capture' = "close" /\ UNCHANGED owed
       ELSE capture' = "capturing" /\ owed' = owed - 1
    /\ UNCHANGED <<main, catchb, workerVars>>

\* FTM_PCAP_start returns: broken off, or with the packets it asked for.
CaptureEnd ==
    /\ capture = "capturing"
    /\ capture' = "check"
    /\ UNCHANGED <<main, catchb, workerVars, key, owed>>

CaptureClose ==
    /\ capture = "close"
    /\ key' = key + 1
    /\ capture' = "ended"
    /\ UNCHANGED <<main, catchb, workerVars, owed>>

-----------------------------------------------------------------------------
MainStep == JoinCatchb \/ Destroy \/ JoinLogger
CatchbStep == StartNext \/ BeginLoop \/ EndLoop \/ StopNext \/ JoinWorker
WorkerStep(t) == Begin(t) \/ Check(t) \/ Work(t)
AnalyzerStep == NoProbe \/ ProbeBegin \/ ProbeEnd
CaptureStep ==
    \/ CaptureFails \/ CaptureBegin \/ FirstKey \/ CaptureCheck
    \/ CaptureStart \/ CaptureEnd \/ CaptureClose

Next ==
    \/ Signal \/ MainStep
    \/ CatchbStep
    \/ \E t \in Workers : WorkerStep(t)
    \/ AnalyzerStep
    \/ CaptureStep

Spec == Init /\ [][Next]_vars

\* Threads run, probes end; captures may take for ever, signals need not come.
FairSpec ==
    /\ Spec
    /\ WF_vars(MainStep)
    /\ WF_vars(CatchbStep)
    /\ \A t \in Workers : WF_vars(WorkerStep(t))
    /\ WF_vars(AnalyzerStep)

-----------------------------------------------------------------------------
(* Properties.                                                             *)

\* Every variable has its type.
TypeOK ==
    /\ main \in {"run", "join", "destroy", "joinLogger", "destroyed"}
    /\ catchb \in [at : {"start", "begin", "loop", "stop", "join", "done"}, step : 1..6]
    /\ thread \in [Workers -> {"none", "created", "check", "work", "process", "probe", "ended"}]
    /\ bStop \in [Workers \cup {"catchb"} -> BOOLEAN]
    /\ quit \subseteq Workers /\ handle \subseteq Workers
    /\ capture \in {"none", "created", "first", "check", "wait", "capturing", "close", "ended"}
    /\ key \in Nat
    /\ owed \in Int

\* When FTM_CATCHB_destroy frees what the threads work on, catchb and every
\* worker have ended, wherever the start or the stop was when the signal came.
\* Two are excepted, because the code does so: the capture thread, which
\* nobody joins, and a logger that was to stop before it had begun to run and
\* is therefore still to be joined.
DestroyedAfterJoin ==
    main \in {"destroy", "joinLogger", "destroyed"} =>
       /\ catchb.at = "done"
       /\ \A t \in Workers \ {"logger"} : thread[t] = "ended"
       /\ thread["logger"] = "ended" \/ "logger" \in handle

\* Every capture belongs to a probe of its own: the analyzer's semaphore never
\* lets the capture thread get ahead of the probes (FTM_ANALYZER_threadPCAP).
CaptureOnlyWhenProbed == owed >= 0

\* Catchb is in its loop, and the two whose late beginning would undo a stop
\* that nothing repeats have begun.
Settled ==
    /\ catchb.at = "loop"
    /\ thread["detector"] # "created"
    /\ capture # "created"

\* A signal that finds catchb in its loop ends the program, once the detector
\* and the capture thread have begun to run: the other threads may still be
\* about to begin, and undo their stop, but have a QUIT to come back to
\* (FTM_ANALYZER_stop, FTM_NOTIFIER_stop) or are joined without being told.
StopEnds == main = "join" /\ bStop["catchb"] /\ Settled ~> main = "destroyed"
=============================================================================
