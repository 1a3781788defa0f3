-------------------------------- MODULE Startup -------------------------------
(***************************************************************************)
(* main (main.cpp) from the program's arguments to the accept loop: what   *)
(* is refused and how the user learns of it, the fork of daemon(), the     *)
(* settings that the threads read later without a lock, and the order in   *)
(* which all of this happens.                                              *)
(*                                                                         *)
(* The port is parsed by PortNumber's steps and mime.txt is read by        *)
(* MimeTable's; the pool is ThreadPool, the log AsyncLogger and the accept *)
(* loop Server: here each of these is its outcome.                         *)
(***************************************************************************)
EXTENDS PortNumber, MimeTable

CONSTANTS
  Inputs,       \* bound: the pairs of a port's text and a file that are tried
  PoolSize,     \* 32 in the program
  MaxRequests,  \* bound: how many requests ever arrive
  MaxTraces     \* bound: how many lines of stack traces (64 of each in the program)

ASSUME StartupAssumption ==
  Inputs \subseteq Params \X Files /\ PoolSize \in Nat \ {0}
  /\ MaxRequests \in Nat /\ MaxTraces \in Nat

Settings == {"ip", "port", "root_path"}

(* Level: its order is that of the enumeration. *)
Rank == [debug |-> 0, warn |-> 1, info |-> 2, error |-> 3, fatal |-> 4]

(* What is logged: "server starts", a request, a byte order mark, the      *)
(* exception that terminates the program, and a line of its stack trace,   *)
(* which has no level.                                                     *)
LevelOf == [starts |-> "info", request |-> "info", bom |-> "warn", report |-> "error"]
Messages == DOMAIN LevelOf \cup {"trace"}

(* The threads: main and the pool's *)
main == 0
Workers == 1..PoolSize
Threads == {main} \cup Workers

VARIABLES
  argc,       \* is their number right?
  step,       \* where main is
  shell,      \* the user's: the status of the command, and whether a message came
  process,    \* the process main is in: which one, and what a fork hands on
  set,        \* what is set once: Logger::level, the terminate handler, the
              \* fields of GlobalConfig, Server's callback
  logThread,  \* the process in which the Logger's thread is, or "none"
  stream,     \* the directory in which hfs.log is open, or "closed"
  queue,      \* the LogQueue
  file,       \* the messages that have reached hfs.log
  logged,     \* history: what the code has logged
  pushed,     \* history: what of it has entered the queue
  threads,    \* number of workers started
  serving,    \* the workers that handle a request
  arrived,    \* number of requests so far
  handler,    \* per thread: how far it is in the terminate handler, or "none"
  traces,     \* number of lines of stack traces so far
  death       \* how that process has ended, or "none"

log == <<logThread, stream, queue, file, logged, pushed>>
work == <<threads, serving, arrived, handler, traces>>
inputs == <<argc, portVars, mimeVars>>
vars == <<inputs, step, shell, process, set, log, work, death>>

Init ==
  /\ \E in \in Inputs : param = in[1] /\ lines = in[2]
  /\ PortInit /\ MimeInit
  /\ argc \in {"good", "bad"}
  /\ step = "args"
  /\ shell = [status |-> "none", told |-> FALSE]
  /\ process = [id |-> "parent", stderr |-> "terminal", cwd |-> "launch", sigpipe |-> "default"]
  /\ set = [level |-> "info", terminate |-> "default", config |-> {}, callback |-> "none"]
  /\ logThread = "none" /\ stream = "closed" /\ queue = <<>>
  /\ file = {} /\ logged = {} /\ pushed = {}
  /\ threads = 0 /\ serving = {} /\ arrived = 0
  /\ handler = [t \in Threads |-> "none"] /\ traces = 0
  /\ death = "none"

(* main is at a place, and neither an exception has stopped it there nor   *)
(* anything ended its process; it goes on.                                 *)
At(place) == step = place /\ handler[main] = "none" /\ death = "none"
Go(from, to) == At(from) /\ step' = to /\ UNCHANGED <<inputs, work, death>>

-------------------------------------------------------------------------------
(* fprintf(stderr, ...) and return -1: the shell waits for the parent. *)
Return ==
  /\ death' = "returned"
  /\ shell' = [status |-> IF process.id = "parent" THEN "failure" ELSE shell.status,
               told |-> shell.told \/ process.stderr = "terminal"]
  /\ UNCHANGED <<inputs, step, process, set, log, work>>

Refuse ==
  /\ \/ At("args") /\ argc = "bad"
     \/ At("port") /\ outcome = "refused"
     \/ At("mime") /\ pc = "refused"
  /\ Return

(* signal fails, or daemon: to fork, or in the child to leave the session  *)
(* and to open /dev/null.                                                  *)
CallFails == (\E call \in {"signal", "daemon", "detach"} : At(call)) /\ Return

CheckArguments == argc = "good" /\ Go("args", "port") /\ UNCHANGED <<shell, process, set, log>>

ParsePort ==
  /\ At("port") /\ ParseStep
  /\ step' = IF outcome' = "accepted" THEN "mime" ELSE "port"
  /\ UNCHANGED <<argc, mimeVars, shell, process, set, log, work, death>>

(* Plausible bugs: the verdict is not looked at; the table is logged, with *)
(* debug_mime, which makes the Logger and its thread.                      *)
LoadMimeUnchecked ==
  /\ At("mime") /\ LoadStep
  /\ step' = IF pc' \in {"loaded", "refused"} THEN "signal" ELSE "mime"
  /\ UNCHANGED <<argc, portVars, shell, process, set, log, work, death>>

LoadMimeAndDebug ==
  /\ At("mime") /\ LoadStep
  /\ step' = IF pc' = "loaded" THEN "signal" ELSE "mime"
  /\ logThread' = IF pc' = "loaded" THEN process.id ELSE logThread
  /\ UNCHANGED <<argc, portVars, shell, process, set, stream, queue, file, logged, pushed, work, death>>

LoadMime ==
  /\ At("mime") /\ LoadStep
  /\ step' = IF pc' = "loaded" THEN "signal" ELSE "mime"
  /\ UNCHANGED <<argc, portVars, shell, process, set, log, work, death>>

IgnoreSigpipe ==
  /\ Go("signal", "daemon")
  /\ process' = [process EXCEPT !.sigpipe = "ignored"]
  /\ UNCHANGED <<shell, set, log>>

(* daemon(1, 0), of the C library.  The parent exits; of the threads only  *)
(* the one that called it exists in the child.                             *)
Fork ==
  /\ Go("daemon", "detach")
  /\ shell' = [shell EXCEPT !.status = "success"]
  /\ process' = [process EXCEPT !.id = "child"]
  /\ UNCHANGED <<set, log>>

(* nochdir is 1: the directory stays; noclose is 0: stderr goes nowhere. *)
Detach ==
  /\ Go("detach", "open_file")
  /\ process' = [process EXCEPT !.stderr = "null"]
  /\ UNCHANGED <<shell, set, log>>

-------------------------------------------------------------------------------
(* SIMPLE_LOG puts a line into the queue, LOG_... one of the level or above. *)
SimpleLog(m) ==
  /\ queue' = Append(queue, m)
  /\ pushed' = pushed \cup {m}
  /\ logged' = logged \cup {m}
  /\ UNCHANGED <<logThread, stream, file>>

check_log_level(m) == Rank[LevelOf[m]] >= Rank[set.level]

Log(m) ==
  IF check_log_level(m) THEN SimpleLog(m)
  ELSE logged' = logged \cup {m} /\ UNCHANGED <<logThread, stream, queue, file, pushed>>

(* An exception that nobody catches stops the thread it was thrown in, and *)
(* only that one, as long as the handler of main is at work; without that  *)
(* handler the program is aborted at once.                                 *)
Terminate(t) ==
  /\ handler[t] = "none"
  /\ IF set.terminate = "logging"
     THEN handler' = [handler EXCEPT ![t] = "entered"] /\ death' = death
     ELSE handler' = handler /\ death' = "aborted"
  /\ UNCHANGED <<inputs, step, shell, process, set, log, threads, traces>>

(* global_terminate_handler: the report, then log_stacktrace, which may be *)
(* without memory for a single line, then abort (AsyncLogger shows what of *)
(* the log is lost).  The log thread, main and the other workers go on.    *)
Report(t) ==
  /\ death = "none" /\ handler[t] = "entered"
  /\ Log("report")
  /\ handler' = [handler EXCEPT ![t] = "reported"]
  /\ UNCHANGED <<inputs, step, shell, process, set, threads, serving, arrived, traces, death>>

TraceLine(t) ==
  /\ death = "none" /\ handler[t] = "reported" /\ traces < MaxTraces
  /\ SimpleLog("trace")
  /\ traces' = traces + 1
  /\ UNCHANGED <<inputs, step, shell, process, set, threads, serving, arrived, handler, death>>

Abort(t) ==
  /\ death = "none" /\ handler[t] = "reported"
  /\ death' = "aborted"
  /\ UNCHANGED <<inputs, step, shell, process, set, log, work>>

(* Logger(), with its thread, and open_file, whose success is not looked at. *)
OpenFile ==
  /\ Go("open_file", "set_level")
  /\ logThread' = IF logThread = "none" THEN process.id ELSE logThread
  /\ stream' \in {process.cwd, "closed"}
  /\ UNCHANGED <<shell, process, set, queue, file, logged, pushed>>

Set(field, value) == set' = [set EXCEPT ![field] = value] /\ UNCHANGED <<shell, process, log>>

SetLevel == Go("set_level", "set_terminate") /\ Set("level", "debug")

(* A plausible bug: the handler is not installed. *)
KeepTerminate == Go("set_terminate", "configure") /\ Set("terminate", "default")

SetTerminate == Go("set_terminate", "configure") /\ Set("terminate", "logging")

(* set_ip, set_port and set_root_path *)
Configure == Go("configure", "pool") /\ Set("config", Settings)

(* Server(): the socket, the pool's threads one by one, ... *)
StartWorker ==
  /\ At("pool") /\ threads < PoolSize
  /\ threads' = threads + 1
  /\ UNCHANGED <<inputs, step, shell, process, set, log, serving, arrived, handler, traces, death>>

(* ... and a callback that answers "200" to whatever is asked. *)
ConstructServer ==
  threads = PoolSize /\ Go("pool", "callback") /\ Set("callback", "default")

(* A plausible bug: main sets its callback when start has returned. *)
CallbackAfterStart == Go("callback", "open") /\ Set("callback", set.callback)

SetCallback == Go("callback", "open") /\ Set("callback", "http_handler")

(* start: open, which logs that the server starts, and then the accept loop. *)
Open == Go("open", "accepting") /\ Log("starts") /\ UNCHANGED <<shell, process, set>>

(* Without memory, threads or descriptors, or with an address that is none *)
(* or in use, these throw; the accept loop does without memory for a task. *)
Throw ==
  /\ \E place \in {"open_file", "configure", "pool", "callback", "open", "accepting"} : At(place)
  /\ Terminate(main)
  /\ UNCHANGED <<serving, arrived>>

-------------------------------------------------------------------------------
(* A worker begins the task of a request that has been accepted:           *)
(* http_handler logs it.  (Accepted before, if main is in the handler.)    *)
InService == step = "accepting" /\ death = "none"
Idle(w) == w \in 1..threads /\ w \notin serving /\ handler[w] = "none"

Handle(w) ==
  /\ InService /\ Idle(w) /\ arrived < MaxRequests
  /\ arrived' = arrived + 1
  /\ serving' = serving \cup {w}
  /\ Log("request")
  /\ UNCHANGED <<inputs, step, shell, process, set, threads, handler, traces, death>>

(* The task ends, perhaps with a mark found in a file. *)
Answer(w) ==
  /\ InService /\ w \in serving
  /\ serving' = serving \ {w}
  /\ Log("bom") \/ UNCHANGED log
  /\ UNCHANGED <<inputs, step, shell, process, set, threads, arrived, handler, traces, death>>

(* send on a connection that the peer has closed *)
SendToClosed(w) ==
  /\ InService /\ w \in serving
  /\ IF process.sigpipe = "ignored"
     THEN serving' = serving \ {w} /\ death' = death
     ELSE serving' = serving /\ death' = "sigpipe"
  /\ UNCHANGED <<inputs, step, shell, process, set, log, threads, arrived, handler, traces>>

(* `new Connection` is outside of the task's try, and so is what its catch *)
(* clauses do, which log what they caught.                                 *)
WorkerThrows(w) ==
  /\ InService
  /\ \/ Idle(w) /\ arrived < MaxRequests /\ arrived' = arrived + 1
     \/ w \in serving /\ arrived' = arrived
  /\ serving' = serving \ {w}
  /\ Terminate(w)

(* The log thread, if it is in this process. *)
LogWrites ==
  /\ death = "none" /\ logThread = process.id /\ queue # <<>>
  /\ queue' = Tail(queue)
  /\ file' = IF stream = "closed" THEN file ELSE file \cup {Head(queue)}
  /\ UNCHANGED <<inputs, step, shell, process, set, logThread, stream, logged, pushed, work, death>>

Main ==
  \/ Refuse \/ CheckArguments \/ ParsePort \/ LoadMime \/ IgnoreSigpipe
  \/ Fork \/ Detach \/ OpenFile \/ SetLevel \/ SetTerminate \/ Configure
  \/ StartWorker \/ ConstructServer \/ SetCallback \/ Open

Next ==
  \/ Main \/ CallFails \/ Throw \/ LogWrites
  \/ \E w \in Workers : Handle(w) \/ Answer(w) \/ SendToClosed(w) \/ WorkerThrows(w)
  \/ \E t \in Threads : Report(t) \/ TraceLine(t) \/ Abort(t)

(* main and the log thread are scheduled; no call has to fail. *)
Spec == Init /\ [][Next]_vars /\ WF_vars(Main) /\ WF_vars(LogWrites)

-------------------------------------------------------------------------------
(* The user is told of what is refused: success means that the number of   *)
(* arguments, the port and the table of types were right and that the      *)
(* program has gone on with all of them; whatever returns -1, in the child *)
(* too, comes with a message (main.cpp:313-341).                           *)
RefusalIsTold ==
  /\ shell.status = "success" => argc = "good" /\ outcome = "accepted" /\ pc = "loaded"
  /\ shell.status = "failure" \/ death = "returned" => shell.told

(* The port and the table with which the program serves are those that the *)
(* argument and the file say (utils.cpp:28, global_config.cpp:9).          *)
ReadAsWritten == PortIsTheNumber /\ TableIsOfFile

(* The daemon's stderr goes nowhere, so whatever exception ends it, in     *)
(* main or in a worker, once there is a log: the handler has logged it     *)
(* before the program is aborted, at a level that is not dropped, and no   *)
(* line of a stack trace is in the file without a report before it.  That  *)
(* the report gets into the file is not promised: the abort does not wait  *)
(* for the log thread (main.cpp:347, global_terminator.cpp:30).            *)
CrashIsReported ==
  /\ death = "aborted" /\ step # "open_file" => "report" \in pushed
  /\ "trace" \in file => "report" \in file

(* A request is handled by main's handler with main's settings, which the  *)
(* workers read without a lock: they are complete before a connection can  *)
(* be accepted.  Paths mean what they meant to the user, since the daemon  *)
(* has stayed in the directory of the launch, and a peer that closes its   *)
(* connection does not end the program (main.cpp:334-355).                 *)
HandledAsConfigured ==
  /\ serving # {} =>
       /\ set.callback = "http_handler" /\ set.config = Settings
       /\ set.terminate = "logging" /\ process.cwd = "launch"
  /\ death # "sigpipe"

(* While the program lives, what it logs gets into the file, if that is    *)
(* open: no warning is below the level, and the log thread is at work in   *)
(* the process that logs, although daemon leaves every thread made before  *)
(* it behind (main.cpp:339-345, async_logger.h:54).                        *)
LogIsWritten ==
  \A m \in Messages : m \in logged /\ stream # "closed" ~> m \in file \/ death # "none"
===============================================================================
