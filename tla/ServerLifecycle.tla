-------------------------- MODULE ServerLifecycle --------------------------
(***************************************************************************)
(* main() from the PID file to std::exit, in several processes that share  *)
(* the PID file (SingletonManager), and inside each one: the HTTP server   *)
(* with its handlers (HttpServerManager), the shutdown request and the     *)
(* signals (ShutdownManager), the components that are stopped one after    *)
(* the other, and the database they use until it is closed.                *)
(*                                                                         *)
(* A process is one of Procs for as long as it lives; starting it again    *)
(* gives the same process id to a new process, as happens when ids are     *)
(* reused.                                                                 *)
(***************************************************************************)
EXTENDS Integers, Sequences

CONSTANTS
  Procs,        \* process ids
  NoProc,       \* no process
  StopOrder,    \* the components whose threads use the database, as main()
                \* stops them: linker, transcoder, scheduler, loop
  MaxStarts,    \* bound: how many processes are started
  MaxIncidents  \* bound: how many requests change the server's address and
                \* threads hang, together

Last == Len(StopOrder)

ASSUME LifecycleAssumption ==
  /\ NoProc \notin Procs
  /\ Last \in Nat \ {0}
  /\ StopOrder \in [1 .. Last -> {"linker", "transcoder", "scheduler", "loop"}]
  /\ MaxStarts \in Nat /\ MaxIncidents \in Nat

(* Threads that use the database; the startup scan is detached and nobody
   stops it. *)
Workers == {StopOrder[k] : k \in 1 .. Last}
Users == Workers \cup {"scan"}

VARIABLES
  pidFile,    \* dedup_server.pid: who created it and the id it holds
  proc,       \* the processes
  starts,     \* processes started
  incidents,  \* requests that changed the address, threads that hung
  robbed      \* the file of a living server was removed: history

vars == <<pidFile, proc, starts, incidents, robbed>>

-----------------------------------------------------------------------------
NoFile == [by |-> NoProc, pid |-> NoProc]

Dead ==
  [pc |-> "dead", force |-> FALSE, target |-> NoProc, stage |-> 0,
   http |-> "off", serving |-> FALSE, handler |-> "none", observers |-> "free",
   threads |-> {}, stopped |-> {}, hung |-> {},
   requested |-> FALSE, dying |-> FALSE, db |-> FALSE]

(* pc: where main() is.  stage: which of StopOrder it stops.  http: the
   thread in httplib's listen.  serving: running_.  observers: who holds
   observers_mutex_.  hung: who waits for cache_size_mutex_ for ever, the
   transcoding thread or a handler. *)
Processes ==
  [pc : {"dead", "check", "unlink", "recheck", "aim", "wait", "create", "write", "reopen",
         "boot", "up", "joinHttp", "stop", "join", "database", "cleanup"},
   force : BOOLEAN, target : Procs \cup {NoProc}, stage : 0 .. Last,
   http : {"off", "on", "draining"}, serving : BOOLEAN,
   handler : {"none", "setter", "joining"}, observers : {"free", "handler"},
   threads : SUBSET Users, stopped : SUBSET Workers, hung : SUBSET {"transcoder", "handler"},
   requested : BOOLEAN, dying : BOOLEAN, db : BOOLEAN]

TypeOK ==
  /\ pidFile \in [by : Procs \cup {NoProc}, pid : Procs \cup {NoProc}]
  /\ proc \in [Procs -> Processes]
  /\ starts \in 0 .. MaxStarts
  /\ incidents \in 0 .. MaxIncidents
  /\ robbed \in BOOLEAN

Init ==
  /\ pidFile = NoFile
  /\ proc = [i \in Procs |-> Dead]
  /\ starts = 0
  /\ incidents = 0
  /\ robbed = FALSE

Alive(i) == proc[i].pc # "dead"

(* The process has created the file and not given it up. *)
HasFile(i) ==
  proc[i].pc \notin {"dead", "check", "unlink", "recheck", "aim", "wait", "create"}

(* The process is a server: it has its file and goes to work on the database. *)
Server(i) == HasFile(i) /\ proc[i].pc \notin {"write", "reopen"}

Go(i, r) == proc' = [proc EXCEPT ![i] = r]

-----------------------------------------------------------------------------
(* The PID file *)

Start(i) ==
  /\ ~Alive(i)
  /\ starts < MaxStarts
  /\ starts' = starts + 1
  /\ \E force \in BOOLEAN : Go(i, [Dead EXCEPT !.pc = "check", !.force = force])
  /\ UNCHANGED <<pidFile, incidents, robbed>>

(* file >> pid.  From a file that was created and not yet written nothing is
   extracted, and the variable, never initialised, keeps any value at all. *)
Readings == IF pidFile.pid = NoProc THEN Procs \cup {NoProc} ELSE {pidFile.pid}

(* isAnotherInstanceRunning.  An id that is none, or of a process that is
   gone, makes the file stale; the own id counts as nobody's. *)
Stale(id) == id = NoProc \/ ~Alive(id)

(* main looks first; with --shutdown, shutdownExistingInstance looks again. *)
Look(i) ==
  /\ proc[i].pc \in {"check", "recheck"}
  /\ IF pidFile = NoFile
       THEN Go(i, [proc[i] EXCEPT !.pc = "create"])
       ELSE \E id \in Readings :
              Go(i, CASE Stale(id) -> [proc[i] EXCEPT !.pc = "unlink"]
                      [] id = i -> [proc[i] EXCEPT !.pc = "create"]
                      [] ~Stale(id) /\ id # i /\ proc[i].pc = "recheck" ->
                           [proc[i] EXCEPT !.pc = "aim"]
                      [] ~Stale(id) /\ id # i /\ proc[i].pc = "check" ->
                           IF proc[i].force THEN [proc[i] EXCEPT !.pc = "recheck"] ELSE Dead)
  /\ UNCHANGED <<pidFile, starts, incidents, robbed>>

(* By now the name may stand for another file than the one that was read. *)
Unlink(i) ==
  /\ proc[i].pc = "unlink"
  /\ robbed' = (robbed \/ \E j \in Procs : pidFile.by = j /\ HasFile(j))
  /\ pidFile' = NoFile
  /\ Go(i, [proc[i] EXCEPT !.pc = "create"])
  /\ UNCHANGED <<starts, incidents>>

(* A signal sets a flag, and the watcher thread calls requestShutdown, which
   exits at once: the PID file stays.  Once a shutdown has been requested
   the watcher is gone and nobody looks at the flag. *)
Terminated(r) ==
  IF r.requested THEN r ELSE [r EXCEPT !.requested = TRUE, !.dying = TRUE]

Terminate(i) ==
  /\ Alive(i)
  /\ Go(i, Terminated(proc[i]))
  /\ UNCHANGED <<pidFile, starts, incidents, robbed>>

(* getPidFromFile and SIGTERM. *)
Aim(i) ==
  /\ proc[i].pc = "aim"
  /\ \E id \in IF pidFile = NoFile THEN {NoProc} ELSE Readings :
       IF Stale(id)
         THEN Go(i, [proc[i] EXCEPT !.pc = "unlink"])
         ELSE LET p == [proc EXCEPT ![i].pc = "wait", ![i].target = id]
              IN proc' = [p EXCEPT ![id] = Terminated(@)]
  /\ UNCHANGED <<pidFile, starts, incidents, robbed>>

(* Two seconds later SIGKILL, if the process is still there. *)
Wait(i) ==
  /\ proc[i].pc = "wait"
  /\ proc' = [proc EXCEPT ![i] = [@ EXCEPT !.pc = "create", !.target = NoProc],
                          ![proc[i].target] = Dead]
  /\ UNCHANGED <<pidFile, starts, incidents, robbed>>

(* Fault: opened without O_EXCL. *)
FaultyCreate(i) ==
  /\ proc[i].pc = "create"
  /\ pidFile' = [by |-> i, pid |-> NoProc]
  /\ Go(i, [proc[i] EXCEPT !.pc = "write"])
  /\ UNCHANGED <<starts, incidents, robbed>>

(* O_EXCL: with any file of that name the process gives up, also with the
   one that the instance it has just ended left behind. *)
Create(i) ==
  /\ proc[i].pc = "create"
  /\ IF pidFile = NoFile
       THEN /\ pidFile' = [by |-> i, pid |-> NoProc]
            /\ Go(i, [proc[i] EXCEPT !.pc = "write"])
       ELSE Go(i, Dead) /\ UNCHANGED pidFile
  /\ UNCHANGED <<starts, incidents, robbed>>

(* The descriptor still refers to the file that was created. *)
Write(i) ==
  /\ proc[i].pc = "write"
  /\ pidFile' = IF pidFile.by = i THEN [pidFile EXCEPT !.pid = i] ELSE pidFile
  /\ Go(i, [proc[i] EXCEPT !.pc = "reopen"])
  /\ UNCHANGED <<starts, incidents, robbed>>

(* Opened again by name, to append, and created if it is not there. *)
Reopen(i) ==
  /\ proc[i].pc = "reopen"
  /\ pidFile' = IF pidFile = NoFile THEN [by |-> i, pid |-> NoProc] ELSE pidFile
  /\ Go(i, [proc[i] EXCEPT !.pc = "boot"])
  /\ UNCHANGED <<starts, incidents, robbed>>

-----------------------------------------------------------------------------
(* The server at work *)

(* The components, the detached scan and the HTTP server; listen may fail,
   and main() waits all the same. *)
Boot(i) ==
  /\ proc[i].pc = "boot"
  /\ \E listening \in BOOLEAN :
       Go(i, [proc[i] EXCEPT !.pc = "up", !.threads = Users, !.db = TRUE,
                             !.serving = listening,
                             !.http = IF listening THEN "on" ELSE "off"])
  /\ UNCHANGED <<pidFile, starts, incidents, robbed>>

(* POST /api/shutdown *)
RequestShutdown(i) ==
  /\ proc[i].http = "on" /\ ~proc[i].requested
  /\ Go(i, [proc[i] EXCEPT !.requested = TRUE])
  /\ UNCHANGED <<pidFile, starts, incidents, robbed>>

(* PUT /config/server *)
SetAddress(i) ==
  /\ proc[i].http = "on" /\ proc[i].handler = "none"
  /\ incidents < MaxIncidents
  /\ incidents' = incidents + 1
  /\ Go(i, [proc[i] EXCEPT !.handler = "setter"])
  /\ UNCHANGED <<pidFile, starts, robbed>>

(* publishEvent calls HttpServerManager::onConfigUpdate under
   observers_mutex_, on the handler's thread.  A server that runs is stopped
   and its thread joined, which waits for the handlers: for this one too. *)
Publish(i) ==
  /\ proc[i].handler = "setter" /\ proc[i].observers = "free"
  /\ Go(i, IF proc[i].serving
             THEN [proc[i] EXCEPT !.handler = "joining", !.observers = "handler",
                                  !.http = "draining"]
             ELSE [proc[i] EXCEPT !.handler = "none"])
  /\ UNCHANGED <<pidFile, starts, incidents, robbed>>

(* A cleanup of the cache takes cache_size_mutex_ twice: the handler of POST
   /api/cache/cleanup never returns, nor does a handler that asks for the
   size of the cache after that. *)
HandlerHangs(i) ==
  /\ proc[i].http = "on"
  /\ incidents < MaxIncidents
  /\ incidents' = incidents + 1
  /\ Go(i, [proc[i] EXCEPT !.hung = @ \cup {"handler"}])
  /\ UNCHANGED <<pidFile, starts, robbed>>

(* The transcoding thread cleans up when the cache is over its limit, and
   asks for its size before every file. *)
TranscoderHangs(i) ==
  /\ "transcoder" \in proc[i].threads
  /\ incidents < MaxIncidents
  /\ incidents' = incidents + 1
  /\ Go(i, [proc[i] EXCEPT !.hung = @ \cup {"transcoder"}])
  /\ UNCHANGED <<pidFile, starts, robbed>>

(* listen returns when it was stopped and its handlers have returned. *)
ListenReturns(i) ==
  /\ proc[i].http = "draining" /\ proc[i].handler = "none" /\ "handler" \notin proc[i].hung
  /\ Go(i, [proc[i] EXCEPT !.http = "off"])
  /\ UNCHANGED <<pidFile, starts, incidents, robbed>>

(* The scan ends by itself, the transcoding thread when it is stopped and
   does not hang, the other loops also when they see that a shutdown was
   requested. *)
UserEnds(i, u) ==
  /\ u \in proc[i].threads \ proc[i].hung
  /\ \/ u \in proc[i].stopped \cup {"scan"}
     \/ u # "transcoder" /\ proc[i].requested
  /\ Go(i, [proc[i] EXCEPT !.threads = @ \ {u}])
  /\ UNCHANGED <<pidFile, starts, incidents, robbed>>

-----------------------------------------------------------------------------
(* Shutdown *)

(* Fault: the thread is joined without a word to the server. *)
FaultyStopHttp(i) ==
  /\ proc[i].pc = "up" /\ proc[i].requested
  /\ Go(i, [proc[i] EXCEPT !.pc = "joinHttp", !.serving = FALSE])
  /\ UNCHANGED <<pidFile, starts, incidents, robbed>>

(* HttpServerManager::stop *)
StopHttp(i) ==
  /\ proc[i].pc = "up" /\ proc[i].requested
  /\ Go(i, [proc[i] EXCEPT !.pc = "joinHttp", !.serving = FALSE,
                           !.http = IF @ = "on" THEN "draining" ELSE @])
  /\ UNCHANGED <<pidFile, starts, incidents, robbed>>

HttpJoined(i) ==
  /\ proc[i].pc = "joinHttp" /\ proc[i].http = "off"
  /\ Go(i, [proc[i] EXCEPT !.pc = "stop", !.stage = 1])
  /\ UNCHANGED <<pidFile, starts, incidents, robbed>>

Stopping(i) == StopOrder[proc[i].stage]

(* TranscodingManager unsubscribes first, under observers_mutex_. *)
StopWorker(i) ==
  /\ proc[i].pc = "stop"
  /\ Stopping(i) = "transcoder" => proc[i].observers = "free"
  /\ Go(i, [proc[i] EXCEPT !.pc = "join", !.stopped = @ \cup {Stopping(i)}])
  /\ UNCHANGED <<pidFile, starts, incidents, robbed>>

(* Fault: one component too many. *)
FaultyWorkerJoinedOverrun(i) ==
  /\ proc[i].pc = "join" /\ Stopping(i) \notin proc[i].threads
  /\ Go(i, IF proc[i].stage > Last THEN [proc[i] EXCEPT !.pc = "database", !.stage = 0]
                                   ELSE [proc[i] EXCEPT !.pc = "stop", !.stage = @ + 1])
  /\ UNCHANGED <<pidFile, starts, incidents, robbed>>

(* Fault: the database goes before the processing loop. *)
FaultyWorkerJoined(i) ==
  /\ proc[i].pc = "join" /\ Stopping(i) \notin proc[i].threads
  /\ Go(i, IF proc[i].stage >= Last - 1 THEN [proc[i] EXCEPT !.pc = "database", !.stage = 0]
                                 ELSE [proc[i] EXCEPT !.pc = "stop", !.stage = @ + 1])
  /\ UNCHANGED <<pidFile, starts, incidents, robbed>>

WorkerJoined(i) ==
  /\ proc[i].pc = "join" /\ Stopping(i) \notin proc[i].threads
  /\ Go(i, IF proc[i].stage = Last THEN [proc[i] EXCEPT !.pc = "database", !.stage = 0]
                                ELSE [proc[i] EXCEPT !.pc = "stop", !.stage = @ + 1])
  /\ UNCHANGED <<pidFile, starts, incidents, robbed>>

CloseDatabase(i) ==
  /\ proc[i].pc = "database"
  /\ Go(i, [proc[i] EXCEPT !.pc = "cleanup", !.db = FALSE])
  /\ UNCHANGED <<pidFile, starts, incidents, robbed>>

(* SingletonManager::cleanup removes the file of that name, then std::exit. *)
Cleanup(i) ==
  /\ proc[i].pc = "cleanup"
  /\ robbed' = (robbed \/ \E j \in Procs \ {i} : pidFile.by = j /\ HasFile(j))
  /\ pidFile' = NoFile
  /\ Go(i, Dead)
  /\ UNCHANGED <<starts, incidents>>

(* std::exit on the watcher's thread, while main() goes on.  The destructor
   of HttpServerManager waits for the HTTP thread as stop does, unless stop
   has begun; threads that still run do not keep the process. *)
Exit(i) ==
  /\ proc[i].dying
  /\ proc[i].serving => proc[i].handler # "joining" /\ "handler" \notin proc[i].hung
  /\ Go(i, Dead)
  /\ UNCHANGED <<pidFile, starts, incidents, robbed>>

(* SIGKILL, a fault, the machine stops. *)
Crash(i) ==
  /\ Alive(i)
  /\ Go(i, Dead)
  /\ UNCHANGED <<pidFile, starts, incidents, robbed>>

-----------------------------------------------------------------------------
Settle(i) == Look(i) \/ Unlink(i) \/ Aim(i) \/ Wait(i) \/ Create(i) \/ Write(i) \/ Reopen(i)

Threads(i) == Publish(i) \/ ListenReturns(i) \/ \E u \in Users : UserEnds(i, u)

Shutdown(i) ==
  \/ StopHttp(i) \/ HttpJoined(i) \/ StopWorker(i) \/ WorkerJoined(i)
  \/ CloseDatabase(i) \/ Cleanup(i)

Next ==
  \E i \in Procs :
    \/ Start(i) \/ Settle(i) \/ Boot(i)
    \/ Terminate(i) \/ Exit(i) \/ Crash(i)
    \/ RequestShutdown(i) \/ SetAddress(i)
    \/ HandlerHangs(i) \/ TranscoderHangs(i)
    \/ Threads(i) \/ Shutdown(i)

Spec == Init /\ [][Next]_vars

(* Threads that can go on do; one that hangs cannot.  A thread ends once, so
   that each user of the database that may end does. *)
FairSpec ==
  /\ Spec
  /\ \A i \in Procs : WF_vars(Threads(i)) /\ WF_vars(Settle(i) \/ Boot(i) \/ Shutdown(i))

-----------------------------------------------------------------------------
(* Properties *)

(* At most one process is the server, unless the file of a living one was
   removed: by a start that took it for stale before it was written or that
   had read an older one, or at the end of a server that had lost its own. *)
OneServer == \A i, j \in Procs : Server(i) /\ Server(j) => i = j \/ robbed

(* When the database is closed nobody uses it any more but the detached
   startup scan, which nobody waits for. *)
UsersGone ==
  \A i \in Procs : proc[i].pc = "cleanup" =>
    /\ proc[i].threads \subseteq {"scan"}
    /\ proc[i].http = "off"

(* A shutdown that was requested ends the process, unless a request to
   change the address has got as far as waiting for its own server, or the
   transcoding thread or a handler waits for ever for cache_size_mutex_. *)
ShutdownCompletes ==
  \A i \in Procs :
    proc[i].requested ~> ~Alive(i) \/ proc[i].handler = "joining" \/ proc[i].hung # {}
=============================================================================
