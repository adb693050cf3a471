----------------------- MODULE ServerLifecycle_proofs -----------------------
(***************************************************************************)
(* Theorems about ServerLifecycle, for any number of processes, starts and *)
(* components and any order in which these are stopped.                    *)
(***************************************************************************)
EXTENDS ServerLifecycle, TLAPS

USE LifecycleAssumption

-----------------------------------------------------------------------------
(* The inductive invariant *)

Early == {"dead", "check", "unlink", "recheck", "aim", "wait", "create", "write", "reopen"}
Closing == {"stop", "join", "database", "cleanup"}

(* How far the shutdown of one process has got: no new requests are served
   once main() waits for the HTTP thread, that thread is gone while the
   components are stopped, and those stopped before the current one are
   gone as well. *)
InOrder(r) ==
  /\ r.pc \in {"stop", "join"} => r.stage >= 1
  /\ r.pc \in Closing \cup {"joinHttp"} => ~r.serving
  /\ r.pc \in Closing => r.http = "off"
  /\ r.pc \in {"stop", "join"} =>
       \A k \in 1 .. Last : k < r.stage => StopOrder[k] \notin r.threads
  /\ r.pc \in {"database", "cleanup"} => \A k \in 1 .. Last : StopOrder[k] \notin r.threads

Good(r) == r \in Processes /\ InOrder(r)

AllGood == proc \in [Procs -> Processes] /\ \A j \in Procs : InOrder(proc[j])

(* Whoever has created the file still has it, as long as nobody has removed
   the file of a living server. *)
OwnFile == \A j \in Procs : HasFile(j) => robbed \/ pidFile.by = j

LifecycleInv == TypeOK /\ AllGood /\ OwnFile

-----------------------------------------------------------------------------
(* Lemmas about one process *)

LEMMA FirstAndLast == 0 \in 0 .. Last /\ 1 \in 0 .. Last /\ Last \in Int
OBVIOUS

LEMMA DeadIsGood == Good(Dead)
BY DEF Good, Dead, Processes, InOrder, Closing, Users, Workers

(* Before the file is written the shutdown has no order to keep. *)
LEMMA EarlyIsGood ==
  ASSUME NEW r \in Processes, NEW p \in Early, NEW t \in Procs \cup {NoProc}
  PROVE  Good([r EXCEPT !.pc = p]) /\ Good([r EXCEPT !.pc = p, !.target = t])
<1>1. [r EXCEPT !.pc = p] \in Processes /\ [r EXCEPT !.pc = p, !.target = t] \in Processes
  BY DEF Processes, Early
<1>2. [r EXCEPT !.pc = p].pc = p /\ [r EXCEPT !.pc = p, !.target = t].pc = p
  BY DEF Processes
<1>3. p \notin Closing \cup {"joinHttp"} /\ p \notin {"stop", "join", "database", "cleanup"}
  BY DEF Early, Closing
<1> QED BY <1>1, <1>2, <1>3 DEF Good, InOrder

(* A signal leaves main() where it is. *)
LEMMA TerminatedIsGood ==
  ASSUME NEW r, Good(r) PROVE Good(Terminated(r)) /\ Terminated(r).pc = r.pc
<1>1. CASE r.requested
  BY <1>1 DEF Terminated
<1>2. CASE ~r.requested
  <2> DEFINE t == [r EXCEPT !.requested = TRUE, !.dying = TRUE]
  <2>1. t \in Processes
    BY DEF Good, Processes
  <2>2. /\ t.pc = r.pc /\ t.stage = r.stage /\ t.serving = r.serving
        /\ t.http = r.http /\ t.threads = r.threads
    BY DEF Good, Processes
  <2>3. Terminated(r) = t
    BY <1>2 DEF Terminated
  <2> HIDE DEF t
  <2> QED BY <2>1, <2>2, <2>3 DEF Good, InOrder
<1> QED BY <1>1, <1>2

(* One process moves, the others keep their order. *)
LEMMA GoKeepsOrder ==
  ASSUME AllGood, NEW i \in Procs, NEW r, Good(r), Go(i, r) PROVE AllGood'
BY DEF AllGood, Good, Go

LEMMA OneIsGood == ASSUME AllGood, NEW i \in Procs PROVE Good(proc[i])
BY DEF AllGood, Good

-----------------------------------------------------------------------------
(* The steps before a process is the server *)

LEMMA SettleKeepsOrder ==
  ASSUME TypeOK, AllGood, NEW i \in Procs, Settle(i) PROVE AllGood'
<1> DEFINE r == proc[i]
<1>0. r \in Processes /\ Good(r)
  BY OneIsGood DEF AllGood
<1>1. \A p \in Early : Good([r EXCEPT !.pc = p])
  BY <1>0, EarlyIsGood
<1>2. CASE Look(i)
  <2>1. \E q \in {Dead} \cup {[r EXCEPT !.pc = p] : p \in Early} : Go(i, q)
    BY <1>2 DEF Look, Early
  <2> QED BY <2>1, <1>1, DeadIsGood, GoKeepsOrder
<1>3. CASE Unlink(i)
  BY <1>3, <1>1, GoKeepsOrder DEF Unlink, Early
<1>4. CASE Aim(i)
  <2>1. CASE Go(i, [r EXCEPT !.pc = "unlink"])
    BY <2>1, <1>1, GoKeepsOrder DEF Early
  <2>2. ASSUME NEW id \in Procs,
               proc' = [[proc EXCEPT ![i].pc = "wait", ![i].target = id]
                          EXCEPT ![id] = Terminated(@)]
        PROVE  AllGood'
    <3> DEFINE p == [proc EXCEPT ![i] = [r EXCEPT !.pc = "wait", !.target = id]]
    <3>1. Good([r EXCEPT !.pc = "wait", !.target = id])
      BY <1>0, EarlyIsGood DEF Early
    <3>2. p \in [Procs -> Processes] /\ \A j \in Procs : Good(p[j])
      BY <3>1 DEF AllGood, Good
    <3>3. proc' = [p EXCEPT ![id] = Terminated(p[id])]
      BY <2>2 DEF AllGood
    <3> HIDE DEF p
    <3>4. Good(Terminated(p[id]))
      BY <3>2, TerminatedIsGood
    <3> QED BY <3>2, <3>3, <3>4 DEF AllGood, Good
  <2> QED BY <1>4, <2>1, <2>2 DEF Aim, Readings, TypeOK, Stale
<1>5. CASE Wait(i)
  <2> DEFINE q == [r EXCEPT !.pc = "create", !.target = NoProc]
  <2>1. Good(q)
    BY <1>0, EarlyIsGood DEF Early
  <2>2. proc' = [proc EXCEPT ![i] = q, ![r.target] = Dead]
    BY <1>5 DEF Wait, AllGood
  <2> HIDE DEF q
  <2> QED BY <2>1, <2>2, DeadIsGood DEF AllGood, Good
<1>6. CASE Create(i)
  BY <1>6, <1>1, DeadIsGood, GoKeepsOrder DEF Create, Early
<1>7. CASE Write(i)
  BY <1>7, <1>1, GoKeepsOrder DEF Write, Early
<1>8. CASE Reopen(i)
  <2>1. Good([r EXCEPT !.pc = "boot"])
    BY <1>0 DEF Good, Processes, InOrder, Closing
  <2> QED BY <1>8, <2>1, GoKeepsOrder DEF Reopen
<1> QED BY <1>2, <1>3, <1>4, <1>5, <1>6, <1>7, <1>8 DEF Settle

-----------------------------------------------------------------------------
(* The server at work *)

LEMMA ThreadsKeepOrder ==
  ASSUME AllGood, NEW i \in Procs, Threads(i) PROVE AllGood'
<1> DEFINE r == proc[i]
<1>0. r \in Processes /\ InOrder(r)
  BY DEF AllGood
<1>1. CASE Publish(i)
  <2>1. CASE r.serving
    <3> DEFINE q == [r EXCEPT !.handler = "joining", !.observers = "handler",
                              !.http = "draining"]
    <3>1. q \in Processes /\ q.pc = r.pc
      BY <1>0 DEF Processes
    <3>2. r.pc \notin Closing \cup {"joinHttp"}
      BY <1>0, <2>1 DEF InOrder
    <3>3. r.pc \notin {"stop", "join", "database", "cleanup"}
      BY <3>2 DEF Closing
    <3>4. Go(i, q)
      BY <1>1, <2>1 DEF Publish
    <3> HIDE DEF q
    <3> QED BY <3>1, <3>2, <3>3, <3>4, GoKeepsOrder DEF Good, InOrder
  <2>2. CASE ~r.serving
    <3>1. Good([r EXCEPT !.handler = "none"])
      BY <1>0 DEF Good, Processes, InOrder
    <3> QED BY <1>1, <2>2, <3>1, GoKeepsOrder DEF Publish
  <2> QED BY <2>1, <2>2
<1>2. CASE ListenReturns(i)
  <2>1. Good([r EXCEPT !.http = "off"])
    BY <1>0 DEF Good, Processes, InOrder
  <2> QED BY <1>2, <2>1, GoKeepsOrder DEF ListenReturns
<1>3. ASSUME NEW u \in Users, UserEnds(i, u) PROVE AllGood'
  <2>1. Good([r EXCEPT !.threads = @ \ {u}])
    BY <1>0 DEF Good, Processes, InOrder
  <2> QED BY <1>3, <2>1, GoKeepsOrder DEF UserEnds
<1> QED BY <1>1, <1>2, <1>3 DEF Threads

-----------------------------------------------------------------------------
(* Shutdown *)

LEMMA ShutdownKeepsOrder ==
  ASSUME AllGood, NEW i \in Procs, Shutdown(i) PROVE AllGood'
<1> DEFINE r == proc[i]
<1>0. r \in Processes /\ InOrder(r)
  BY DEF AllGood
<1>1. CASE StopHttp(i)
  <2>1. Good([r EXCEPT !.pc = "joinHttp", !.serving = FALSE,
                       !.http = IF @ = "on" THEN "draining" ELSE @])
    BY <1>0 DEF Good, Processes, InOrder, Closing
  <2> QED BY <1>1, <2>1, GoKeepsOrder DEF StopHttp
<1>2. CASE HttpJoined(i)
  <2>1. ~r.serving /\ r.http = "off"
    BY <1>0, <1>2 DEF HttpJoined, InOrder
  <2> DEFINE q == [r EXCEPT !.pc = "stop", !.stage = 1]
  <2>2. q \in Processes
    BY <1>0, FirstAndLast DEF Processes
  <2>3. /\ q.pc = "stop" /\ q.stage = 1
        /\ q.serving = r.serving /\ q.http = r.http
    BY <1>0 DEF Processes
  <2>4. Go(i, q)
    BY <1>2 DEF HttpJoined
  <2> HIDE DEF q
  <2>5. InOrder(q)
    BY <2>1, <2>3 DEF InOrder
  <2> QED BY <2>2, <2>4, <2>5, GoKeepsOrder DEF Good
<1>3. CASE StopWorker(i)
  <2> DEFINE q == [r EXCEPT !.pc = "join", !.stopped = @ \cup {Stopping(i)}]
  <2>1. r.pc = "stop" /\ r.stage \in 1 .. Last
    BY <1>0, <1>3 DEF StopWorker, InOrder, Processes
  <2>2. Stopping(i) \in Workers
    BY <2>1 DEF Stopping, Workers
  <2>3. q \in Processes
    <3> DEFINE done == r.stopped \cup {Stopping(i)}
    <3>1. done \in SUBSET Workers
      BY <1>0, <2>2 DEF Processes
    <3> HIDE DEF done
    <3>2. [r EXCEPT !.pc = "join", !.stopped = done] \in Processes
      BY <1>0, <3>1 DEF Processes
    <3> QED BY <3>2 DEF done
  <2>4. /\ q.pc = "join" /\ q.stage = r.stage /\ q.serving = r.serving
        /\ q.http = r.http /\ q.threads = r.threads
    BY <1>0 DEF Processes
  <2>5. Go(i, q)
    BY <1>3 DEF StopWorker
  <2> HIDE DEF q
  <2>6. InOrder(q)
    BY <1>0, <2>1, <2>4 DEF InOrder, Closing
  <2> QED BY <2>3, <2>5, <2>6, GoKeepsOrder DEF Good
<1>4. CASE WorkerJoined(i)
  <2>1. r.pc = "join" /\ r.stage \in 1 .. Last /\ StopOrder[r.stage] \notin r.threads
    BY <1>0, <1>4 DEF WorkerJoined, InOrder, Processes, Stopping
  <2>2. ~r.serving /\ r.http = "off"
    BY <1>0, <2>1 DEF InOrder, Closing
  <2>3. \A k \in 1 .. Last : k <= r.stage => StopOrder[k] \notin r.threads
    BY <1>0, <2>1 DEF InOrder
  <2>4. CASE r.stage = Last
    <3>1. [r EXCEPT !.pc = "database", !.stage = 0] \in Processes
      BY <1>0, FirstAndLast DEF Processes
    <3>2. InOrder([r EXCEPT !.pc = "database", !.stage = 0])
      BY <1>0, <2>2, <2>3, <2>4 DEF Processes, InOrder
    <3> QED BY <1>4, <2>4, <3>1, <3>2, GoKeepsOrder DEF WorkerJoined, Good
  <2>5. CASE r.stage # Last
    <3>1. [r EXCEPT !.pc = "stop", !.stage = @ + 1] \in Processes
      <4>1. r.stage + 1 \in 0 .. Last
        BY <2>1, <2>5, FirstAndLast
      <4> QED BY <1>0, <4>1 DEF Processes
    <3>2. InOrder([r EXCEPT !.pc = "stop", !.stage = @ + 1])
      BY <1>0, <2>1, <2>2, <2>3 DEF Processes, InOrder
    <3> QED BY <1>4, <2>5, <3>1, <3>2, GoKeepsOrder DEF WorkerJoined, Good
  <2> QED BY <2>4, <2>5
<1>5. CASE CloseDatabase(i)
  <2>1. Good([r EXCEPT !.pc = "cleanup", !.db = FALSE])
    BY <1>0, <1>5 DEF CloseDatabase, Good, Processes, InOrder, Closing
  <2> QED BY <1>5, <2>1, GoKeepsOrder DEF CloseDatabase
<1>6. CASE Cleanup(i)
  BY <1>6, DeadIsGood, GoKeepsOrder DEF Cleanup
<1> QED BY <1>1, <1>2, <1>3, <1>4, <1>5, <1>6 DEF Shutdown

(* Every step keeps every process in order. *)
LEMMA StepKeepsOrder ==
  ASSUME TypeOK, AllGood, [Next]_vars PROVE AllGood'
<1>1. CASE UNCHANGED vars
  BY <1>1 DEF vars, AllGood
<1>2. ASSUME NEW i \in Procs, Start(i) PROVE AllGood'
  <2>1. ASSUME NEW force \in BOOLEAN
        PROVE  Good([Dead EXCEPT !.pc = "check", !.force = force])
    <3>1. [Dead EXCEPT !.force = force] \in Processes
      BY DeadIsGood DEF Good, Processes
    <3>2. [Dead EXCEPT !.pc = "check", !.force = force]
            = [[Dead EXCEPT !.force = force] EXCEPT !.pc = "check"]
      BY DeadIsGood DEF Good, Processes
    <3> QED BY <3>1, <3>2, EarlyIsGood DEF Early
  <2> QED BY <1>2, <2>1, GoKeepsOrder DEF Start
<1>3. ASSUME NEW i \in Procs, Boot(i) PROVE AllGood'
  <2>1. ASSUME NEW listening \in BOOLEAN
        PROVE  Good([proc[i] EXCEPT !.pc = "up", !.threads = Users, !.db = TRUE,
                                    !.serving = listening,
                                    !.http = IF listening THEN "on" ELSE "off"])
    <3> DEFINE q == [proc[i] EXCEPT !.pc = "up", !.threads = Users, !.db = TRUE,
                                    !.serving = listening,
                                    !.http = IF listening THEN "on" ELSE "off"]
    <3>1. proc[i] \in Processes
      BY DEF AllGood
    <3>2. q \in Processes
      BY <3>1 DEF Processes
    <3>3. q.pc = "up"
      BY <3>1 DEF Processes
    <3> HIDE DEF q
    <3>4. Good(q)
      BY <3>2, <3>3 DEF Good, InOrder, Closing
    <3> QED BY <3>4 DEF q
  <2> QED BY <1>3, <2>1, GoKeepsOrder DEF Boot
<1>4. ASSUME NEW i \in Procs, Terminate(i) \/ Exit(i) \/ Crash(i) PROVE AllGood'
  BY <1>4, OneIsGood, TerminatedIsGood, DeadIsGood, GoKeepsOrder DEF Terminate, Exit, Crash
<1>5. ASSUME NEW i \in Procs, RequestShutdown(i) PROVE AllGood'
  <2>1. Good([proc[i] EXCEPT !.requested = TRUE])
    <3> DEFINE q == [proc[i] EXCEPT !.requested = TRUE]
    <3>1. proc[i] \in Processes /\ InOrder(proc[i])
      BY DEF AllGood
    <3>2. q \in Processes
      BY <3>1 DEF Processes
    <3>3. /\ q.pc = proc[i].pc /\ q.stage = proc[i].stage /\ q.http = proc[i].http
          /\ q.serving = proc[i].serving /\ q.threads = proc[i].threads
      BY <3>1 DEF Processes
    <3> HIDE DEF q
    <3>4. Good(q)
      BY <3>1, <3>2, <3>3 DEF Good, InOrder
    <3> QED BY <3>4 DEF q
  <2> QED BY <1>5, <2>1, GoKeepsOrder DEF RequestShutdown
<1>6. ASSUME NEW i \in Procs, SetAddress(i) PROVE AllGood'
  <2>1. Good([proc[i] EXCEPT !.handler = "setter"])
    BY OneIsGood DEF Good, Processes, InOrder
  <2> QED BY <1>6, <2>1, GoKeepsOrder DEF SetAddress
<1>7. ASSUME NEW i \in Procs, HandlerHangs(i) \/ TranscoderHangs(i) PROVE AllGood'
  <2>1. ASSUME NEW h \in {"handler", "transcoder"}
        PROVE  Good([proc[i] EXCEPT !.hung = @ \cup {h}])
    BY OneIsGood DEF Good, Processes, InOrder
  <2> QED BY <1>7, <2>1, GoKeepsOrder DEF HandlerHangs, TranscoderHangs
<1> QED BY <1>1, <1>2, <1>3, <1>4, <1>5, <1>6, <1>7, SettleKeepsOrder, ThreadsKeepOrder,
           ShutdownKeepsOrder DEF Next

-----------------------------------------------------------------------------
(* The file *)

Without == {"dead", "check", "unlink", "recheck", "aim", "wait", "create"}

(* A step that leaves the file alone, of a process that has it already or
   does not have it afterwards. *)
LEMMA GoKeepsFile ==
  ASSUME AllGood, OwnFile, NEW i \in Procs, NEW r, Go(i, r), UNCHANGED <<pidFile, robbed>>,
         HasFile(i) \/ r.pc \in Without
  PROVE  OwnFile'
BY DEF AllGood, OwnFile, HasFile, Without, Go

(* The same for a step that leaves main() where it is. *)
LEMMA SamePlace ==
  ASSUME AllGood, OwnFile, NEW i \in Procs, NEW r, Go(i, r), UNCHANGED <<pidFile, robbed>>,
         r.pc = proc[i].pc
  PROVE  OwnFile'
BY GoKeepsFile DEF HasFile, Without

LEMMA SettleKeepsFile ==
  ASSUME LifecycleInv, NEW i \in Procs, Settle(i) PROVE OwnFile'
<1> DEFINE r == proc[i]
<1> USE DEF LifecycleInv
<1>0. r \in Processes
  BY DEF AllGood
<1>00. \A p : [r EXCEPT !.pc = p].pc = p
  BY <1>0 DEF Processes
<1>1. CASE Look(i)
  <2>1. \E q \in {Dead} \cup {[r EXCEPT !.pc = p] : p \in Without} : Go(i, q)
    BY <1>1 DEF Look, Without
  <2>2. \A q \in {Dead} \cup {[r EXCEPT !.pc = p] : p \in Without} : q.pc \in Without
    <3>1. Dead.pc \in Without
      BY DEF Dead, Without
    <3>2. \A p \in Without : [r EXCEPT !.pc = p].pc \in Without
      BY <1>00
    <3> QED BY <3>1, <3>2
  <2>3. UNCHANGED <<pidFile, robbed>>
    BY <1>1 DEF Look
  <2> QED BY <2>1, <2>2, <2>3, GoKeepsFile
<1>2. CASE Unlink(i)
  <2>1. proc' = [proc EXCEPT ![i] = [r EXCEPT !.pc = "create"]]
    BY <1>2 DEF Unlink, Go
  <2>2. \A j \in Procs : HasFile(j)' => HasFile(j)
    BY <2>1, <1>00 DEF HasFile, AllGood
  <2> QED BY <1>2, <2>2 DEF Unlink, OwnFile
<1>3. CASE Aim(i)
  <2>1. CASE Go(i, [r EXCEPT !.pc = "unlink"])
    BY <1>3, <2>1, <1>00, GoKeepsFile DEF Aim, Without
  <2>2. ASSUME NEW id \in Procs,
               proc' = [[proc EXCEPT ![i].pc = "wait", ![i].target = id]
                          EXCEPT ![id] = Terminated(@)]
        PROVE  OwnFile'
    <3> DEFINE p == [proc EXCEPT ![i] = [r EXCEPT !.pc = "wait", !.target = id]]
    <3>1. p \in [Procs -> Processes] /\ \A j \in Procs : Good(p[j])
      <4>1. Good([r EXCEPT !.pc = "wait", !.target = id])
        BY <1>0, EarlyIsGood DEF Early
      <4> QED BY <4>1 DEF AllGood, Good
    <3>2. \A j \in Procs : p[j].pc = IF j = i THEN "wait" ELSE proc[j].pc
      <4>1. [r EXCEPT !.pc = "wait", !.target = id].pc = "wait"
        BY <1>0 DEF Processes
      <4> QED BY <4>1 DEF AllGood
    <3>3. proc' = [p EXCEPT ![id] = Terminated(p[id])]
      BY <2>2 DEF AllGood
    <3> HIDE DEF p
    <3>4. \A j \in Procs : proc'[j].pc = p[j].pc
      BY <3>1, <3>3, TerminatedIsGood
    <3> QED BY <1>3, <3>2, <3>4 DEF Aim, OwnFile, HasFile
  <2> QED BY <1>3, <2>1, <2>2 DEF Aim, Readings, TypeOK, Stale
<1>4. CASE Wait(i)
  <2> DEFINE q == [r EXCEPT !.pc = "create", !.target = NoProc]
  <2>1. q.pc = "create" /\ Dead.pc = "dead"
    BY <1>0 DEF Processes, Dead
  <2>2. proc' = [proc EXCEPT ![i] = q, ![r.target] = Dead]
    BY <1>4 DEF Wait, AllGood
  <2> HIDE DEF q
  <2>3. \A j \in Procs : HasFile(j)' => HasFile(j)
    BY <2>1, <2>2 DEF HasFile, AllGood
  <2> QED BY <1>4, <2>3 DEF Wait, OwnFile
<1>5. CASE Create(i)
  <2>1. CASE pidFile = NoFile
    <3>1. \A j \in Procs : HasFile(j) => robbed
      BY <2>1 DEF OwnFile, NoFile
    <3>2. pidFile'.by = i /\ robbed' = robbed /\ Go(i, [r EXCEPT !.pc = "write"])
      BY <1>5, <2>1 DEF Create
    <3>3. \A j \in Procs \ {i} : HasFile(j)' => HasFile(j)
      BY <3>2 DEF HasFile, AllGood, Go
    <3> QED BY <3>1, <3>2, <3>3 DEF OwnFile
  <2>2. CASE pidFile # NoFile
    <3>1. Dead.pc \in Without
      BY DEF Dead, Without
    <3> QED BY <1>5, <2>2, <3>1, GoKeepsFile DEF Create
  <2> QED BY <2>1, <2>2
<1>6. CASE Write(i)
  <2>1. pidFile'.by = pidFile.by /\ robbed' = robbed
    BY <1>6 DEF Write, TypeOK
  <2>2. \A j \in Procs : HasFile(j)' => HasFile(j)
    BY <1>6 DEF Write, HasFile, AllGood, Go
  <2> QED BY <2>1, <2>2 DEF OwnFile
<1>7. CASE Reopen(i)
  <2>1. \A j \in Procs : HasFile(j)' => HasFile(j)
    BY <1>7 DEF Reopen, HasFile, AllGood, Go
  <2>2. CASE pidFile = NoFile
    <3>1. \A j \in Procs : HasFile(j) => robbed
      BY <2>2 DEF OwnFile, NoFile
    <3> QED BY <1>7, <2>1, <3>1 DEF Reopen, OwnFile
  <2>3. CASE pidFile # NoFile
    BY <1>7, <2>1, <2>3 DEF Reopen, OwnFile
  <2> QED BY <2>2, <2>3
<1> QED BY <1>1, <1>2, <1>3, <1>4, <1>5, <1>6, <1>7 DEF Settle

LEMMA StepKeepsFile ==
  ASSUME LifecycleInv, [Next]_vars PROVE OwnFile'
<1> USE DEF LifecycleInv
<1>0. Dead.pc \in Without /\ "check" \in Without
  BY DEF Dead, Without
<1>00. \A i \in Procs : proc[i] \in Processes
  BY DEF AllGood
<1>1. CASE UNCHANGED vars
  BY <1>1 DEF vars, OwnFile, HasFile
<1>2. ASSUME NEW i \in Procs, Start(i) PROVE OwnFile'
  <2>1. ASSUME NEW force \in BOOLEAN
        PROVE  [Dead EXCEPT !.pc = "check", !.force = force].pc = "check"
    BY DEF Dead
  <2> QED BY <1>0, <1>2, <2>1, GoKeepsFile DEF Start
<1>3. ASSUME NEW i \in Procs, Boot(i) PROVE OwnFile'
  <2>1. HasFile(i)
    BY <1>3 DEF Boot, HasFile
  <2> QED BY <1>3, <2>1, GoKeepsFile DEF Boot
<1>4. ASSUME NEW i \in Procs, Terminate(i) \/ Exit(i) \/ Crash(i) PROVE OwnFile'
  <2>1. CASE Terminate(i)
    <3>1. Terminated(proc[i]).pc = proc[i].pc
      BY TerminatedIsGood, OneIsGood
    <3> QED BY <2>1, <3>1, SamePlace DEF Terminate
  <2>2. CASE Exit(i) \/ Crash(i)
    BY <2>2, <1>0, GoKeepsFile DEF Exit, Crash
  <2> QED BY <1>4, <2>1, <2>2
<1>5. ASSUME NEW i \in Procs, RequestShutdown(i) \/ SetAddress(i) PROVE OwnFile'
  <2>1. /\ [proc[i] EXCEPT !.requested = TRUE].pc = proc[i].pc
        /\ [proc[i] EXCEPT !.handler = "setter"].pc = proc[i].pc
    BY <1>00 DEF Processes
  <2> QED BY <1>5, <2>1, SamePlace DEF RequestShutdown, SetAddress
<1>6. ASSUME NEW i \in Procs, Threads(i) PROVE OwnFile'
  <2>1. ASSUME NEW u
        PROVE  /\ [proc[i] EXCEPT !.handler = "joining", !.observers = "handler",
                                  !.http = "draining"].pc = proc[i].pc
               /\ [proc[i] EXCEPT !.handler = "none"].pc = proc[i].pc
               /\ [proc[i] EXCEPT !.http = "off"].pc = proc[i].pc
               /\ [proc[i] EXCEPT !.threads = @ \ {u}].pc = proc[i].pc
    BY <1>00 DEF Processes
  <2>2. CASE Publish(i)
    BY <2>1, <2>2, SamePlace DEF Publish
  <2>3. CASE ListenReturns(i)
    BY <2>1, <2>3, SamePlace DEF ListenReturns
  <2>4. ASSUME NEW u \in Users, UserEnds(i, u) PROVE OwnFile'
    BY <2>1, <2>4, SamePlace DEF UserEnds
  <2> QED BY <1>6, <2>2, <2>3, <2>4 DEF Threads
<1>7. ASSUME NEW i \in Procs, Shutdown(i) PROVE OwnFile'
  <2>1. HasFile(i)
    BY <1>7 DEF Shutdown, StopHttp, HttpJoined, StopWorker, WorkerJoined, CloseDatabase,
               Cleanup, HasFile
  <2>2. CASE Cleanup(i)
    <3>1. Go(i, Dead) /\ ~HasFile(i)'
      BY <2>2 DEF Cleanup, Go, HasFile, Dead, AllGood
    <3>2. \A j \in Procs : HasFile(j)' => j # i /\ HasFile(j)
      BY <3>1 DEF Go, HasFile, AllGood
    <3> QED BY <2>2, <3>2 DEF Cleanup, OwnFile
  <2>3. CASE ~Cleanup(i)
    <3>1. \E q : Go(i, q) /\ UNCHANGED <<pidFile, robbed>>
      BY <1>7, <2>3 DEF Shutdown, StopHttp, HttpJoined, StopWorker, WorkerJoined,
                        CloseDatabase
    <3> QED BY <2>1, <3>1, GoKeepsFile
  <2> QED BY <2>2, <2>3
<1>8. ASSUME NEW i \in Procs, HandlerHangs(i) \/ TranscoderHangs(i) PROVE OwnFile'
  <2>1. \A h : [proc[i] EXCEPT !.hung = @ \cup {h}].pc = proc[i].pc
    BY <1>00 DEF Processes
  <2> QED BY <1>8, <2>1, SamePlace DEF HandlerHangs, TranscoderHangs
<1> QED BY <1>1, <1>2, <1>3, <1>4, <1>5, <1>6, <1>7, <1>8, SettleKeepsFile DEF Next

(* The types of the other variables. *)
LEMMA StepKeepsFileTyped ==
  ASSUME TypeOK, [Next]_vars
  PROVE  /\ pidFile' \in [by : Procs \cup {NoProc}, pid : Procs \cup {NoProc}]
         /\ robbed' \in BOOLEAN
<1> USE DEF TypeOK
<1>1. CASE UNCHANGED <<pidFile, robbed>>
  BY <1>1
<1>2. ASSUME NEW i \in Procs, Unlink(i) \/ Cleanup(i)
      PROVE  pidFile' = NoFile /\ robbed' \in BOOLEAN
  BY <1>2 DEF Unlink, Cleanup
<1>3. ASSUME NEW i \in Procs, Create(i) \/ Write(i) \/ Reopen(i)
      PROVE  /\ pidFile' \in [by : Procs \cup {NoProc}, pid : Procs \cup {NoProc}]
             /\ robbed' = robbed
  BY <1>3 DEF Create, Write, Reopen
<1>4. NoFile \in [by : Procs \cup {NoProc}, pid : Procs \cup {NoProc}]
  BY DEF NoFile
<1>5. \/ UNCHANGED <<pidFile, robbed>>
      \/ \E i \in Procs : \/ Unlink(i) \/ Cleanup(i)
                          \/ Create(i) \/ Write(i) \/ Reopen(i)
  BY DEF Next, vars, Start, Settle, Boot, Terminate, Exit, Crash, RequestShutdown, SetAddress,
         HandlerHangs, TranscoderHangs, Threads, Shutdown, Look, Aim, Wait, Publish, ListenReturns, UserEnds, StopHttp,
         HttpJoined, StopWorker, WorkerJoined, CloseDatabase
<1> QED BY <1>1, <1>2, <1>3, <1>4, <1>5

LEMMA StepKeepsCounters ==
  ASSUME TypeOK, [Next]_vars
  PROVE  starts' \in 0 .. MaxStarts /\ incidents' \in 0 .. MaxIncidents
<1>1. \/ UNCHANGED <<starts, incidents>>
      \/ starts < MaxStarts /\ starts' = starts + 1 /\ incidents' = incidents
      \/ incidents < MaxIncidents /\ incidents' = incidents + 1 /\ starts' = starts
  <2>1. ASSUME NEW i \in Procs,
               Start(i) \/ SetAddress(i) \/ HandlerHangs(i) \/ TranscoderHangs(i)
        PROVE  \/ starts < MaxStarts /\ starts' = starts + 1 /\ incidents' = incidents
               \/ incidents < MaxIncidents /\ incidents' = incidents + 1 /\ starts' = starts
    BY <2>1 DEF Start, SetAddress, HandlerHangs, TranscoderHangs
  <2>2. ASSUME NEW i \in Procs,
               \/ Settle(i) \/ Boot(i) \/ Terminate(i) \/ Exit(i) \/ Crash(i)
               \/ RequestShutdown(i) \/ Threads(i) \/ Shutdown(i)
        PROVE  UNCHANGED <<starts, incidents>>
    <3>1. CASE Settle(i)
      BY <3>1 DEF Settle, Look, Unlink, Aim, Wait, Create, Write, Reopen
    <3>2. CASE Boot(i) \/ Terminate(i) \/ Exit(i) \/ Crash(i) \/ RequestShutdown(i)
      BY <3>2 DEF Boot, Terminate, Exit, Crash, RequestShutdown
    <3>3. CASE Threads(i)
      BY <3>3 DEF Threads, Publish, ListenReturns, UserEnds
    <3>4. CASE Shutdown(i)
      BY <3>4 DEF Shutdown, StopHttp, HttpJoined, StopWorker, WorkerJoined, CloseDatabase, Cleanup
    <3> QED BY <2>2, <3>1, <3>2, <3>3, <3>4
  <2>3. CASE UNCHANGED vars
    BY <2>3 DEF vars
  <2> QED BY <2>1, <2>2, <2>3 DEF Next
<1>2. starts \in 0 .. MaxStarts /\ incidents \in 0 .. MaxIncidents
  BY DEF TypeOK
<1> QED BY <1>1, <1>2

-----------------------------------------------------------------------------
(* Theorems *)

(* The invariant from which the others follow: types, the order in which a
   process shuts down, and whose file the file is. *)
THEOREM LifecycleInvariant == Spec => []LifecycleInv
<1>1. Init => LifecycleInv
  <2> SUFFICES ASSUME Init PROVE LifecycleInv
    OBVIOUS
  <2>1. Dead \in Processes /\ InOrder(Dead) /\ Dead.pc = "dead"
    BY DeadIsGood DEF Good, Dead
  <2>2. AllGood
    BY <2>1 DEF Init, AllGood
  <2>4. starts \in 0 .. MaxStarts /\ incidents \in 0 .. MaxIncidents
    BY DEF Init
  <2>5. TypeOK
    BY <2>1, <2>4 DEF Init, TypeOK, NoFile
  <2>3. OwnFile
    BY <2>1 DEF Init, OwnFile, HasFile
  <2> QED BY <2>2, <2>3, <2>5 DEF LifecycleInv
<1>2. LifecycleInv /\ [Next]_vars => LifecycleInv'
  <2> SUFFICES ASSUME LifecycleInv, [Next]_vars PROVE LifecycleInv'
    OBVIOUS
  <2>1. AllGood'
    BY StepKeepsOrder DEF LifecycleInv
  <2>2. OwnFile'
    BY StepKeepsFile
  <2>3. proc' \in [Procs -> Processes]
    BY <2>1 DEF AllGood
  <2>4. /\ pidFile' \in [by : Procs \cup {NoProc}, pid : Procs \cup {NoProc}]
        /\ robbed' \in BOOLEAN
    BY StepKeepsFileTyped DEF LifecycleInv
  <2>5. starts' \in 0 .. MaxStarts /\ incidents' \in 0 .. MaxIncidents
    BY StepKeepsCounters DEF LifecycleInv
  <2> QED BY <2>1, <2>2, <2>3, <2>4, <2>5 DEF LifecycleInv, TypeOK
<1> QED BY <1>1, <1>2, PTL DEF Spec

(* Type correctness. *)
THEOREM TypeCorrect == Spec => []TypeOK
<1>1. LifecycleInv => TypeOK
  BY DEF LifecycleInv
<1> QED BY <1>1, LifecycleInvariant, PTL

(* Only one process is the server, unless the PID file of a living server
   was removed: two starts at once do not get past O_EXCL. *)
THEOREM OnlyOneServer == Spec => []OneServer
<1>1. LifecycleInv => OneServer
  BY DEF LifecycleInv, OwnFile, OneServer, Server
<1> QED BY <1>1, LifecycleInvariant, PTL

(* When main() has closed the database, the HTTP server and every component
   that used it have gone; what may be left is the detached startup scan. *)
THEOREM NobodyUsesAClosedDatabase == Spec => []UsersGone
<1>1. LifecycleInv => UsersGone
  <2> SUFFICES ASSUME LifecycleInv, NEW i \in Procs, proc[i].pc = "cleanup"
               PROVE  proc[i].threads \subseteq {"scan"} /\ proc[i].http = "off"
    BY DEF UsersGone
  <2>1. proc[i] \in Processes /\ InOrder(proc[i])
    BY DEF LifecycleInv, AllGood
  <2>2. proc[i].threads \cap Workers = {} /\ proc[i].http = "off"
    BY <2>1 DEF InOrder, Closing, Workers
  <2>3. proc[i].threads \subseteq Users
    BY <2>1 DEF Processes
  <2> QED BY <2>2, <2>3 DEF Users
<1> QED BY <1>1, LifecycleInvariant, PTL
=============================================================================
