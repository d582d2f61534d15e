------------------------------- MODULE Server -------------------------------
(***************************************************************************)
(* The life of the process: main, Server::run with its io threads and its  *)
(* cleanup loop, and Server::stop, called by the SIGINT handler on top of  *)
(* whatever the interrupted thread was doing (server/main.cpp,             *)
(* server/Server.cpp).                                                     *)
(*                                                                         *)
(* stop runs in a frame: frame[p] is its progress on thread p, and while   *)
(* it is not "none" the interrupted code of p, at main or pc[p], does not  *)
(* move.  The kernel gives SIGINT to the main thread unless it is already  *)
(* in the handler, which blocks the signal there; then an io thread gets   *)
(* it.  m_mtx is the mutex of VerifyService, the one lock that main and    *)
(* the request handlers share.                                             *)
(***************************************************************************)
EXTENDS Config, Integers

CONSTANTS
  MaxThreads,  \* bound: the configured number of threads
  MaxSignals   \* bound: SIGINTs in a behaviour

ASSUME ServerAssumption == MaxThreads \in Nat \ {0} /\ MaxSignals \in Nat

Main == 0
Io == 1 .. MaxThreads
Procs == {Main} \cup Io
Nobody == MaxThreads + 1

VARIABLES
  main,       \* where the main thread is
  m_config,   \* the settings Config has taken from the file
  config_json,  \* the file loadFromFile is reading
  setting,    \* the number of the setting it is at
  m_num_threads,
  m_running,
  acceptor,   \* m_acceptor
  accept,     \* the asynchronous accept operation
  stopped,    \* m_ioc.stop() has been called
  m_threads,  \* the std::threads in the vector
  joined,     \* those that are no longer joinable
  pc,         \* pc[t]: where io thread t is
  m_mtx,      \* who holds VerifyService::m_mtx
  frame,      \* frame[p]: progress of stop() on thread p
  next,       \* next[p]: index of stop's join loop
  signals,    \* SIGINTs so far
  early       \* history: one of them came before all threads were started

vars == <<main, m_config, config_json, setting, m_num_threads, m_running, acceptor,
          accept, stopped, m_threads, joined, pc, m_mtx, frame, next, signals, early>>
loadVars == <<m_config, config_json, setting>>
configVars == <<loadVars, m_num_threads>>
mainVars == <<main, configVars, m_running, m_threads>>
iocVars == <<acceptor, accept, stopped>>
stopVars == <<joined, frame, next>>
sigVars == <<signals, early>>

(* "routes": g_server is set; "exited" and "aborted" end the process. *)
MainState == {"boot", "loading", "configured", "routes", "accept", "spawn", "test",
              "sleep", "cleanup", "locked", "destroy", "exited", "aborted"}
IoState == {"unborn", "run", "accepting", "serve", "mail", "lock", "locked", "reply",
            "done"}
StopState == {"none", "close", "halt", "join", "joining"}

Alive == main \notin {"exited", "aborted"}

Init ==
  /\ main = "boot"
  /\ m_config = {}
  /\ config_json = NoFile
  /\ setting = 1
  /\ m_num_threads = 0
  /\ m_running = FALSE
  /\ acceptor = "open"
  /\ accept = "none"
  /\ stopped = FALSE
  /\ m_threads = <<>>
  /\ joined = {}
  /\ pc = [t \in Io |-> "unborn"]
  /\ m_mtx = Nobody
  /\ frame = [p \in Procs |-> "none"]
  /\ next = [p \in Procs |-> 1]
  /\ signals = 0
  /\ early = FALSE

-----------------------------------------------------------------------------
(* main and Server::run *)

MainAt(s) == main = s /\ frame[Main] = "none"

(* loadFromFile opens config.json. *)
OpenConfig ==
  /\ MainAt("boot")
  /\ config_json' \in Files
  /\ main' = "loading"
  /\ UNCHANGED <<m_config, setting, m_num_threads, m_running, m_threads, iocVars, stopVars, pc,
                 m_mtx, sigVars>>

(* The parsers assign the next setting. *)
TakeSetting ==
  /\ MainAt("loading")
  /\ Takes(config_json, setting)
  /\ m_config' = m_config \cup {Order[setting]}
  /\ setting' = setting + 1
  /\ UNCHANGED <<main, config_json, m_num_threads, m_running, m_threads, iocVars, stopVars, pc,
                 m_mtx, sigVars>>

(* loadFromFile returns: true, and main goes on, or false, and main        *)
(* returns 1 with the settings before the wrong one assigned.              *)
ConfigLoaded ==
  /\ MainAt("loading")
  /\ Loaded(config_json, setting)
  /\ config_json' = NoFile
  /\ setting' = 1
  /\ main' = "configured"
  /\ UNCHANGED <<m_config, m_num_threads, m_running, m_threads, iocVars, stopVars, pc, m_mtx,
                 sigVars>>

ConfigRefused ==
  /\ MainAt("loading")
  /\ Refuses(config_json, setting)
  /\ config_json' = NoFile
  /\ setting' = 1
  /\ main' = "exited"
  /\ UNCHANGED <<m_config, m_num_threads, m_running, m_threads, iocVars, stopVars, pc, m_mtx,
                 sigVars>>

(* DBManager::init, the constructor of Server, g_server = &server.  Any    *)
(* integer is accepted as the number of threads, also a negative one.      *)
Construct ==
  /\ MainAt("configured")
  /\ m_num_threads' \in -1 .. MaxThreads
  /\ main' = "routes"
  /\ UNCHANGED <<loadVars, m_running, m_threads, iocVars, stopVars, pc, m_mtx, sigVars>>

(* The constructor of Server throws, it cannot bind: main returns 1. *)
BindFails ==
  /\ MainAt("configured")
  /\ main' = "exited"
  /\ UNCHANGED <<configVars, m_running, m_threads, iocVars, stopVars, pc, m_mtx, sigVars>>

(* setupRoutes; run sets m_running. *)
StartRunning ==
  /\ MainAt("routes")
  /\ m_running' = TRUE
  /\ main' = "accept"
  /\ UNCHANGED <<configVars, m_threads, iocVars, stopVars, pc, m_mtx, sigVars>>

(* Mutant: after an accept error no new accept is started. *)
AcceptGivesUp ==
  accept' = IF ~m_running \/ accept = "failed" THEN "none" ELSE
            IF acceptor = "open" THEN "pending" ELSE "failed"

(* doAccept: nothing once m_running is false; async_accept on a closed     *)
(* acceptor completes at once with an error.                               *)
DoAccept ==
  accept' = IF ~m_running THEN "none" ELSE
            IF acceptor = "open" THEN "pending" ELSE "failed"

FirstAccept ==
  /\ MainAt("accept")
  /\ DoAccept
  /\ main' = "spawn"
  /\ UNCHANGED <<configVars, m_running, m_threads, acceptor, stopped, stopVars, pc, m_mtx, sigVars>>

(* m_threads.reserve throws for a negative size; while main's try block is *)
(* left, ~Server runs stop() to its end, with no thread to join.           *)
ReserveThrows ==
  /\ MainAt("spawn")
  /\ m_num_threads < 0
  /\ main' = "exited"
  /\ m_running' = FALSE
  /\ acceptor' = IF m_running THEN "closed" ELSE acceptor
  /\ accept' = IF m_running /\ accept = "pending" THEN "failed" ELSE accept
  /\ stopped' = (stopped \/ m_running)
  /\ UNCHANGED <<configVars, m_threads, stopVars, pc, m_mtx, sigVars>>

Spawned == {t \in Io : pc[t] # "unborn"}

(* m_threads.emplace_back: a joinable thread that calls m_ioc.run(). *)
Spawn ==
  /\ MainAt("spawn")
  /\ \E t \in 1 .. m_num_threads :
       /\ t = Cardinality(Spawned) + 1
       /\ m_threads' = Append(m_threads, t)
       /\ pc' = [pc EXCEPT ![t] = "run"]
  /\ UNCHANGED <<main, configVars, m_running, iocVars, stopVars, m_mtx, sigVars>>

AllSpawned ==
  /\ MainAt("spawn")
  /\ Cardinality(Spawned) = m_num_threads
  /\ main' = "test"
  /\ UNCHANGED <<configVars, m_running, m_threads, iocVars, stopVars, pc, m_mtx, sigVars>>

(* while (m_running): sleep five seconds, or leave run. *)
TestRunning ==
  /\ MainAt("test")
  /\ main' = IF m_running THEN "sleep" ELSE "destroy"
  /\ UNCHANGED <<configVars, m_running, m_threads, iocVars, stopVars, pc, m_mtx, sigVars>>

Wake ==
  /\ MainAt("sleep")
  /\ main' = "cleanup"
  /\ UNCHANGED <<configVars, m_running, m_threads, iocVars, stopVars, pc, m_mtx, sigVars>>

(* cleanupExpiredCodes locks m_mtx, and releases it. *)
CleanupLock ==
  /\ MainAt("cleanup")
  /\ m_mtx = Nobody
  /\ m_mtx' = Main
  /\ main' = "locked"
  /\ UNCHANGED <<configVars, m_running, m_threads, iocVars, stopVars, pc, sigVars>>

CleanupUnlock ==
  /\ MainAt("locked")
  /\ m_mtx' = Nobody
  /\ main' = "test"
  /\ UNCHANGED <<configVars, m_running, m_threads, iocVars, stopVars, pc, sigVars>>

Joinable == {m_threads[i] : i \in DOMAIN m_threads} \ joined

(* Mutant: the vector holds threads that do not insist on being joined. *)
DestroyDetached ==
  /\ MainAt("destroy")
  /\ main' = "exited"
  /\ UNCHANGED <<configVars, m_running, m_threads, iocVars, stopVars, pc, m_mtx, sigVars>>

(* ~Server: stop() returns at once, m_running being false; destroying a    *)
(* joinable std::thread calls std::terminate.                              *)
Destroy ==
  /\ MainAt("destroy")
  /\ main' = IF Joinable = {} THEN "exited" ELSE "aborted"
  /\ UNCHANGED <<configVars, m_running, m_threads, iocVars, stopVars, pc, m_mtx, sigVars>>

-----------------------------------------------------------------------------
(* The io threads, inside m_ioc.run() *)

IoAt(t, s) == Alive /\ pc[t] = s /\ frame[t] = "none"
Goto(t, s) == pc' = [pc EXCEPT ![t] = s]

(* A client connects, or accept fails: its handler is ready to run. *)
AcceptCompletes ==
  /\ Alive
  /\ accept = "pending"
  /\ accept' \in {"connected", "failed"}
  /\ UNCHANGED <<mainVars, acceptor, stopped, stopVars, pc, m_mtx, sigVars>>

(* The accept handler starts: an error is logged, a connection becomes a   *)
(* session with its first read.                                            *)
TakeAccept(t) ==
  /\ IoAt(t, "run")
  /\ ~stopped
  /\ accept \in {"connected", "failed"}
  /\ \A u \in Io : pc[u] # "accepting"
  /\ Goto(t, "accepting")
  /\ UNCHANGED <<mainVars, iocVars, stopVars, m_mtx, sigVars>>

(* It ends with doAccept. *)
AcceptNext(t) ==
  /\ IoAt(t, "accepting")
  /\ DoAccept
  /\ Goto(t, "run")
  /\ UNCHANGED <<mainVars, acceptor, stopped, stopVars, m_mtx, sigVars>>

(* A session has a request to handle. *)
TakeRequest(t) ==
  /\ IoAt(t, "run")
  /\ ~stopped
  /\ Goto(t, "serve")
  /\ UNCHANGED <<mainVars, iocVars, stopVars, m_mtx, sigVars>>

(* The handler calls sendVerifyCode, which mails the code first: *)
StartMail(t) ==
  /\ IoAt(t, "serve")
  /\ Goto(t, "mail")
  /\ UNCHANGED <<mainVars, iocVars, stopVars, m_mtx, sigVars>>

(* it is sent, and the code is stored, or sending it failed.  The transfer *)
(* has no timeout: it may also never end.                                  *)
MailEnds(t) ==
  /\ IoAt(t, "mail")
  /\ \E s \in {"lock", "reply"} : Goto(t, s)
  /\ UNCHANGED <<mainVars, iocVars, stopVars, m_mtx, sigVars>>

(* The handler calls verifyCode. *)
WantLock(t) ==
  /\ IoAt(t, "serve")
  /\ Goto(t, "lock")
  /\ UNCHANGED <<mainVars, iocVars, stopVars, m_mtx, sigVars>>

Lock(t) ==
  /\ IoAt(t, "lock")
  /\ m_mtx = Nobody
  /\ m_mtx' = t
  /\ Goto(t, "locked")
  /\ UNCHANGED <<mainVars, iocVars, stopVars, sigVars>>

(* Mutant: the lock is taken without a guard and never released. *)
UnlockForgotten(t) ==
  /\ IoAt(t, "locked")
  /\ Goto(t, "reply")
  /\ UNCHANGED <<mainVars, iocVars, stopVars, m_mtx, sigVars>>

Unlock(t) ==
  /\ IoAt(t, "locked")
  /\ m_mtx' = Nobody
  /\ Goto(t, "reply")
  /\ UNCHANGED <<mainVars, iocVars, stopVars, sigVars>>

EndRequest(t) ==
  /\ \/ IoAt(t, "serve")
     \/ IoAt(t, "reply")
  /\ Goto(t, "run")
  /\ UNCHANGED <<mainVars, iocVars, stopVars, m_mtx, sigVars>>

(* m_ioc.run() returns and the thread ends. *)
IoReturns(t) ==
  /\ IoAt(t, "run")
  /\ stopped
  /\ Goto(t, "done")
  /\ UNCHANGED <<mainVars, iocVars, stopVars, m_mtx, sigVars>>

-----------------------------------------------------------------------------
(* signalHandler and Server::stop *)

Receivers ==
  IF frame[Main] = "none" THEN {Main}
  ELSE {t \in Io : pc[t] \notin {"unborn", "done"} /\ frame[t] = "none"}

(* stop() returns at once if g_server is null or m_running is false. *)
Interrupt(p) ==
  /\ Alive
  /\ signals < MaxSignals
  /\ p \in Receivers
  /\ signals' = signals + 1
  /\ early' = (early \/ main \in {"accept", "spawn"})
  /\ frame' = [frame EXCEPT ![p] = IF m_running THEN "close" ELSE "none"]
  /\ next' = [next EXCEPT ![p] = 1]
  /\ UNCHANGED <<mainVars, iocVars, joined, pc, m_mtx>>

StopAt(p, s) == Alive /\ frame[p] = s

(* m_acceptor.close(): a pending accept completes with an error. *)
CloseAcceptor(p) ==
  /\ StopAt(p, "close")
  /\ acceptor' = "closed"
  /\ accept' = IF accept = "pending" THEN "failed" ELSE accept
  /\ frame' = [frame EXCEPT ![p] = "halt"]
  /\ UNCHANGED <<mainVars, stopped, joined, next, pc, m_mtx, sigVars>>

(* Mutant: only the work guard is reset. *)
ResetGuardOnly(p) ==
  /\ StopAt(p, "halt")
  /\ frame' = [frame EXCEPT ![p] = "join"]
  /\ UNCHANGED <<mainVars, iocVars, joined, next, pc, m_mtx, sigVars>>

(* m_ioc.stop() and m_work_guards->reset(). *)
StopIoc(p) ==
  /\ StopAt(p, "halt")
  /\ stopped' = TRUE
  /\ frame' = [frame EXCEPT ![p] = "join"]
  /\ UNCHANGED <<mainVars, acceptor, accept, joined, next, pc, m_mtx, sigVars>>

Target(p) == m_threads[next[p]]

(* Mutant: the loop leaves out the last thread. *)
AtEndEarly(p) == next[p] >= Len(m_threads)

AtEnd(p) == next[p] > Len(m_threads)

(* joinable() holds and join() blocks. *)
BeginJoin(p) ==
  /\ StopAt(p, "join") /\ ~AtEnd(p)
  /\ Target(p) \notin joined
  /\ Target(p) # p
  /\ \A q \in Procs \ {p} : frame[q] = "joining" => Target(q) # Target(p)
  /\ frame' = [frame EXCEPT ![p] = "joining"]
  /\ UNCHANGED <<mainVars, iocVars, joined, next, pc, m_mtx, sigVars>>

(* join() throws: the thread would wait for itself, or another one already *)
(* waits.  The exception leaves the signal handler: std::terminate.        *)
JoinThrows(p) ==
  /\ StopAt(p, "join") /\ ~AtEnd(p)
  /\ Target(p) \notin joined
  /\ \/ Target(p) = p
     \/ \E q \in Procs \ {p} : frame[q] = "joining" /\ Target(q) = Target(p)
  /\ main' = "aborted"
  /\ UNCHANGED <<configVars, m_running, m_threads, iocVars, stopVars, pc, m_mtx, sigVars>>

(* The joined thread has ended. *)
EndJoin(p) ==
  /\ StopAt(p, "joining")
  /\ pc[Target(p)] = "done"
  /\ joined' = joined \cup {Target(p)}
  /\ next' = [next EXCEPT ![p] = @ + 1]
  /\ frame' = [frame EXCEPT ![p] = "join"]
  /\ UNCHANGED <<mainVars, iocVars, pc, m_mtx, sigVars>>

(* joinable() does not hold. *)
SkipJoined(p) ==
  /\ StopAt(p, "join") /\ ~AtEnd(p)
  /\ Target(p) \in joined
  /\ next' = [next EXCEPT ![p] = @ + 1]
  /\ UNCHANGED <<mainVars, iocVars, joined, frame, pc, m_mtx, sigVars>>

(* Mutant: the loop does not join. *)
ClearUnjoined(p) ==
  /\ StopAt(p, "join")
  /\ m_threads' = <<>>
  /\ m_running' = FALSE
  /\ frame' = [frame EXCEPT ![p] = "none"]
  /\ UNCHANGED <<main, configVars, iocVars, joined, next, pc, m_mtx, sigVars>>

(* m_threads.clear(), which terminates if one is still joinable, and       *)
(* m_running = false: stop and the handler return.                         *)
ClearThreads(p) ==
  /\ StopAt(p, "join") /\ AtEnd(p)
  /\ main' = IF Joinable = {} THEN main ELSE "aborted"
  /\ m_threads' = <<>>
  /\ m_running' = FALSE
  /\ frame' = [frame EXCEPT ![p] = "none"]
  /\ UNCHANGED <<configVars, iocVars, joined, next, pc, m_mtx, sigVars>>

-----------------------------------------------------------------------------
MainStep ==
  \/ OpenConfig \/ TakeSetting \/ ConfigLoaded \/ ConfigRefused
  \/ Construct \/ BindFails \/ StartRunning \/ FirstAccept
  \/ ReserveThrows \/ Spawn \/ AllSpawned
  \/ TestRunning \/ Wake \/ CleanupLock \/ CleanupUnlock \/ Destroy

(* What an io thread does once it has something to do. *)
IoStep(t) ==
  \/ TakeAccept(t) \/ AcceptNext(t)
  \/ StartMail(t) \/ WantLock(t) \/ Lock(t) \/ Unlock(t) \/ EndRequest(t) \/ IoReturns(t)

StopStep(p) ==
  \/ CloseAcceptor(p) \/ StopIoc(p)
  \/ BeginJoin(p) \/ JoinThrows(p) \/ EndJoin(p) \/ SkipJoined(p) \/ ClearThreads(p)

Next ==
  \/ MainStep
  \/ AcceptCompletes
  \/ \E t \in Io : IoStep(t) \/ TakeRequest(t) \/ MailEnds(t)
  \/ \E p \in Procs : Interrupt(p) \/ StopStep(p)

Spec == Init /\ [][Next]_vars

(* Threads that can run do, and a thread waiting for m_mtx gets it in the  *)
(* end; a completed accept has its place in the queue of m_ioc and is not  *)
(* passed over for ever.  A request handler goes on unless it is mailing:  *)
(* no mail has to end, and clients and signals owe nothing.                *)
FairSpec ==
  /\ Spec
  /\ WF_vars(MainStep) /\ SF_vars(CleanupLock)
  /\ \A t \in Io : WF_vars(IoStep(t)) /\ SF_vars(Lock(t))
  /\ SF_vars(\E t \in Io : TakeAccept(t))
  /\ \A p \in Procs : WF_vars(StopStep(p))

-----------------------------------------------------------------------------
(* Properties *)

(* Types, and m_mtx is held by the one thread that is between lock and     *)
(* unlock.                                                                 *)
TypeOK ==
  /\ main \in MainState
  /\ m_config \subseteq SettingsOf(Sections)
  /\ config_json \in Files \cup {NoFile}
  /\ setting \in 1 .. Len(Order) + 1
  /\ m_num_threads \in -1 .. MaxThreads
  /\ m_running \in BOOLEAN
  /\ acceptor \in {"open", "closed"}
  /\ accept \in {"none", "pending", "connected", "failed"}
  /\ stopped \in BOOLEAN
  /\ m_threads \in Seq(Io)
  /\ joined \subseteq Io
  /\ pc \in [Io -> IoState]
  /\ m_mtx \in Procs \cup {Nobody}
  /\ frame \in [Procs -> StopState]
  /\ next \in [Procs -> 1 .. MaxThreads + 1]
  /\ signals \in 0 .. MaxSignals
  /\ early \in BOOLEAN
  /\ \A t \in Io : pc[t] = "locked" <=> m_mtx = t

(* stop() is complete when it clears m_running: no handler is running then *)
(* or later, also if main was interrupted while it was spawning threads.   *)
ServesNothingAfterStop ==
  stopped /\ ~m_running =>
    \A t \in Io : pc[t] \notin {"accepting", "serve", "mail", "lock", "locked", "reply"}

(* When main returns, ~Server has left no io thread behind that could      *)
(* still use m_ioc or m_router.                                            *)
ExitLeavesNoThread ==
  main = "exited" => \A t \in Io : pc[t] \in {"unborn", "done"}

(* loadFromFile assigns setting after setting before it finds out that the *)
(* file is wrong: main never goes on with such a half configuration.  It   *)
(* has every setting the pool, the server, the tokens and the log read,    *)
(* and all the settings of VerifyService or none of them.                  *)
RunsConfigured ==
  main \notin {"boot", "loading", "exited"} =>
    /\ SettingsOf(Required) \subseteq m_config
    /\ m_config \cap SettingsOf({"verify_service"}) \in {{}, SettingsOf({"verify_service"})}

(* The process ends in std::terminate only if a SIGINT came while run was  *)
(* starting the threads, or a second SIGINT came.                          *)
AbortNeedsRace == main = "aborted" => early \/ signals > 1

(* While the process lives thread t is in a mail that never ends. *)
HangsInMail(t) == <>[](Alive /\ pc[t] = "mail")

(* A SIGINT that finds main asleep, with no other one to come, stops the   *)
(* server: the io threads end, main returns and the process exits          *)
(* normally, unless a mail hangs.                                          *)
StopsFromSleep ==
  \/ (main = "sleep" /\ frame[Main] = "close" /\ signals = MaxSignals
        /\ \A t \in Io : frame[t] = "none")
       ~> (main = "exited")
  \/ \E t \in Io : HangsInMail(t)

(* However many requests keep the io threads busy, a client that connected *)
(* is taken and the next accept is started, until the server stops; only   *)
(* mails that hang on every io thread prevent it.                          *)
ClientsAccepted ==
  \/ (accept \in {"connected", "failed"} /\ m_num_threads > 0)
       ~> (accept = "pending" \/ stopped \/ ~Alive)
  \/ <>[](\A t \in 1 .. m_num_threads : pc[t] = "mail")

(* "stopping server..." while serving, wherever main is in its loop, if no *)
(* mail hangs.                                                             *)
StopsWhileServing ==
  \/ (main \in {"test", "sleep", "cleanup", "locked"} /\ frame[Main] = "close")
       ~> (main = "exited")
  \/ \E t \in Io : HangsInMail(t)
=============================================================================
