---------------------------- MODULE ServerProofs ----------------------------
(***************************************************************************)
(* Proofs, for any number of io threads and of SIGINTs, that main runs on  *)
(* a complete configuration, that stop leaves no handler running and main  *)
(* no thread behind, and that std::terminate needs a race.                 *)
(***************************************************************************)
EXTENDS Server, TLAPS, FiniteSetTheorems

(* Types of the variables. *)
TypeInv ==
  /\ main \in MainState
  /\ m_config \subseteq SettingsOf(Sections)
  /\ config_json \in Files \cup {NoFile}
  /\ setting \in 1 .. Len(Order) + 1
  /\ m_num_threads \in -1 .. MaxThreads
  /\ m_running \in BOOLEAN
  /\ acceptor \in {"open", "closed"}
  /\ accept \in {"none", "pending", "connected", "failed"}
  /\ stopped \in BOOLEAN
  /\ m_threads \in Seq(Io)
  /\ joined \subseteq Io
  /\ pc \in [Io -> IoState]
  /\ m_mtx \in Procs \cup {Nobody}
  /\ frame \in [Procs -> StopState]
  /\ next \in [Procs -> 1 .. MaxThreads + 1]
  /\ signals \in 0 .. MaxSignals
  /\ early \in BOOLEAN

(* m_mtx is held by the one thread that is between lock and unlock. *)
LockInv ==
  /\ \A t \in Io : pc[t] = "locked" <=> m_mtx = t
  /\ main = "locked" => m_mtx = Main

(* While loadFromFile runs, Config has the settings before the one it is   *)
(* at, and the file has their sections.                                    *)
LoadInv ==
  /\ main = "boot" => m_config = {} /\ setting = 1
  /\ main = "loading" =>
       /\ config_json \in Files
       /\ m_config = {Order[n] : n \in 1 .. setting - 1}
       /\ \A n \in 1 .. setting - 1 : Present(config_json, n)

(* Threads are started in order, no more than are configured. *)
SpawnInv ==
  /\ \E k \in 0 .. MaxThreads :
       Spawned = 1 .. k /\ Len(m_threads) <= k /\ (k > 0 => k <= m_num_threads)
  /\ main \in {"boot", "loading", "configured", "routes", "accept"} => Spawned = {}

InVector(t) == \E i \in 1 .. Len(m_threads) : m_threads[i] = t

(* A joined thread has ended; a thread that was started is in the vector,  *)
(* or was joined before the vector was cleared.                            *)
VectorInv ==
  /\ \A t \in joined : pc[t] = "done"
  /\ Alive => \A t \in Spawned : InVector(t) \/ t \in joined
  /\ ~stopped => \A t \in Spawned : InVector(t)

(* The thread a join waits for is in the vector, was not joined before,    *)
(* and no other join waits for it.                                         *)
JoinInv ==
  Alive => \A p \in Procs :
    frame[p] = "joining" =>
      /\ next[p] <= Len(m_threads)
      /\ Target(p) \notin joined
      /\ \A q \in Procs \ {p} : frame[q] = "joining" => Target(q) # Target(p)

Busy(t) == pc[t] \in {"accepting", "serve", "mail", "lock", "locked", "reply"}

Joining(p) == frame[p] \in {"join", "joining"}

(* How far stop is: it runs only after run has set m_running, which is     *)
(* cleared only when m_ioc is stopped, as it is while stop joins; and no   *)
(* join loop is past a thread that handles something.                      *)
StopInv ==
  /\ main \in {"boot", "loading", "configured", "routes"} =>
       ~m_running /\ \A p \in Procs : frame[p] = "none"
  /\ main \notin {"boot", "loading", "configured", "routes", "exited"} => m_running \/ stopped
  /\ \A p \in Procs : frame[p] # "none" => m_running \/ stopped
  /\ \A p \in Procs : Joining(p) => stopped
  /\ \A p \in Procs : frame[p] \in {"close", "halt"} => next[p] = 1
  /\ stopped /\ ~m_running => \A t \in Io : ~Busy(t)
  /\ \A t \in Io : Busy(t) =>
       \E i \in 1 .. Len(m_threads) :
         m_threads[i] = t /\ \A p \in Procs : Joining(p) => next[p] <= i

(* With one SIGINT that did not come while run was starting the threads,   *)
(* stop runs on the main thread, joins all of them and clears the vector.  *)
RaceInv ==
  /\ signals = 0 => \A p \in Procs : frame[p] = "none"
  /\ ~early /\ main \in {"accept", "spawn"} =>
       m_running /\ \A p \in Procs : frame[p] = "none"
  /\ main = "destroy" => ~m_running
  /\ ~early /\ signals <= 1 =>
       /\ main # "aborted"
       /\ \A t \in Io : frame[t] = "none"
       /\ Joining(Main) => \A i \in 1 .. Len(m_threads) :
                             i < next[Main] => m_threads[i] \in joined
       /\ main \in {"test", "sleep", "cleanup", "locked", "destroy"} /\ ~m_running =>
            Len(m_threads) = 0

Inv ==
  /\ TypeInv /\ LockInv /\ SpawnInv /\ VectorInv /\ JoinInv /\ StopInv /\ RaceInv
  /\ LoadInv /\ RunsConfigured /\ ExitLeavesNoThread

-----------------------------------------------------------------------------
(* Config *)

(* The order of the settings: VerifyService's come last. *)
LEMMA TheOrder ==
  /\ Len(Order) = 21 /\ DOMAIN Order = 1 .. 21
  /\ \A n \in 1 .. 16 : Order[n][1] \in Required
  /\ \A n \in 17 .. 21 : Order[n][1] = "verify_service"
  BY DEF Order, Required, Sections

(* What is there when loadFromFile returns true. *)
LEMMA CompleteFile ==
  ASSUME NEW file \in Files, NEW k \in 1 .. Len(Order) + 1, Loaded(file, k),
         \A n \in 1 .. k - 1 : Present(file, n)
  PROVE  LET c == {Order[n] : n \in 1 .. k - 1}
             v == SettingsOf({"verify_service"})
         IN  SettingsOf(Required) \subseteq c /\ c \cap v \in {{}, v}
<1>1. k = 17 \/ k = 22
  <2>1. k \in 1 .. 22
    BY TheOrder
  <2>2. ASSUME k # 22
        PROVE  k \in 17 .. 21 /\ ~Present(file, k)
    <3>1. k \in 1 .. 21
      BY <2>1, <2>2
    <3>2. Order[k][1] = "verify_service" /\ ~Present(file, k)
      BY <3>1, TheOrder DEF Loaded
    <3>3. k \notin 1 .. 16
      BY <3>2, TheOrder DEF Required
    <3> QED
      BY <3>1, <3>2, <3>3
  <2>3. ASSUME k \in 18 .. 21
        PROVE  FALSE
    <3>1. Present(file, 17)
      BY <2>3
    <3>2. Order[17][1] = "verify_service" /\ Order[k][1] = "verify_service" /\ k \in DOMAIN Order
      BY <2>3, TheOrder
    <3> QED
      BY <2>2, <2>3, <3>1, <3>2 DEF Present
  <2> QED
    BY <2>1, <2>2, <2>3
<1>2. \A n \in DOMAIN Order : Order[n][1] \in Required <=> n \in 1 .. 16
  BY TheOrder DEF Required
<1>3. \A n \in DOMAIN Order : Order[n][1] = "verify_service" <=> n \in 17 .. 21
  BY TheOrder DEF Required
<1>4. SettingsOf(Required) = {Order[n] : n \in 1 .. 16}
  BY <1>2, TheOrder DEF SettingsOf
<1>5. SettingsOf({"verify_service"}) = {Order[n] : n \in 17 .. 21}
  BY <1>3, TheOrder DEF SettingsOf
<1>6. \A m \in 1 .. 16, n \in 17 .. 21 : Order[m] # Order[n]
  BY TheOrder DEF Required
<1>7. CASE k = 17
  <2>1. 1 .. k - 1 = 1 .. 16
    BY <1>7
  <2> QED
    BY <1>4, <1>5, <1>6, <2>1
<1>8. CASE k = 22
  <2>1. 1 .. k - 1 = 1 .. 21 /\ 1 .. 16 \subseteq 1 .. 21 /\ 17 .. 21 \subseteq 1 .. 21
    BY <1>8
  <2> QED
    BY <1>4, <1>5, <2>1
<1> QED
  BY <1>1, <1>7, <1>8

-----------------------------------------------------------------------------
(* Steps *)

(* The threads are numbers, and nobody is a thread. *)
LEMMA Numbers ==
  /\ Main \in Procs /\ Main \notin Io /\ Nobody \notin Procs /\ Io \subseteq Procs
  /\ \A p \in Procs : p = Main \/ p \in Io
  BY ServerAssumption DEF Main, Nobody, Procs, Io

(* An io thread moves on, from something to something. *)
LEMMA IoMoves ==
  ASSUME Inv, Alive, NEW t \in Io, NEW s \in IoState \ {"unborn"},
         pc[t] \notin {"unborn", "done"}, pc' = [pc EXCEPT ![t] = s],
         Busy(t)' => Busy(t) \/ ~stopped,
         accept' \in {"none", "pending", "connected", "failed"},
         m_mtx' \in Procs \cup {Nobody}, LockInv',
         UNCHANGED <<mainVars, acceptor, stopped, stopVars, sigVars>>
  PROVE  Inv'
<1>1. /\ UNCHANGED <<main, m_config, config_json, setting, m_num_threads, m_running, m_threads>>
      /\ UNCHANGED <<acceptor, stopped, joined, frame, next, signals, early>>
  BY DEF mainVars, configVars, loadVars, stopVars, sigVars
<1>2. /\ pc'[t] = s /\ \A x \in Io \ {t} : pc'[x] = pc[x]
      /\ t \in Spawned
  BY DEF Inv, TypeInv, Spawned
<1>3. TypeInv'
  BY <1>1 DEF Inv, TypeInv
<1>4. Spawned' = Spawned
  BY <1>2 DEF Spawned
<1>5. SpawnInv'
  BY <1>1, <1>4 DEF Inv, SpawnInv
<1>6. VectorInv'
  BY <1>1, <1>2, <1>4 DEF Inv, VectorInv, InVector, Alive, TypeInv
<1>7. JoinInv'
  BY <1>1 DEF Inv, JoinInv, Alive, Target
<1>8. StopInv'
  <2>1. \A x \in Io : Busy(x)' => Busy(x) \/ (x = t /\ ~stopped)
    BY <1>2 DEF Busy
  <2>2. ~stopped => InVector(t) /\ \A p \in Procs : ~Joining(p)
    BY <1>2 DEF Inv, VectorInv, StopInv
  <2>3. \A x \in Io : Busy(x)' =>
          \E i \in 1 .. Len(m_threads) :
            m_threads[i] = x /\ \A p \in Procs : Joining(p) => next[p] <= i
    BY <2>1, <2>2 DEF Inv, StopInv, InVector
  <2> QED
    BY <1>1, <2>1, <2>3 DEF Inv, StopInv, Joining
<1>9. RaceInv'
  BY <1>1 DEF Inv, RaceInv, Joining
<1> QED
  BY <1>1, <1>3, <1>5, <1>6, <1>7, <1>8, <1>9 DEF Inv, LoadInv, RunsConfigured, ExitLeavesNoThread, Alive

(* The main thread moves on, and changes at most the lock and the accept. *)
LEMMA MainMoves ==
  ASSUME Inv, Alive, main' \in MainState,
         main' \notin {"boot", "loading", "configured", "routes", "accept"},
         UNCHANGED <<configVars, m_running, m_threads, acceptor, stopped, stopVars, pc, sigVars>>,
         accept' \in {"none", "pending", "connected", "failed"},
         m_mtx' \in Procs \cup {Nobody}, LockInv',
         main' # "exited" => m_running \/ stopped,
         RaceInv', LoadInv', RunsConfigured', ExitLeavesNoThread'
  PROVE  Inv'
<1>1. UNCHANGED <<m_config, config_json, setting, m_num_threads, m_running, m_threads, acceptor, stopped,
                  joined, frame, next, pc, signals, early>>
  BY DEF configVars, loadVars, stopVars, sigVars
<1>2. TypeInv'
  BY <1>1 DEF Inv, TypeInv
<1>3. Spawned' = Spawned
  BY <1>1 DEF Spawned
<1>4. SpawnInv'
  BY <1>1, <1>3 DEF Inv, SpawnInv
<1>5. VectorInv' /\ JoinInv'
  BY <1>1, <1>3 DEF Inv, VectorInv, InVector, JoinInv, Alive, Target
<1>6. StopInv'
  BY <1>1 DEF Inv, StopInv, Joining, Busy
<1> QED
  BY <1>2, <1>4, <1>5, <1>6 DEF Inv

(* Before Server is constructed only main and the configuration change. *)
LEMMA BeforeRun ==
  ASSUME Inv, main \in {"boot", "loading", "configured"},
         main' \in {"loading", "configured", "routes", "exited"},
         m_config' \subseteq SettingsOf(Sections), config_json' \in Files \cup {NoFile},
         setting' \in 1 .. Len(Order) + 1, m_num_threads' \in -1 .. MaxThreads,
         UNCHANGED <<m_running, m_threads, iocVars, stopVars, pc, m_mtx, sigVars>>,
         LoadInv', RunsConfigured'
  PROVE  Inv'
<1>1. UNCHANGED <<m_running, m_threads, acceptor, accept, stopped, joined, frame, next, pc,
                  m_mtx, signals, early>>
  BY DEF iocVars, stopVars, sigVars
<1>2. TypeInv'
  BY <1>1 DEF Inv, TypeInv, MainState
<1>3. Spawned = {} /\ Spawned' = {} /\ \A t \in Io : pc'[t] = "unborn"
  BY <1>1 DEF Inv, SpawnInv, Spawned
<1>4. LockInv'
  BY <1>1 DEF Inv, LockInv
<1>5. SpawnInv'
  <2>1. Len(m_threads) = 0
    <3>1. PICK k \in 0 .. MaxThreads : Spawned = 1 .. k /\ Len(m_threads) <= k
      BY DEF Inv, SpawnInv
    <3>2. k = 0
      BY <1>3, <3>1
    <3> QED
      BY <3>1, <3>2 DEF Inv, TypeInv
  <2>2. {} = 1 .. 0 /\ 0 \in 0 .. MaxThreads
    BY ServerAssumption
  <2> QED
    BY <1>1, <1>3, <2>1, <2>2 DEF SpawnInv
<1>6. VectorInv'
  BY <1>1, <1>3 DEF Inv, VectorInv
<1>7. JoinInv' /\ StopInv'
  BY <1>1 DEF Inv, JoinInv, StopInv, Alive, Busy, Joining
<1>8. RaceInv'
  BY <1>1 DEF Inv, RaceInv, StopInv, Joining
<1> QED
  BY <1>2, <1>3, <1>4, <1>5, <1>6, <1>7, <1>8 DEF Inv, ExitLeavesNoThread

(* The steps of loadFromFile. *)
LEMMA LoadSteps ==
  ASSUME Inv, OpenConfig \/ TakeSetting \/ ConfigLoaded \/ ConfigRefused
  PROVE  Inv'
<1>1. /\ UNCHANGED <<m_num_threads, m_running, m_threads, iocVars, stopVars, pc, m_mtx, sigVars>>
      /\ main \in {"boot", "loading"}
  BY DEF OpenConfig, TakeSetting, ConfigLoaded, ConfigRefused, MainAt
<1>2. 1 \in 1 .. Len(Order) + 1 /\ \A n \in DOMAIN Order : n \in 1 .. Len(Order)
  BY TheOrder
<1>3. CASE OpenConfig
  <2>1. /\ main = "boot" /\ main' = "loading" /\ config_json' \in Files
        /\ UNCHANGED <<m_config, setting>>
    BY <1>3 DEF OpenConfig, MainAt
  <2>2. m_config' = {} /\ setting' = 1
    BY <2>1 DEF Inv, LoadInv
  <2>3. 1 .. setting' - 1 = {}
    BY <2>2
  <2>4. LoadInv' /\ RunsConfigured'
    BY <2>1, <2>2, <2>3 DEF LoadInv, RunsConfigured
  <2> QED
    BY <1>1, <2>1, <2>2, <2>4, BeforeRun DEF Inv, TypeInv
<1>4. CASE TakeSetting
  <2>1. /\ main = "loading" /\ UNCHANGED <<main, config_json>>
        /\ Present(config_json, setting) /\ setting \in DOMAIN Order
        /\ m_config' = m_config \cup {Order[setting]} /\ setting' = setting + 1
    BY <1>4 DEF TakeSetting, Takes, Present, MainAt
  <2>2. setting \in 1 .. Len(Order) /\ Len(Order) \in Nat
    BY <2>1, TheOrder
  <2>3. setting' \in 1 .. Len(Order) + 1 /\ 1 .. setting' - 1 = (1 .. setting - 1) \cup {setting}
    BY <2>1, <2>2
  <2>4. Order[setting] \in SettingsOf(Sections)
    BY <2>1, TheOrder DEF SettingsOf, Present, Sections, Required
  <2>5. LoadInv' /\ RunsConfigured'
    BY <2>1, <2>3 DEF Inv, LoadInv, RunsConfigured, Present
  <2> QED
    BY <1>1, <2>1, <2>3, <2>4, <2>5, BeforeRun DEF Inv, TypeInv
<1>5. CASE ConfigLoaded
  <2>1. /\ main = "loading" /\ main' = "configured" /\ Loaded(config_json, setting)
        /\ config_json' = NoFile /\ setting' = 1 /\ UNCHANGED m_config
    BY <1>5 DEF ConfigLoaded, MainAt
  <2>2. /\ config_json \in Files /\ setting \in 1 .. Len(Order) + 1
        /\ m_config = {Order[n] : n \in 1 .. setting - 1}
        /\ \A n \in 1 .. setting - 1 : Present(config_json, n)
    BY <2>1 DEF Inv, LoadInv, TypeInv
  <2>3. /\ SettingsOf(Required) \subseteq m_config
        /\ m_config \cap SettingsOf({"verify_service"}) \in {{}, SettingsOf({"verify_service"})}
    BY <2>1, <2>2, CompleteFile
  <2>4. LoadInv' /\ RunsConfigured'
    BY <2>1, <2>3 DEF LoadInv, RunsConfigured
  <2> QED
    BY <1>1, <1>2, <2>1, <2>4, BeforeRun DEF Inv, TypeInv
<1>6. CASE ConfigRefused
  <2>1. /\ main = "loading" /\ main' = "exited"
        /\ config_json' = NoFile /\ setting' = 1 /\ UNCHANGED m_config
    BY <1>6 DEF ConfigRefused, MainAt
  <2>2. LoadInv' /\ RunsConfigured'
    BY <2>1 DEF LoadInv, RunsConfigured
  <2> QED
    BY <1>1, <1>2, <2>1, <2>2, BeforeRun DEF Inv, TypeInv
<1> QED
  BY <1>3, <1>4, <1>5, <1>6

(* The steps of main and run. *)
LEMMA MainSteps == Inv /\ MainStep => Inv'
<1> SUFFICES ASSUME Inv, MainStep
             PROVE  Inv'
  OBVIOUS
<1>1. CASE OpenConfig \/ TakeSetting \/ ConfigLoaded \/ ConfigRefused
  BY <1>1, LoadSteps
<1>2. CASE Construct \/ BindFails
  <2>1. /\ main = "configured" /\ main' \in {"routes", "exited"}
        /\ m_num_threads' \in -1 .. MaxThreads
        /\ UNCHANGED <<m_config, config_json, setting>>
        /\ UNCHANGED <<m_running, m_threads, iocVars, stopVars, pc, m_mtx, sigVars>>
    BY <1>2 DEF Construct, BindFails, MainAt, configVars, loadVars, Inv, TypeInv
  <2>2. LoadInv' /\ RunsConfigured'
    BY <2>1 DEF Inv, LoadInv, RunsConfigured
  <2> QED
    BY <2>1, <2>2, BeforeRun DEF Inv, TypeInv
<1>3. CASE StartRunning
  <2>1. /\ main = "routes" /\ main' = "accept" /\ m_running' = TRUE
        /\ UNCHANGED <<m_config, config_json, setting, m_num_threads, m_threads, acceptor, accept, stopped,
                       joined, frame, next, pc, m_mtx, signals, early>>
    BY <1>3 DEF StartRunning, MainAt, configVars, loadVars, iocVars, stopVars, sigVars
  <2>2. Spawned' = Spawned
    BY <2>1 DEF Spawned
  <2>3. TypeInv' /\ LockInv' /\ SpawnInv'
    BY <2>1, <2>2 DEF Inv, TypeInv, MainState, LockInv, SpawnInv
  <2>4. VectorInv' /\ JoinInv'
    BY <2>1, <2>2 DEF Inv, VectorInv, InVector, JoinInv, Alive, Target
  <2>5. StopInv' /\ RaceInv'
    BY <2>1 DEF Inv, StopInv, RaceInv, Joining, Busy
  <2> QED
    BY <2>1, <2>3, <2>4, <2>5 DEF Inv, LoadInv, RunsConfigured, ExitLeavesNoThread
<1>4. CASE FirstAccept
  <2>1. /\ main = "accept" /\ main' = "spawn"
        /\ accept' \in {"none", "pending", "connected", "failed"}
        /\ UNCHANGED <<configVars, m_running, m_threads, acceptor, stopped, stopVars, pc, m_mtx,
                       sigVars>>
    BY <1>4 DEF FirstAccept, MainAt, DoAccept
  <2>2. RaceInv' /\ LockInv'
    BY <2>1 DEF Inv, RaceInv, LockInv, Joining, stopVars, sigVars
  <2>3. LoadInv' /\ RunsConfigured' /\ ExitLeavesNoThread'
    BY <2>1 DEF Inv, LoadInv, RunsConfigured, ExitLeavesNoThread, configVars, loadVars
  <2> QED
    BY <2>1, <2>2, <2>3, MainMoves DEF Inv, TypeInv, MainState, Alive, StopInv
<1>5. CASE ReserveThrows
  <2>1. /\ main = "spawn" /\ main' = "exited" /\ m_num_threads < 0 /\ m_running' = FALSE
        /\ UNCHANGED <<m_config, config_json, setting, m_num_threads, m_threads, joined, frame, next, pc, m_mtx,
                       signals, early>>
        /\ stopped' = (stopped \/ m_running)
    BY <1>5 DEF ReserveThrows, MainAt, configVars, loadVars, stopVars, sigVars
  <2>2. /\ acceptor' \in {"open", "closed"}
        /\ accept' \in {"none", "pending", "connected", "failed"}
    BY <1>5 DEF ReserveThrows, Inv, TypeInv
  <2>3. stopped' = TRUE
    BY <2>1 DEF Inv, StopInv, TypeInv
  <2>4. Spawned = {} /\ Spawned' = {}
    <3>1. PICK k \in 0 .. MaxThreads : Spawned = 1 .. k /\ (k > 0 => k <= m_num_threads)
      BY DEF Inv, SpawnInv
    <3>2. k = 0
      BY <2>1, <3>1, ServerAssumption DEF Inv, TypeInv
    <3> QED
      BY <2>1, <3>1, <3>2 DEF Spawned
  <2>5. \A t \in Io : pc'[t] = "unborn"
    BY <2>4 DEF Spawned
  <2>6. TypeInv' /\ LockInv' /\ SpawnInv'
    BY <2>1, <2>2, <2>3, <2>4 DEF Inv, TypeInv, MainState, LockInv, SpawnInv
  <2>7. VectorInv' /\ JoinInv'
    BY <2>1, <2>3, <2>4 DEF Inv, VectorInv, JoinInv, Alive
  <2>8. StopInv'
    BY <2>1, <2>3, <2>5 DEF Inv, StopInv, Joining, Busy
  <2>9. RaceInv'
    BY <2>1 DEF Inv, RaceInv, Joining
  <2> QED
    BY <2>1, <2>5, <2>6, <2>7, <2>8, <2>9 DEF Inv, LoadInv, RunsConfigured, ExitLeavesNoThread
<1>6. CASE Spawn
  <2>1. PICK t \in 1 .. m_num_threads :
          /\ t = Cardinality(Spawned) + 1
          /\ m_threads' = Append(m_threads, t)
          /\ pc' = [pc EXCEPT ![t] = "run"]
    BY <1>6 DEF Spawn
  <2>2. /\ main = "spawn" /\ frame[Main] = "none"
        /\ UNCHANGED <<main, m_config, config_json, setting, m_num_threads, m_running, acceptor, accept, stopped,
                       joined, frame, next, m_mtx, signals, early>>
    BY <1>6 DEF Spawn, MainAt, configVars, loadVars, iocVars, stopVars, sigVars
  <2>3. PICK k \in 0 .. MaxThreads :
          Spawned = 1 .. k /\ Len(m_threads) <= k /\ (k > 0 => k <= m_num_threads)
    BY DEF Inv, SpawnInv
  <2>4. t = k + 1 /\ t \in Io
    <3>1. Cardinality(1 .. k) = k
      BY FS_Interval
    <3> QED
      BY <2>1, <2>3, <3>1, ServerAssumption DEF Inv, TypeInv, Io
  <2>5. /\ pc'[t] = "run" /\ pc[t] = "unborn" /\ \A x \in Io \ {t} : pc'[x] = pc[x]
        /\ Len(m_threads) \in Nat /\ Len(m_threads') = Len(m_threads) + 1
        /\ m_threads'[Len(m_threads) + 1] = t
        /\ \A i \in 1 .. Len(m_threads) : m_threads'[i] = m_threads[i]
        /\ m_threads' \in Seq(Io)
    <3>1. t \notin Spawned
      BY <2>3, <2>4
    <3> QED
      BY <2>1, <2>4, <3>1 DEF Inv, TypeInv, Spawned
  <2>6. Spawned' = 1 .. (k + 1)
    <3>1. Spawned' = Spawned \cup {t}
      BY <2>4, <2>5 DEF Spawned
    <3> QED
      BY <2>3, <2>4, <3>1
  <2>7. TypeInv'
    BY <2>1, <2>2, <2>4, <2>5 DEF Inv, TypeInv, IoState
  <2>8. LockInv'
    BY <2>2, <2>4, <2>5 DEF Inv, LockInv
  <2>9. SpawnInv'
    <3>1. k + 1 \in 0 .. MaxThreads /\ k + 1 <= m_num_threads
      BY <2>1, <2>4, ServerAssumption DEF Io, Inv, TypeInv
    <3> QED
      BY <2>2, <2>3, <2>5, <2>6, <3>1 DEF SpawnInv
  <2>10. VectorInv'
    <3>1. \A x \in Io : InVector(x) => InVector(x)'
      BY <2>5 DEF InVector
    <3>2. InVector(t)'
      BY <2>5 DEF InVector
    <3>3. \A x \in Spawned' : x = t \/ x \in Spawned
      BY <2>3, <2>4, <2>6
    <3>4. \A x \in Spawned : x \in Io
      BY DEF Spawned
    <3>5. \A x \in joined : x # t /\ x \in Io
      BY <2>5 DEF Inv, VectorInv, TypeInv
    <3>6. \A x \in joined' : pc'[x] = "done"
      BY <2>2, <2>5, <3>5 DEF Inv, VectorInv
    <3>7. \A x \in Spawned : x \in Spawned' /\ (InVector(x) => InVector(x)')
      BY <3>1, <3>4, <2>3, <2>6
    <3>8. Alive' => \A x \in Spawned' : InVector(x)' \/ x \in joined'
      <4>1. Alive' => Alive
        BY <2>2 DEF Alive
      <4>2. Alive => \A x \in Spawned : InVector(x) \/ x \in joined
        BY DEF Inv, VectorInv
      <4> QED
        BY <2>2, <3>2, <3>3, <3>7, <4>1, <4>2
    <3>9. ~stopped' => \A x \in Spawned' : InVector(x)'
      <4>1. ~stopped => \A x \in Spawned : InVector(x)
        BY DEF Inv, VectorInv
      <4> QED
        BY <2>2, <3>2, <3>3, <3>7, <4>1
    <3> QED
      BY <3>6, <3>8, <3>9 DEF VectorInv
  <2>11. JoinInv'
    <3>1. Alive /\ Alive' /\ \A p \in Procs : next[p] \in Nat /\ next[p] >= 1
      BY <2>2, ServerAssumption DEF Inv, TypeInv, Alive
    <3>2. \A p \in Procs : frame[p] = "joining" =>
            next[p] <= Len(m_threads) /\ Target(p)' = Target(p)
      BY <2>2, <2>5, <3>1 DEF Inv, JoinInv, Target
    <3> QED
      BY <2>2, <2>5, <3>1, <3>2 DEF Inv, JoinInv
  <2>12. StopInv'
    <3>1. \A x \in Io : Busy(x)' => Busy(x) /\ x # t
      BY <2>5 DEF Busy
    <3>2. \A x \in Io : Busy(x)' =>
            \E i \in 1 .. Len(m_threads') :
              m_threads'[i] = x /\ \A p \in Procs : Joining(p) => next[p] <= i
      BY <2>5, <3>1 DEF Inv, StopInv
    <3> QED
      BY <2>2, <3>1, <3>2 DEF Inv, StopInv, Joining
  <2>13. RaceInv'
    BY <2>2 DEF Inv, RaceInv, Joining
  <2> QED
    BY <2>2, <2>7, <2>8, <2>9, <2>10, <2>11, <2>12, <2>13
       DEF Inv, LoadInv, RunsConfigured, ExitLeavesNoThread
<1>7. CASE AllSpawned \/ TestRunning \/ Wake \/ CleanupLock \/ CleanupUnlock
  <2>1. /\ UNCHANGED <<configVars, m_running, m_threads, iocVars, stopVars, pc, sigVars>>
        /\ frame[Main] = "none"
        /\ \/ main = "spawn" /\ main' = "test" /\ UNCHANGED m_mtx
           \/ main = "test" /\ main' = (IF m_running THEN "sleep" ELSE "destroy") /\ UNCHANGED m_mtx
           \/ main = "sleep" /\ main' = "cleanup" /\ UNCHANGED m_mtx
           \/ main = "cleanup" /\ main' = "locked" /\ m_mtx = Nobody /\ m_mtx' = Main
           \/ main = "locked" /\ main' = "test" /\ m_mtx' = Nobody
    BY <1>7 DEF AllSpawned, TestRunning, Wake, CleanupLock, CleanupUnlock, MainAt
  <2>2. LockInv' /\ m_mtx' \in Procs \cup {Nobody}
    BY <2>1, Numbers DEF Inv, LockInv, TypeInv
  <2>3. RaceInv'
    BY <2>1 DEF Inv, RaceInv, TypeInv, Joining, stopVars, sigVars
  <2>4. LoadInv' /\ RunsConfigured' /\ ExitLeavesNoThread'
    BY <2>1 DEF Inv, LoadInv, RunsConfigured, ExitLeavesNoThread, configVars, loadVars
  <2>5. /\ main \in {"spawn", "test", "sleep", "cleanup", "locked"}
        /\ main' \in {"test", "sleep", "destroy", "cleanup", "locked"}
    BY <2>1
  <2> QED
    BY <2>1, <2>2, <2>3, <2>4, <2>5, MainMoves DEF Inv, TypeInv, MainState, Alive, StopInv, iocVars
<1>8. CASE Destroy
  <2>1. /\ UNCHANGED <<configVars, m_running, m_threads, iocVars, stopVars, pc, m_mtx, sigVars>>
        /\ main = "destroy" /\ main' = IF Joinable = {} THEN "exited" ELSE "aborted"
    BY <1>8 DEF Destroy, MainAt
  <2>2. LockInv' /\ LoadInv' /\ RunsConfigured'
    BY <2>1 DEF Inv, LockInv, LoadInv, RunsConfigured, configVars, loadVars
  <2>3. RaceInv'
    <3>1. ~early /\ signals <= 1 => Joinable = {}
      <4>1. ~early /\ signals <= 1 => Len(m_threads) = 0
        BY <2>1 DEF Inv, RaceInv
      <4>2. Len(m_threads) = 0 => DOMAIN m_threads = {}
        BY DEF Inv, TypeInv
      <4> QED
        BY <4>1, <4>2 DEF Joinable
    <3> QED
      BY <2>1, <3>1 DEF Inv, RaceInv, Joining, stopVars, sigVars
  <2>4. ExitLeavesNoThread'
    <3>1. ASSUME Joinable = {}, NEW t \in Io, pc[t] # "unborn"
          PROVE  pc[t] = "done"
      <4>1. InVector(t) \/ t \in joined
        BY <2>1, <3>1 DEF Inv, VectorInv, Alive, Spawned
      <4>2. InVector(t) => t \in joined
        BY <3>1 DEF Joinable, InVector, Inv, TypeInv
      <4> QED
        BY <4>1, <4>2 DEF Inv, VectorInv
    <3> QED
      BY <2>1, <3>1 DEF ExitLeavesNoThread
  <2>5. main' \in {"exited", "aborted"}
    BY <2>1
  <2> QED
    BY <2>1, <2>2, <2>3, <2>4, <2>5, MainMoves DEF Inv, TypeInv, MainState, Alive, StopInv, iocVars
<1> QED
  BY <1>1, <1>2, <1>3, <1>4, <1>5, <1>6, <1>7, <1>8 DEF MainStep

(* The steps of an io thread. *)
LEMMA IoSteps ==
  ASSUME Inv, NEW t \in Io, IoStep(t) \/ TakeRequest(t) \/ MailEnds(t)
  PROVE  Inv'
<1>1. /\ Alive /\ frame[t] = "none"
      /\ UNCHANGED <<mainVars, acceptor, stopped, stopVars, sigVars>>
  BY DEF IoStep, TakeAccept, AcceptNext, TakeRequest, StartMail, MailEnds, WantLock, Lock, Unlock, EndRequest,
     IoReturns, IoAt, iocVars
<1>2. pc \in [Io -> IoState] /\ UNCHANGED main
  BY <1>1 DEF Inv, TypeInv, mainVars
<1>3. CASE TakeAccept(t) \/ AcceptNext(t) \/ TakeRequest(t) \/ StartMail(t) \/ MailEnds(t)
             \/ WantLock(t) \/ EndRequest(t) \/ IoReturns(t)
  <2>1. PICK s \in IoState \ {"unborn"} :
          /\ pc' = [pc EXCEPT ![t] = s] /\ UNCHANGED m_mtx
          /\ pc[t] \notin {"unborn", "done", "locked"} /\ s # "locked"
          /\ pc[t] = "run" => ~stopped \/ s = "done"
          /\ accept' \in {"none", "pending", "connected", "failed"}
    BY <1>3 DEF TakeAccept, AcceptNext, TakeRequest, StartMail, MailEnds, WantLock, EndRequest, IoReturns, IoAt,
       Goto, DoAccept, IoState, iocVars, Inv, TypeInv
  <2>2. LockInv'
    BY <1>2, <2>1 DEF Inv, LockInv
  <2>3. Busy(t)' => Busy(t) \/ ~stopped
    BY <1>2, <2>1 DEF Busy, IoState
  <2> QED
    BY <1>1, <2>1, <2>2, <2>3, IoMoves DEF Inv, TypeInv
<1>4. CASE Lock(t)
  <2>1. pc[t] = "lock" /\ pc' = [pc EXCEPT ![t] = "locked"] /\ m_mtx = Nobody /\ m_mtx' = t
    BY <1>4 DEF Lock, IoAt, Goto
  <2>2. LockInv'
    BY <1>2, <2>1, Numbers DEF Inv, LockInv
  <2>3. accept' \in {"none", "pending", "connected", "failed"} /\ m_mtx' \in Procs
    BY <1>4, <2>1, Numbers DEF Lock, iocVars, Inv, TypeInv
  <2>4. Busy(t) /\ "locked" \in IoState
    BY <2>1 DEF Busy, IoState
  <2> QED
    BY <1>1, <2>1, <2>2, <2>3, <2>4, IoMoves
<1>5. CASE Unlock(t)
  <2>1. pc[t] = "locked" /\ pc' = [pc EXCEPT ![t] = "reply"] /\ m_mtx' = Nobody
    BY <1>5 DEF Unlock, IoAt, Goto
  <2>2. LockInv'
    BY <1>2, <2>1, Numbers DEF Inv, LockInv
  <2>3. accept' \in {"none", "pending", "connected", "failed"}
    BY <1>5 DEF Unlock, iocVars, Inv, TypeInv
  <2>4. Busy(t) /\ "reply" \in IoState
    BY <2>1 DEF Busy, IoState
  <2> QED
    BY <1>1, <2>1, <2>2, <2>3, <2>4, IoMoves
<1> QED
  BY <1>3, <1>4, <1>5 DEF IoStep

(* The part of the invariant that is not about stop depends on neither the *)
(* frames nor m_ioc.                                                       *)
LEMMA StopMoves ==
  ASSUME Inv, Alive, TypeInv', VectorInv', JoinInv', StopInv', RaceInv',
         UNCHANGED <<mainVars, pc, m_mtx>>
  PROVE  Inv'
<1>1. UNCHANGED <<main, m_config, config_json, setting, m_num_threads, m_running, m_threads, pc, m_mtx>>
  BY DEF mainVars, configVars, loadVars
<1>2. Spawned' = Spawned
  BY <1>1 DEF Spawned
<1>3. LockInv' /\ SpawnInv'
  BY <1>1, <1>2 DEF Inv, LockInv, SpawnInv
<1> QED
  BY <1>1, <1>3 DEF Inv, LoadInv, RunsConfigured, ExitLeavesNoThread

(* A client connects, a SIGINT comes, and stop closes the acceptor and     *)
(* stops m_ioc.                                                            *)
LEMMA SignalSteps ==
  ASSUME Inv, NEW p \in Procs,
         AcceptCompletes \/ Interrupt(p) \/ CloseAcceptor(p) \/ StopIoc(p)
  PROVE  Inv'
<1>0. /\ UNCHANGED <<main, m_config, config_json, setting, m_num_threads, m_running, m_threads, pc, m_mtx, joined>>
      /\ UNCHANGED <<mainVars, pc, m_mtx>> /\ Alive
  BY DEF AcceptCompletes, Interrupt, CloseAcceptor, StopIoc, StopAt, mainVars, configVars, loadVars,
     stopVars
<1>1. Spawned' = Spawned
  BY <1>0 DEF Spawned
<1>2. \A t \in Io : Busy(t)' <=> Busy(t)
  BY <1>0 DEF Busy
<1>3. CASE AcceptCompletes
  <2>1. /\ UNCHANGED <<acceptor, stopped, frame, next, signals, early>>
        /\ accept' \in {"connected", "failed"}
    BY <1>3 DEF AcceptCompletes, stopVars, sigVars
  <2>2. TypeInv'
    BY <1>0, <2>1 DEF Inv, TypeInv
  <2>3. VectorInv' /\ JoinInv'
    BY <1>0, <1>1, <2>1 DEF Inv, VectorInv, InVector, JoinInv, Alive, Target
  <2>4. StopInv' /\ RaceInv'
    BY <1>0, <1>2, <2>1 DEF Inv, StopInv, RaceInv, Joining
  <2> QED
    BY <1>0, <2>2, <2>3, <2>4, StopMoves
<1>4. CASE Interrupt(p)
  <2>1. /\ UNCHANGED <<acceptor, accept, stopped>>
        /\ signals < MaxSignals /\ signals' = signals + 1
        /\ early' = (early \/ main \in {"accept", "spawn"})
        /\ next' = [next EXCEPT ![p] = 1]
        /\ p \in Receivers
    BY <1>4 DEF Interrupt, iocVars
  <2>2. PICK s \in {"none", "close"} :
          frame' = [frame EXCEPT ![p] = s] /\ (s = "close" => m_running)
    BY <1>4 DEF Interrupt
  <2>3. /\ frame'[p] = s /\ next'[p] = 1 /\ frame[p] = "none"
        /\ \A q \in Procs \ {p} : frame'[q] = frame[q] /\ next'[q] = next[q]
    BY <2>1, <2>2 DEF Inv, TypeInv, Receivers
  <2>4. TypeInv'
    BY <1>0, <2>1, <2>2, ServerAssumption DEF Inv, TypeInv, StopState
  <2>5. VectorInv'
    BY <1>0, <1>1, <2>1 DEF Inv, VectorInv, InVector, Alive
  <2>6. \A q \in Procs : (Joining(q)' => Joining(q) /\ q # p)
    BY <2>2, <2>3 DEF Joining
  <2>7. JoinInv'
    BY <1>0, <2>2, <2>3 DEF Inv, JoinInv, Alive, Target
  <2>8. StopInv'
    <3>1. \A t \in Io : Busy(t)' =>
            \E i \in 1 .. Len(m_threads) :
              m_threads[i] = t /\ \A q \in Procs : Joining(q)' => next'[q] <= i
      BY <1>2, <2>3, <2>6 DEF Inv, StopInv
    <3>2. main \in {"boot", "loading", "configured", "routes"} => s = "none"
      BY <2>2 DEF Inv, StopInv
    <3> QED
      BY <1>0, <1>2, <2>1, <2>2, <2>3, <2>6, <3>1, <3>2 DEF Inv, StopInv
  <2>9. RaceInv'
    <3>1. signals \in Nat
      BY ServerAssumption DEF Inv, TypeInv
    <3>2. signals = 0 => p = Main
      BY <2>1, Numbers DEF Inv, RaceInv, Receivers
    <3>3. ~early' => ~early /\ main \notin {"accept", "spawn"}
      BY <2>1 DEF Inv, TypeInv
    <3>4. signals' <= 1 => signals = 0 /\ signals <= 1
      BY <2>1, <3>1
    <3>5. signals' # 0
      BY <2>1, <3>1
    <3>6. ~early' /\ signals' <= 1 => ~Joining(Main)' /\ \A t \in Io : frame'[t] = "none"
      BY <2>3, <2>6, <3>2, <3>3, <3>4, Numbers DEF Inv, RaceInv, Joining
    <3> QED
      BY <1>0, <3>3, <3>4, <3>5, <3>6 DEF Inv, RaceInv
  <2> QED
    BY <1>0, <2>4, <2>5, <2>7, <2>8, <2>9, StopMoves
<1>5. CASE CloseAcceptor(p) \/ StopIoc(p)
  <2>1. /\ UNCHANGED <<next, signals, early>>
        /\ acceptor' \in {"open", "closed"}
        /\ accept' \in {"none", "pending", "connected", "failed"}
        /\ stopped' \in BOOLEAN /\ (stopped => stopped')
        /\ frame[p] \in {"close", "halt"}
    BY <1>5 DEF CloseAcceptor, StopIoc, StopAt, sigVars, Inv, TypeInv
  <2>2. PICK s \in {"halt", "join"} : frame' = [frame EXCEPT ![p] = s] /\ (s = "join" => stopped')
    BY <1>5 DEF CloseAcceptor, StopIoc
  <2>3. /\ frame'[p] = s /\ next'[p] = 1
        /\ \A q \in Procs \ {p} : frame'[q] = frame[q] /\ next'[q] = next[q]
    BY <2>1, <2>2 DEF Inv, TypeInv, StopInv
  <2>4. TypeInv'
    BY <1>0, <2>1, <2>2 DEF Inv, TypeInv, StopState
  <2>5. VectorInv'
    BY <1>0, <1>1, <2>1 DEF Inv, VectorInv, InVector, Alive
  <2>6. JoinInv'
    BY <1>0, <2>2, <2>3 DEF Inv, JoinInv, Alive, Target
  <2>7. StopInv'
    <3>1. \A t \in Io : Busy(t)' =>
            \E i \in 1 .. Len(m_threads) :
              m_threads[i] = t /\ \A q \in Procs : Joining(q)' => next'[q] <= i
      <4> SUFFICES ASSUME NEW t \in Io, Busy(t)
                   PROVE  \E i \in 1 .. Len(m_threads) :
                            m_threads[i] = t /\ \A q \in Procs : Joining(q)' => next'[q] <= i
        BY <1>2
      <4>1. PICK i \in 1 .. Len(m_threads) :
              m_threads[i] = t /\ \A q \in Procs : Joining(q) => next[q] <= i
        BY DEF Inv, StopInv
      <4>2. \A q \in Procs : Joining(q)' => next'[q] <= i
        BY <2>3, <4>1 DEF Joining
      <4> QED
        BY <4>1, <4>2
    <3>2. m_running \/ stopped
      BY <2>1 DEF Inv, StopInv
    <3>3. main \notin {"boot", "loading", "configured", "routes"}
      BY <2>1 DEF Inv, StopInv
    <3>4. \A q \in Procs : Joining(q)' => stopped'
      BY <2>1, <2>2, <2>3 DEF Inv, StopInv, Joining
    <3>5. \A q \in Procs : frame'[q] \in {"close", "halt"} => next'[q] = 1
      BY <2>1, <2>3 DEF Inv, StopInv
    <3>6. stopped' /\ ~m_running => \A t \in Io : ~Busy(t)
      BY <3>2 DEF Inv, StopInv
    <3> QED
      BY <1>0, <1>2, <2>1, <3>1, <3>2, <3>3, <3>4, <3>5, <3>6 DEF StopInv
  <2>8. RaceInv'
    <3>1. signals # 0
      BY <2>1 DEF Inv, RaceInv
    <3>2. ~early => main \notin {"accept", "spawn"}
      BY <2>1 DEF Inv, RaceInv
    <3>3. ~early /\ signals <= 1 => p = Main
      BY <2>1, Numbers DEF Inv, RaceInv
    <3>4. ~early /\ signals <= 1 =>
            /\ main # "aborted"
            /\ \A t \in Io : frame'[t] = "none"
            /\ next'[Main] = 1
            /\ main \in {"test", "sleep", "cleanup", "locked", "destroy"} /\ ~m_running =>
                 Len(m_threads) = 0
      BY <2>3, <3>3, Numbers DEF Inv, RaceInv
    <3>5. main = "destroy" => ~m_running
      BY DEF Inv, RaceInv
    <3> QED
      BY <1>0, <2>1, <3>1, <3>2, <3>4, <3>5 DEF RaceInv
  <2> QED
    BY <1>0, <2>4, <2>5, <2>6, <2>7, <2>8, StopMoves
<1> QED
  BY <1>3, <1>4, <1>5

(* What join is called on. *)
LEMMA Targets ==
  ASSUME Inv, NEW p \in Procs, ~AtEnd(p)
  PROVE  /\ next[p] \in 1 .. Len(m_threads) /\ next[p] \in 1 .. MaxThreads
         /\ Target(p) \in Io
<1>1. PICK k \in 0 .. MaxThreads : Len(m_threads) <= k
  BY DEF Inv, SpawnInv
<1> QED
  BY <1>1, ServerAssumption DEF Inv, TypeInv, AtEnd, Target

(* With one SIGINT that came late, stop runs on the main thread. *)
LEMMA StopOnMain ==
  ASSUME Inv, NEW p \in Procs, frame[p] # "none"
  PROVE  /\ signals # 0
         /\ ~early => main \notin {"accept", "spawn"}
         /\ ~early /\ signals <= 1 => p = Main
         /\ main \notin {"boot", "loading", "configured", "routes"} /\ (m_running \/ stopped)
  BY Numbers DEF Inv, RaceInv, StopInv

(* stop begins to wait for a thread. *)
LEMMA BeginJoins ==
  ASSUME Inv, NEW p \in Procs, BeginJoin(p)
  PROVE  Inv'
<1>1. /\ UNCHANGED <<main, m_config, config_json, setting, m_num_threads, m_running, m_threads, pc, m_mtx>>
      /\ UNCHANGED <<mainVars, pc, m_mtx>> /\ Alive
      /\ UNCHANGED <<acceptor, accept, stopped, signals, early, joined, next>>
  BY DEF BeginJoin, StopAt, mainVars, configVars, loadVars, iocVars, sigVars
<1>2. /\ frame[p] = "join" /\ frame' = [frame EXCEPT ![p] = "joining"] /\ ~AtEnd(p)
      /\ Target(p) \notin joined
      /\ \A q \in Procs \ {p} : frame[q] = "joining" => Target(q) # Target(p)
  BY DEF BeginJoin, StopAt
<1>3. next[p] \in 1 .. Len(m_threads) /\ Len(m_threads) \in Nat
  BY <1>2, Targets DEF Inv, TypeInv
<1>4. frame'[p] = "joining" /\ \A q \in Procs \ {p} : frame'[q] = frame[q]
  BY <1>2 DEF Inv, TypeInv
<1>5. TypeInv'
  BY <1>1, <1>2 DEF Inv, TypeInv, StopState
<1>6. VectorInv'
  BY <1>1 DEF Inv, VectorInv, InVector, Spawned, Alive
<1>7. JoinInv'
  BY <1>1, <1>2, <1>3, <1>4 DEF Inv, JoinInv, Target
<1>8. \A q \in Procs : Joining(q)' <=> Joining(q)
  BY <1>2, <1>4 DEF Joining
<1>9. StopInv'
  <2>1. \A q \in Procs : frame'[q] = "none" <=> frame[q] = "none"
    BY <1>2, <1>4
  <2>2. \A q \in Procs : frame'[q] \in {"close", "halt"} => next'[q] = 1
    BY <1>1, <1>4 DEF Inv, StopInv
  <2> QED
    BY <1>1, <1>8, <2>1, <2>2 DEF Inv, StopInv, Busy
<1>10. RaceInv'
  BY <1>1, <1>2, <1>4, <1>8, StopOnMain, Numbers DEF Inv, RaceInv
<1> QED
  BY <1>1, <1>5, <1>6, <1>7, <1>9, <1>10, StopMoves

(* stop goes on to the next thread, past one that was joined. *)
LEMMA JoinsNext ==
  ASSUME Inv, NEW p \in Procs, EndJoin(p) \/ SkipJoined(p)
  PROVE  Inv'
<1>1. /\ UNCHANGED <<main, m_config, config_json, setting, m_num_threads, m_running, m_threads, pc, m_mtx>>
      /\ UNCHANGED <<mainVars, pc, m_mtx>> /\ Alive
      /\ UNCHANGED <<acceptor, accept, stopped, signals, early>>
      /\ Joining(p) /\ frame[p] # "none"
  BY DEF EndJoin, SkipJoined, StopAt, mainVars, configVars, loadVars, iocVars, sigVars, Joining
<1>2. ~AtEnd(p)
  <2>1. Len(m_threads) \in Nat /\ next[p] \in Int
    BY DEF Inv, TypeInv
  <2>2. frame[p] = "joining" => next[p] <= Len(m_threads)
    BY <1>1 DEF Inv, JoinInv
  <2> QED
    BY <2>1, <2>2 DEF EndJoin, SkipJoined, StopAt, AtEnd
<1>3. PICK x \in Io : x = Target(p) /\ next[p] \in 1 .. Len(m_threads) /\ next[p] \in 1 .. MaxThreads
  BY <1>2, Targets
<1>4. /\ joined' = joined \cup {x} /\ pc[x] = "done"
      /\ next' = [next EXCEPT ![p] = next[p] + 1]
      /\ frame' = [frame EXCEPT ![p] = "join"]
  <2>1. CASE EndJoin(p)
    BY <1>3, <2>1 DEF EndJoin
  <2>2. CASE SkipJoined(p)
    <3>1. x \in joined /\ UNCHANGED <<joined, frame>> /\ frame[p] = "join"
            /\ next' = [next EXCEPT ![p] = next[p] + 1]
      BY <1>3, <2>2 DEF SkipJoined, StopAt
    <3> QED
      BY <3>1 DEF Inv, VectorInv, TypeInv
  <2> QED
    BY <2>1, <2>2
<1>5. /\ frame'[p] = "join" /\ next'[p] = next[p] + 1
      /\ \A q \in Procs \ {p} : frame'[q] = frame[q] /\ next'[q] = next[q]
  BY <1>4 DEF Inv, TypeInv
<1>6. TypeInv'
  <2>1. next' \in [Procs -> 1 .. MaxThreads + 1]
    BY <1>3, <1>4, ServerAssumption DEF Inv, TypeInv
  <2> QED
    BY <1>1, <1>3, <1>4, <2>1 DEF Inv, TypeInv, StopState
<1>7. VectorInv'
  BY <1>1, <1>4 DEF Inv, VectorInv, InVector, Spawned, Alive
<1>8. JoinInv'
  <2>1. \A q \in Procs \ {p} : frame[q] = "joining" => Target(q) # x /\ Target(q)' = Target(q)
    <3> SUFFICES ASSUME NEW q \in Procs \ {p}, frame[q] = "joining"
                 PROVE  Target(q) # x /\ Target(q)' = Target(q)
      OBVIOUS
    <3>1. Target(q)' = Target(q)
      BY <1>1, <1>5 DEF Target
    <3>2. CASE EndJoin(p)
      BY <1>1, <1>3, <3>1, <3>2 DEF EndJoin, StopAt, Inv, JoinInv
    <3>3. CASE SkipJoined(p)
      BY <1>1, <1>3, <3>1, <3>3 DEF SkipJoined, Inv, JoinInv
    <3> QED
      BY <3>1, <3>2, <3>3
  <2> QED
    BY <1>1, <1>4, <1>5, <2>1 DEF Inv, JoinInv
<1>9. \A q \in Procs : Joining(q)' <=> Joining(q)
  BY <1>1, <1>5 DEF Joining
<1>10. StopInv'
  <2>1. \A q \in Procs : frame'[q] = "none" <=> frame[q] = "none"
    BY <1>1, <1>5
  <2>2. \A q \in Procs : frame'[q] \in {"close", "halt"} => next'[q] = 1
    BY <1>5 DEF Inv, StopInv
  <2>3. ASSUME NEW t \in Io, Busy(t)
        PROVE  \E i \in 1 .. Len(m_threads) :
                 m_threads[i] = t /\ \A q \in Procs : Joining(q) => next'[q] <= i
    <3>1. PICK i \in 1 .. Len(m_threads) :
            m_threads[i] = t /\ \A q \in Procs : Joining(q) => next[q] <= i
      BY <2>3 DEF Inv, StopInv
    <3>2. t # x
      BY <1>4, <2>3 DEF Busy
    <3>3. i # next[p] /\ next[p] <= i
      BY <1>1, <1>3, <3>1, <3>2 DEF Target
    <3>4. next'[p] <= i
      BY <1>3, <1>5, <3>3
    <3> QED
      BY <1>5, <3>1, <3>4
  <2>4. \A t \in Io : Busy(t)' <=> Busy(t)
    BY <1>1 DEF Busy
  <2> QED
    BY <1>1, <1>9, <2>1, <2>2, <2>3, <2>4 DEF Inv, StopInv
<1>11. RaceInv'
  <2>1. ~early /\ signals <= 1 => p = Main
    BY <1>1, StopOnMain
  <2>2. ~early /\ signals <= 1 =>
          \A i \in 1 .. Len(m_threads) : i < next'[Main] => m_threads[i] \in joined'
    <3> SUFFICES ASSUME ~early, signals <= 1, NEW i \in 1 .. Len(m_threads), i < next[p] + 1
                 PROVE  m_threads[i] \in joined'
      BY <1>5, <2>1
    <3>1. CASE i < next[p]
      BY <1>1, <1>4, <2>1, <3>1 DEF Inv, RaceInv
    <3>2. CASE i = next[p]
      BY <1>3, <1>4, <3>2 DEF Target
    <3> QED
      BY <1>3, <3>1, <3>2
  <2>3. ~early /\ signals <= 1 => \A t \in Io : frame'[t] = "none"
    BY <1>5, <2>1, Numbers DEF Inv, RaceInv
  <2> QED
    BY <1>1, <2>2, <2>3, StopOnMain DEF Inv, RaceInv
<1> QED
  BY <1>1, <1>6, <1>7, <1>8, <1>10, <1>11, StopMoves

(* join throws out of the signal handler. *)
LEMMA JoinAborts ==
  ASSUME Inv, NEW p \in Procs, JoinThrows(p)
  PROVE  Inv'
<1>1. /\ UNCHANGED <<m_config, config_json, setting, m_num_threads, m_running, m_threads, pc, m_mtx, acceptor, accept,
                     stopped, signals, early, joined, frame, next>>
      /\ main' = "aborted" /\ Alive /\ frame[p] = "join" /\ ~AtEnd(p)
      /\ Target(p) = p \/ \E q \in Procs \ {p} : frame[q] = "joining"
  BY DEF JoinThrows, StopAt, configVars, loadVars, iocVars, stopVars, sigVars
<1>2. ~(~early /\ signals <= 1)
  <2> SUFFICES ASSUME ~early, signals <= 1
               PROVE  FALSE
    OBVIOUS
  <2>1. p = Main
    BY <1>1, StopOnMain
  <2>2. \A q \in Procs \ {p} : frame[q] = "none"
    BY <2>1, Numbers DEF Inv, RaceInv
  <2>3. Target(p) # p
    BY <1>1, <2>1, Targets, Numbers
  <2> QED
    BY <1>1, <2>2, <2>3
<1>3. main \notin {"boot", "loading"} /\ (m_running \/ stopped)
  BY <1>1, StopOnMain
<1>4. TypeInv' /\ LockInv'
  BY <1>1 DEF Inv, TypeInv, MainState, LockInv
<1>5. SpawnInv' /\ VectorInv' /\ JoinInv'
  BY <1>1 DEF Inv, SpawnInv, VectorInv, Spawned, InVector, JoinInv, Alive
<1>6. StopInv'
  BY <1>1, <1>3 DEF Inv, StopInv, Joining, Busy
<1>7. RaceInv'
  BY <1>1, <1>2 DEF Inv, RaceInv
<1> QED
  BY <1>1, <1>3, <1>4, <1>5, <1>6, <1>7 DEF Inv, LoadInv, RunsConfigured, ExitLeavesNoThread, Alive

(* stop clears the vector, and terminates if a thread in it was not joined. *)
LEMMA Clears ==
  ASSUME Inv, NEW p \in Procs, ClearThreads(p)
  PROVE  Inv'
<1>1. /\ UNCHANGED <<m_config, config_json, setting, m_num_threads, pc, m_mtx, acceptor, accept, stopped, signals,
                     early, joined, next>>
      /\ main' = (IF Joinable = {} THEN main ELSE "aborted") /\ Alive
      /\ m_threads' = <<>> /\ m_running' = FALSE
      /\ frame[p] = "join" /\ frame' = [frame EXCEPT ![p] = "none"]
      /\ next[p] > Len(m_threads)
  BY DEF ClearThreads, StopAt, AtEnd, configVars, loadVars, iocVars, sigVars
<1>2. frame'[p] = "none" /\ \A q \in Procs \ {p} : frame'[q] = frame[q]
  BY <1>1 DEF Inv, TypeInv
<1>3. /\ stopped /\ main \notin {"boot", "loading", "configured", "routes"} /\ Joining(p)
      /\ ~early => main \notin {"accept", "spawn"}
      /\ signals # 0
  BY <1>1, StopOnMain DEF Inv, StopInv, Joining
<1>4. Len(m_threads') = 0 /\ m_threads' \in Seq(Io)
  BY <1>1
<1>5. \A t : InVector(t) => t \in Joinable \/ t \in joined
  BY DEF Inv, TypeInv, InVector, Joinable
<1>6. \A t \in Io : ~Busy(t)
  <2> SUFFICES ASSUME NEW t \in Io, Busy(t)
               PROVE  FALSE
    OBVIOUS
  <2>1. PICK i \in 1 .. Len(m_threads) : next[p] <= i
    BY <1>3 DEF Inv, StopInv
  <2> QED
    BY <1>1, <2>1 DEF Inv, TypeInv
<1>7. ~early /\ signals <= 1 => Joinable = {}
  <2> SUFFICES ASSUME ~early, signals <= 1
               PROVE  Joinable = {}
    OBVIOUS
  <2>1. p = Main
    BY <1>1, StopOnMain
  <2>2. \A i \in 1 .. Len(m_threads) : i < next[Main] => m_threads[i] \in joined
    BY <1>3, <2>1 DEF Inv, RaceInv
  <2>3. \A i \in DOMAIN m_threads : m_threads[i] \in joined
    BY <1>1, <2>1, <2>2 DEF Inv, TypeInv
  <2> QED
    BY <2>3 DEF Joinable
<1>8. TypeInv'
  BY <1>1, <1>4 DEF Inv, TypeInv, StopState, MainState
<1>9. LockInv'
  BY <1>1 DEF Inv, LockInv
<1>10. SpawnInv'
  <2>1. Spawned' = Spawned
    BY <1>1 DEF Spawned
  <2>2. PICK k \in 0 .. MaxThreads : Spawned = 1 .. k /\ (k > 0 => k <= m_num_threads)
    BY DEF Inv, SpawnInv
  <2>3. main' \in {"boot", "loading", "configured", "routes", "accept"} => Spawned = {}
    BY <1>1 DEF Inv, SpawnInv
  <2> QED
    BY <1>1, <1>4, <2>1, <2>2, <2>3 DEF SpawnInv
<1>11. VectorInv'
  <2>1. ASSUME Alive', NEW t \in Spawned
        PROVE  t \in joined
    BY <1>1, <1>5, <2>1 DEF Inv, VectorInv, Alive
  <2>2. Spawned' = Spawned
    BY <1>1 DEF Spawned
  <2> QED
    BY <1>1, <1>3, <2>1, <2>2 DEF Inv, VectorInv
<1>12. JoinInv'
  <2>1. ASSUME Alive', NEW q \in Procs, frame[q] = "joining"
        PROVE  FALSE
    <3>1. Joinable = {}
      BY <1>1, <2>1 DEF Alive
    <3>2. next[q] \in 1 .. Len(m_threads) /\ Target(q) \notin joined
      BY <1>1, <2>1 DEF Inv, JoinInv, TypeInv
    <3>3. Target(q) \in Joinable
      BY <3>2 DEF Joinable, Target, Inv, TypeInv
    <3> QED
      BY <3>1, <3>3
  <2> QED
    BY <1>2, <2>1 DEF JoinInv
<1>13. StopInv'
  <2>1. \A t \in Io : ~Busy(t)'
    BY <1>1, <1>6 DEF Busy
  <2>2. main' \notin {"boot", "loading", "configured", "routes"}
    BY <1>1, <1>3
  <2>3. \A q \in Procs : frame'[q] \in {"close", "halt"} => next'[q] = 1
    BY <1>1, <1>2 DEF Inv, StopInv
  <2> QED
    BY <1>1, <1>3, <2>1, <2>2, <2>3 DEF StopInv
<1>14. RaceInv'
  <2>1. ~early => main' \notin {"accept", "spawn"}
    BY <1>1, <1>3
  <2>2. ~early /\ signals <= 1 =>
          main' # "aborted" /\ (\A t \in Io : frame'[t] = "none")
    BY <1>1, <1>2, <1>7, Numbers DEF Inv, RaceInv, Alive
  <2>3. ~early /\ signals <= 1 => p = Main
    BY <1>1, StopOnMain
  <2>4. ~early /\ signals <= 1 => ~Joining(Main)'
    BY <1>2, <2>3 DEF Joining
  <2> QED
    BY <1>1, <1>3, <1>4, <2>1, <2>2, <2>4 DEF RaceInv
<1>15. LoadInv' /\ RunsConfigured' /\ ExitLeavesNoThread'
  BY <1>1, <1>3 DEF Inv, LoadInv, RunsConfigured, ExitLeavesNoThread, Alive
<1> QED
  BY <1>8, <1>9, <1>10, <1>11, <1>12, <1>13, <1>14, <1>15 DEF Inv

(* The invariant is inductive. *)
LEMMA Inductive == Inv /\ [Next]_vars => Inv'
<1> SUFFICES ASSUME Inv, [Next]_vars
             PROVE  Inv'
  OBVIOUS
<1>1. CASE UNCHANGED vars
  <2>1. UNCHANGED <<main, m_config, config_json, setting, m_num_threads, m_running, acceptor, accept, stopped,
                    m_threads, joined, pc, m_mtx, frame, next, signals, early>>
    BY <1>1 DEF vars
  <2>2. TypeInv' /\ LockInv' /\ SpawnInv' /\ VectorInv' /\ JoinInv'
    BY <2>1 DEF Inv, TypeInv, LockInv, SpawnInv, Spawned, VectorInv, InVector, JoinInv, Alive,
       Target
  <2>3. StopInv' /\ RaceInv'
    BY <2>1 DEF Inv, StopInv, RaceInv, Joining, Busy
  <2> QED
    BY <2>1, <2>2, <2>3 DEF Inv, LoadInv, RunsConfigured, ExitLeavesNoThread
<1>2. CASE MainStep
  BY <1>2, MainSteps
<1>3. CASE AcceptCompletes
  BY <1>3, SignalSteps, Numbers
<1>4. ASSUME NEW t \in Io, IoStep(t) \/ TakeRequest(t) \/ MailEnds(t)
      PROVE  Inv'
  BY <1>4, IoSteps
<1>5. ASSUME NEW p \in Procs, Interrupt(p) \/ StopStep(p)
      PROVE  Inv'
  BY <1>5, SignalSteps, BeginJoins, JoinsNext, JoinAborts, Clears DEF StopStep
<1> QED
  BY <1>1, <1>2, <1>3, <1>4, <1>5 DEF Next

(* Every state of every behaviour satisfies the invariant. *)
THEOREM Invariance == Spec => []Inv
<1>1. Init => Inv
  <2> SUFFICES ASSUME Init
               PROVE  Inv
    OBVIOUS
  <2>1. Len(m_threads) = 0 /\ m_threads \in Seq(Io)
    BY DEF Init
  <2>2. TypeInv
    <3>1. /\ 0 \in -1 .. MaxThreads /\ 1 \in 1 .. MaxThreads + 1 /\ 0 \in 0 .. MaxSignals
          /\ 1 \in 1 .. Len(Order) + 1
      BY ServerAssumption, TheOrder
    <3>2. next \in [Procs -> 1 .. MaxThreads + 1]
      BY <3>1 DEF Init
    <3>3. pc \in [Io -> IoState] /\ frame \in [Procs -> StopState]
      BY DEF Init, IoState, StopState
    <3> QED
      BY <2>1, <3>1, <3>2, <3>3 DEF Init, TypeInv, MainState
  <2>3. LockInv
    BY Numbers DEF Init, LockInv
  <2>4. Spawned = {}
    BY DEF Init, Spawned
  <2>5. SpawnInv
    <3>1. {} = 1 .. 0 /\ 0 \in 0 .. MaxThreads
      BY ServerAssumption
    <3> QED
      BY <2>1, <2>4, <3>1 DEF SpawnInv
  <2>6. VectorInv /\ JoinInv
    BY <2>4 DEF Init, VectorInv, JoinInv
  <2>7. StopInv /\ RaceInv
    <3>1. /\ \A p \in Procs : frame[p] = "none" /\ ~Joining(p)
          /\ \A t \in Io : ~Busy(t) /\ frame[t] = "none"
          /\ ~Joining(Main)
      BY Numbers DEF Init, Joining, Busy
    <3> QED
      BY <3>1 DEF Init, StopInv, RaceInv
  <2> QED
    BY <2>2, <2>3, <2>5, <2>6, <2>7 DEF Inv, Init, LoadInv, RunsConfigured, ExitLeavesNoThread
<1> QED
  BY <1>1, Inductive, PTL DEF Spec

-----------------------------------------------------------------------------
(* Theorems *)

(* The variables have their types, and m_mtx is held by the one thread     *)
(* that is between lock and unlock.                                        *)
THEOREM TypeCorrect == Spec => []TypeOK
<1>1. Inv => TypeOK
  BY DEF Inv, TypeInv, LockInv, TypeOK
<1> QED
  BY <1>1, Invariance, PTL

(* stop() has ended every handler when it clears m_running, wherever and   *)
(* however often SIGINT interrupts the program.                            *)
THEOREM StopIsComplete == Spec => []ServesNothingAfterStop
<1>1. Inv => ServesNothingAfterStop
  BY DEF Inv, StopInv, Busy, ServesNothingAfterStop
<1> QED
  BY <1>1, Invariance, PTL

(* main leaves no io thread behind. *)
THEOREM ExitIsClean == Spec => []ExitLeavesNoThread
<1>1. Inv => ExitLeavesNoThread
  BY DEF Inv
<1> QED
  BY <1>1, Invariance, PTL

(* The settings loadFromFile has assigned when it returns true are all     *)
(* that are required, and all of VerifyService's or none: a half           *)
(* configuration is left only where main returns 1.                        *)
THEOREM ConfigurationIsComplete == Spec => []RunsConfigured
<1>1. Inv => RunsConfigured
  BY DEF Inv
<1> QED
  BY <1>1, Invariance, PTL

(* One SIGINT that does not come while run is starting the threads never   *)
(* ends the process in std::terminate.                                     *)
THEOREM NoAbortWithoutRace == Spec => []AbortNeedsRace
<1>1. Inv => AbortNeedsRace
  <2> SUFFICES ASSUME Inv, main = "aborted", ~early
               PROVE  signals > 1
    BY DEF AbortNeedsRace
  <2>1. ~(signals <= 1) /\ signals \in Nat
    BY ServerAssumption DEF Inv, RaceInv, TypeInv
  <2> QED
    BY <2>1
<1> QED
  BY <1>1, Invariance, PTL
=============================================================================
