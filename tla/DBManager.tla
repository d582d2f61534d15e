------------------------------ MODULE DBManager ------------------------------
(***************************************************************************)
(* The MySQL connection pool of database/DBManager.{h,cpp} and the RAII    *)
(* guard SqlConnGuard through which every DAO uses it.                     *)
(*                                                                         *)
(* A critical section of m_mtx is one atomic step.  wait_for is split at   *)
(* the point where it gives up the mutex: a thread sleeps on m_cv, may be  *)
(* notified, and decides under the mutex whether to take a connection, to  *)
(* sleep again or to give up.  Validation and the statements of a DAO run  *)
(* outside the mutex.                                                      *)
(***************************************************************************)
EXTENDS Naturals, Sequences, FiniteSets, Functions

CONSTANTS
  Threads,   \* threads that call DAOs: the io threads of Server::run
  Conns,     \* connections the constructor tries to open (pool_size of them)
  NoConn     \* a null SqlConnPtr

ASSUME PoolAssumption ==
  /\ IsFiniteSet(Threads)
  /\ IsFiniteSet(Conns)
  /\ NoConn \notin Conns

VARIABLES
  built,          \* DBManager::init has returned
  m_connections,  \* the deque of idle connections
  link,           \* link[c]: the state of the session with the MySQL server
  pc,             \* pc[t]: where thread t is in getConnection or its DAO
  conn,           \* conn[t]: the SqlConnPtr thread t holds
  crashed         \* the process died dereferencing a null connection

vars == <<built, m_connections, link, pc, conn, crashed>>

(* "unopened" before the constructor reaches it; "noschema" is connected   *)
(* but without a default database.                                         *)
LinkState == {"unopened", "up", "noschema", "down"}

(* "sleeping" and "notified" are both inside m_cv.wait_for; "null" holds a *)
(* guard over a null connection.                                           *)
ThreadState == {"idle", "sleeping", "notified", "popped", "using", "null"}

Opened == {c \in Conns : link[c] # "unopened"}

Sleepers == {t \in Threads : pc[t] = "sleeping"}
Notified == {t \in Threads : pc[t] = "notified"}
Waiting(t) == pc[t] \in {"sleeping", "notified"}

Init ==
  /\ built = FALSE
  /\ m_connections = <<>>
  /\ link = [c \in Conns |-> "unopened"]
  /\ pc = [t \in Threads |-> "idle"]
  /\ conn = [t \in Threads |-> NoConn]
  /\ crashed = FALSE

-----------------------------------------------------------------------------
(* The constructor, run by main before any io thread exists.               *)

(* connect, setSchema, push_back. *)
Connect(c) ==
  /\ ~built
  /\ link[c] = "unopened"
  /\ m_connections' = Append(m_connections, c)
  /\ link' = [link EXCEPT ![c] = "up"]
  /\ UNCHANGED <<built, pc, conn, crashed>>

(* The loop ran pool_size times. *)
PoolComplete ==
  /\ ~built
  /\ Opened = Conns
  /\ built' = TRUE
  /\ UNCHANGED <<m_connections, link, pc, conn, crashed>>

(* connect or setSchema threw: the exception is logged and the pool stays  *)
(* with the connections opened so far.                                     *)
PoolCutShort ==
  /\ ~built
  /\ Opened # Conns
  /\ built' = TRUE
  /\ UNCHANGED <<m_connections, link, pc, conn, crashed>>

-----------------------------------------------------------------------------
(* getConnection *)

(* Mutant: front() without pop_front(). *)
PopFrontKeeps(t) ==
  /\ m_connections # <<>>
  /\ conn' = [conn EXCEPT ![t] = Head(m_connections)]
  /\ pc' = [pc EXCEPT ![t] = "popped"]
  /\ UNCHANGED m_connections

(* front() and pop_front(), under the mutex. *)
PopFront(t) ==
  /\ m_connections # <<>>
  /\ conn' = [conn EXCEPT ![t] = Head(m_connections)]
  /\ m_connections' = Tail(m_connections)
  /\ pc' = [pc EXCEPT ![t] = "popped"]

(* The deque is not empty: no wait. *)
GetAtOnce(t) ==
  /\ built /\ ~crashed
  /\ pc[t] = "idle"
  /\ PopFront(t)
  /\ UNCHANGED <<built, link, crashed>>

(* The deque is empty: wait_for releases the mutex and sleeps. *)
StartWait(t) ==
  /\ built /\ ~crashed
  /\ pc[t] = "idle"
  /\ m_connections = <<>>
  /\ pc' = [pc EXCEPT ![t] = "sleeping"]
  /\ UNCHANGED <<built, m_connections, link, conn, crashed>>

(* A notified, spuriously woken or timed-out waiter finds a connection. *)
WaitTakes(t) ==
  /\ ~crashed
  /\ Waiting(t)
  /\ PopFront(t)
  /\ UNCHANGED <<built, link, crashed>>

(* A notified waiter finds the deque empty: another thread was faster. *)
WaitAgain(t) ==
  /\ ~crashed
  /\ pc[t] = "notified"
  /\ m_connections = <<>>
  /\ pc' = [pc EXCEPT ![t] = "sleeping"]
  /\ UNCHANGED <<built, m_connections, link, conn, crashed>>

(* Mutant: wait instead of wait_for, which only a notification ends. *)
WaitForNotification(t) ==
  /\ ~crashed
  /\ pc[t] = "notified"
  /\ m_connections = <<>>
  /\ pc' = [pc EXCEPT ![t] = "null"]
  /\ UNCHANGED <<built, m_connections, link, conn, crashed>>

(* The timeout passes with the deque empty: getConnection returns nullptr. *)
WaitTimesOut(t) ==
  /\ ~crashed
  /\ Waiting(t)
  /\ m_connections = <<>>
  /\ pc' = [pc EXCEPT ![t] = "null"]
  /\ UNCHANGED <<built, m_connections, link, conn, crashed>>

(* isValid holds, or reconnect and setSchema restore the connection. *)
Validate(t) ==
  /\ ~crashed
  /\ pc[t] = "popped"
  /\ link' = [link EXCEPT ![conn[t]] = IF @ = "down" THEN "up" ELSE @]
  /\ pc' = [pc EXCEPT ![t] = "using"]
  /\ UNCHANGED <<built, m_connections, conn, crashed>>

(* Mutant: a connection that cannot be repaired is dropped, as the         *)
(* commented-out close and reset would do, and nullptr is returned.        *)
ReconnectDrops(t) ==
  /\ ~crashed
  /\ pc[t] = "popped"
  /\ link[conn[t]] = "down"
  /\ conn' = [conn EXCEPT ![t] = NoConn]
  /\ pc' = [pc EXCEPT ![t] = "null"]
  /\ UNCHANGED <<built, m_connections, link, crashed>>

(* The connection is not valid and reconnect or setSchema throws: the      *)
(* exception is logged and the connection is returned all the same.        *)
ReconnectFails(t) ==
  /\ ~crashed
  /\ pc[t] = "popped"
  /\ link[conn[t]] = "down"
  /\ \E s \in {"down", "noschema"} : link' = [link EXCEPT ![conn[t]] = s]
  /\ pc' = [pc EXCEPT ![t] = "using"]
  /\ UNCHANGED <<built, m_connections, conn, crashed>>

-----------------------------------------------------------------------------
(* SqlConnGuard *)

(* Mutant: notify_one only when the deque was empty before the push. *)
ReleaseNotifiesIfEmpty(t) ==
  /\ ~crashed
  /\ pc[t] = "using"
  /\ m_connections' = Append(m_connections, conn[t])
  /\ conn' = [conn EXCEPT ![t] = NoConn]
  /\ \/ /\ Sleepers = {} \/ m_connections # <<>>
        /\ pc' = [pc EXCEPT ![t] = "idle"]
     \/ \E w \in Sleepers :
           /\ m_connections = <<>>
           /\ pc' = [pc EXCEPT ![t] = "idle", ![w] = "notified"]
  /\ UNCHANGED <<built, link, crashed>>

(* Mutant: the guard can be copied, so a second copy still holds it. *)
ReleaseFromCopy(t) ==
  /\ ~crashed
  /\ pc[t] = "using"
  /\ m_connections' = Append(m_connections, conn[t])
  /\ pc' = [pc EXCEPT ![t] = "idle"]
  /\ UNCHANGED <<built, link, conn, crashed>>

(* ~SqlConnGuard on every way out of a DAO: push_back and notify_one. *)
ReleaseConnection(t) ==
  /\ ~crashed
  /\ pc[t] = "using"
  /\ m_connections' = Append(m_connections, conn[t])
  /\ conn' = [conn EXCEPT ![t] = NoConn]
  /\ \/ /\ Sleepers = {}
        /\ pc' = [pc EXCEPT ![t] = "idle"]
     \/ \E w \in Sleepers :
           pc' = [pc EXCEPT ![t] = "idle", ![w] = "notified"]
  /\ UNCHANGED <<built, link, crashed>>

(* Mutant: ~SqlConnGuard without its test of m_conn. *)
ReleaseNull(t) ==
  /\ ~crashed
  /\ pc[t] = "null"
  /\ m_connections' = Append(m_connections, conn[t])
  /\ pc' = [pc EXCEPT ![t] = "idle"]
  /\ UNCHANGED <<built, link, conn, crashed>>

(* guard->prepareStatement through a null connection. *)
DereferenceNull(t) ==
  /\ ~crashed
  /\ pc[t] = "null"
  /\ crashed' = TRUE
  /\ UNCHANGED <<built, m_connections, link, pc, conn>>

(* The server or the network drops a session. *)
LinkLost(c) ==
  /\ ~crashed
  /\ link[c] \in {"up", "noschema"}
  /\ link' = [link EXCEPT ![c] = "down"]
  /\ UNCHANGED <<built, m_connections, pc, conn, crashed>>

-----------------------------------------------------------------------------
Constructor ==
  \/ \E c \in Conns : Connect(c)
  \/ PoolComplete
  \/ PoolCutShort

ThreadStep(t) ==
  \/ GetAtOnce(t)
  \/ StartWait(t)
  \/ WaitTakes(t)
  \/ WaitAgain(t)
  \/ WaitTimesOut(t)
  \/ Validate(t)
  \/ ReconnectFails(t)
  \/ ReleaseConnection(t)
  \/ DereferenceNull(t)

Next ==
  \/ Constructor
  \/ \E t \in Threads : ThreadStep(t)
  \/ \E c \in Conns : LinkLost(c)

Spec == Init /\ [][Next]_vars

(* A waiter returns once its deadline passes; nothing else need happen. *)
FairSpec ==
  /\ Spec
  /\ \A t \in Threads : WF_vars(WaitTakes(t) \/ WaitTimesOut(t))

-----------------------------------------------------------------------------
(* Properties *)

(* The deque and the guards hold connections or, where the code allows it, *)
(* a null pointer, and a guard is null exactly while its thread has not    *)
(* popped: ~SqlConnGuard tests m_conn before it releases.                  *)
TypeOK ==
  /\ built \in BOOLEAN
  /\ m_connections \in Seq(Conns)
  /\ link \in [Conns -> LinkState]
  /\ pc \in [Threads -> ThreadState]
  /\ conn \in [Threads -> Conns \cup {NoConn}]
  /\ \A t \in Threads : conn[t] = NoConn <=> pc[t] \notin {"popped", "using"}
  /\ crashed \in BOOLEAN

(* Two threads never run statements on one connection: a connection is in  *)
(* the deque once, or with one thread, never both.  getConnection and      *)
(* releaseConnection keep this without any per-connection lock.            *)
PoolExclusive ==
  /\ \A i, j \in DOMAIN m_connections :
        m_connections[i] = m_connections[j] => i = j
  /\ \A t \in Threads :
        conn[t] # NoConn => conn[t] \notin Range(m_connections)
  /\ \A t, u \in Threads :
        t # u /\ conn[t] # NoConn => conn[t] # conn[u]

(* The pool never leaks: a connection the constructor opened is in the     *)
(* deque or with a thread, also after reconnects that failed.              *)
ConnectionsConserved ==
  \A c \in Conns :
     c \in Opened <=> \/ c \in Range(m_connections)
                     \/ \E t \in Threads : conn[t] = c

(* notify_one is enough: while a thread sleeps in wait_for, every idle     *)
(* connection has a notified waiter on its way to it.                      *)
NoLostWakeup ==
  Sleepers # {} => Len(m_connections) <= Cardinality(Notified)

(* A thread waits, gets nullptr or crashes on it only if the constructor   *)
(* opened fewer connections than there are threads: with pool_size at      *)
(* least the number of io threads, and no connect failing at start-up, no  *)
(* DAO dereferences a null connection however often MySQL drops sessions.  *)
NullOnlyWhenUndersized ==
  crashed \/ (\E t \in Threads : Waiting(t) \/ pc[t] = "null")
    => Cardinality(Opened) < Cardinality(Threads)

(* getConnection is bounded by its timeout: a waiter comes back, with a    *)
(* connection or without, whatever the other threads do with theirs.       *)
GetConnectionReturns ==
  \A t \in Threads : Waiting(t) ~> (~Waiting(t) \/ crashed)

(* The pool implements its abstract specification: deque, mutex, waits and *)
(* reconnects are invisible to the callers.                                *)
Pool == INSTANCE ConnectionPool WITH free <- Range(m_connections),
                                     owner <- conn
ImplementsPool == Pool!PoolSpec
=============================================================================
