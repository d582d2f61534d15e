--------------------------- MODULE ConnectionPool ---------------------------
(***************************************************************************)
(* What the database connection pool promises its callers: a connection   *)
(* is either free or owned by exactly one thread, a thread owns at most    *)
(* one, and a connection that has been opened never disappears.  DBManager *)
(* implements this specification; the data-access modules build on it.     *)
(***************************************************************************)
CONSTANTS
  Threads,   \* the callers: threads that run the io_context
  Conns,     \* connections the pool may open
  NoConn     \* owner[t] of a thread that owns none: a null SqlConnPtr

VARIABLES
  free,      \* connections in the pool
  owner      \* owner[t]: the connection thread t owns, or NoConn

poolVars == <<free, owner>>

PoolTypeOK ==
  /\ free \subseteq Conns
  /\ owner \in [Threads -> Conns \cup {NoConn}]

PoolInit ==
  /\ free = {}
  /\ owner = [t \in Threads |-> NoConn]

(* The constructor opens connection c and adds it to the pool. *)
Add(c) ==
  /\ c \notin free
  /\ \A t \in Threads : owner[t] # c
  /\ free' = free \cup {c}
  /\ UNCHANGED owner

(* getConnection hands connection c to thread t. *)
Acquire(t, c) ==
  /\ owner[t] = NoConn
  /\ c \in free
  /\ free' = free \ {c}
  /\ owner' = [owner EXCEPT ![t] = c]

(* releaseConnection returns the connection of thread t to the pool. *)
Release(t) ==
  /\ owner[t] # NoConn
  /\ free' = free \cup {owner[t]}
  /\ owner' = [owner EXCEPT ![t] = NoConn]

PoolNext ==
  \/ \E c \in Conns : Add(c)
  \/ \E t \in Threads : Release(t)
  \/ \E t \in Threads, c \in Conns : Acquire(t, c)

PoolSpec == PoolInit /\ [][PoolNext]_poolVars
=============================================================================
