------------------------------- MODULE DaoCall -------------------------------
(***************************************************************************)
(* What the calls of the data-access objects have in common.  A call takes *)
(* a connection from the pool in its SqlConnGuard, runs its statements one *)
(* by one on that connection, each atomic in MySQL (autocommit), and       *)
(* returns the connection with its answer.  A statement that throws        *)
(* SQLException, before or after it took effect, ends the call with the    *)
(* answer of its catch block.                                              *)
(***************************************************************************)
EXTENDS Naturals, FiniteSets, ConnectionPool

CONSTANT Null   \* no such row, nullopt

(* The pool has a connection for every thread: by DBManager's              *)
(* NullOnlyWhenUndersized, getConnection then never returns null.          *)
ASSUME PoolIsLargeEnough ==
  /\ IsFiniteSet(Threads) /\ Cardinality(Threads) <= Cardinality(Conns)
  /\ NoConn \notin Conns

VARIABLES
  pc,      \* pc[t]: the statement thread t runs next, or "idle"
  call,    \* call[t]: the operation and arguments of its call, or Null
  result   \* what the call that ended in the last step answered, or Null

callVars == <<poolVars, pc, call, result>>

CallInit ==
  /\ free = Conns
  /\ owner = [t \in Threads |-> NoConn]
  /\ pc = [t \in Threads |-> "idle"]
  /\ call = [t \in Threads |-> Null]
  /\ result = Null

(* Thread t calls a DAO, whose guard takes a connection. *)
Begin(t, c, statement) ==
  /\ pc[t] = "idle"
  /\ \E k \in Conns : Acquire(t, k)
  /\ pc' = [pc EXCEPT ![t] = statement]
  /\ call' = [call EXCEPT ![t] = c]
  /\ result' = Null

Running(t, op) == pc[t] # "idle" /\ call[t].op = op

Then(t, statement) ==
  /\ pc' = [pc EXCEPT ![t] = statement]
  /\ result' = Null
  /\ UNCHANGED <<poolVars, call>>

(* value is the value returned, in a record that tells its kind; fault     *)
(* tells, for the properties only, whether MySQL or the connection failed  *)
(* in the call.                                                            *)
Answer(t, value, fault) ==
  /\ Release(t)
  /\ pc' = [pc EXCEPT ![t] = "idle"]
  /\ call' = [call EXCEPT ![t] = Null]
  /\ result' = [value |-> value, fault |-> fault]

Return(t, value) == Answer(t, value, FALSE)
Catch(t, value) == Answer(t, value, TRUE)

(* The answers of the operations that return bool. *)
ReturnBool(t, b) == Return(t, [ok |-> b])
CatchFalse(t) == Catch(t, [ok |-> FALSE])

(* Types.  A thread owns a connection exactly while it is in a call.       *)
CallTypeOK(statements) ==
  /\ PoolTypeOK
  /\ pc \in [Threads -> statements \cup {"idle"}]
  /\ \A t \in Threads : owner[t] # NoConn <=> pc[t] # "idle"
  /\ \A t \in Threads : call[t] = Null <=> pc[t] = "idle"
  /\ result # Null => DOMAIN result = {"value", "fault"}

(* The call of thread t ends in this step. *)
Ends(t, op) == Running(t, op) /\ pc'[t] = "idle"
=============================================================================
