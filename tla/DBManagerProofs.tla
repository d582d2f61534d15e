--------------------------- MODULE DBManagerProofs ---------------------------
(***************************************************************************)
(* Proofs, for any finite sets of threads and connections, that the pool   *)
(* is exclusive and leaks nothing, that notify_one loses no wake-up, that  *)
(* a null connection needs a pool smaller than the set of threads, and     *)
(* that DBManager implements ConnectionPool.                               *)
(***************************************************************************)
EXTENDS DBManager, TLAPS, FiniteSetTheorems, SequenceTheorems

-----------------------------------------------------------------------------
(* The deque: what push_back and pop_front do to the set of its elements. *)

Distinct(s) == \A i, j \in DOMAIN s : s[i] = s[j] => i = j

(* push_back adds one element, and no duplicate if it was not there. *)
LEMMA PushBack ==
  ASSUME NEW S, NEW s \in Seq(S), NEW e \in S
  PROVE  /\ Append(s, e) \in Seq(S)
         /\ Len(Append(s, e)) = Len(s) + 1
         /\ Range(Append(s, e)) = Range(s) \cup {e}
         /\ Distinct(s) /\ e \notin Range(s) => Distinct(Append(s, e))
<1> DEFINE r == Append(s, e)
<1>1. /\ r \in Seq(S)
      /\ Len(r) = Len(s) + 1
      /\ Len(s) \in Nat
      /\ DOMAIN s = 1 .. Len(s)
      /\ DOMAIN r = 1 .. (Len(s) + 1)
      /\ \A i \in 1 .. Len(s) : r[i] = s[i]
      /\ r[Len(s) + 1] = e
  OBVIOUS
<1> HIDE DEF r
<1>2. Range(r) = Range(s) \cup {e}
  <2>1. \A x \in Range(r) : x \in Range(s) \cup {e}
    BY <1>1 DEF Range
  <2>2. \A x \in Range(s) \cup {e} : x \in Range(r)
    BY <1>1 DEF Range
  <2> QED
    BY <2>1, <2>2
<1>3. ASSUME Distinct(s), e \notin Range(s)
      PROVE  Distinct(r)
  BY <1>1, <1>3 DEF Distinct, Range
<1> QED
  BY <1>1, <1>2, <1>3 DEF r

(* pop_front takes exactly the first element out. *)
LEMMA PopFrontRange ==
  ASSUME NEW S, NEW s \in Seq(S), s # <<>>, Distinct(s)
  PROVE  /\ Head(s) \in Range(s)
         /\ Head(s) \in S
         /\ Tail(s) \in Seq(S)
         /\ Len(Tail(s)) = Len(s) - 1
         /\ Range(Tail(s)) = Range(s) \ {Head(s)}
         /\ Distinct(Tail(s))
<1> DEFINE r == Tail(s)
<1> DEFINE h == Head(s)
<1>1. /\ r \in Seq(S)
      /\ Len(s) \in Nat \ {0}
      /\ Len(r) = Len(s) - 1
      /\ DOMAIN s = 1 .. Len(s)
      /\ DOMAIN r = 1 .. (Len(s) - 1)
      /\ \A i \in 1 .. (Len(s) - 1) : r[i] = s[i + 1]
      /\ h = s[1]
      /\ h \in S
  BY HeadTailProperties, LenProperties, EmptySeq
<1> HIDE DEF r, h
<1>2. h \in Range(s)
  BY <1>1 DEF Range
<1>3. Range(r) = Range(s) \ {h}
  <2>1. ASSUME NEW i \in 1 .. (Len(s) - 1)
        PROVE  r[i] \in Range(s) \ {h}
    <3>1. i + 1 \in DOMAIN s /\ i + 1 # 1 /\ 1 \in DOMAIN s
      BY <1>1
    <3>2. r[i] = s[i + 1] /\ s[i + 1] # s[1]
      BY <1>1, <3>1 DEF Distinct
    <3> QED
      BY <1>1, <3>1, <3>2 DEF Range
  <2>2. ASSUME NEW x \in Range(s) \ {h}
        PROVE  x \in Range(r)
    <3>1. PICK i \in 1 .. Len(s) : x = s[i]
      BY <1>1 DEF Range
    <3>2. i # 1
      BY <1>1, <3>1
    <3>3. i - 1 \in 1 .. (Len(s) - 1) /\ r[i - 1] = s[i]
      BY <1>1, <3>2
    <3> QED
      BY <1>1, <3>1, <3>3 DEF Range
  <2>3. \A x \in Range(r) : x \in Range(s) \ {h}
    BY <1>1, <2>1 DEF Range
  <2> QED
    BY <2>2, <2>3
<1>4. Distinct(r)
  <2> SUFFICES ASSUME NEW i \in 1 .. (Len(s) - 1),
                      NEW j \in 1 .. (Len(s) - 1),
                      r[i] = r[j]
               PROVE  i = j
    BY <1>1 DEF Distinct
  <2>1. i + 1 \in DOMAIN s /\ j + 1 \in DOMAIN s /\ s[i + 1] = s[j + 1]
    BY <1>1
  <2>2. i + 1 = j + 1
    BY <2>1 DEF Distinct
  <2> QED
    BY <2>2
<1> QED
  BY <1>1, <1>2, <1>3, <1>4 DEF r, h

-----------------------------------------------------------------------------
(* Type correctness *)

(* Every step of getConnection, of the guard and of the constructor keeps  *)
(* the types.                                                              *)
LEMMA TypeInductive == TypeOK /\ [Next]_vars => TypeOK'
<1> SUFFICES ASSUME TypeOK, [Next]_vars
             PROVE  TypeOK'
  OBVIOUS
<1> USE PoolAssumption DEF TypeOK, LinkState, ThreadState
<1>1. CASE UNCHANGED vars
  BY <1>1 DEF vars
<1>2. ASSUME NEW c \in Conns, Connect(c)
      PROVE  TypeOK'
  BY <1>2, PushBack DEF Connect
<1>3. CASE PoolComplete \/ PoolCutShort
  BY <1>3 DEF PoolComplete, PoolCutShort
<1>4. ASSUME NEW t \in Threads, GetAtOnce(t) \/ WaitTakes(t)
      PROVE  TypeOK'
  <2>1. Head(m_connections) \in Conns /\ Tail(m_connections) \in Seq(Conns)
    BY <1>4, HeadTailProperties DEF GetAtOnce, WaitTakes, PopFront
  <2> QED
    BY <1>4, <2>1 DEF GetAtOnce, WaitTakes, PopFront
<1>5. ASSUME NEW t \in Threads,
             StartWait(t) \/ WaitAgain(t) \/ WaitTimesOut(t)
      PROVE  TypeOK'
  BY <1>5 DEF StartWait, WaitAgain, WaitTimesOut, Waiting
<1>6. ASSUME NEW t \in Threads, Validate(t) \/ ReconnectFails(t)
      PROVE  TypeOK'
  BY <1>6 DEF Validate, ReconnectFails
<1>7. ASSUME NEW t \in Threads, ReleaseConnection(t)
      PROVE  TypeOK'
  <2>1. Append(m_connections, conn[t]) \in Seq(Conns)
    BY <1>7, PushBack DEF ReleaseConnection
  <2> QED
    BY <1>7, <2>1 DEF ReleaseConnection, Sleepers
<1>8. ASSUME NEW t \in Threads, DereferenceNull(t)
      PROVE  TypeOK'
  BY <1>8 DEF DereferenceNull
<1>9. ASSUME NEW c \in Conns, LinkLost(c)
      PROVE  TypeOK'
  BY <1>9 DEF LinkLost
<1> QED
  BY <1>1, <1>2, <1>3, <1>4, <1>5, <1>6, <1>7, <1>8, <1>9
     DEF Next, Constructor, ThreadStep

LEMMA TypeInit == Init => TypeOK
  BY PoolAssumption, EmptySeq DEF Init, TypeOK, LinkState, ThreadState

(* The deque holds only connections, never a null pointer, and a guard is  *)
(* null exactly when its thread is outside popped and using.               *)
THEOREM TypeCorrect == Spec => []TypeOK
  BY TypeInit, TypeInductive, PTL DEF Spec

-----------------------------------------------------------------------------
(* Exclusion and conservation *)

(* Exclusion alone is not inductive: Connect pushes a connection that must *)
(* not yet be anywhere, which conservation says.                           *)
OwnershipInv == PoolExclusive /\ ConnectionsConserved

LEMMA OwnershipInit == Init => OwnershipInv
<1> SUFFICES ASSUME Init
             PROVE  OwnershipInv
  OBVIOUS
<1>1. DOMAIN m_connections = {} /\ Range(m_connections) = {}
  BY DEF Init, Range
<1>2. PoolExclusive
  BY <1>1 DEF Init, PoolExclusive
<1>3. ConnectionsConserved
  BY <1>1, PoolAssumption DEF Init, ConnectionsConserved, Opened
<1> QED
  BY <1>2, <1>3 DEF OwnershipInv

LEMMA OwnershipInductive ==
  TypeOK /\ OwnershipInv /\ [Next]_vars => OwnershipInv'
<1> SUFFICES ASSUME TypeOK, OwnershipInv, [Next]_vars
             PROVE  OwnershipInv'
  OBVIOUS
<1> USE PoolAssumption
<1>0. /\ m_connections \in Seq(Conns)
      /\ link \in [Conns -> LinkState]
      /\ conn \in [Threads -> Conns \cup {NoConn}]
      /\ \A t \in Threads :
            conn[t] = NoConn <=> pc[t] \notin {"popped", "using"}
  BY DEF TypeOK
<1>1. /\ Distinct(m_connections)
      /\ \A t \in Threads :
            conn[t] # NoConn => conn[t] \notin Range(m_connections)
      /\ \A t, u \in Threads :
            t # u /\ conn[t] # NoConn => conn[t] # conn[u]
  BY DEF OwnershipInv, PoolExclusive, Distinct
<1>2. \A c \in Conns :
         link[c] # "unopened" <=> \/ c \in Range(m_connections)
                                  \/ \E t \in Threads : conn[t] = c
  BY DEF OwnershipInv, ConnectionsConserved, Opened
<1> DEFINE After ==
        /\ Distinct(m_connections')
        /\ \A t \in Threads :
              conn'[t] # NoConn => conn'[t] \notin Range(m_connections')
        /\ \A t, u \in Threads :
              t # u /\ conn'[t] # NoConn => conn'[t] # conn'[u]
        /\ \A c \in Conns :
              link'[c] # "unopened" <=> \/ c \in Range(m_connections')
                                        \/ \E t \in Threads : conn'[t] = c
<1>3. SUFFICES After
  BY DEF OwnershipInv, PoolExclusive, ConnectionsConserved, Opened, Distinct
<1>4. CASE /\ UNCHANGED <<m_connections, conn>>
           /\ \A c \in Conns : link'[c] # "unopened" <=> link[c] # "unopened"
  BY <1>1, <1>2, <1>4
<1>5. CASE UNCHANGED vars
  BY <1>4, <1>5 DEF vars
<1>6. ASSUME NEW c \in Conns, Connect(c)
      PROVE  After
  <2>1. c \notin Range(m_connections) /\ \A t \in Threads : conn[t] # c
    BY <1>2, <1>6 DEF Connect
  <2>2. /\ Range(m_connections') = Range(m_connections) \cup {c}
        /\ Distinct(m_connections')
    BY <1>0, <1>1, <1>6, <2>1, PushBack DEF Connect
  <2>3. /\ conn' = conn
        /\ link' = [link EXCEPT ![c] = "up"]
    BY <1>6 DEF Connect
  <2> QED
    BY <1>0, <1>1, <1>2, <2>1, <2>2, <2>3
<1>7. ASSUME NEW t \in Threads, GetAtOnce(t) \/ WaitTakes(t)
      PROVE  After
  <2> DEFINE c == Head(m_connections)
  <2>1. /\ m_connections # <<>>
        /\ m_connections' = Tail(m_connections)
        /\ conn' = [conn EXCEPT ![t] = c]
        /\ link' = link
        /\ pc[t] \notin {"popped", "using"}
    BY <1>7 DEF GetAtOnce, WaitTakes, PopFront, Waiting
  <2>2. /\ c \in Range(m_connections)
        /\ c \in Conns
        /\ Range(m_connections') = Range(m_connections) \ {c}
        /\ Distinct(m_connections')
    BY <1>0, <1>1, <2>1, PopFrontRange
  <2> HIDE DEF c
  <2>3. conn[t] = NoConn
    BY <1>0, <2>1
  <2> QED
    BY <1>0, <1>1, <1>2, <2>1, <2>2, <2>3
<1>8. ASSUME NEW t \in Threads, ReleaseConnection(t)
      PROVE  After
  <2>1. /\ m_connections' = Append(m_connections, conn[t])
        /\ conn' = [conn EXCEPT ![t] = NoConn]
        /\ link' = link
        /\ pc[t] = "using"
    BY <1>8 DEF ReleaseConnection
  <2>2. conn[t] \in Conns /\ conn[t] # NoConn
    BY <1>0, <2>1
  <2>3. /\ Range(m_connections') = Range(m_connections) \cup {conn[t]}
        /\ Distinct(m_connections')
    BY <1>0, <1>1, <2>1, <2>2, PushBack
  <2> QED
    BY <1>0, <1>1, <1>2, <2>1, <2>2, <2>3
<1>9. ASSUME NEW t \in Threads, Validate(t) \/ ReconnectFails(t)
      PROVE  After
  <2>1. /\ UNCHANGED <<m_connections, conn>>
        /\ conn[t] \in Conns
        /\ pc[t] = "popped"
    BY <1>0, <1>9 DEF Validate, ReconnectFails
  <2>2. link[conn[t]] # "unopened"
    BY <1>2, <2>1
  <2>3. \A c \in Conns : link'[c] # "unopened" <=> link[c] # "unopened"
    BY <1>0, <1>9, <2>1, <2>2 DEF Validate, ReconnectFails
  <2> QED
    BY <1>4, <2>1, <2>3
<1>10. ASSUME NEW c \in Conns, LinkLost(c)
       PROVE  After
  <2>1. /\ UNCHANGED <<m_connections, conn>>
        /\ \A d \in Conns : link'[d] # "unopened" <=> link[d] # "unopened"
    BY <1>0, <1>10 DEF LinkLost
  <2> QED
    BY <1>4, <2>1
<1>11. CASE PoolComplete \/ PoolCutShort
  BY <1>4, <1>11 DEF PoolComplete, PoolCutShort
<1>12. ASSUME NEW t \in Threads,
              \/ StartWait(t) \/ WaitAgain(t)
              \/ WaitTimesOut(t) \/ DereferenceNull(t)
       PROVE  After
  BY <1>4, <1>12 DEF StartWait, WaitAgain, WaitTimesOut, DereferenceNull
<1> QED
  BY <1>5, <1>6, <1>7, <1>8, <1>9, <1>10, <1>11, <1>12
     DEF Next, Constructor, ThreadStep

(* Two DAOs never share a connection: getConnection and the guard hand     *)
(* every connection to one thread at a time, for any pool and any threads. *)
THEOREM Exclusive == Spec => []PoolExclusive
<1>1. OwnershipInv => PoolExclusive
  BY DEF OwnershipInv
<1> QED
  BY <1>1, TypeInit, OwnershipInit, TypeInductive, OwnershipInductive, PTL
     DEF Spec

(* No connection is lost, on any path through reconnect and the guard. *)
THEOREM Conserved == Spec => []ConnectionsConserved
<1>1. OwnershipInv => ConnectionsConserved
  BY DEF OwnershipInv
<1> QED
  BY <1>1, TypeInit, OwnershipInit, TypeInductive, OwnershipInductive, PTL
     DEF Spec

-----------------------------------------------------------------------------
(* Wake-ups *)

(* main runs DBManager::init before Server starts any io thread. *)
StartedInv == ~built => ~crashed /\ \A t \in Threads : pc[t] = "idle"

LEMMA StartedInductive ==
  TypeOK /\ StartedInv /\ [Next]_vars => StartedInv'
<1> SUFFICES ASSUME TypeOK, StartedInv, [Next]_vars, ~built'
             PROVE  ~crashed' /\ \A t \in Threads : pc'[t] = "idle"
  BY DEF StartedInv
<1>1. CASE UNCHANGED vars
  BY <1>1 DEF vars, StartedInv
<1>2. CASE Constructor
  BY <1>2 DEF Constructor, Connect, PoolComplete, PoolCutShort, StartedInv
<1>3. ASSUME NEW t \in Threads, ThreadStep(t)
      PROVE  FALSE
  <2>1. built' = built /\ pc[t] = "idle"
    BY <1>3 DEF ThreadStep, GetAtOnce, StartWait, WaitTakes, WaitAgain,
       WaitTimesOut, Validate, ReconnectFails, ReleaseConnection,
       DereferenceNull, StartedInv
  <2> QED
    BY <1>3, <2>1 DEF ThreadStep, GetAtOnce, StartWait, WaitTakes, WaitAgain,
       WaitTimesOut, Validate, ReconnectFails, ReleaseConnection,
       DereferenceNull, Waiting
<1>4. ASSUME NEW c \in Conns, LinkLost(c)
      PROVE  ~crashed' /\ \A t \in Threads : pc'[t] = "idle"
  BY <1>4 DEF LinkLost, StartedInv
<1> QED
  BY <1>1, <1>2, <1>3, <1>4 DEF Next

(* The threads in wait_for form finite sets, so their sizes are numbers. *)
LEMMA NotifiedFinite ==
  /\ IsFiniteSet(Notified)
  /\ Cardinality(Notified) \in Nat
  BY PoolAssumption, FS_Subset, FS_CardinalityType DEF Notified

(* push_back comes with notify_one, and who sleeps saw an empty deque. *)
LEMMA WakeupInductive ==
  TypeOK /\ StartedInv /\ NoLostWakeup /\ [Next]_vars => NoLostWakeup'
<1> SUFFICES ASSUME TypeOK, StartedInv, NoLostWakeup, [Next]_vars,
                    Sleepers' # {}
             PROVE  Len(m_connections') <= Cardinality(Notified')
  BY DEF NoLostWakeup
<1> USE PoolAssumption
<1>0. /\ m_connections \in Seq(Conns)
      /\ Len(m_connections) \in Nat
      /\ pc \in [Threads -> ThreadState]
      /\ conn \in [Threads -> Conns \cup {NoConn}]
      /\ \A t \in Threads :
            conn[t] = NoConn <=> pc[t] \notin {"popped", "using"}
  BY LenProperties DEF TypeOK
<1>1. /\ IsFiniteSet(Notified')
      /\ Cardinality(Notified') \in Nat
  BY FS_Subset, FS_CardinalityType DEF Notified
<1>2. CASE m_connections' = <<>>
  BY <1>1, <1>2, EmptySeq
<1>3. CASE UNCHANGED <<m_connections, pc>>
  BY <1>3 DEF NoLostWakeup, Sleepers, Notified
<1>4. ASSUME NEW c \in Conns, Connect(c)
      PROVE  FALSE
  BY <1>4 DEF Connect, StartedInv, Sleepers
<1>5. ASSUME NEW t \in Threads, GetAtOnce(t) \/ WaitTakes(t)
      PROVE  Len(m_connections') <= Cardinality(Notified')
  <2>1. /\ m_connections # <<>>
        /\ m_connections' = Tail(m_connections)
        /\ pc' = [pc EXCEPT ![t] = "popped"]
    BY <1>5 DEF GetAtOnce, WaitTakes, PopFront
  <2>2. Len(m_connections') = Len(m_connections) - 1
    BY <1>0, <2>1, HeadTailProperties
  <2>3. Sleepers # {}
    BY <1>0, <2>1 DEF Sleepers
  <2>4. Notified' = Notified \ {t}
    BY <1>0, <2>1 DEF Notified
  <2>5. Cardinality(Notified') >= Cardinality(Notified) - 1
    <3>1. Cardinality(Notified \ {t}) =
            IF t \in Notified THEN Cardinality(Notified) - 1
                              ELSE Cardinality(Notified)
      BY NotifiedFinite, FS_RemoveElement
    <3> QED
      BY <2>4, <3>1, NotifiedFinite
  <2> QED
    BY <1>0, <1>1, <2>2, <2>3, <2>5, NotifiedFinite DEF NoLostWakeup
<1>6. ASSUME NEW t \in Threads, ReleaseConnection(t)
      PROVE  Len(m_connections') <= Cardinality(Notified')
  <2>1. /\ m_connections' = Append(m_connections, conn[t])
        /\ conn[t] \in Conns
        /\ pc[t] = "using"
    BY <1>0, <1>6 DEF ReleaseConnection
  <2>2. Len(m_connections') = Len(m_connections) + 1
    BY <1>0, <2>1, PushBack
  <2>3. Sleepers # {}
    BY <1>0, <1>6, <2>1 DEF ReleaseConnection, Sleepers
  <2>4. PICK w \in Sleepers : pc' = [pc EXCEPT ![t] = "idle", ![w] = "notified"]
    BY <1>6, <2>3 DEF ReleaseConnection
  <2>5. w \in Threads /\ w \notin Notified /\ w # t /\ t \notin Notified
    BY <2>1, <2>4 DEF Sleepers, Notified
  <2>6. Notified' = Notified \cup {w}
    BY <1>0, <2>4, <2>5 DEF Notified
  <2>7. Cardinality(Notified') = Cardinality(Notified) + 1
    BY <2>5, <2>6, NotifiedFinite, FS_AddElement
  <2> QED
    BY <1>0, <2>2, <2>3, <2>7, NotifiedFinite DEF NoLostWakeup
<1>7. ASSUME NEW t \in Threads, Validate(t) \/ ReconnectFails(t)
      PROVE  Len(m_connections') <= Cardinality(Notified')
  <2>1. /\ m_connections' = m_connections
        /\ pc[t] = "popped"
        /\ pc' = [pc EXCEPT ![t] = "using"]
    BY <1>7 DEF Validate, ReconnectFails
  <2>2. Sleepers' = Sleepers /\ Notified' = Notified
    BY <1>0, <2>1 DEF Sleepers, Notified
  <2> QED
    BY <2>1, <2>2 DEF NoLostWakeup
<1>8. ASSUME NEW t \in Threads,
             StartWait(t) \/ WaitAgain(t) \/ WaitTimesOut(t)
      PROVE  Len(m_connections') <= Cardinality(Notified')
  BY <1>2, <1>8 DEF StartWait, WaitAgain, WaitTimesOut
<1> QED
  BY <1>3, <1>4, <1>5, <1>6, <1>7, <1>8
     DEF Next, Constructor, ThreadStep, vars, PoolComplete, PoolCutShort,
         DereferenceNull, LinkLost

(* notify_one after every push_back is enough for any number of waiters:   *)
(* an idle connection always has a notified waiter coming for it, so no    *)
(* thread sleeps out its timeout next to a connection nobody was woken for.*)
THEOREM WakeupsReachWaiters == Spec => []NoLostWakeup
<1>1. Init => StartedInv /\ NoLostWakeup
  BY DEF Init, StartedInv, NoLostWakeup, Sleepers
<1> QED
  BY <1>1, TypeInit, TypeInductive, StartedInductive, WakeupInductive, PTL DEF Spec

-----------------------------------------------------------------------------
(* Null connections *)

(* If the deque is empty and thread t holds nothing, the other threads     *)
(* hold every open connection, one each: there are fewer of those than     *)
(* threads.                                                                *)
LEMMA EmptyDequeCount ==
  ASSUME TypeOK, OwnershipInv, m_connections = <<>>,
         NEW t \in Threads, conn[t] = NoConn
  PROVE  Cardinality(Opened) < Cardinality(Threads)
<1> DEFINE holder == [c \in Opened |-> CHOOSE u \in Threads : conn[u] = c]
<1>1. \A c \in Opened : \E u \in Threads : conn[u] = c
  BY EmptySeq DEF OwnershipInv, ConnectionsConserved, Opened, Range
<1>2. \A c \in Opened : /\ holder[c] \in Threads \ {t}
                        /\ conn[holder[c]] = c
  BY <1>1, PoolAssumption DEF Opened
<1>3. holder \in Injection(Opened, Threads \ {t})
  BY <1>2 DEF Injection, IsInjective
<1>4. /\ IsFiniteSet(Threads \ {t})
      /\ Cardinality(Threads \ {t}) = Cardinality(Threads) - 1
      /\ Cardinality(Threads) \in Nat
  BY PoolAssumption, FS_RemoveElement, FS_CardinalityType
<1>5. /\ IsFiniteSet(Opened)
      /\ Cardinality(Opened) <= Cardinality(Threads \ {t})
  BY <1>3, <1>4, FS_Injection
<1> QED
  BY <1>4, <1>5, FS_CardinalityType

(* Only StartWait begins a wait, and it does so with the deque empty. *)
LEMMA UndersizedInductive ==
  TypeOK /\ StartedInv /\ OwnershipInv /\ NullOnlyWhenUndersized /\ [Next]_vars
    => NullOnlyWhenUndersized'
<1> DEFINE Starved == crashed \/ \E t \in Threads : Waiting(t) \/ pc[t] = "null"
<1> SUFFICES ASSUME TypeOK, StartedInv, OwnershipInv,
                    NullOnlyWhenUndersized, [Next]_vars, Starved'
             PROVE  Cardinality(Opened') < Cardinality(Threads)
  BY DEF NullOnlyWhenUndersized
<1>1. CASE Starved /\ Opened' = Opened
  BY <1>1 DEF NullOnlyWhenUndersized
<1>2. CASE UNCHANGED vars
  BY <1>1, <1>2 DEF vars, Opened, Waiting
<1>3. CASE Constructor
  BY <1>1, <1>3 DEF Constructor, Connect, PoolComplete, PoolCutShort,
     Opened, Waiting, StartedInv
<1>4. ASSUME NEW t \in Threads, StartWait(t)
      PROVE  Cardinality(Opened') < Cardinality(Threads)
  <2>1. conn[t] = NoConn
    BY <1>4 DEF StartWait, TypeOK
  <2>2. m_connections = <<>> /\ Opened' = Opened
    BY <1>4 DEF StartWait, Opened
  <2> QED
    BY <2>1, <2>2, EmptyDequeCount
<1>5. ASSUME NEW t \in Threads, Validate(t) \/ ReconnectFails(t)
      PROVE  Cardinality(Opened') < Cardinality(Threads)
  <2>1. conn[t] \in Conns /\ conn[t] \in Opened
    BY <1>5 DEF TypeOK, Validate, ReconnectFails, OwnershipInv,
       ConnectionsConserved
  <2>2. Opened' = Opened
    BY <1>5, <2>1 DEF TypeOK, Validate, ReconnectFails, Opened
  <2>3. Starved
    BY <1>5 DEF TypeOK, Validate, ReconnectFails, Waiting
  <2> QED
    BY <1>1, <2>2, <2>3
<1>6. ASSUME NEW t \in Threads,
             \/ GetAtOnce(t) \/ WaitTakes(t) \/ WaitAgain(t)
             \/ WaitTimesOut(t) \/ ReleaseConnection(t) \/ DereferenceNull(t)
      PROVE  Cardinality(Opened') < Cardinality(Threads)
  <2>1. Opened' = Opened
    BY <1>6 DEF GetAtOnce, WaitTakes, WaitAgain, WaitTimesOut,
       ReleaseConnection, DereferenceNull, Opened
  <2>2. CASE GetAtOnce(t) \/ WaitTakes(t)
    BY <1>1, <2>1, <2>2 DEF GetAtOnce, WaitTakes, PopFront, Waiting, TypeOK
  <2>3. CASE WaitAgain(t) \/ WaitTimesOut(t)
    BY <1>1, <2>1, <2>3 DEF WaitAgain, WaitTimesOut, Waiting
  <2>4. CASE ReleaseConnection(t)
    BY <1>1, <2>1, <2>4 DEF ReleaseConnection, Waiting, TypeOK, Sleepers
  <2>5. CASE DereferenceNull(t)
    BY <1>1, <2>1, <2>5 DEF DereferenceNull
  <2> QED
    BY <1>6, <2>2, <2>3, <2>4, <2>5
<1>7. ASSUME NEW c \in Conns, LinkLost(c)
      PROVE  Cardinality(Opened') < Cardinality(Threads)
  <2>1. Opened' = Opened /\ UNCHANGED <<pc, crashed>>
    BY <1>7 DEF LinkLost, Opened, TypeOK
  <2> QED
    BY <1>1, <2>1 DEF Waiting
<1> QED
  BY <1>2, <1>3, <1>4, <1>5, <1>6, <1>7 DEF Next, ThreadStep

(* getConnection returns nullptr, and a DAO crashes on it, only if fewer   *)
(* connections were opened at start-up than there are io threads.          *)
THEOREM NullNeedsSmallPool == Spec => []NullOnlyWhenUndersized
<1>1. Init => StartedInv /\ NullOnlyWhenUndersized
  BY DEF Init, StartedInv, NullOnlyWhenUndersized, Waiting
<1> QED
  BY <1>1, TypeInit, OwnershipInit, TypeInductive, StartedInductive,
     OwnershipInductive, UndersizedInductive, PTL DEF Spec

-----------------------------------------------------------------------------
(* Refinement *)

(* A step of the pool is a step of the abstract pool or leaves it alone. *)
LEMMA StepRefines ==
  TypeOK /\ OwnershipInv /\ [Next]_vars => [Pool!PoolNext]_(Pool!poolVars)
<1> SUFFICES ASSUME TypeOK, OwnershipInv, [Next]_vars
             PROVE  Pool!PoolNext \/ UNCHANGED Pool!poolVars
  OBVIOUS
<1> USE PoolAssumption
<1>1. CASE UNCHANGED <<m_connections, conn>>
  BY <1>1 DEF Pool!poolVars
<1>2. ASSUME NEW c \in Conns, Connect(c)
      PROVE  Pool!Add(c)
  <2>1. c \notin Range(m_connections) /\ \A t \in Threads : conn[t] # c
    BY <1>2 DEF Connect, OwnershipInv, ConnectionsConserved, Opened
  <2>2. Range(m_connections') = Range(m_connections) \cup {c}
    BY <1>2, PushBack DEF Connect, TypeOK
  <2> QED
    BY <1>2, <2>1, <2>2 DEF Connect, Pool!Add
<1>3. ASSUME NEW t \in Threads, GetAtOnce(t) \/ WaitTakes(t)
      PROVE  \E c \in Conns : Pool!Acquire(t, c)
  <2> DEFINE c == Head(m_connections)
  <2>1. /\ m_connections # <<>>
        /\ m_connections' = Tail(m_connections)
        /\ conn' = [conn EXCEPT ![t] = c]
    BY <1>3 DEF GetAtOnce, WaitTakes, PopFront
  <2>2. conn[t] = NoConn
    BY <1>3 DEF GetAtOnce, WaitTakes, Waiting, TypeOK
  <2>3. Distinct(m_connections) /\ m_connections \in Seq(Conns)
    BY DEF OwnershipInv, PoolExclusive, Distinct, TypeOK
  <2>4. /\ c \in Conns
        /\ c \in Range(m_connections)
        /\ Range(m_connections') = Range(m_connections) \ {c}
    BY <2>1, <2>3, PopFrontRange
  <2> QED
    BY <2>1, <2>2, <2>4 DEF Pool!Acquire
<1>4. ASSUME NEW t \in Threads, ReleaseConnection(t)
      PROVE  Pool!Release(t)
  <2>1. conn[t] \in Conns /\ conn[t] # NoConn
    BY <1>4 DEF ReleaseConnection, TypeOK
  <2>2. Range(m_connections') = Range(m_connections) \cup {conn[t]}
    BY <1>4, <2>1, PushBack DEF ReleaseConnection, TypeOK
  <2> QED
    BY <1>4, <2>1, <2>2 DEF ReleaseConnection, Pool!Release
<1>5. ASSUME NEW t \in Threads, Validate(t) \/ ReconnectFails(t)
      PROVE  UNCHANGED <<m_connections, conn>>
  BY <1>5 DEF Validate, ReconnectFails
<1> QED
  BY <1>1, <1>2, <1>3, <1>4, <1>5
     DEF Next, Constructor, ThreadStep, vars, PoolComplete, PoolCutShort,
         StartWait, WaitAgain, WaitTimesOut, DereferenceNull, LinkLost,
         Pool!PoolNext

(* DBManager implements ConnectionPool: whatever the interleaving of       *)
(* getConnection and releaseConnection, callers see an atomic pool.        *)
THEOREM PoolRefinement == Spec => ImplementsPool
<1>1. Init => Pool!PoolInit
  BY DEF Init, Pool!PoolInit, Range
<1> QED
  BY <1>1, TypeInit, OwnershipInit, TypeInductive, OwnershipInductive,
     StepRefines, PTL
     DEF Spec, ImplementsPool, Pool!PoolSpec
=============================================================================
