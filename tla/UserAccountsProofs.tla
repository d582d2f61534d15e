-------------------------- MODULE UserAccountsProofs --------------------------
(***************************************************************************)
(* Proofs, for any threads, connections, names and passwords, that the     *)
(* accounts stay distinct, that registrations and logins are answered      *)
(* right, that a reported password change is stored, and that no handler   *)
(* waits for a connection.                                                 *)
(***************************************************************************)
EXTENDS UserAccounts, FiniteSetTheorems, TLAPS

Stages == {"idle", "check", "checking", "query", "querying", "create", "insert", "lastid"}

(* The stages in which a DAO call holds its guard. *)
Owning == {"checking", "querying", "insert", "lastid"}

(* The request that may be at a stage. *)
Fits(stage, r) ==
  /\ r \in Requests
  /\ stage \in {"query", "querying"} <=> r.op # "register"

(* The handlers and the pool: types, the stage each request is at, and     *)
(* every connection free or owned by one thread.                           *)
CallInv ==
  /\ PoolTypeOK
  /\ pc \in [Threads -> Stages]
  /\ req \in [Threads -> Requests \cup {Null}]
  /\ answer \in [status : Statuses, id : 0 .. MaxId] \cup {Null}
  /\ \A t \in Threads :
       /\ req[t] = Null <=> pc[t] = "idle"
       /\ owner[t] # NoConn <=> pc[t] \in Owning
       /\ pc[t] # "idle" => Fits(pc[t], req[t])
       /\ owner[t] \notin free
  /\ \A t, u \in Threads : owner[t] = owner[u] /\ owner[t] # NoConn => t = u
  /\ \A c \in Conns : c \in free \/ \E t \in Threads : owner[t] = c

(* The users table: ids are used in order, and its UNIQUE keys hold. *)
TableInv ==
  /\ users \in [Ids -> Rows \cup {Null}]
  /\ nextId \in 1 .. MaxId + 1
  /\ \A i \in Ids : i >= nextId => users[i] = Null
  /\ OneAccountPerName

(* Tokens, and the requests that came with one, are for existing rows. *)
TokenInv ==
  /\ tokens \subseteq Ids
  /\ \A i \in tokens : users[i] # Null
  /\ \A t \in Threads : pc[t] # "idle" /\ req[t].op \in {"profile", "password", "bind"} =>
       req[t].id \in Ids /\ users[req[t].id] # Null

(* LAST_INSERT_ID() of the connection of a running registration is the id  *)
(* of its own row.                                                         *)
CreateInv ==
  /\ lastId \in [Conns -> 0 .. MaxId]
  /\ row \in [Threads -> 0 .. MaxId]
  /\ \A t \in Threads : pc[t] = "lastid" =>
       /\ row[t] = lastId[owner[t]]
       /\ row[t] \in Ids /\ users[row[t]] # Null
       /\ users[row[t]].username = req[t].username
       /\ users[row[t]].email = req[t].email

(* The table holds the hash of the password last set, and a login under    *)
(* way has seen that password.                                             *)
LoginInv ==
  /\ plain \in [Ids -> Passwords \cup {Null}]
  /\ during \in [Threads -> SUBSET (Passwords \cup {Null})]
  /\ \A i \in Ids : users[i] # Null => users[i].passwd_hash = Hash(plain[i])
  /\ \A t \in Threads : pc[t] # "idle" /\ req[t].op = "login" =>
       \A i \in Ids : users[i] # Null /\ users[i].username = req[t].username =>
         plain[i] \in during[t]

Inv == CallInv /\ TableInv /\ TokenInv /\ CreateInv /\ LoginInv

-----------------------------------------------------------------------------
(* The fields of each request have their types. *)
LEMMA RequestFields ==
  ASSUME NEW r \in Requests
  PROVE  /\ r.op \in {"register", "login", "profile", "password", "bind"}
         /\ r.op = "register" => r.username \in Usernames /\ r.password \in Passwords
                                 /\ r.email \in Emails
         /\ r.op = "login" => r.username \in Usernames /\ r.password \in Passwords
         /\ r.op \in {"profile", "password", "bind"} => r.id \in Ids
         /\ r.op = "password" => r.password \in Passwords
         /\ r.op = "bind" => r.platform \in {"qq", "netease"} /\ r.value \in PlatformIds
  BY DEF Requests

(* The other threads' requests are as they were. *)
OthersWait(t) ==
  \A u \in Threads \ {t} :
     pc'[u] = pc[u] /\ req'[u] = req[u] /\ owner'[u] = owner[u]

(* A request arrives; it owns no connection yet. *)
LEMMA StartEffect ==
  ASSUME CallInv, NEW t \in Threads, NEW r, NEW next \in {"check", "query"},
         Fits(next, r), Start(t, r, next)
  PROVE  /\ CallInv' /\ OthersWait(t) /\ pc'[t] = next /\ req'[t] = r
         /\ UNCHANGED <<users, nextId, lastId, tokens, row, plain>>
  BY NullAssumption
     DEF CallInv, PoolTypeOK, Start, OthersWait, Fits, Stages, Owning, poolVars, dbVars

(* A DAO call gets its connection. *)
LEMMA ConnectionEffect ==
  ASSUME CallInv, NEW t \in Threads, GetConnection(t)
  PROVE  /\ CallInv' /\ OthersWait(t) /\ pc[t] \notin {"idle", "lastid"}
         /\ pc'[t] \notin {"idle", "lastid"} /\ req' = req
         /\ UNCHANGED <<users, nextId, lastId, tokens, row, plain, during>>
<1>1. /\ DOMAIN Statement = {"check", "query", "create"}
      /\ Statement["check"] = "checking" /\ Statement["query"] = "querying"
      /\ Statement["create"] = "insert"
  BY DEF Statement
<1>2. PICK c \in Conns : Acquire(t, c)
  BY DEF GetConnection
<1>3. /\ pc[t] \in {"check", "query", "create"} /\ pc' = [pc EXCEPT ![t] = Statement[pc[t]]]
      /\ answer' = Null
      /\ UNCHANGED <<users, nextId, lastId, tokens, req, row, plain, during>>
  BY <1>1 DEF GetConnection, dbVars, history
<1> QED
  BY <1>1, <1>2, <1>3, AccountsAssumption
     DEF CallInv, PoolTypeOK, Acquire, OthersWait, Fits, Stages, Owning

(* A DAO returns: its guard puts the connection back. *)
LEMMA ReleaseEffect ==
  ASSUME CallInv, NEW t \in Threads, Release(t)
  PROVE  /\ PoolTypeOK' /\ owner'[t] = NoConn
         /\ \A u \in Threads : owner'[u] \notin free' /\ (u # t => owner'[u] = owner[u])
         /\ \A u, v \in Threads : owner'[u] = owner'[v] /\ owner'[u] # NoConn => u = v
         /\ \A c \in Conns : c \in free' \/ \E u \in Threads : owner'[u] = c
  BY AccountsAssumption DEF CallInv, PoolTypeOK, Release

(* The handler answers. *)
LEMMA AnswerEffect ==
  ASSUME CallInv, NEW t \in Threads, NEW status \in Statuses, NEW id \in 0 .. MaxId,
         Answer(t, status, id)
  PROVE  /\ CallInv' /\ OthersWait(t) /\ pc'[t] = "idle"
         /\ answer'.status = status /\ answer'.id = id
<1>1. answer' = [status |-> status, id |-> id]
  BY DEF Answer
<1>2. /\ answer' \in [status : Statuses, id : 0 .. MaxId]
      /\ answer'.status = status /\ answer'.id = id
  BY <1>1
<1>3. Release(t) /\ pc' = [pc EXCEPT ![t] = "idle"] /\ req' = [req EXCEPT ![t] = Null]
  BY DEF Answer
<1> QED
  BY <1>2, <1>3, ReleaseEffect DEF CallInv, OthersWait, Stages, Owning

(* The request a thread handles, and the connection it owns. *)
LEMMA AtStage ==
  ASSUME CallInv, NEW t \in Threads, pc[t] # "idle"
  PROVE  /\ Fits(pc[t], req[t]) /\ req[t] \in Requests
         /\ pc[t] \in Owning => owner[t] \in Conns
  BY DEF CallInv, PoolTypeOK, Fits

(* A step that touches no row, id or history keeps what is known of them,  *)
(* if its thread goes on with the same request or has none.                *)
LEMMA QuietStep ==
  ASSUME TokenInv, CreateInv, LoginInv, NEW t \in Threads, OthersWait(t),
         pc[t] # "lastid", pc'[t] # "lastid",
         pc'[t] = "idle" \/ (pc[t] # "idle" /\ req'[t] = req[t]),
         UNCHANGED <<users, lastId, tokens, row, plain, during>>
  PROVE  TokenInv' /\ CreateInv' /\ LoginInv'
<1>1. TokenInv'
  BY DEF TokenInv, OthersWait
<1>2. CreateInv'
  BY DEF CreateInv, OthersWait
<1>3. LoginInv'
  BY DEF LoginInv, OthersWait
<1> QED
  BY <1>1, <1>2, <1>3

(* An UPDATE that leaves the keys of its row alone keeps what is known of  *)
(* the rows; the request that made it ends.                                *)
LEMMA UpdateEffect ==
  ASSUME TableInv, TokenInv, CreateInv, NEW t \in Threads, OthersWait(t),
         pc[t] # "lastid", pc'[t] = "idle",
         NEW i \in Ids, users[i] # Null,
         NEW new \in Rows, new.username = users[i].username, new.email = users[i].email,
         users' = [users EXCEPT ![i] = new],
         UNCHANGED <<nextId, lastId, tokens, row>>
  PROVE  TableInv' /\ TokenInv' /\ CreateInv'
<1>1. /\ users' \in [Ids -> Rows \cup {Null}]
      /\ \A j \in Ids : users'[j] = IF j = i THEN new ELSE users[j]
  BY DEF TableInv
<1>2. \A j \in Ids : /\ users'[j] = Null <=> users[j] = Null
                     /\ users'[j].username = users[j].username
                     /\ users'[j].email = users[j].email
  BY <1>1, NullAssumption
<1>3. TableInv'
  BY <1>1, <1>2 DEF TableInv, OneAccountPerName
<1>4. TokenInv'
  BY <1>2 DEF TokenInv, OthersWait
<1>5. CreateInv'
  BY <1>2 DEF CreateInv, OthersWait
<1> QED
  BY <1>3, <1>4, <1>5

(* A row with another password, or another platform id, is a row with the  *)
(* same keys.                                                              *)
LEMMA NewHash ==
  ASSUME NEW r \in Rows, NEW p \in Passwords
  PROVE  \E new \in Rows :
           /\ new = [r EXCEPT !.passwd_hash = Hash(p)]
           /\ new.username = r.username /\ new.email = r.email
           /\ new.passwd_hash = Hash(p)
<1>1. /\ [r EXCEPT !.passwd_hash = Hash(p)] \in Rows
      /\ [r EXCEPT !.passwd_hash = Hash(p)].username = r.username
      /\ [r EXCEPT !.passwd_hash = Hash(p)].email = r.email
      /\ [r EXCEPT !.passwd_hash = Hash(p)].passwd_hash = Hash(p)
  BY DEF Rows
<1> QED
  BY <1>1, Zenon

Bound(r, platform, v) ==
  IF platform = "qq" THEN [r EXCEPT !.qq_id = v] ELSE [r EXCEPT !.netease_id = v]

LEMMA NewPlatform ==
  ASSUME NEW r \in Rows, NEW v \in PlatformIds, NEW platform
  PROVE  \E new \in Rows :
           /\ new = Bound(r, platform, v)
           /\ new.username = r.username /\ new.email = r.email
           /\ new.passwd_hash = r.passwd_hash /\ Identity(new, platform) = v
<1>1. /\ [r EXCEPT !.qq_id = v] \in Rows /\ [r EXCEPT !.qq_id = v].qq_id = v
      /\ [r EXCEPT !.qq_id = v].username = r.username
      /\ [r EXCEPT !.qq_id = v].email = r.email
      /\ [r EXCEPT !.qq_id = v].passwd_hash = r.passwd_hash
  BY DEF Rows
<1>2. /\ [r EXCEPT !.netease_id = v] \in Rows /\ [r EXCEPT !.netease_id = v].netease_id = v
      /\ [r EXCEPT !.netease_id = v].username = r.username
      /\ [r EXCEPT !.netease_id = v].email = r.email
      /\ [r EXCEPT !.netease_id = v].passwd_hash = r.passwd_hash
  BY DEF Rows
<1>3. CASE platform = "qq"
  BY <1>1, <1>3, Zenon DEF Bound, Identity
<1>4. CASE platform # "qq"
  BY <1>2, <1>4, Zenon DEF Bound, Identity
<1> QED
  BY <1>3, <1>4

(* The row of a new account. *)
LEMMA NewAccount ==
  ASSUME NEW r, r.username \in Usernames, r.password \in Passwords, r.email \in Emails
  PROVE  \E new \in Rows :
           /\ new = NewRow(r)
           /\ new.username = r.username /\ new.email = r.email
           /\ new.passwd_hash = Hash(r.password)
<1>1. NewRow(r) \in Rows
  BY DEF Rows, NewRow
<1>2. /\ NewRow(r).username = r.username /\ NewRow(r).email = r.email
      /\ NewRow(r).passwd_hash = Hash(r.password)
  BY DEF NewRow
<1> QED
  BY <1>1, <1>2, Zenon

(* Every step of every handler keeps the invariant. *)
LEMMA Inductive == Inv /\ [Next]_vars => Inv'
<1> SUFFICES ASSUME Inv, [Next]_vars
             PROVE  Inv'
  OBVIOUS
<1>i. CallInv /\ TableInv /\ TokenInv /\ CreateInv /\ LoginInv
  BY DEF Inv
<1>z. 0 \in 0 .. MaxId /\ \A i \in Ids : i \in 0 .. MaxId
  BY AccountsAssumption DEF Ids
<1>1. CASE UNCHANGED vars
  <2>1. UNCHANGED <<free, owner, users, nextId, lastId, tokens, pc, req, answer, row, plain, during>>
    BY <1>1 DEF vars, poolVars, dbVars, history
  <2>2. CallInv' /\ TableInv'
    BY <1>i, <2>1 DEF CallInv, PoolTypeOK, TableInv, OneAccountPerName
  <2>3. TokenInv' /\ CreateInv' /\ LoginInv'
    BY <1>i, <2>1 DEF TokenInv, CreateInv, LoginInv
  <2> QED
    BY <2>2, <2>3 DEF Inv
<1>2. ASSUME NEW t \in Threads, RejectEarly(t)
      PROVE  Inv'
  <2>1. /\ UNCHANGED <<free, owner, users, nextId, lastId, tokens, pc, req, row, plain, during>>
        /\ answer' = [status |-> "refused", id |-> 0] /\ pc[t] = "idle"
    BY <1>2 DEF RejectEarly, poolVars, dbVars, history
  <2>2. answer' \in [status : Statuses, id : 0 .. MaxId]
    BY <2>1, <1>z DEF Statuses
  <2>3. CallInv' /\ TableInv'
    BY <1>i, <2>1, <2>2 DEF CallInv, PoolTypeOK, TableInv, OneAccountPerName
  <2>4. TokenInv' /\ CreateInv' /\ LoginInv'
    BY <1>i, <2>1 DEF TokenInv, CreateInv, LoginInv
  <2> QED
    BY <2>3, <2>4 DEF Inv
<1>3. ASSUME NEW t \in Threads, StartRegister(t)
      PROVE  Inv'
  <2>1. PICK u \in Usernames, p \in Passwords, m \in Emails :
          /\ Start(t, [op |-> "register", username |-> u, password |-> p, email |-> m], "check")
          /\ UNCHANGED during
    BY <1>3 DEF StartRegister
  <2>2. PICK r \in Requests :
          r = [op |-> "register", username |-> u, password |-> p, email |-> m]
    BY DEF Requests
  <2>3. Fits("check", r) /\ r.op = "register"
    BY <2>2 DEF Fits
  <2>4. /\ CallInv' /\ OthersWait(t) /\ pc'[t] = "check" /\ req'[t] = r
        /\ UNCHANGED <<users, nextId, lastId, tokens, row, plain, during>>
    BY <1>i, <2>1, <2>2, <2>3, StartEffect
  <2>5. TableInv'
    BY <1>i, <2>4 DEF TableInv, OneAccountPerName
  <2>6. TokenInv'
    BY <1>i, <2>3, <2>4 DEF TokenInv, OthersWait
  <2>7. CreateInv'
    BY <1>i, <2>4 DEF CreateInv, OthersWait
  <2>8. LoginInv'
    BY <1>i, <2>3, <2>4 DEF LoginInv, OthersWait
  <2> QED
    BY <2>4, <2>5, <2>6, <2>7, <2>8 DEF Inv
<1>4. ASSUME NEW t \in Threads, StartLogin(t)
      PROVE  Inv'
  <2>1. PICK u \in Usernames, p \in Passwords :
          /\ Start(t, [op |-> "login", username |-> u, password |-> p], "query")
          /\ during' = [during EXCEPT ![t] = {plain[i] : i \in RowOf(u)}]
    BY <1>4 DEF StartLogin
  <2>2. PICK r \in Requests : r = [op |-> "login", username |-> u, password |-> p]
    BY DEF Requests
  <2>3. Fits("query", r) /\ r.op = "login" /\ r.username = u
    BY <2>2 DEF Fits
  <2>4. /\ CallInv' /\ OthersWait(t) /\ pc'[t] = "query" /\ req'[t] = r
        /\ UNCHANGED <<users, nextId, lastId, tokens, row, plain>>
    BY <1>i, <2>1, <2>2, <2>3, StartEffect
  <2>5. TableInv'
    BY <1>i, <2>4 DEF TableInv, OneAccountPerName
  <2>6. TokenInv'
    BY <1>i, <2>3, <2>4 DEF TokenInv, OthersWait
  <2>7. CreateInv'
    BY <1>i, <2>4 DEF CreateInv, OthersWait
  <2>8. LoginInv'
    <3>1. /\ during'[t] = {plain[i] : i \in RowOf(u)}
          /\ \A v \in Threads \ {t} : during'[v] = during[v]
          /\ during' \in [Threads -> SUBSET (Passwords \cup {Null})]
      BY <1>i, <2>1 DEF LoginInv, RowOf
    <3> QED
      BY <1>i, <2>3, <2>4, <3>1 DEF LoginInv, OthersWait, RowOf
  <2> QED
    BY <2>4, <2>5, <2>6, <2>7, <2>8 DEF Inv
<1>5. ASSUME NEW t \in Threads, StartWithToken(t)
      PROVE  Inv'
  <2>1. PICK i \in tokens :
          /\ \/ Start(t, [op |-> "profile", id |-> i], "query")
             \/ \E p \in Passwords :
                  Start(t, [op |-> "password", id |-> i, password |-> p], "query")
             \/ \E f \in {"qq", "netease"}, v \in PlatformIds :
                  Start(t, [op |-> "bind", id |-> i, platform |-> f, value |-> v], "query")
          /\ UNCHANGED during
    BY <1>5 DEF StartWithToken
  <2>2. i \in Ids /\ users[i] # Null
    BY <1>i DEF TokenInv
  <2>3. PICK r \in Requests :
          /\ Start(t, r, "query")
          /\ r.op \in {"profile", "password", "bind"} /\ r.id = i
    <3>1. CASE Start(t, [op |-> "profile", id |-> i], "query")
      <4>1. PICK r \in Requests : r = [op |-> "profile", id |-> i]
        BY <2>2 DEF Requests
      <4> QED
        BY <3>1, <4>1
    <3>2. ASSUME NEW p \in Passwords,
                 Start(t, [op |-> "password", id |-> i, password |-> p], "query")
          PROVE  \E r \in Requests : /\ Start(t, r, "query")
                                     /\ r.op \in {"profile", "password", "bind"} /\ r.id = i
      <4>1. PICK r \in Requests : r = [op |-> "password", id |-> i, password |-> p]
        BY <2>2 DEF Requests
      <4> QED
        BY <3>2, <4>1
    <3>3. ASSUME NEW f \in {"qq", "netease"}, NEW v \in PlatformIds,
                 Start(t, [op |-> "bind", id |-> i, platform |-> f, value |-> v], "query")
          PROVE  \E r \in Requests : /\ Start(t, r, "query")
                                     /\ r.op \in {"profile", "password", "bind"} /\ r.id = i
      <4>1. PICK r \in Requests : r = [op |-> "bind", id |-> i, platform |-> f, value |-> v]
        BY <2>2 DEF Requests
      <4> QED
        BY <3>3, <4>1
    <3> QED
      BY <2>1, <3>1, <3>2, <3>3
  <2>4. Fits("query", r)
    BY <2>3 DEF Fits
  <2>5. /\ CallInv' /\ OthersWait(t) /\ pc'[t] = "query" /\ req'[t] = r
        /\ UNCHANGED <<users, nextId, lastId, tokens, row, plain, during>>
    BY <1>i, <2>1, <2>3, <2>4, StartEffect
  <2>6. TableInv'
    BY <1>i, <2>5 DEF TableInv, OneAccountPerName
  <2>7. TokenInv'
    BY <1>i, <2>2, <2>3, <2>5 DEF TokenInv, OthersWait
  <2>8. CreateInv'
    BY <1>i, <2>5 DEF CreateInv, OthersWait
  <2>9. LoginInv'
    BY <1>i, <2>3, <2>5 DEF LoginInv, OthersWait
  <2> QED
    BY <2>5, <2>6, <2>7, <2>8, <2>9 DEF Inv
<1>6. ASSUME NEW t \in Threads, GetConnection(t)
      PROVE  Inv'
  <2>1. /\ CallInv' /\ OthersWait(t) /\ pc[t] \notin {"idle", "lastid"}
        /\ pc'[t] \notin {"idle", "lastid"} /\ req' = req
        /\ UNCHANGED <<users, nextId, lastId, tokens, row, plain, during>>
    BY <1>i, <1>6, ConnectionEffect
  <2>2. TableInv'
    BY <1>i, <2>1 DEF TableInv, OneAccountPerName
  <2> QED
    BY <1>i, <2>1, <2>2, QuietStep DEF Inv
<1>7. ASSUME NEW t \in Threads, CheckUsername(t)
      PROVE  Inv'
  <2>1. /\ pc[t] = "checking"
        /\ UNCHANGED <<users, nextId, lastId, tokens, row, plain, during>>
        /\ Answer(t, "conflict", 0) \/ (Release(t) /\ Then(t, "create"))
    BY <1>7 DEF CheckUsername, dbVars, history
  <2>2. CASE Answer(t, "conflict", 0)
    <3>1. CallInv' /\ OthersWait(t) /\ pc'[t] = "idle"
      BY <1>i, <1>z, <2>2, AnswerEffect DEF Statuses
    <3>2. TableInv'
      BY <1>i, <2>1 DEF TableInv, OneAccountPerName
    <3> QED
      BY <1>i, <2>1, <3>1, <3>2, QuietStep DEF Inv
  <2>3. CASE Release(t) /\ Then(t, "create")
    <3>1. pc' = [pc EXCEPT ![t] = "create"] /\ answer' = Null /\ req' = req
      BY <2>3 DEF Then
    <3>2. Fits("create", req[t])
      BY <1>i, <2>1, AtStage DEF Fits
    <3>3. CallInv' /\ OthersWait(t) /\ pc'[t] = "create"
      BY <1>i, <2>1, <2>3, <3>1, <3>2, ReleaseEffect DEF CallInv, OthersWait, Stages, Owning
    <3>4. TableInv'
      BY <1>i, <2>1 DEF TableInv, OneAccountPerName
    <3> QED
      BY <1>i, <2>1, <3>1, <3>3, <3>4, QuietStep DEF Inv
  <2> QED
    BY <2>1, <2>2, <2>3
<1>8. ASSUME NEW t \in Threads, InsertUser(t)
      PROVE  Inv'
  <2>1. pc[t] = "insert" /\ UNCHANGED tokens
    BY <1>8 DEF InsertUser
  <2>2. /\ Fits(pc[t], req[t]) /\ req[t] \in Requests /\ req[t].op = "register"
        /\ owner[t] \in Conns
    BY <1>i, <2>1, AtStage, RequestFields DEF Fits, Owning
  <2>3. CASE /\ Answer(t, "internal_server_error", 0)
             /\ nextId' = nextId \/ (nextId <= MaxId /\ nextId' = nextId + 1)
             /\ UNCHANGED <<users, lastId, row, plain, during>>
    <3>1. CallInv' /\ OthersWait(t) /\ pc'[t] = "idle"
      BY <1>i, <1>z, <2>3, AnswerEffect DEF Statuses
    <3>2. TableInv'
      BY <1>i, <2>3, AccountsAssumption DEF TableInv, OneAccountPerName, Ids
    <3> QED
      BY <1>i, <2>1, <2>3, <3>1, <3>2, QuietStep DEF Inv
  <2>4. CASE /\ nextId <= MaxId /\ nextId' = nextId + 1
             /\ ~Duplicate(req[t]) /\ Inserted(t)
             /\ \/ /\ Then(t, "lastid") /\ row' = [row EXCEPT ![t] = nextId]
                   /\ UNCHANGED poolVars
                \/ Answer(t, "internal_server_error", 0) /\ UNCHANGED row
    <3>f. /\ req[t].username \in Usernames /\ req[t].password \in Passwords
          /\ req[t].email \in Emails
      BY <2>2, RequestFields
    <3>n. nextId \in Ids
      BY <1>i, <2>4, AccountsAssumption DEF TableInv, Ids
    <3>1. PICK new \in Rows :
            /\ new = NewRow(req[t])
            /\ new.username = req[t].username /\ new.email = req[t].email
            /\ new.passwd_hash = Hash(req[t].password)
      BY <3>f, NewAccount
    <3>2. /\ users' = [users EXCEPT ![nextId] = new]
          /\ lastId' = [lastId EXCEPT ![owner[t]] = nextId]
          /\ plain' = [plain EXCEPT ![nextId] = req[t].password]
          /\ during' = Noted(req[t].username, req[t].password)
      BY <2>4, <3>1 DEF Inserted
    <3>3. CallInv' /\ OthersWait(t) /\ (pc'[t] = "idle" \/ req'[t] = req[t])
      <4>1. CASE Then(t, "lastid") /\ UNCHANGED poolVars
        <5>1. /\ pc' = [pc EXCEPT ![t] = "lastid"] /\ answer' = Null
              /\ UNCHANGED <<req, free, owner>>
          BY <4>1 DEF Then, poolVars
        <5>2. Fits("lastid", req[t])
          BY <2>2 DEF Fits
        <5> QED
          BY <1>i, <2>1, <5>1, <5>2 DEF CallInv, PoolTypeOK, OthersWait, Stages, Owning
      <4>2. CASE Answer(t, "internal_server_error", 0)
        BY <1>i, <1>z, <4>2, AnswerEffect DEF Statuses
      <4> QED
        BY <2>4, <4>1, <4>2
    <3>4. users[nextId] = Null /\ \A j \in Ids : users'[j] = IF j = nextId THEN new ELSE users[j]
      BY <1>i, <3>n, <3>2 DEF TableInv, Ids
    <3>5. TableInv'
      <4>1. OneAccountPerName'
        BY <1>i, <2>4, <3>1, <3>4 DEF TableInv, OneAccountPerName, Duplicate
      <4>2. users' \in [Ids -> Rows \cup {Null}]
        BY <1>i, <3>2 DEF TableInv
      <4>3. nextId' \in 1 .. MaxId + 1 /\ \A i \in Ids : i >= nextId' => users'[i] = Null
        BY <1>i, <2>4, <3>4, AccountsAssumption DEF TableInv, Ids
      <4> QED
        BY <4>1, <4>2, <4>3 DEF TableInv
    <3>6. TokenInv'
      <4>1. \A j \in Ids : users[j] # Null => users'[j] # Null
        BY <3>4
      <4> QED
        BY <1>i, <2>1, <2>2, <3>3, <4>1 DEF TokenInv, OthersWait
    <3>7. CreateInv'
      <4>1. \A u \in Threads \ {t} :
              pc[u] = "lastid" => owner[u] # owner[t] /\ owner[u] \in Conns
        BY <1>i, <2>1, <2>2, AtStage, AccountsAssumption DEF CallInv, Owning
      <4>2. /\ lastId' \in [Conns -> 0 .. MaxId] /\ lastId'[owner[t]] = nextId
            /\ \A c \in Conns : c # owner[t] => lastId'[c] = lastId[c]
        BY <1>i, <1>z, <2>2, <3>n, <3>2 DEF CreateInv
      <4>3. /\ row' \in [Threads -> 0 .. MaxId]
            /\ \A u \in Threads \ {t} : row'[u] = row[u]
        BY <1>i, <1>z, <2>4, <3>n DEF CreateInv
      <4>4. pc'[t] = "lastid" => row'[t] = nextId /\ req'[t] = req[t] /\ owner'[t] = owner[t]
        <5>1. CASE Then(t, "lastid") /\ row' = [row EXCEPT ![t] = nextId] /\ UNCHANGED poolVars
          BY <1>i, <5>1 DEF Then, poolVars, CreateInv
        <5>2. CASE Answer(t, "internal_server_error", 0)
          BY <1>i, <1>z, <5>2, AnswerEffect DEF Statuses
        <5> QED
          BY <2>4, <5>1, <5>2
      <4>5. \A u \in Threads \ {t} : pc'[u] = "lastid" =>
              /\ row'[u] = lastId'[owner'[u]]
              /\ row'[u] \in Ids /\ users'[row'[u]] # Null
              /\ users'[row'[u]].username = req'[u].username
              /\ users'[row'[u]].email = req'[u].email
        BY <1>i, <3>3, <3>4, <4>1, <4>2, <4>3 DEF CreateInv, OthersWait
      <4>6. pc'[t] = "lastid" =>
              /\ row'[t] = lastId'[owner'[t]]
              /\ row'[t] \in Ids /\ users'[row'[t]] # Null
              /\ users'[row'[t]].username = req'[t].username
              /\ users'[row'[t]].email = req'[t].email
        BY <3>n, <3>1, <3>4, <4>2, <4>4, NullAssumption
      <4> QED
        BY <4>2, <4>3, <4>5, <4>6 DEF CreateInv
    <3>8. LoginInv'
      <4>1. /\ plain' \in [Ids -> Passwords \cup {Null}]
            /\ \A j \in Ids : plain'[j] = IF j = nextId THEN req[t].password ELSE plain[j]
        BY <1>i, <3>f, <3>n, <3>2 DEF LoginInv
      <4>2. /\ during' \in [Threads -> SUBSET (Passwords \cup {Null})]
            /\ \A u \in Threads : during[u] \subseteq during'[u]
            /\ \A u \in Threads : pc[u] # "idle" /\ req[u].op = "login"
                 /\ req[u].username = req[t].username => req[t].password \in during'[u]
        BY <1>i, <3>f, <3>2 DEF LoginInv, Noted
      <4>3. \A j \in Ids : users'[j] # Null => users'[j].passwd_hash = Hash(plain'[j])
        BY <1>i, <3>1, <3>4, <4>1 DEF LoginInv
      <4> QED
        BY <1>i, <2>2, <3>1, <3>3, <3>4, <4>1, <4>2, <4>3 DEF LoginInv, OthersWait
    <3> QED
      BY <3>3, <3>5, <3>6, <3>7, <3>8 DEF Inv
  <2> QED
    BY <1>8, <2>3, <2>4 DEF InsertUser, dbVars, history
<1>9. ASSUME NEW t \in Threads, LastInsertId(t)
      PROVE  Inv'
  <2>1. /\ pc[t] = "lastid" /\ row' = [row EXCEPT ![t] = 0]
        /\ UNCHANGED <<users, nextId, lastId, tokens, plain, during>>
        /\ Answer(t, "ok", OwnInsertId(t)) \/ Answer(t, "internal_server_error", 0)
    BY <1>9 DEF LastInsertId, dbVars
  <2>2. owner[t] \in Conns /\ OwnInsertId(t) \in 0 .. MaxId
    BY <1>i, <2>1, AtStage DEF Owning, OwnInsertId, CreateInv
  <2>3. CallInv' /\ OthersWait(t) /\ pc'[t] = "idle"
    BY <1>i, <1>z, <2>1, <2>2, AnswerEffect DEF Statuses
  <2>4. TableInv'
    BY <1>i, <2>1 DEF TableInv, OneAccountPerName
  <2>5. TokenInv'
    BY <1>i, <2>1, <2>3 DEF TokenInv, OthersWait
  <2>6. CreateInv'
    BY <1>i, <1>z, <2>1, <2>3 DEF CreateInv, OthersWait
  <2>7. LoginInv'
    BY <1>i, <2>1, <2>3 DEF LoginInv, OthersWait
  <2> QED
    BY <2>3, <2>4, <2>5, <2>6, <2>7 DEF Inv
<1>10. ASSUME NEW t \in Threads, Login(t)
       PROVE  Inv'
  <2>1. /\ pc[t] = "querying" /\ during' = [during EXCEPT ![t] = {}]
        /\ UNCHANGED <<users, nextId, lastId, row, plain>>
    BY <1>10 DEF Login, Querying, dbVars
  <2>2. PICK found \in LookupOutcomes(req[t].username) :
          \/ (Answer(t, "not_found", 0) \/ Answer(t, "unauthorized", 0)) /\ UNCHANGED tokens
          \/ \E i \in found : Answer(t, "ok", i) /\ tokens' = tokens \cup {i}
    BY <1>10 DEF Login
  <2>3. found \subseteq RowOf(req[t].username)
    BY DEF LookupOutcomes
  <2>4. \A i \in found : i \in Ids /\ users[i] # Null
    BY <2>3 DEF RowOf
  <2>5. CallInv' /\ OthersWait(t) /\ pc'[t] = "idle"
    BY <1>i, <1>z, <2>2, <2>4, AnswerEffect DEF Statuses
  <2>6. TableInv'
    BY <1>i, <2>1 DEF TableInv, OneAccountPerName
  <2>7. TokenInv'
    BY <1>i, <2>1, <2>2, <2>4, <2>5 DEF TokenInv, OthersWait
  <2>8. CreateInv'
    BY <1>i, <2>1, <2>5 DEF CreateInv, OthersWait
  <2>9. LoginInv'
    BY <1>i, <2>1, <2>5 DEF LoginInv, OthersWait
  <2> QED
    BY <2>5, <2>6, <2>7, <2>8, <2>9 DEF Inv
<1>11. ASSUME NEW t \in Threads, Profile(t)
       PROVE  Inv'
  <2>1. /\ pc[t] = "querying" /\ req[t].op = "profile"
        /\ UNCHANGED <<users, nextId, lastId, tokens, row, plain, during>>
        /\ Answer(t, "ok", req[t].id) \/ Answer(t, "not_found", 0)
    BY <1>11 DEF Profile, Querying, dbVars, history
  <2>2. req[t].id \in 0 .. MaxId
    BY <1>i, <1>z, <2>1 DEF TokenInv
  <2>3. CallInv' /\ OthersWait(t) /\ pc'[t] = "idle"
    BY <1>i, <1>z, <2>1, <2>2, AnswerEffect DEF Statuses
  <2>4. TableInv'
    BY <1>i, <2>1 DEF TableInv, OneAccountPerName
  <2> QED
    BY <1>i, <2>1, <2>3, <2>4, QuietStep DEF Inv
<1>12. ASSUME NEW t \in Threads, ChangePassword(t)
       PROVE  Inv'
  <2>1. /\ pc[t] = "querying" /\ req[t].op = "password" /\ UNCHANGED <<tokens, row>>
        /\ Answer(t, "ok", req[t].id) \/ Answer(t, "internal_server_error", 0)
    BY <1>12 DEF ChangePassword, Querying
  <2>2. PICK i \in Ids : i = req[t].id /\ users[i] # Null
    BY <1>i, <2>1 DEF TokenInv
  <2>3. PICK p \in Passwords : p = req[t].password
    BY <1>i, <2>1, AtStage, RequestFields
  <2>4. CallInv' /\ OthersWait(t) /\ pc'[t] = "idle"
    BY <1>i, <1>z, <2>1, <2>2, AnswerEffect DEF Statuses
  <2>5. CASE UNCHANGED <<users, nextId, lastId, plain, during>>
    <3>1. TableInv'
      BY <1>i, <2>5 DEF TableInv, OneAccountPerName
    <3> QED
      BY <1>i, <2>1, <2>4, <2>5, <3>1, QuietStep DEF Inv
  <2>6. CASE /\ Update(req[t].id, [users[req[t].id] EXCEPT !.passwd_hash = Hash(req[t].password)])
             /\ plain' = [plain EXCEPT ![req[t].id] =
                             IF users[req[t].id] = Null THEN @ ELSE req[t].password]
             /\ during' = IF users[req[t].id] = Null THEN during
                          ELSE Noted(users[req[t].id].username, req[t].password)
    <3>1. PICK new \in Rows :
            /\ new = [users[i] EXCEPT !.passwd_hash = Hash(p)]
            /\ new.username = users[i].username /\ new.email = users[i].email
            /\ new.passwd_hash = Hash(p)
      BY <1>i, <2>2, NewHash DEF TableInv
    <3>2. /\ users' = [users EXCEPT ![i] = new] /\ UNCHANGED <<nextId, lastId>>
          /\ plain' = [plain EXCEPT ![i] = p]
          /\ during' = Noted(users[i].username, p)
      BY <2>2, <2>3, <2>6, <3>1, Zenon DEF Update
    <3>3. TableInv' /\ TokenInv' /\ CreateInv'
      BY <1>i, <2>1, <2>2, <2>4, <3>1, <3>2, UpdateEffect
    <3>4. LoginInv'
      <4>1. /\ plain' \in [Ids -> Passwords \cup {Null}]
            /\ \A j \in Ids : plain'[j] = IF j = i THEN p ELSE plain[j]
        BY <1>i, <3>2 DEF LoginInv
      <4>2. /\ during' \in [Threads -> SUBSET (Passwords \cup {Null})]
            /\ \A u \in Threads : during[u] \subseteq during'[u]
            /\ \A u \in Threads : pc[u] # "idle" /\ req[u].op = "login"
                 /\ req[u].username = users[i].username => p \in during'[u]
        BY <1>i, <3>2 DEF LoginInv, Noted
      <4>3. \A j \in Ids : users'[j] = IF j = i THEN new ELSE users[j]
        BY <1>i, <3>2 DEF TableInv
      <4>4. \A j \in Ids : users'[j] # Null => users'[j].passwd_hash = Hash(plain'[j])
        BY <1>i, <3>1, <4>1, <4>3 DEF LoginInv
      <4> QED
        <5> SUFFICES ASSUME NEW u \in Threads, pc'[u] # "idle", req'[u].op = "login",
                            NEW j \in Ids, users'[j] # Null,
                            users'[j].username = req'[u].username
                     PROVE  plain'[j] \in during'[u]
          BY <4>1, <4>2, <4>4 DEF LoginInv
        <5>1. pc[u] # "idle" /\ req[u] = req'[u]
          BY <2>4 DEF OthersWait
        <5>2. CASE j = i
          <6>1. users'[j] = new /\ plain'[j] = p
            BY <4>1, <4>3, <5>2
          <6>2. req[u].username = users[i].username
            BY <3>1, <5>1, <6>1, Zenon
          <6> QED
            BY <4>2, <5>1, <6>1, <6>2
        <5>3. CASE j # i
          BY <1>i, <4>1, <4>2, <4>3, <5>1, <5>3 DEF LoginInv
        <5> QED
          BY <5>2, <5>3
    <3> QED
      BY <2>4, <3>3, <3>4 DEF Inv
  <2> QED
    BY <1>12, <2>5, <2>6, Zenon DEF ChangePassword, dbVars
<1>13. ASSUME NEW t \in Threads, BindPlatform(t)
       PROVE  Inv'
  <2>1. /\ pc[t] = "querying" /\ req[t].op = "bind" /\ UNCHANGED <<tokens, row, plain, during>>
        /\ Answer(t, "ok", req[t].id) \/ Answer(t, "internal_server_error", 0)
    BY <1>13 DEF BindPlatform, Querying, history
  <2>2. PICK i \in Ids : i = req[t].id /\ users[i] # Null
    BY <1>i, <2>1 DEF TokenInv
  <2>3. PICK v \in PlatformIds : v = req[t].value
    BY <1>i, <2>1, AtStage, RequestFields
  <2>4. CallInv' /\ OthersWait(t) /\ pc'[t] = "idle"
    BY <1>i, <1>z, <2>1, <2>2, AnswerEffect DEF Statuses
  <2>5. CASE UNCHANGED <<users, nextId, lastId>>
    <3>1. TableInv'
      BY <1>i, <2>5 DEF TableInv, OneAccountPerName
    <3> QED
      BY <1>i, <2>1, <2>4, <2>5, <3>1, QuietStep DEF Inv
  <2>6. CASE Update(req[t].id, IF req[t].platform = "qq"
                               THEN [users[req[t].id] EXCEPT !.qq_id = req[t].value]
                               ELSE [users[req[t].id] EXCEPT !.netease_id = req[t].value])
    <3>1. PICK new \in Rows :
            /\ new = Bound(users[i], req[t].platform, v)
            /\ new.username = users[i].username /\ new.email = users[i].email
            /\ new.passwd_hash = users[i].passwd_hash
      <4>1. users[i] \in Rows
        BY <1>i, <2>2 DEF TableInv
      <4> QED
        BY <4>1, NewPlatform
    <3>2. users' = [users EXCEPT ![i] = new] /\ UNCHANGED <<nextId, lastId>>
      BY <2>2, <2>3, <2>6, <3>1, Zenon DEF Update, Bound
    <3>3. TableInv' /\ TokenInv' /\ CreateInv'
      BY <1>i, <2>1, <2>2, <2>4, <3>1, <3>2, UpdateEffect
    <3>4. LoginInv'
      <4>1. \A j \in Ids : users'[j] = IF j = i THEN new ELSE users[j]
        BY <1>i, <3>2 DEF TableInv
      <4>2. \A j \in Ids : /\ users'[j] # Null => users[j] # Null
                           /\ users'[j].username = users[j].username
                           /\ users'[j].passwd_hash = users[j].passwd_hash
        BY <2>2, <3>1, <4>1
      <4> QED
        BY <1>i, <2>1, <2>4, <4>2 DEF LoginInv, OthersWait
    <3> QED
      BY <2>4, <3>3, <3>4 DEF Inv
  <2> QED
    BY <1>13, <2>5, <2>6, Zenon DEF BindPlatform, dbVars
<1> QED
  BY <1>1, <1>2, <1>3, <1>4, <1>5, <1>6, <1>7, <1>8, <1>9, <1>10, <1>11, <1>12, <1>13
     DEF Next, Arrive, Handle

LEMMA Invariance == Spec => []Inv
<1>1. Init => Inv
  <2> SUFFICES ASSUME Init
               PROVE  Inv
    OBVIOUS
  <2>1. CallInv
    BY AccountsAssumption DEF Init, CallInv, PoolTypeOK, Stages, Owning
  <2>2. TableInv
    BY AccountsAssumption DEF Init, TableInv, OneAccountPerName, Ids
  <2>3. TokenInv
    BY DEF Init, TokenInv
  <2>4. CreateInv
    BY AccountsAssumption DEF Init, CreateInv
  <2>5. LoginInv
    BY DEF Init, LoginInv
  <2> QED
    BY <2>1, <2>2, <2>3, <2>4, <2>5 DEF Inv
<1> QED
  BY <1>1, Inductive, PTL DEF Spec

(* OneAccountPerName: no two accounts have one name or address, although   *)
(* handleRegister looks first and createUser inserts later.                *)
THEOREM AccountsAreDistinct == Spec => []OneAccountPerName
<1>1. Inv => OneAccountPerName
  BY DEF Inv, TableInv
<1> QED
  BY <1>1, Invariance, PTL

(* NobodyWaits: getConnection finds a connection, because a handler gives  *)
(* the connection of one DAO call back before it makes the next.           *)
THEOREM ConnectionIsFree == Spec => []NobodyWaits
<1>1. ASSUME Inv, NEW t \in Threads, pc[t] \in {"check", "query", "create"}, free = {}
      PROVE  FALSE
  <2>1. CallInv /\ owner[t] = NoConn
    BY <1>1 DEF Inv, CallInv, Owning
  <2> DEFINE others == Threads \ {t}
  <2>2. /\ IsFiniteSet(Threads) /\ Cardinality(Threads) \in Nat
        /\ IsFiniteSet(others) /\ Cardinality(others) = Cardinality(Threads) - 1
    BY AccountsAssumption, FS_RemoveElement, FS_CardinalityType
  <2>3. \A c \in Conns : \E u \in others : owner[u] = c
    BY <1>1, <2>1, AccountsAssumption DEF CallInv
  <2> DEFINE holder == [c \in Conns |-> CHOOSE u \in others : owner[u] = c]
  <2>4. \A c \in Conns : holder[c] \in others /\ owner[holder[c]] = c
    BY <2>3
  <2> HIDE DEF others, holder
  <2>5. holder \in Injection(Conns, others)
    <3>1. holder \in [Conns -> others]
      BY <2>4 DEF holder
    <3> QED
      BY <2>4, <3>1 DEF Injection, IsInjective
  <2>6. Cardinality(Conns) <= Cardinality(others) /\ IsFiniteSet(Conns)
    BY <2>2, <2>5, FS_Injection
  <2> QED
    BY <2>2, <2>6, AccountsAssumption, FS_CardinalityType
<1>2. Inv => NobodyWaits
  <2>1. DOMAIN Statement = {"check", "query", "create"}
    BY DEF Statement
  <2>2. Inv => TypeOK
    BY DEF Inv, CallInv, TableInv, TokenInv, CreateInv, TypeOK, Stages, Owning
  <2> QED
    BY <1>1, <2>1, <2>2 DEF NobodyWaits
<1> QED
  BY <1>2, Invariance, PTL

-----------------------------------------------------------------------------
(* A request that ends in a step was answered by that step. *)
LEMMA OwnStep ==
  ASSUME Inv, [Next]_vars, NEW t \in Threads, NEW op, Ends(t, op)
  PROVE  \/ CheckUsername(t) \/ InsertUser(t) \/ LastInsertId(t)
         \/ Login(t) \/ Profile(t) \/ ChangePassword(t) \/ BindPlatform(t)
<1>1. pc[t] # "idle" /\ pc'[t] = "idle" /\ pc \in [Threads -> Stages]
  BY DEF Ends, Inv, CallInv
<1>2. ~UNCHANGED vars
  BY <1>1 DEF vars
<1>3. PICK u \in Threads : Arrive(u) \/ Handle(u)
  BY <1>2 DEF Next
<1>4. pc' = pc \/ \E s : pc' = [pc EXCEPT ![u] = s]
  BY <1>3, Zenon
     DEF Arrive, Handle, RejectEarly, StartRegister, StartLogin, StartWithToken, Start,
         GetConnection, CheckUsername, InsertUser, LastInsertId, Login, Profile,
         ChangePassword, BindPlatform, Then, Answer
<1>5. u = t
  BY <1>1, <1>4
<1>6. ~Arrive(t)
  BY <1>1 DEF Arrive, RejectEarly, StartRegister, StartLogin, StartWithToken, Start
<1>7. ~GetConnection(t)
  BY <1>1, ConnectionEffect DEF Inv
<1> QED
  BY <1>3, <1>5, <1>6, <1>7 DEF Handle

(* RegisteredIdIsOwn: handleRegister answers with the id of the row that   *)
(* this registration inserted.                                             *)
THEOREM RegisterAnswersOwnRow == Spec => RegisteredIdIsOwn
<1>1. ASSUME Inv, [Next]_vars, NEW t \in Threads, Ends(t, "register"), answer'.status = "ok"
      PROVE  /\ answer'.id = row[t]
             /\ users[answer'.id].username = req[t].username
             /\ users[answer'.id].email = req[t].email
  <2>1. CallInv /\ CreateInv /\ req[t].op = "register"
    BY <1>1 DEF Inv, Ends
  <2>z. 0 \in 0 .. MaxId
    BY AccountsAssumption
  <2>2. ASSUME NEW s \in Statuses, s # "ok", NEW id \in 0 .. MaxId, Answer(t, s, id)
        PROVE  FALSE
    BY <1>1, <2>1, <2>2, AnswerEffect
  <2>3. ~Answer(t, "conflict", 0) /\ ~Answer(t, "internal_server_error", 0)
    BY <2>z, <2>2 DEF Statuses
  <2>4. ASSUME Then(t, "create") \/ Then(t, "lastid")
        PROVE  FALSE
    BY <1>1, <2>1, <2>4 DEF Then, CallInv, Ends
  <2>5. LastInsertId(t)
    <3>1. ~Login(t) /\ ~Profile(t) /\ ~ChangePassword(t) /\ ~BindPlatform(t)
      BY <2>1 DEF Login, Profile, ChangePassword, BindPlatform, Querying
    <3>2. ~CheckUsername(t)
      BY <2>3, <2>4, Zenon DEF CheckUsername
    <3>3. ~InsertUser(t)
      BY <2>3, <2>4, Zenon DEF InsertUser
    <3> QED
      BY <1>1, <3>1, <3>2, <3>3, OwnStep
  <2>6. pc[t] = "lastid" /\ Answer(t, "ok", OwnInsertId(t))
    BY <2>3, <2>5 DEF LastInsertId
  <2>7. OwnInsertId(t) = row[t] /\ row[t] \in 0 .. MaxId
    BY <2>1, <2>6 DEF CreateInv, OwnInsertId
  <2>8. answer'.id = row[t]
    BY <2>1, <2>6, <2>7, AnswerEffect DEF Statuses
  <2> QED
    BY <2>1, <2>6, <2>8 DEF CreateInv
<1>2. ASSUME Inv, [Next]_vars
      PROVE  [\A t \in Threads : Ends(t, "register") /\ answer'.status = "ok" =>
                /\ answer'.id = row[t]
                /\ users[answer'.id].username = req[t].username
                /\ users[answer'.id].email = req[t].email]_vars
  BY <1>1, <1>2, Zenon
<1> QED
  BY <1>2, Invariance, PTL DEF Spec, RegisteredIdIsOwn

(* LoginAgrees: handleLogin lets in only with a password the account had   *)
(* during the call, and refuses no password that was the only one.         *)
THEOREM LoginIsRight == Spec => LoginAgrees
<1>1. ASSUME Inv, [Next]_vars, NEW t \in Threads, Ends(t, "login")
      PROVE  /\ answer'.status = "ok" => req[t].password \in during[t]
             /\ answer'.status = "unauthorized" => during[t] # {req[t].password}
  <2>1. /\ CallInv /\ LoginInv /\ TableInv /\ pc[t] # "idle" /\ req[t].op = "login"
        /\ Fits(pc[t], req[t]) /\ req[t].password \in Passwords
    BY <1>1, AtStage, RequestFields DEF Inv, Ends
  <2>2. Login(t)
    <3>1. ~CheckUsername(t) /\ ~InsertUser(t) /\ ~LastInsertId(t)
      BY <2>1 DEF CheckUsername, InsertUser, LastInsertId, Fits
    <3>2. ~Profile(t) /\ ~ChangePassword(t) /\ ~BindPlatform(t)
      BY <2>1 DEF Profile, ChangePassword, BindPlatform, Querying
    <3> QED
      BY <1>1, <3>1, <3>2, OwnStep
  <2>3. PICK found \in LookupOutcomes(req[t].username) :
          \/ Answer(t, "not_found", 0)
          \/ \E i \in found :
               \/ /\ users[i].passwd_hash # Hash(req[t].password)
                  /\ Answer(t, "unauthorized", 0)
               \/ /\ users[i].passwd_hash = Hash(req[t].password)
                  /\ Answer(t, "ok", i)
    BY <2>2 DEF Login
  <2>z. 0 \in 0 .. MaxId /\ \A i \in Ids : i \in 0 .. MaxId
    BY AccountsAssumption DEF Ids
  <2>4. \A i \in found : i \in Ids /\ users[i] # Null /\ users[i].username = req[t].username
    BY DEF LookupOutcomes, RowOf
  <2>5. ASSUME NEW p, NEW q
        PROVE  Hash(p) = Hash(q) <=> p = q
    BY DEF Hash
  <2>6. \A i \in found : /\ plain[i] \in during[t]
                         /\ users[i].passwd_hash = Hash(req[t].password)
                              <=> plain[i] = req[t].password
    BY <2>1, <2>4, <2>5 DEF LoginInv
  <2>7. CASE Answer(t, "not_found", 0)
    BY <2>1, <2>7, <2>z, AnswerEffect DEF Statuses
  <2>8. ASSUME NEW i \in found, users[i].passwd_hash # Hash(req[t].password),
               Answer(t, "unauthorized", 0)
        PROVE  answer'.status = "unauthorized" /\ during[t] # {req[t].password}
    BY <2>1, <2>6, <2>8, <2>z, AnswerEffect DEF Statuses
  <2>9. ASSUME NEW i \in found, users[i].passwd_hash = Hash(req[t].password),
               Answer(t, "ok", i)
        PROVE  answer'.status = "ok" /\ req[t].password \in during[t]
    BY <2>1, <2>4, <2>6, <2>9, <2>z, AnswerEffect DEF Statuses
  <2> QED
    BY <2>3, <2>7, <2>8, <2>9
<1>2. ASSUME Inv, [Next]_vars
      PROVE  [\A t \in Threads : Ends(t, "login") =>
                /\ answer'.status = "ok" => req[t].password \in during[t]
                /\ answer'.status = "unauthorized" => during[t] # {req[t].password}]_vars
  BY <1>1, <1>2, Zenon
<1> QED
  BY <1>2, Invariance, PTL DEF Spec, LoginAgrees

(* ReportedUpdateIsApplied: handleChangePassword and handleBindPlatform    *)
(* report success only for a row that exists and that now has the hash of  *)
(* the new password, or the identity on the platform the request names.    *)
THEOREM ReportedUpdatesAreStored == Spec => ReportedUpdateIsApplied
<1>1. ASSUME Inv, [Next]_vars, NEW t \in Threads, Ends(t, "password"), answer'.status = "ok"
      PROVE  /\ users'[req[t].id] # Null
             /\ users'[req[t].id].passwd_hash = Hash(req[t].password)
  <2>1. /\ CallInv /\ TokenInv /\ TableInv /\ pc[t] # "idle" /\ req[t].op = "password"
        /\ Fits(pc[t], req[t]) /\ req[t].password \in Passwords
    BY <1>1, AtStage, RequestFields DEF Inv, Ends
  <2>2. ChangePassword(t)
    <3>1. ~CheckUsername(t) /\ ~InsertUser(t) /\ ~LastInsertId(t)
      BY <2>1 DEF CheckUsername, InsertUser, LastInsertId, Fits
    <3>2. ~Login(t) /\ ~Profile(t) /\ ~BindPlatform(t)
      BY <2>1 DEF Login, Profile, BindPlatform, Querying
    <3> QED
      BY <1>1, <3>1, <3>2, OwnStep
  <2>3. PICK i \in Ids : i = req[t].id /\ users[i] # Null
    BY <2>1 DEF TokenInv
  <2>4. PICK p \in Passwords : p = req[t].password
    BY <2>1
  <2>z. 0 \in 0 .. MaxId
    BY AccountsAssumption
  <2>5. ~Answer(t, "internal_server_error", 0)
    BY <1>1, <2>1, <2>z, AnswerEffect DEF Statuses
  <2>6. Update(req[t].id, [users[req[t].id] EXCEPT !.passwd_hash = Hash(req[t].password)])
    BY <2>2, <2>5, Zenon DEF ChangePassword
  <2>7. PICK new \in Rows :
          /\ new = [users[i] EXCEPT !.passwd_hash = Hash(p)]
          /\ new.username = users[i].username /\ new.email = users[i].email
          /\ new.passwd_hash = Hash(p)
    BY <2>1, <2>3, NewHash DEF TableInv
  <2>8. users' = [users EXCEPT ![i] = new]
    BY <2>3, <2>4, <2>6, <2>7, Zenon DEF Update
  <2>9. users'[i] = new
    BY <2>1, <2>8 DEF TableInv
  <2> QED
    BY <2>3, <2>4, <2>7, <2>9, NullAssumption, Zenon
<1>2. ASSUME Inv, [Next]_vars, NEW t \in Threads, Ends(t, "bind"), answer'.status = "ok"
      PROVE  /\ users'[req[t].id] # Null
             /\ Identity(users'[req[t].id], req[t].platform) = req[t].value
  <2>1. /\ CallInv /\ TokenInv /\ TableInv /\ pc[t] # "idle" /\ req[t].op = "bind"
        /\ Fits(pc[t], req[t]) /\ req[t].value \in PlatformIds
    BY <1>2, AtStage, RequestFields DEF Inv, Ends
  <2>2. BindPlatform(t)
    <3>1. ~CheckUsername(t) /\ ~InsertUser(t) /\ ~LastInsertId(t)
      BY <2>1 DEF CheckUsername, InsertUser, LastInsertId, Fits
    <3>2. ~Login(t) /\ ~Profile(t) /\ ~ChangePassword(t)
      BY <2>1 DEF Login, Profile, ChangePassword, Querying
    <3> QED
      BY <1>2, <3>1, <3>2, OwnStep
  <2>3. PICK i \in Ids : i = req[t].id /\ users[i] # Null
    BY <2>1 DEF TokenInv
  <2>4. PICK v \in PlatformIds : v = req[t].value
    BY <2>1
  <2>z. 0 \in 0 .. MaxId
    BY AccountsAssumption
  <2>5. ~Answer(t, "internal_server_error", 0)
    BY <1>2, <2>1, <2>z, AnswerEffect DEF Statuses
  <2>6. Update(req[t].id, IF req[t].platform = "qq"
                          THEN [users[req[t].id] EXCEPT !.qq_id = req[t].value]
                          ELSE [users[req[t].id] EXCEPT !.netease_id = req[t].value])
    BY <2>2, <2>5, Zenon DEF BindPlatform
  <2>7. PICK new \in Rows :
          /\ new = Bound(users[i], req[t].platform, v)
          /\ Identity(new, req[t].platform) = v
    <3>1. users[i] \in Rows
      BY <2>1, <2>3 DEF TableInv
    <3> QED
      BY <3>1, NewPlatform
  <2>8. users' = [users EXCEPT ![i] = new]
    BY <2>3, <2>4, <2>6, <2>7, Zenon DEF Update, Bound
  <2>9. users'[i] = new
    BY <2>1, <2>8 DEF TableInv
  <2> QED
    BY <2>3, <2>4, <2>7, <2>9, NullAssumption, Zenon
<1>3. ASSUME Inv, [Next]_vars
      PROVE  [\A t \in Threads :
                /\ Ends(t, "password") /\ answer'.status = "ok" =>
                     /\ users'[req[t].id] # Null
                     /\ users'[req[t].id].passwd_hash = Hash(req[t].password)
                /\ Ends(t, "bind") /\ answer'.status = "ok" =>
                     /\ users'[req[t].id] # Null
                     /\ Identity(users'[req[t].id], req[t].platform) = req[t].value]_vars
  BY <1>1, <1>2, <1>3, Zenon
<1> QED
  BY <1>3, Invariance, PTL DEF Spec, ReportedUpdateIsApplied
=============================================================================
