---------------------------- MODULE UserAccounts ----------------------------
(***************************************************************************)
(* The account requests of handlers/UserHandler.cpp and the statements     *)
(* database/UserDAO.cpp runs for them on the users table, over the pool.   *)
(*                                                                         *)
(* Every DAO call takes a connection, runs its statements one by one and   *)
(* returns the connection; a statement is atomic in MySQL (autocommit) and *)
(* may throw SQLException, before or after it took effect.  The pool has a *)
(* connection for every thread, so by DBManager's NullOnlyWhenUndersized   *)
(* getConnection never returns null.                                       *)
(***************************************************************************)
EXTENDS Naturals, FiniteSets, ConnectionPool

CONSTANTS
  Usernames, Passwords, Emails,
  PlatformIds,  \* account names on qq or netease
  MaxId,        \* bound: AUTO_INCREMENT values handed out
  Null          \* no such row, or SQL NULL

Ids == 1 .. MaxId

ASSUME AccountsAssumption ==
  /\ IsFiniteSet(Threads) /\ NoConn \notin Conns
  /\ Cardinality(Threads) <= Cardinality(Conns)
  /\ MaxId \in Nat
  /\ Null \notin PlatformIds

VARIABLES
  users,   \* users[i]: the row with id i, or Null
  nextId,  \* the AUTO_INCREMENT counter of the table
  lastId,  \* lastId[c]: LAST_INSERT_ID() of the session of connection c
  tokens,  \* ids for which a token has been issued
  pc,      \* pc[t]: what thread t does next for its request
  req,     \* req[t]: the request it handles, or Null
  answer,  \* the answer of the request that ended in the last step, or Null
  row,     \* history: the id of the row the request inserted; 0 if none
  plain,   \* history: plain[i], the password last set for row i
  during   \* history: passwords the account of a login had during the call

dbVars == <<users, nextId, lastId>>
history == <<row, plain, during>>
vars == <<poolVars, dbVars, tokens, pc, req, answer, history>>

(* PasswordUtil::hashPassword: one-way and, for us, injective. *)
Hash(p) == <<"sha256", p>>

Rows == [username : Usernames, passwd_hash : {Hash(p) : p \in Passwords},
         email : Emails, qq_id : PlatformIds \cup {Null},
         netease_id : PlatformIds \cup {Null}]

Requests ==
  [op : {"register"}, username : Usernames, password : Passwords, email : Emails]
    \cup [op : {"login"}, username : Usernames, password : Passwords]
    \cup [op : {"profile"}, id : Ids]
    \cup [op : {"password"}, id : Ids, password : Passwords]
    \cup [op : {"bind"}, id : Ids, platform : {"qq", "netease"}, value : PlatformIds]

ASSUME NullAssumption == Null \notin Rows /\ Null \notin Requests

Statuses == {"ok", "refused", "conflict", "not_found",
             "unauthorized", "internal_server_error"}

RowOf(username) == {i \in Ids : users[i] # Null /\ users[i].username = username}

Init ==
  /\ free = Conns
  /\ owner = [t \in Threads |-> NoConn]
  /\ users = [i \in Ids |-> Null]
  /\ nextId = 1
  /\ lastId = [c \in Conns |-> 0]
  /\ tokens = {}
  /\ pc = [t \in Threads |-> "idle"]
  /\ req = [t \in Threads |-> Null]
  /\ answer = Null
  /\ row = [t \in Threads |-> 0]
  /\ plain = [i \in Ids |-> Null]
  /\ during = [t \in Threads |-> {}]

-----------------------------------------------------------------------------
(* A request arrives.  A malformed body, a missing field, a token that     *)
(* verifyToken refuses, a code that verifyCode refuses and an unknown      *)
(* platform are answered, with 400 or 401, before any DAO call.            *)

RejectEarly(t) ==
  /\ pc[t] = "idle"
  /\ answer' = [status |-> "refused", id |-> 0]
  /\ UNCHANGED <<poolVars, dbVars, tokens, pc, req, history>>

(* Thread t starts on request r, whose first DAO call is next. *)
Start(t, r, next) ==
  /\ pc[t] = "idle"
  /\ pc' = [pc EXCEPT ![t] = next]
  /\ req' = [req EXCEPT ![t] = r]
  /\ answer' = Null
  /\ UNCHANGED <<poolVars, dbVars, tokens, row, plain>>

(* handleRegister, its code verified. *)
StartRegister(t) ==
  \E u \in Usernames, p \in Passwords, m \in Emails :
    /\ Start(t, [op |-> "register", username |-> u, password |-> p, email |-> m], "check")
    /\ UNCHANGED during

StartLogin(t) ==
  \E u \in Usernames, p \in Passwords :
    /\ Start(t, [op |-> "login", username |-> u, password |-> p], "query")
    /\ during' = [during EXCEPT ![t] = {plain[i] : i \in RowOf(u)}]

(* Mutant: the id is the request's, not the verified token's. *)
StartUnverified(t) ==
  \E i \in Ids, p \in Passwords :
    /\ Start(t, [op |-> "password", id |-> i, password |-> p], "query")
    /\ UNCHANGED during

(* handleGetProfile, handleChangePassword and handleBindPlatform act on    *)
(* the id claim of the token.                                              *)
StartWithToken(t) ==
  \E i \in tokens :
    /\ \/ Start(t, [op |-> "profile", id |-> i], "query")
       \/ \E p \in Passwords :
            Start(t, [op |-> "password", id |-> i, password |-> p], "query")
       \/ \E f \in {"qq", "netease"}, v \in PlatformIds :
            Start(t, [op |-> "bind", id |-> i, platform |-> f, value |-> v], "query")
    /\ UNCHANGED during

-----------------------------------------------------------------------------
(* DAO calls *)

(* The statement each DAO call runs once it has its connection. *)
Statement == [check |-> "checking", query |-> "querying", create |-> "insert"]

(* SqlConnGuard guard(db_manager->getConnection()). *)
GetConnection(t) ==
  /\ pc[t] \in DOMAIN Statement
  /\ \E c \in Conns : Acquire(t, c)
  /\ pc' = [pc EXCEPT ![t] = Statement[@]]
  /\ answer' = Null
  /\ UNCHANGED <<dbVars, tokens, req, history>>

(* The DAO returns, its guard gone, and the handler answers. *)
Answer(t, status, id) ==
  /\ Release(t)
  /\ pc' = [pc EXCEPT ![t] = "idle"]
  /\ req' = [req EXCEPT ![t] = Null]
  /\ answer' = [status |-> status, id |-> id]

(* The handler goes on. *)
Then(t, next) ==
  /\ pc' = [pc EXCEPT ![t] = next]
  /\ answer' = Null
  /\ UNCHANGED req

Querying(t, op) == pc[t] = "querying" /\ req[t].op = op

(* getUserByUsername returns nullopt both for no row and for SQLException. *)
LookupOutcomes(username) == {RowOf(username), {}}

(* Mutant: the guard of getUserByUsername lives as long as the handler. *)
CheckKeepsGuard(t) ==
  /\ pc[t] = "checking"
  /\ \/ /\ RowOf(req[t].username) # {}
        /\ Answer(t, "conflict", 0)
     \/ Then(t, "create") /\ UNCHANGED poolVars
  /\ UNCHANGED <<dbVars, tokens, history>>

(* handleRegister: is the name taken? *)
CheckUsername(t) ==
  /\ pc[t] = "checking"
  /\ \E found \in LookupOutcomes(req[t].username) :
       \/ /\ found # {}
          /\ Answer(t, "conflict", 0)
       \/ /\ found = {}
          /\ Release(t)
          /\ Then(t, "create")
  /\ UNCHANGED <<dbVars, tokens, history>>

(* Mutant: users without its UNIQUE keys. *)
NoDuplicate(r) == FALSE

(* The UNIQUE keys of users. *)
Duplicate(r) ==
  \E i \in Ids : /\ users[i] # Null
                 /\ users[i].username = r.username \/ users[i].email = r.email

(* Mutant: createUser stores the password as it came. *)
RowUnhashed(r) ==
  [username |-> r.username, passwd_hash |-> r.password, email |-> r.email,
   qq_id |-> Null, netease_id |-> Null]

(* The row createUser inserts. *)
NewRow(r) ==
  [username |-> r.username, passwd_hash |-> Hash(r.password), email |-> r.email,
   qq_id |-> Null, netease_id |-> Null]

(* The password of the account of username u becomes p. *)
Noted(u, p) ==
  [t \in Threads |->
     IF pc[t] # "idle" /\ req[t].op = "login" /\ req[t].username = u
     THEN during[t] \cup {p} ELSE during[t]]

(* executeUpdate of the INSERT took effect. *)
Inserted(t) ==
  /\ users' = [users EXCEPT ![nextId] = NewRow(req[t])]
  /\ lastId' = [lastId EXCEPT ![owner[t]] = nextId]
  /\ plain' = [plain EXCEPT ![nextId] = req[t].password]
  /\ during' = Noted(req[t].username, req[t].password)

(* createUser: the INSERT succeeds; or throws, because of a duplicate key  *)
(* (which uses up an id all the same) or of the connection, whether or not *)
(* the row went in.                                                        *)
InsertUser(t) ==
  /\ pc[t] = "insert"
  /\ \/ /\ nextId <= MaxId
        /\ nextId' = nextId + 1
        /\ \/ /\ ~Duplicate(req[t])
              /\ Inserted(t)
              /\ \/ /\ Then(t, "lastid")
                    /\ row' = [row EXCEPT ![t] = nextId]
                    /\ UNCHANGED poolVars
                 \/ Answer(t, "internal_server_error", 0) /\ UNCHANGED row
           \/ /\ Duplicate(req[t])
              /\ Answer(t, "internal_server_error", 0)
              /\ UNCHANGED <<users, lastId, history>>
     \/ /\ Answer(t, "internal_server_error", 0)
        /\ UNCHANGED <<dbVars, history>>
  /\ UNCHANGED tokens

(* Mutant: the newest id of the table instead of LAST_INSERT_ID(). *)
NewestId(t) == nextId - 1

(* SELECT LAST_INSERT_ID() on the connection of the guard. *)
OwnInsertId(t) == lastId[owner[t]]

(* createUser: the id is fetched, or the query throws. *)
LastInsertId(t) ==
  /\ pc[t] = "lastid"
  /\ \/ Answer(t, "ok", OwnInsertId(t))
     \/ Answer(t, "internal_server_error", 0)
  /\ row' = [row EXCEPT ![t] = 0]
  /\ UNCHANGED <<dbVars, tokens, plain, during>>

(* handleLogin: getUserByUsername, verifyPassword, and a token for the id. *)
Login(t) ==
  /\ Querying(t, "login")
  /\ \E found \in LookupOutcomes(req[t].username) :
       \/ /\ found = {}
          /\ Answer(t, "not_found", 0)
          /\ UNCHANGED tokens
       \/ \E i \in found :
            \/ /\ users[i].passwd_hash # Hash(req[t].password)
               /\ Answer(t, "unauthorized", 0)
               /\ UNCHANGED tokens
            \/ /\ users[i].passwd_hash = Hash(req[t].password)
               /\ Answer(t, "ok", i)
               /\ tokens' = tokens \cup {i}
  /\ during' = [during EXCEPT ![t] = {}]
  /\ UNCHANGED <<dbVars, row, plain>>

(* getUserById: as getUserByUsername. *)
ByIdOutcomes(i) == {IF users[i] = Null THEN {} ELSE {i}, {}}

(* handleGetProfile: getUserById. *)
Profile(t) ==
  /\ Querying(t, "profile")
  /\ \E found \in ByIdOutcomes(req[t].id) :
       \/ /\ found # {}
          /\ Answer(t, "ok", req[t].id)
       \/ /\ found = {}
          /\ Answer(t, "not_found", 0)
  /\ UNCHANGED <<dbVars, tokens, history>>

(* UPDATE users SET ... WHERE id = ?: no row is no error. *)
Update(i, new) ==
  /\ users' = [users EXCEPT ![i] = IF @ = Null THEN Null ELSE new]
  /\ UNCHANGED <<nextId, lastId>>

(* handleChangePassword: updatePassword is true unless it throws. *)
ChangePassword(t) ==
  LET i == req[t].id
      p == req[t].password
  IN  /\ Querying(t, "password")
      /\ \/ /\ Update(i, [users[i] EXCEPT !.passwd_hash = Hash(p)])
            /\ plain' = [plain EXCEPT ![i] = IF users[i] = Null THEN @ ELSE p]
            /\ during' = IF users[i] = Null THEN during ELSE Noted(users[i].username, p)
            /\ \/ Answer(t, "ok", i)
               \/ Answer(t, "internal_server_error", 0)
         \/ /\ Answer(t, "internal_server_error", 0)
            /\ UNCHANGED <<dbVars, plain, during>>
      /\ UNCHANGED <<tokens, row>>

(* handleBindPlatform: updateQQId or updateNetEaseId. *)
BindPlatform(t) ==
  LET i == req[t].id
      r == req[t]
  IN  /\ Querying(t, "bind")
      /\ \/ /\ Update(i, IF r.platform = "qq"
                         THEN [users[i] EXCEPT !.qq_id = r.value]
                         ELSE [users[i] EXCEPT !.netease_id = r.value])
            /\ \/ Answer(t, "ok", i)
               \/ Answer(t, "internal_server_error", 0)
         \/ /\ Answer(t, "internal_server_error", 0)
            /\ UNCHANGED dbVars
      /\ UNCHANGED <<tokens, history>>

-----------------------------------------------------------------------------
Arrive(t) ==
  RejectEarly(t) \/ StartRegister(t) \/ StartLogin(t) \/ StartWithToken(t)

Handle(t) ==
  \/ GetConnection(t)
  \/ CheckUsername(t) \/ InsertUser(t) \/ LastInsertId(t)
  \/ Login(t) \/ Profile(t) \/ ChangePassword(t) \/ BindPlatform(t)

Next == \E t \in Threads : Arrive(t) \/ Handle(t)

Spec == Init /\ [][Next]_vars

-----------------------------------------------------------------------------
(* Properties *)

(* Types.  A thread owns a connection exactly while a statement runs.      *)
TypeOK ==
  /\ PoolTypeOK
  /\ users \in [Ids -> Rows \cup {Null}]
  /\ nextId \in 1 .. MaxId + 1
  /\ lastId \in [Conns -> 0 .. MaxId]
  /\ tokens \subseteq Ids
  /\ pc \in [Threads -> {"idle", "check", "checking", "query", "querying",
                         "create", "insert", "lastid"}]
  /\ req \in [Threads -> Requests \cup {Null}]
  /\ \A t \in Threads : req[t] = Null <=> pc[t] = "idle"
  /\ answer \in [status : Statuses, id : 0 .. MaxId] \cup {Null}
  /\ \A t \in Threads :
        owner[t] # NoConn <=> pc[t] \in {"checking", "querying", "insert", "lastid"}

(* The account on the platform that a row is bound to. *)
Identity(r, platform) == IF platform = "qq" THEN r.qq_id ELSE r.netease_id

(* The request of thread t ends in this step. *)
Ends(t, op) == pc[t] # "idle" /\ pc'[t] = "idle" /\ req[t].op = op

(* The user_id a registration answers is that of the row it inserted,      *)
(* however many registrations run at once: LAST_INSERT_ID() is per         *)
(* connection and the guard keeps the connection between the statements.   *)
RegisteredIdIsOwn ==
  [][\A t \in Threads : Ends(t, "register") /\ answer'.status = "ok" =>
       /\ answer'.id = row[t]
       /\ users[answer'.id].username = req[t].username
       /\ users[answer'.id].email = req[t].email]_vars

(* No two accounts have one name or one address, although two              *)
(* registrations may both find the name free before either inserts it.     *)
OneAccountPerName ==
  \A i, j \in Ids : i # j /\ users[i] # Null /\ users[j] # Null =>
     users[i].username # users[j].username /\ users[i].email # users[j].email

(* Login agrees with the password the account really had at some moment of *)
(* the call: it lets in nobody with a password already replaced before,    *)
(* and turns nobody away who gave the only password there was.             *)
LoginAgrees ==
  [][\A t \in Threads : Ends(t, "login") =>
       /\ answer'.status = "ok" => req[t].password \in during[t]
       /\ answer'.status = "unauthorized" => during[t] # {req[t].password}]_vars

(* updatePassword, updateQQId and updateNetEaseId do not look at the       *)
(* number of rows they changed; a change of the password or a binding is   *)
(* nevertheless never reported as done for a row that does not exist,      *)
(* because tokens are issued only for existing rows, and the row then      *)
(* holds what the request asked for.                                       *)
ReportedUpdateIsApplied ==
  [][\A t \in Threads :
       /\ Ends(t, "password") /\ answer'.status = "ok" =>
            /\ users'[req[t].id] # Null
            /\ users'[req[t].id].passwd_hash = Hash(req[t].password)
       /\ Ends(t, "bind") /\ answer'.status = "ok" =>
            /\ users'[req[t].id] # Null
            /\ Identity(users'[req[t].id], req[t].platform) = req[t].value]_vars

(* Types; and a handler that wants a connection finds one: none keeps the  *)
(* connection of one DAO call while it makes the next, so the threads      *)
(* cannot block one another.                                               *)
NobodyWaits ==
  /\ TypeOK
  /\ \A t \in Threads : pc[t] \in DOMAIN Statement => free # {}
=============================================================================
