# TLA+ models of the HarmonyOS music player back end

The repository is a small HTTP server in C++ (Boost.Asio/Beast, MySQL
Connector/C++, libcurl) with user accounts, verification codes by mail, avatars,
and data-access classes for playlists and play history. This directory holds TLA+
models of its parts, TLC configurations that check them on small instances, and TLAPS
proofs of every safety property for every number of threads, connections, sessions,
users and rows. `PROJECT.json` maps every definition to the lines it models.

## 1. Inventory

| Component | State | Operations | Used by |
|---|---|---|---|
| `DBManager`, `SqlConnGuard` | deque of idle connections, mutex, condition variable | `init`, `getConnection` (waits up to 3 s, repairs the connection), `releaseConnection` | every DAO call |
| `VerifyService` | map from address to code, expiry and action; mutex | `sendVerifyCode` (mails, then stores), `verifyCode`, `cleanupExpiredCodes` | handlers on the io threads; cleanup on main |
| `main`, `Server` | `m_running`, acceptor, `io_context`, vector of threads | boot, `run`, `doAccept`, `stop` from the SIGINT handler | process |
| `UserHandler`, `UserDAO`, table `users` | rows, AUTO_INCREMENT counter, `LAST_INSERT_ID()` per session | register, login, profile, change password, bind platform | io threads |
| Avatars (`UserHandler`) | a file per user, kept across restarts | `handleUpdateAvatar` (truncate, write), `handleGetAvatar` | io threads |
| `JWTUtil` | none (tokens carry the state) | `generateToken`, `verifyToken` with `isTokenExpired`, `getClaim` | handlers |
| `Session`, `Router` | socket, buffer, request, response; route table | `doRead`, `handleRequest`, `doWrite`, keep alive | io threads |
| `PlaylistDAO` | tables `playlists`, `playlist_songs` | create, get, update, delete; add, remove, list and count songs | no route yet |
| `PlayHistoryDAO` | table `play_history` | add, list, clear, delete; counts and rankings | no route yet |
| `Config` | the settings of `config.json` | `loadFromFile` | main |
| `JsonUtil`, `constants.h` | none | formatting of answers | handlers |
| `PlaylistHandler.h`, `PlayHistoryHandler.h` | none | declared, not implemented | nobody |

**Interaction.** `main` loads the configuration, fills the pool, constructs `Server`
and calls `run`, which starts `m_num_threads` threads in `io_context::run` and stays
in a loop that cleans up expired codes every five seconds. An io thread handles a
whole request without suspending: it may mail a code, look one up, and make one or
two DAO calls, each with a connection of its own from the pool. SIGINT runs `stop` on
top of whatever the receiving thread is doing.

**What is hard.** Three critical sections, one of which ends too early
(`verifyCode` reads after it unlocked); a condition variable with `notify_one`,
timeouts and threads that overtake waiters; connections that die and are repaired
outside the lock; statements that fail before or after they took effect; check, then
insert, or read, then write, in two statements; sessions that run on any io thread
without a strand; handlers that may hang on the threads everyone shares; files
rewritten in place while others read them, by a process that may die meanwhile; a
signal handler that joins threads, on top of a main thread that may hold a mutex or be
in the middle of starting threads.

**What makes the parts correct.**

- Pool: a connection is used by one thread at a time, none is lost, no waiter sleeps
  beside an idle connection, waiting is bounded, and null is returned (and then
  dereferenced) only if the pool is too small.
- Codes: what is stored was mailed, a verdict is right for the entry looked up,
  cleanup removes what is expired and nothing else, hanging mail blocks only itself.
- Server: it never runs on half a configuration, accepts until it is stopped, stop ends
  everything that was started, and stopping terminates unless a mail hangs.
- Session: one thing at a time, responses in the order of the requests, every request
  answered, every session ended.
- Accounts: own id, unique names, logins that agree with the password, no update
  reported that did not happen.
- Avatars and tokens: a token counts until it expires, a picture is saved and read
  whole, and only its owner's.
- Playlists and history: answers that agree with the tables whatever runs in between,
  no orphans, duplicates or rows that come back, plays counted, rankings right.

`PROJECT.json` lists the hazards behind these, each at its line.

## 2. Modules

| Module | Models | Relation |
|---|---|---|
| `ConnectionPool` | what the pool promises: free set, one owner per connection | abstract specification |
| `DBManager` | `DBManager.cpp`, `SqlConnGuard` | implements `ConnectionPool` |
| `VerifyService` | `VerifyService.cpp`, mail transfer | |
| `Config` | the settings in the order `loadFromFile` takes them, and where it fails | |
| `Server` | `main.cpp`, `Server.cpp` | extends `Config`; has `VerifyService::m_mtx` as the lock main and handlers share |
| `Router`, `Session` | `Router.cpp` with the routes of `main.cpp`; `Session.cpp` | `Session` extends `Router` |
| `UserAccounts` | `UserHandler.cpp`, `UserDAO.cpp`, table `users` | extends `ConnectionPool`, justified by the refinement |
| `JWTUtil`, `AvatarStore` | `JWTUtil.cpp`; the avatar handlers of `UserHandler.cpp` | `AvatarStore` extends `JWTUtil` |
| `DaoCall` | what DAO calls share: guard, statements, answer | extends `ConnectionPool`, justified by the refinement |
| `PlaylistDAO`, `PlayHistoryDAO` | `PlaylistDAO.cpp`, `PlayHistoryDAO.cpp` and their tables | extend `DaoCall` |
| `*Proofs` | the proofs about one module each: `DBManager`, `VerifyService`, `Server`, `Session`, `UserAccounts`, `AvatarStore`, `PlaylistDAO`, `PlayHistoryDAO` | extend that module |
| `MC*` | symmetry sets and small constants for TLC | |

### DBManager

A critical section of `m_mtx` is one step. `wait_for` is split where it gives up the
mutex: `sleeping` and `notified` threads are inside it, and a step under the mutex
decides what they do next. `WaitTakes` is also enabled for a sleeping thread, which
stands for a spurious wake-up and for the last test of the predicate at the timeout;
it is what makes overtaking possible. The validation after the pop runs outside the
mutex (`Validate`, `ReconnectFails`). `link` is the state of the MySQL session:
`noschema` is left behind when `reconnect` works and `setSchema` throws. The
constructor's swallowed exception is `PoolCutShort`. `crashed` records that a DAO
dereferenced a null connection. `~DBManager` runs at static destruction and
`available()` has no caller; neither is modelled.

### VerifyService

The assignment to an existing map entry is split into its three members and
`verifyCode` into its three reads, because the reads happen without the mutex. `pInfo`
says what verifyCode's pointer is worth: `live`, `raced` (assigned to since `find`) or
`dangling` (erased since `find`). A read through a dangling pointer may come out either
way; the properties of the passing run claim nothing about raced and dangling
calls, and `codes_torn_read` shows what a raced one can do. A tearing inside one
`std::string` is not modelled: it would add outcomes only to raced calls. The code in
a request is a value of a small set; `mailed` and `issued` are history variables.

### Config and Server

A configuration file is the set of its sections and of its well-typed settings.
`loadFromFile` is one step per setting: `TakeSetting` assigns the next one of `Order`,
until `ConfigLoaded` or, at a missing section or a wrong setting, `ConfigRefused`, which
leaves the settings before it assigned. Only `verify_service` may be missing. Only the
number of threads has a value, any integer, because `run` depends on it: with zero
threads the server listens and answers nobody, with a negative number `reserve` throws
after `m_running` is set and `~Server` runs `stop` (`ReserveThrows`).

`stop` runs in a frame on top of the thread that received the signal: while `frame[p]`
is set, the interrupted code of `p` stands still, with the locks it holds. Linux gives
a process-directed SIGINT to the main thread unless it is blocked there, which it is
inside the handler; then an io thread gets it. Request handling is reduced to the mail
of `sendVerifyCode`, which may never end (curl has no timeout), and to taking and
releasing `m_mtx`, the only lock shared with main. `join` throws when a thread
joins itself or when two threads join one, and an exception that leaves the handler,
like the destruction of a joinable `std::thread`, is `aborted`. `early` records a
SIGINT that came while the threads were being started. Not modelled: failure to create
a thread, a signal during `~Server`'s own stop, and the data race inside asio when
`close` and `async_accept` meet.

### Session and Router

A session is its outstanding operations (`reading`, `writing`) and the handler that may
run for it on an io thread (`busy`). `m_request` is the set of the requests parsed into
it, which is what `m_request = {}` is there to keep small; `m_response` remembers which
request it answers. The client may send requests ahead, close at any time, or send
something that is no HTTP. `Close` is a FIN or RST that reaches the server; a peer that
vanishes without one leaves the read pending for ever, because no operation has a
timeout and the socket no keepalive (`Session.cpp:27`). `need_eof()` depends on the
request's headers and is a choice. A handler answers at once, except that `POST
/users/verify_code` waits for a mail that may never end. The router is the table of
`setupRoutes`, with whole targets compared.

### UserAccounts

Each DAO call acquires a connection, runs its statements one by one and releases it. A
statement is atomic in MySQL (autocommit) and may throw before or after it took
effect. A failed duplicate INSERT uses up an AUTO_INCREMENT value. `LAST_INSERT_ID()`
belongs to the session. `tokens` is the set of ids for which login issued a token, and
`verifyToken` lets through exactly those. `RejectEarly` stands for every answer given
before the first DAO call. The module assumes at least as many connections as threads,
so that by theorem `NullNeedsSmallPool` no connection is null; the shipped
configuration has five connections and one thread. A password hash is an injective
function. `answer` is the answer of the request that ended in the last step; `row`,
`plain` and `during` are history variables. `UserDAO::updateUser` and `deleteUser` have
no caller.

### JWTUtil and AvatarStore

A token is its id claim, who signed it and its expiry, from which its time of issue
follows. `verifyToken` is two steps, because each reads the clock: the verifier, whose
leeway applies to the expiry and to the time of issue, and `isTokenExpired` without one.
A file is a sequence of chunks that tell whose picture they are of; an update truncates
it and writes chunk by chunk at the offset of its own stream, so that two updates mix
and leave gaps as POSIX files do, and a read takes chunks until it meets the end of the
file as it is then. A write may fail, which nobody notices, and `Restart` ends every
request at any point with the files as they are. `saved` and `intact` are history
variables: the picture a complete, undisturbed update left, and whether a request has
been disturbed.

### DaoCall, PlaylistDAO and PlayHistoryDAO

A call takes a connection, runs its statements on it, one step each, and gives an
answer; `fault` in the answer tells the properties whether MySQL or the connection
failed in the call. `playlist_songs` counts rows, so that the table could hold a
duplicate if the key allowed one; a failed INSERT uses up an AUTO_INCREMENT value. An
UPDATE that changes nothing reports zero or one row, depending on the client flags.
`createPlaylist` asks for the new id with `executeQuery(sql)` on a prepared statement
(`PlaylistDAO.cpp:25`), which Connector/C++ 8.0.33, the version of `CMakeLists.txt:19`,
answers with `MethodNotImplementedException`: `LastInsertId` has no other outcome. The
table of `PlayHistoryDAO` starts with any rows and any counts, since the program itself
can add none (finding 3) and the table outlives it; rows that tie under ORDER BY come
in any order. `played_at` is the order of the ids. `owed` and `clash` are history
variables: the count if no play were lost, and the rows that two calls incremented at
the same time.

## 3. Runs

| Run | Checks | Shows |
|---|---|---|
| `pool` | `TypeOK`, `PoolExclusive`, `ConnectionsConserved`, `NoLostWakeup`, `NullOnlyWhenUndersized`, `GetConnectionReturns`, `ImplementsPool` | the pool keeps its promises with sessions lost at any time |
| `codes` | `TypeOK`, `StoredWasMailed`, `VerdictExact`, `AcceptedWasIssued`, `CleanupOnlyExpired`, `ExpiredIsRemoved`, `VerifyReturns` | undisturbed calls are exact; cleanup, which samples the clock before it locks, spares renewed codes and leaves no expired one; hanging mail does not block verification |
| `codes_torn_read` | `AcceptedForItsAction` (violated) | finding 1 |
| `server` | `TypeOK`, `ServesNothingAfterStop`, `ExitLeavesNoThread`, `RunsConfigured`, `AbortNeedsRace`, `StopsFromSleep`, `ClientsAccepted` | a half-read configuration is never used; with signals at any moment, an abort needs a SIGINT during start-up or a second one; only hanging mails keep the server from stopping, or, on every io thread, from accepting |
| `server_stop_deadlock` | `StopsWhileServing` (violated) | finding 2 |
| `session` | `OneActivity`, `ResponsesMatch`, `RequestsAnswered`, `SessionsEnd` | the chain of operations replaces a lock; hanging mail harms other sessions only when it holds every thread |
| `accounts` | `OneAccountPerName`, `NobodyWaits`, `RegisteredIdIsOwn`, `LoginAgrees`, `ReportedUpdateIsApplied` | racing registrations are safe thanks to the UNIQUE keys and the session's insert id; logins racing with changes are linearizable; a reported change of password or binding is in its row; no handler waits for the pool |
| `avatars` | `UpdateSaves`, `TokenVerdict`, `ReadsWhole` | a complete update survives everything but the next update; torn pictures need two requests of one user at once, a failed write or a crash |
| `token_leeway` | `LeewayHonoured` (violated) | finding 4 |
| `playlists` | `SongsBelong`, `AddVerdict`, `NoResurrection` | the schema's keys repair every check-then-act, and the answer about a song tells the truth unless a statement failed |
| `history` | `PlaysCounted`, `HistoryChanges`, `RankingRight` | a play is lost only when two calls overlap on one row; nothing else goes wrong between the statements |
| `history_first_play` | `FirstPlayRecorded` (violated) | finding 3 |

Where `TypeOK` is not named, it is a conjunct of the first invariant (`OneActivity`,
`NobodyWaits`, `UpdateSaves`, `SongsBelong`, `PlaysCounted`).

### Bounds

- `pool`: four threads and zero to four connections (the constructor may stop
  anywhere). Four threads are the least for two releases in a row with two threads
  asleep, the case in which a release that notifies only when the deque was empty
  strands a waiter. The model needs no other bound.
- `codes`: two threads, one address (entries of different addresses share only the
  mutex), two codes and two actions so that a mixture of two sends is recognisable. Of
  the four pairs of action and code, three are used as arguments (`Inputs`): they
  differ in the action, in the code and in both. `MaxSends = 2` (one entry to
  overwrite, one overwriting); `Expiry = 0` with `MaxTime = 1`, so that a code is
  stored, still valid at its last moment, and expired. `codes_torn_read` uses all four
  pairs. The theorems hold for any arguments, expiry and time.
- `server`: -1, 0, 1 or 2 threads and two signals: one thread to be joined and one that
  is interrupted by the second signal. Of the configuration files, those with at most
  one wrong section and one wrong setting: the loader looks at each on its own.
  `server_stop_deadlock`: one signal.
- `session`: two sessions and two threads, so that one session can be handled while the
  other is, or both can wait for a hanging mail; two requests per client, one sent
  ahead of the other's answer; a request that may hang and one that is not routed (its
  target is registered for the other verb).
- `accounts`: two threads, two connections, two names, addresses, passwords and ids, so
  that a duplicate of either key, a second row and a password change under a login all
  happen.
- `avatars`: two threads, two users, pictures of one and two chunks (the least that can
  be torn or left too long), two secrets, tokens that last one unit of time with a
  leeway of one and a clock that goes to three, past both.
- `playlists`: two threads, an existing and a missing user, two ids, one song id on two
  platforms, and room for two rows of a song.
- `history`: two threads, two users, two rows, one song id on two platforms by two
  singers, counts up to three, limits up to one (so that the ranking has to choose).

Symmetry is used only in runs without liveness properties, and only over sets whose
elements the models never tell apart. `token_leeway` needs one thread and one user.
Deadlock is not checked in `pool` (the process
crashes), `server` (it exits) and `session` (clients leave); everywhere else it is.

### Fairness

- `DBManager`: only that a waiter whose deadline passes returns. Users of connections
  need not release them.
- `VerifyService`: running threads go on (weak), and whoever waits for the mutex gets
  it in the end (strong, for `FindCode` and `CleanupErase`): holders keep it for a few
  assignments. Nothing is assumed of the mail transfer, because curl has no timeout,
  nor of time or clients.
- `Server`: threads that can run do, and waiting for `m_mtx` ends if it is free again
  and again. A request handler goes on unless it is in a mail, and no mail has to end:
  `StopsFromSleep` and `StopsWhileServing` exempt behaviours in which one hangs, and
  `ClientsAccepted` those in which mails hang on all io threads. Clients and signals owe
  nothing.
  A completed accept is not passed over for ever (strong): asio runs its handlers
  first-in, first-out.
- `Session`: an operation of the socket that can complete does; a completed one is taken
  if threads come free again and again (strong, the same queue); a handler ends, except
  one that mails. Nothing is assumed of clients.

## 4. Findings

1. **`verifyCode` accepts a code for an action it was not sent for**
   (`VerifyService.cpp:53`). The mutex is released after `find`; the action is read
   before, the code after another thread stores a new `VerifyInfo`.
2. **Stopping can deadlock** (`Server.cpp:74`). SIGINT while main holds `m_mtx` in
   `cleanupExpiredCodes`; `stop` joins an io thread that waits for `m_mtx`.
3. **A first play is never recorded** (`PlayHistoryDAO.cpp:39`): the INSERT names seven
   columns and has six values, so MySQL refuses it.
4. **The leeway of 60 s never helps an expired token** (`JWTUtil.cpp:44`), although the
   comment at `JWTUtil.cpp:38` allows a deviation of 60 s: `isTokenExpired`, called right
   after the verifier, refuses it. The leeway still applies to the time of issue.

Seen while modelling, without a run of their own:

- A SIGINT before `m_running` is set prints "stopping server..." and is forgotten
  (`Server.cpp:67`). One that comes while the threads are being started lets `stop`
  clear the vector that `run` goes on filling, and the process ends in
  `std::terminate`; `AbortNeedsRace` names this race.
- `createPlaylist` never reports success. It inserts the row, commits it, and then
  throws at the query for the id (`PlaylistDAO.cpp:25`, see section 2): the caller is
  told that no playlist was made and gets no id, and one who tries again makes another.
- A registration answered with a failure may have left its row: the connection fails
  after the INSERT was committed (`UserDAO.cpp:36`).
- With a hanging mail `stop` never returns from `join` (`Server.cpp:74`), and with the
  one io thread of the shipped configuration nobody is accepted or answered any more.
- "Avatar updated successfully" is answered after a failed write and after an update
  that another one overlapped (`UserHandler.cpp:251`).
- `GET /history/like` (comment at `main.cpp:159`) is registered for POST.
- `expire_time`, `issuer`, `request_timeout` and `connection_timeout` are required by
  the loader and used by nobody. "Config loaded successfully" is logged only when
  `verify_service` is missing (`Config.cpp:52`); without it every mail fails.
- `getUserTotalPlayCount` counts rows, not plays; `addPlayHistory` looks a song up
  without its platform, and never sets `played_at` again, so that "recent" means
  recently added.
- A verification code is not consumed by its use and stays valid until it expires.

## 5. Proofs

Every safety property the passing runs check, invariant or action property, and the
refinement of `ConnectionPool`, is a theorem; the run shows it on a small instance, the
theorem for every value of the constants.

| Module | Theorems (property) |
|---|---|
| `DBManagerProofs` | `TypeCorrect`, `Exclusive` (`PoolExclusive`), `Conserved` (`ConnectionsConserved`), `WakeupsReachWaiters` (`NoLostWakeup`), `NullNeedsSmallPool` (`NullOnlyWhenUndersized`), `PoolRefinement` (`ImplementsPool`) |
| `VerifyServiceProofs` | `TypeCorrect`, `OnlyMailedIsStored` (`StoredWasMailed`), `UntouchedVerdictIsExact` (`VerdictExact`), `AcceptedIsGenuine` (`AcceptedWasIssued`), `CleanupSparesValidCodes` (`CleanupOnlyExpired`) |
| `ServerProofs` | `TypeCorrect`, `StopIsComplete` (`ServesNothingAfterStop`), `ExitIsClean` (`ExitLeavesNoThread`), `ConfigurationIsComplete` (`RunsConfigured`), `NoAbortWithoutRace` (`AbortNeedsRace`) |
| `SessionProofs` | `OneThingAtATime` (`OneActivity`), `ResponsesInOrder` (`ResponsesMatch`) |
| `UserAccountsProofs` | `AccountsAreDistinct` (`OneAccountPerName`), `ConnectionIsFree` (`NobodyWaits`), `RegisterAnswersOwnRow` (`RegisteredIdIsOwn`), `LoginIsRight` (`LoginAgrees`), `ReportedUpdatesAreStored` (`ReportedUpdateIsApplied`) |
| `AvatarStoreProofs` | `UndisturbedUpdateSaves` (`UpdateSaves`), `TokensAreJudgedRight` (`TokenVerdict`), `UndisturbedReadIsWhole` (`ReadsWhole`) |
| `PlaylistDAOProofs` | `SongsInPlaylists` (`SongsBelong`), `AddAnswersRight` (`AddVerdict`), `DeletedStaysDeleted` (`NoResurrection`) |
| `PlayHistoryDAOProofs` | `PlaysAreCounted` (`PlaysCounted`), `OnlyOwnHistoryChanges` (`HistoryChanges`), `RankingsAreRight` (`RankingRight`) |

In each module but `DBManagerProofs` one invariant, `Inv`, carries all theorems. It
was checked with TLC on the instances of the runs before it was proved; `Inductive`
shows that every action keeps it, action by action, and the action properties follow
from `Inv` and one step.

**Assumptions.** Each is a named ASSUME that TLC evaluates in the runs: the bounds are
natural numbers; `Null`, `NoConn` and `None` are none of the values they are the absence
of (`NullAssumption`); threads and connections are finite sets where they are counted;
`DaoCall` and `UserAccounts` have a connection for every thread, which is what
`NullNeedsSmallPool` asks for and the shipped configuration has. A bound such as
`MaxTime`, `MaxSends` or `MaxSignals` may be any number.

### The arguments

**DBManager.** Neither exclusiveness nor conservation is inductive alone: a push keeps
the deque free of duplicates only if the pushed connection was not in it, and it was
not because a thread held it. `OwnershipInv`, their conjunction with the type
invariant, is inductive; `PushBack` and `PopFrontRange` say what the deque operations do
to the set of its elements. `NoLostWakeup` needs in addition `StartedInv` (nobody waits
before the pool is built) and counts: a release adds one connection and, if anyone
sleeps, one notified thread; a pop by a notified thread removes one of each; a pop by
anyone else removes only a connection; and a notified thread goes back to sleep or
gives up only on an empty deque. `NullNeedsSmallPool` adds that with an empty deque
every opened connection is held, by different threads, none of which is the one that
waits (`EmptyDequeCount`). The refinement maps `free` to the set of the deque's elements
and `owner` to `conn`; `StepRefines` goes through the actions.

**VerifyService.** `IssueInv` follows a send from the mail to the three assignments:
what a thread stores it has mailed, and an entry that nobody is assigning to is one
request that was mailed and issued. `LiveInv` says what each read of a verifyCode with
a live pointer has established about the entry, which stays true because every
assignment and erasure turns the pointer into a raced or dangling one. `CleanupInv`
keeps the sampled clock behind the clock, so that what was expired then is expired now.

**Server.** `LoadInv`: while the file is read, the settings taken are exactly those
before the current one in `Order`, and the file has their sections. So when
`loadFromFile` returns true, at the end of the list or at `verify_service` if the file
lacks it, the required settings are complete and those of `verify_service` complete or
absent (`CompleteFile`); nothing changes them afterwards. `SpawnInv`: the threads
started are 1 to k, and the vector is never longer. `JoinInv`: while a `join` waits,
its thread is in the vector, not joined, and nobody else waits for it; so a second
`stop` cannot clear the vector under a waiting one without `std::terminate`. `StopInv`:
a thread that handles something has a place in the vector that no join loop has passed;
at the end of a loop there is no such place, so nothing runs when `m_running` is
cleared, and `m_ioc`, stopped by then, starts nothing new. Without a place for the
thread this is not inductive, because a SIGINT during start-up lets the vector be
cleared and filled again. `VectorInv`: a thread started is in the vector or was joined,
hence has ended: a normal exit leaves none. `RaceInv`: with one late SIGINT, `stop`
runs on main alone and its loop leaves only joined threads behind it.

**Session.** `Phase` says how many requests were taken and answered in each phase of a
session, and that `m_request` holds exactly the one being handled; `Exclusion`
that the phases exclude one another, which is all the protection a session has.

**UserAccounts, PlaylistDAO.** While a registration is between the INSERT and the query
for its id, `LAST_INSERT_ID()` of the connection it holds is the row it made
(`CreateInv`); no other thread has that connection. `TableInv` has the keys: rows below the
AUTO_INCREMENT value only, unique names, songs only in existing playlists. `LoginInv`
relates what a login has read to the passwords the account had during the call;
`TokenInv` gives a row to every token. `NobodyWaits` is a count: connections held are
held by different threads with a statement under way, of which the one that wants a
connection is none.

**AvatarStore.** `WriteInv`: an update that nothing has disturbed is the only one that
writes its file, the file holds the chunks it has written and nothing else, and it
has the rest of the picture still to write. `SavedInv`: a saved picture is the content
of the file, and nobody writes it. `ReadInv`: an undisturbed read has the first chunks
of the saved picture. An update that begins disturbs everybody on the file, which is what
makes the three hold together. For the tokens, `RequestInv` remembers that the verifier
has accepted the signature when the expiry is tested, and `IssuedInv` that no token was
issued later than now, so that the verifier's test of the time of issue refuses none.

**PlayHistoryDAO.** `CountInv`: outside `clash`, what a call has read of a row is still
its count and no other call has read it. `BoundInv` keeps counts within the table's
type, charging each call under way for its play. For the rankings, `FirstPage` shows
that a page of a sequence sorted by count leaves out nothing larger than what it shows.

**Only model-checked.** The seven liveness properties (`GetConnectionReturns`,
`ExpiredIsRemoved`, `VerifyReturns`, `StopsFromSleep`, `ClientsAccepted`,
`RequestsAnswered`, `SessionsEnd`): fairness and ENABLED are outside the prover's reach.
The four violated properties have counterexamples and no proof.

## 6. Not modelled

`JsonUtil` and `constants.h` only format. `PlaylistHandler.h` and `PlayHistoryHandler.h`
declare functions that do not exist, and `Config::loadFromJson` likewise.
`UserDAO::updateUser`, `deleteUser`, `DBManager::available` and `JWTUtil::getSubject`
have no caller. Values of settings, texts of answers, covers, names and pictures of
songs, and log output are left out of every module. The data race inside asio between
`close` and `async_accept`, and torn `std::string`s, are below the models' level.

## 7. Plan

Done: every component with an implementation has a module, and every safety property is
proved. Worth doing next:

1. An abstract specification of the data-access layer, in which a call takes effect in
   one step, and `PlaylistDAO` shown to implement it for calls that meet no fault.
2. The same for `VerifyService`: a map with atomic send, verify and cleanup, implemented
   by the calls whose pointer stays live.
3. Theorems beyond the runs' properties: that `m_threads` is filled in order, and that
   `stop` joins every thread it clears.
