---------------------------- MODULE VerifyService ----------------------------
(***************************************************************************)
(* The verification codes of server/VerifyService.cpp: sendVerifyCode and  *)
(* verifyCode called by the io threads, cleanupExpiredCodes by the main    *)
(* thread.                                                                 *)
(*                                                                         *)
(* verifyCode drops m_mtx after find and goes on reading through pInfo, so *)
(* the assignment to an existing entry is split into its three member      *)
(* assignments and verifyCode into its three reads.  A finer tearing,      *)
(* inside one std::string, would only add outcomes to calls that are       *)
(* marked "raced" here.                                                    *)
(***************************************************************************)
EXTENDS Naturals, FiniteSets

CONSTANTS
  Threads,   \* io threads
  Emails,
  Codes,     \* values of the random six-digit code
  Actions,   \* "register" and "reset_password"
  Inputs,    \* bound: the arguments calls are made with
  Expiry,    \* verfication_code_expiry of the configuration
  MaxTime,   \* bound: the clock stops here
  MaxSends,  \* bound: codes requested in a behaviour
  None       \* no entry in m_codes, or no request being served

Requests == [email : Emails, action : Actions, code : Codes]
Infos == [code : Codes, expire_time : Nat, action : Actions]

ASSUME VerifyAssumption ==
  /\ Inputs \subseteq Requests
  /\ Expiry \in Nat /\ MaxTime \in Nat /\ MaxSends \in Nat
  /\ None \notin Requests /\ None \notin Infos

VARIABLES
  now,      \* system_clock::now()
  m_codes,  \* m_codes[e]: the VerifyInfo stored for e, or None
  pc,       \* pc[t]: where io thread t is
  req,      \* req[t]: the arguments of its call (code: generated or given)
  clock,    \* clock[t]: a time it has computed
  pInfo,    \* pInfo[t]: what verifyCode's pointer points to
  main,     \* the main thread, in the loop of Server::run
  cnow,     \* the time cleanupExpiredCodes sampled
  sends,    \* calls of sendVerifyCode so far
  mailed,   \* history: what has been mailed, to whom, for which action
  issued    \* history: what has been stored, with its expiry

vars == <<now, m_codes, pc, req, clock, pInfo, main, cnow, sends, mailed, issued>>

(* "raced": overwritten since find; "dangling": erased since find. *)
Pointer == {"none", "live", "raced", "dangling"}

(* "mail" to "storeAction" are inside sendVerifyCode, "find" to "code"     *)
(* inside verifyCode; "accepted" and "rejected" are its results.           *)
CallState == {"idle", "mail", "store", "storeExpire", "storeAction", "find",
              "clock", "expire", "action", "code", "accepted", "rejected"}

(* Mutant: the lock_guard at the top of sendVerifyCode. *)
HoldsFromTheStart(t) == pc[t] \in {"mail", "store", "storeExpire", "storeAction"}

(* Thread t holds m_mtx between two steps. *)
Holds(t) == pc[t] \in {"storeExpire", "storeAction"}
MutexFree(t) == \A u \in Threads \ {t} : ~Holds(u)

Init ==
  /\ now = 0
  /\ m_codes = [e \in Emails |-> None]
  /\ pc = [t \in Threads |-> "idle"]
  /\ req = [t \in Threads |-> None]
  /\ clock = [t \in Threads |-> 0]
  /\ pInfo = [t \in Threads |-> "none"]
  /\ main = "sleep"
  /\ cnow = 0
  /\ sends = 0
  /\ mailed = {}
  /\ issued = {}

Tick ==
  /\ now < MaxTime
  /\ now' = now + 1
  /\ UNCHANGED <<m_codes, pc, req, clock, pInfo, main, cnow, sends, mailed, issued>>

(* The call returns and its locals are gone. *)
Finish(t) ==
  /\ pc' = [pc EXCEPT ![t] = "idle"]
  /\ req' = [req EXCEPT ![t] = None]
  /\ clock' = [clock EXCEPT ![t] = 0]

-----------------------------------------------------------------------------
(* sendVerifyCode *)

(* generateVerificationCode: any code, possibly one used before. *)
StartSend(t) ==
  /\ pc[t] = "idle"
  /\ sends < MaxSends
  /\ \E r \in Inputs : req' = [req EXCEPT ![t] = r]
  /\ pc' = [pc EXCEPT ![t] = "mail"]
  /\ sends' = sends + 1
  /\ UNCHANGED <<now, m_codes, clock, pInfo, main, cnow, mailed, issued>>

(* Mutant: the result of sendTextEmail is not tested. *)
MailFailureIgnored(t) ==
  /\ pc[t] = "mail"
  /\ pc' = [pc EXCEPT ![t] = "store"]
  /\ UNCHANGED <<now, m_codes, req, clock, pInfo, main, cnow, sends, mailed, issued>>

(* sendTextEmail fails: nothing is stored. *)
MailFails(t) ==
  /\ pc[t] = "mail"
  /\ Finish(t)
  /\ UNCHANGED <<now, m_codes, pInfo, main, cnow, sends, mailed, issued>>

MailSent(t) ==
  /\ pc[t] = "mail"
  /\ mailed' = mailed \cup {req[t]}
  /\ pc' = [pc EXCEPT ![t] = "store"]
  /\ UNCHANGED <<now, m_codes, req, clock, pInfo, main, cnow, sends, issued>>

Info(t, x) ==
  [code |-> req[t].code, expire_time |-> x, action |-> req[t].action]

(* A pointer to an entry that is assigned to is raced from now on. *)
Raced(e) ==
  [u \in Threads |->
     IF pInfo[u] = "live" /\ req[u].email = e THEN "raced" ELSE pInfo[u]]

(* With m_mtx: a new entry is built and assigned before anyone can find    *)
(* it; of an existing one the first member is assigned.                    *)
StoreCode(t) ==
  LET e == req[t].email
      x == now + Expiry
  IN  /\ pc[t] = "store"
      /\ MutexFree(t)
      /\ issued' = issued \cup {[req |-> req[t], expire_time |-> x]}
      /\ \/ /\ m_codes[e] = None
            /\ m_codes' = [m_codes EXCEPT ![e] = Info(t, x)]
            /\ Finish(t)
            /\ UNCHANGED pInfo
         \/ /\ m_codes[e] # None
            /\ m_codes' = [m_codes EXCEPT ![e].code = req[t].code]
            /\ clock' = [clock EXCEPT ![t] = x]
            /\ pc' = [pc EXCEPT ![t] = "storeExpire"]
            /\ pInfo' = Raced(e)
            /\ UNCHANGED req
      /\ UNCHANGED <<now, main, cnow, sends, mailed>>

StoreExpire(t) ==
  /\ pc[t] = "storeExpire"
  /\ m_codes' = [m_codes EXCEPT ![req[t].email].expire_time = clock[t]]
  /\ pc' = [pc EXCEPT ![t] = "storeAction"]
  /\ UNCHANGED <<now, req, clock, pInfo, main, cnow, sends, mailed, issued>>

(* Mutant: the action of an existing entry is kept. *)
StoreKeepsAction(t) ==
  /\ pc[t] = "storeAction"
  /\ Finish(t)
  /\ UNCHANGED <<now, m_codes, pInfo, main, cnow, sends, mailed, issued>>

(* The last member; the lock_guard releases m_mtx. *)
StoreAction(t) ==
  /\ pc[t] = "storeAction"
  /\ m_codes' = [m_codes EXCEPT ![req[t].email].action = req[t].action]
  /\ Finish(t)
  /\ UNCHANGED <<now, pInfo, main, cnow, sends, mailed, issued>>

-----------------------------------------------------------------------------
(* verifyCode *)

StartVerify(t) ==
  /\ pc[t] = "idle"
  /\ \E r \in Inputs : req' = [req EXCEPT ![t] = r]
  /\ pc' = [pc EXCEPT ![t] = "find"]
  /\ UNCHANGED <<now, m_codes, clock, pInfo, main, cnow, sends, mailed, issued>>

(* With m_mtx: find.  The lock ends with the block. *)
FindCode(t) ==
  /\ pc[t] = "find"
  /\ MutexFree(t)
  /\ \/ /\ m_codes[req[t].email] = None
        /\ pc' = [pc EXCEPT ![t] = "rejected"]
        /\ UNCHANGED pInfo
     \/ /\ m_codes[req[t].email] # None
        /\ pc' = [pc EXCEPT ![t] = "clock"]
        /\ pInfo' = [pInfo EXCEPT ![t] = "live"]
  /\ UNCHANGED <<now, m_codes, req, clock, main, cnow, sends, mailed, issued>>

ReadClock(t) ==
  /\ pc[t] = "clock"
  /\ clock' = [clock EXCEPT ![t] = now]
  /\ pc' = [pc EXCEPT ![t] = "expire"]
  /\ UNCHANGED <<now, m_codes, req, pInfo, main, cnow, sends, mailed, issued>>

(* One disjunct of the return expression: it passes if ok, and reading an  *)
(* erased entry may come out either way.                                   *)
Compare(t, ok, next) ==
  /\ \E pass \in IF pInfo[t] = "dangling" THEN BOOLEAN ELSE {ok} :
        pc' = [pc EXCEPT ![t] = IF pass THEN next ELSE "rejected"]
  /\ UNCHANGED <<now, m_codes, req, clock, pInfo, main, cnow, sends, mailed, issued>>

(* pInfo->expire_time < now rejects. *)
ReadExpire(t) ==
  /\ pc[t] = "expire"
  /\ Compare(t, m_codes[req[t].email].expire_time >= clock[t], "action")

(* Mutant: the action is not compared. *)
ActionIgnored(t) ==
  /\ pc[t] = "action"
  /\ Compare(t, TRUE, "code")

ReadAction(t) ==
  /\ pc[t] = "action"
  /\ Compare(t, m_codes[req[t].email].action = req[t].action, "code")

ReadCode(t) ==
  /\ pc[t] = "code"
  /\ Compare(t, m_codes[req[t].email].code = req[t].code, "accepted")

(* Mutant: the pointer outlives the call. *)
ReturnKeepsPointer(t) ==
  /\ pc[t] \in {"accepted", "rejected"}
  /\ Finish(t)
  /\ UNCHANGED <<now, m_codes, pInfo, main, cnow, sends, mailed, issued>>

Return(t) ==
  /\ pc[t] \in {"accepted", "rejected"}
  /\ Finish(t)
  /\ pInfo' = [pInfo EXCEPT ![t] = "none"]
  /\ UNCHANGED <<now, m_codes, main, cnow, sends, mailed, issued>>

-----------------------------------------------------------------------------
(* cleanupExpiredCodes, on the main thread every five seconds *)

(* The clock is read before m_mtx is taken. *)
CleanupNow ==
  /\ main = "sleep"
  /\ main' = "erase"
  /\ cnow' = now
  /\ UNCHANGED <<now, m_codes, pc, req, clock, pInfo, sends, mailed, issued>>

(* Mutant: an entry that expires this very moment is erased too. *)
ExpiredOrExpiring == {e \in Emails : m_codes[e] # None /\ m_codes[e].expire_time <= cnow}

Expired == {e \in Emails : m_codes[e] # None /\ m_codes[e].expire_time < cnow}

(* Mutant: the loop stops at the first entry, expired or not. *)
CleanupKeepsAll ==
  /\ main = "erase"
  /\ \A t \in Threads : ~Holds(t)
  /\ main' = "sleep"
  /\ cnow' = 0
  /\ UNCHANGED <<now, m_codes, pc, req, clock, pInfo, sends, mailed, issued>>

(* With m_mtx: the loop erases every expired entry. *)
CleanupErase ==
  /\ main = "erase"
  /\ \A t \in Threads : ~Holds(t)
  /\ m_codes' = [e \in Emails |-> IF e \in Expired THEN None ELSE m_codes[e]]
  /\ pInfo' = [t \in Threads |->
       IF pInfo[t] # "none" /\ req[t].email \in Expired THEN "dangling" ELSE pInfo[t]]
  /\ main' = "sleep"
  /\ cnow' = 0
  /\ UNCHANGED <<now, pc, req, clock, sends, mailed, issued>>

-----------------------------------------------------------------------------
Send(t) ==
  \/ StartSend(t) \/ MailFails(t) \/ MailSent(t)
  \/ StoreCode(t) \/ StoreExpire(t) \/ StoreAction(t)

Verify(t) ==
  \/ StartVerify(t) \/ FindCode(t) \/ ReadClock(t)
  \/ ReadExpire(t) \/ ReadAction(t) \/ ReadCode(t) \/ Return(t)

Next ==
  \/ Tick
  \/ CleanupNow
  \/ CleanupErase
  \/ \E t \in Threads : Send(t) \/ Verify(t)

Spec == Init /\ [][Next]_vars

(* A running thread goes on, and whoever waits for m_mtx gets it in the    *)
(* end.  The SMTP transfer may take for ever: curl has no timeout.         *)
FairSpec ==
  /\ Spec
  /\ WF_vars(CleanupNow) /\ SF_vars(CleanupErase)
  /\ \A t \in Threads :
       /\ WF_vars(StoreExpire(t) \/ StoreAction(t))
       /\ SF_vars(FindCode(t))
       /\ WF_vars(ReadClock(t) \/ ReadExpire(t) \/ ReadAction(t) \/ ReadCode(t)
                  \/ Return(t))

-----------------------------------------------------------------------------
(* Properties *)

(* Types of the stored entries, of the calls and of the histories.  A      *)
(* pointer is set only inside verifyCode, after find.                      *)
TypeOK ==
  /\ now \in 0 .. MaxTime
  /\ m_codes \in [Emails -> Infos \cup {None}]
  /\ pc \in [Threads -> CallState]
  /\ req \in [Threads -> Requests \cup {None}]
  /\ \A t \in Threads : req[t] = None <=> pc[t] = "idle"
  /\ clock \in [Threads -> Nat]
  /\ pInfo \in [Threads -> Pointer]
  /\ \A t \in Threads : pInfo[t] # "none" =>
        pc[t] \in {"clock", "expire", "action", "code", "accepted", "rejected"}
  /\ main \in {"sleep", "erase"}
  /\ cnow \in 0 .. MaxTime
  /\ sends \in 0 .. MaxSends
  /\ mailed \subseteq Requests
  /\ issued \subseteq [req : Requests, expire_time : Nat]

(* Whenever no thread is inside sendVerifyCode's assignment, a stored code *)
(* is one that was mailed to that address for that action: sendVerifyCode  *)
(* stores nothing that it failed to send, and no mixture of two sends.     *)
StoredWasMailed ==
  \A e \in Emails :
     /\ m_codes[e] # None
     /\ \A t \in Threads : ~Holds(t)
     => [email |-> e, action |-> m_codes[e].action, code |-> m_codes[e].code]
          \in mailed

(* A call of verifyCode whose entry nobody touched meanwhile accepts       *)
(* exactly if code and action match and the entry had not expired.         *)
VerdictExact ==
  \A t \in Threads :
     pc[t] \in {"accepted", "rejected"} /\ pInfo[t] = "live" =>
        LET info == m_codes[req[t].email]
        IN  pc[t] = "accepted" <=> /\ info.code = req[t].code
                                   /\ info.action = req[t].action
                                   /\ info.expire_time >= clock[t]

(* An accepted code was mailed to that address for that action and stored  *)
(* with an expiry not yet over when verifyCode read the clock, unless the  *)
(* entry was overwritten or erased during the call.                        *)
AcceptedWasIssued ==
  \A t \in Threads :
     pc[t] = "accepted" /\ pInfo[t] = "live" =>
        /\ req[t] \in mailed
        /\ \E i \in issued : i.req = req[t] /\ i.expire_time >= clock[t]

(* cleanupExpiredCodes, which samples the clock before it waits for m_mtx, *)
(* erases only entries that are expired when it erases them: a code sent   *)
(* anew while cleanup waited survives.                                     *)
CleanupOnlyExpired ==
  [][\A e \in Emails :
       m_codes[e] # None /\ m_codes'[e] = None => m_codes[e].expire_time < now]_vars

(* An expired code is removed or renewed in the end. *)
ExpiredIsRemoved ==
  \A e \in Emails :
     (m_codes[e] # None /\ m_codes[e].expire_time < now)
       ~> (m_codes[e] = None \/ m_codes[e].expire_time >= now)

(* verifyCode returns, although other threads may hang in SMTP transfers   *)
(* for ever: sendVerifyCode does not hold m_mtx while it mails.            *)
VerifyReturns ==
  \A t \in Threads :
     pc[t] \in {"find", "clock", "expire", "action", "code"} ~> pc[t] = "idle"

(* What the comment in verifyCode says: a code is refused if the action    *)
(* does not match.  The reads after m_mtx is released may take the action  *)
(* of one code and the value of another.                                   *)
AcceptedForItsAction ==
  \A t \in Threads : pc[t] = "accepted" => req[t] \in mailed
=============================================================================
