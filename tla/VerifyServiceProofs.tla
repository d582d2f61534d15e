------------------------- MODULE VerifyServiceProofs -------------------------
(***************************************************************************)
(* Proofs, for any number of threads, addresses, codes and actions and any *)
(* bounds, that a stored code was mailed, that verifyCode judges an entry  *)
(* nobody touches exactly, and that the cleanup erases only expired        *)
(* entries.                                                                *)
(***************************************************************************)
EXTENDS VerifyService, TLAPS

(* m_mtx: one thread at most is inside the assignment of sendVerifyCode,   *)
(* and the entry it assigns to is there.                                   *)
MutexInv ==
  /\ \A t, u \in Threads : Holds(t) /\ Holds(u) => t = u
  /\ \A t \in Threads : Holds(t) => m_codes[req[t].email] # None

TypeInv == TypeOK /\ MutexInv

(* A request is made of its three fields. *)
LEMMA RequestFields ==
  ASSUME NEW r \in Requests
  PROVE  /\ r.email \in Emails /\ r.action \in Actions /\ r.code \in Codes
         /\ r = [email |-> r.email, action |-> r.action, code |-> r.code]
  BY DEF Requests

(* Assigning one member of an entry leaves the other two. *)
LEMMA MemberAssigned ==
  ASSUME NEW r \in Infos
  PROVE  /\ \A c \in Codes : [r EXCEPT !.code = c]
              = [code |-> c, expire_time |-> r.expire_time, action |-> r.action]
         /\ \A x \in Nat : [r EXCEPT !.expire_time = x]
              = [code |-> r.code, expire_time |-> x, action |-> r.action]
         /\ \A a \in Actions : [r EXCEPT !.action = a]
              = [code |-> r.code, expire_time |-> r.expire_time, action |-> a]
  BY DEF Infos

-----------------------------------------------------------------------------
(* Types and the mutex *)

(* sendVerifyCode's assignment, with the entry written out: the code is    *)
(* assigned first, ...                                                     *)
LEMMA StoreCodeEffect ==
  ASSUME TypeInv, NEW t \in Threads, StoreCode(t), NEW e, e = req[t].email
  PROVE  /\ pc[t] = "store" /\ MutexFree(t)
         /\ req[t] \in Requests /\ e \in Emails
         /\ issued' = issued \cup {[req |-> req[t], expire_time |-> now + Expiry]}
         /\ \/ /\ m_codes[e] = None
               /\ m_codes' = [m_codes EXCEPT ![e] = Info(t, now + Expiry)]
               /\ Finish(t)
               /\ UNCHANGED pInfo
            \/ /\ m_codes[e] # None
               /\ m_codes' = [m_codes EXCEPT ![e] =
                    [code |-> req[t].code, expire_time |-> m_codes[e].expire_time,
                     action |-> m_codes[e].action]]
               /\ clock' = [clock EXCEPT ![t] = now + Expiry]
               /\ pc' = [pc EXCEPT ![t] = "storeExpire"]
               /\ pInfo' = Raced(e)
               /\ UNCHANGED req
         /\ UNCHANGED <<now, main, cnow, sends, mailed>>
<1> DEFINE old == m_codes[e]
<1>1. pc[t] = "store" /\ old \in Infos \cup {None} /\ req[t] \in Requests
      /\ e \in Emails /\ req[t].code \in Codes
  BY RequestFields DEF StoreCode, TypeInv, TypeOK
<1>2. old # None => [old EXCEPT !.code = req[t].code] =
                       [code |-> req[t].code, expire_time |-> old.expire_time,
                        action |-> old.action]
  BY <1>1, MemberAssigned, Zenon
<1> QED
  BY <1>1, <1>2, Zenon DEF StoreCode

(* ... then the expiry ... *)
LEMMA StoreExpireEffect ==
  ASSUME TypeInv, NEW t \in Threads, StoreExpire(t), NEW e, e = req[t].email
  PROVE  /\ pc[t] = "storeExpire"
         /\ req[t] \in Requests /\ e \in Emails /\ m_codes[e] \in Infos
         /\ m_codes' = [m_codes EXCEPT ![e] =
              [code |-> m_codes[e].code, expire_time |-> clock[t], action |-> m_codes[e].action]]
         /\ pc' = [pc EXCEPT ![t] = "storeAction"]
         /\ UNCHANGED <<now, req, clock, pInfo, main, cnow, sends, mailed, issued>>
<1> DEFINE old == m_codes[e]
<1>1. pc[t] = "storeExpire" /\ old \in Infos /\ req[t] \in Requests
      /\ e \in Emails /\ clock[t] \in Nat
  BY RequestFields DEF StoreExpire, TypeInv, TypeOK, MutexInv, Holds
<1>2. [old EXCEPT !.expire_time = clock[t]] =
        [code |-> old.code, expire_time |-> clock[t], action |-> old.action]
  BY <1>1, MemberAssigned, Zenon
<1> QED
  BY <1>1, <1>2, Zenon DEF StoreExpire

(* ... and last the action. *)
LEMMA StoreActionEffect ==
  ASSUME TypeInv, NEW t \in Threads, StoreAction(t), NEW e, e = req[t].email
  PROVE  /\ pc[t] = "storeAction"
         /\ req[t] \in Requests /\ e \in Emails /\ m_codes[e] \in Infos
         /\ m_codes' = [m_codes EXCEPT ![e] =
              [code |-> m_codes[e].code, expire_time |-> m_codes[e].expire_time,
               action |-> req[t].action]]
         /\ Finish(t)
         /\ UNCHANGED <<now, pInfo, main, cnow, sends, mailed, issued>>
<1> DEFINE old == m_codes[e]
<1>1. pc[t] = "storeAction" /\ old \in Infos /\ req[t] \in Requests
      /\ e \in Emails /\ req[t].action \in Actions
  BY RequestFields DEF StoreAction, TypeInv, TypeOK, MutexInv, Holds
<1>2. [old EXCEPT !.action = req[t].action] =
        [code |-> old.code, expire_time |-> old.expire_time, action |-> req[t].action]
  BY <1>1, MemberAssigned, Zenon
<1> QED
  BY <1>1, <1>2, Zenon DEF StoreAction

(* Every step of the calls and of the cleanup keeps the types and m_mtx. *)
LEMMA TypeInductive == TypeInv /\ [Next]_vars => TypeInv'
<1> SUFFICES ASSUME TypeInv, [Next]_vars
             PROVE  TypeInv'
  OBVIOUS
<1> USE VerifyAssumption DEF TypeInv, TypeOK, MutexInv, Holds, CallState, Pointer
<1>1. CASE UNCHANGED vars
  BY <1>1 DEF vars
<1>2. CASE Tick
  BY <1>2 DEF Tick
<1>3. CASE CleanupNow
  BY <1>3 DEF CleanupNow
<1>4. CASE CleanupErase
  BY <1>4 DEF CleanupErase
<1>5. ASSUME NEW t \in Threads, StartSend(t)
      PROVE  TypeInv'
  BY <1>5 DEF StartSend
<1>6. ASSUME NEW t \in Threads, MailFails(t) \/ MailSent(t)
      PROVE  TypeInv'
  BY <1>6 DEF MailFails, MailSent, Finish
<1>7. ASSUME NEW t \in Threads, StoreCode(t)
      PROVE  TypeInv'
  <2> PICK e \in Emails : e = req[t].email
    BY <1>7, StoreCodeEffect
  <2>1. req[t].code \in Codes /\ req[t].action \in Actions /\ req[t] \in Requests
    BY <1>7, StoreCodeEffect, RequestFields
  <2>2. /\ Info(t, now + Expiry) \in Infos
        /\ m_codes[e] \in Infos =>
             [code |-> req[t].code, expire_time |-> m_codes[e].expire_time,
              action |-> m_codes[e].action] \in Infos
        /\ [req |-> req[t], expire_time |-> now + Expiry] \in [req : Requests, expire_time : Nat]
    BY <2>1 DEF Info, Infos
  <2>3. PICK new \in Infos : m_codes' = [m_codes EXCEPT ![e] = new]
    BY <1>7, <2>1, <2>2, StoreCodeEffect
  <2>4. issued' \subseteq [req : Requests, expire_time : Nat]
    BY <1>7, <2>2, StoreCodeEffect
  <2>5. UNCHANGED <<now, main, cnow, sends, mailed>> /\ pc[t] = "store"
        /\ \A u \in Threads \ {t} : ~Holds(u)
    BY <1>7, StoreCodeEffect DEF MutexFree
  <2>6. m_codes' \in [Emails -> Infos \cup {None}] /\ m_codes'[e] # None
        /\ \A x \in Emails : m_codes[x] # None => m_codes'[x] # None
    BY <2>3
  <2>7. CASE Finish(t) /\ UNCHANGED pInfo
    <3>1. TypeOK'
      BY <2>4, <2>5, <2>6, <2>7 DEF Finish
    <3>2. MutexInv'
      BY <2>5, <2>6, <2>7 DEF Finish
    <3> QED
      BY <3>1, <3>2
  <2>8. CASE /\ clock' = [clock EXCEPT ![t] = now + Expiry]
             /\ pc' = [pc EXCEPT ![t] = "storeExpire"]
             /\ pInfo' = Raced(e)
             /\ UNCHANGED req
    <3>1. pInfo' \in [Threads -> Pointer]
          /\ \A u \in Threads : pInfo'[u] # "none" => pInfo[u] # "none"
      BY <2>8 DEF Raced
    <3>2. TypeOK'
      BY <2>4, <2>5, <2>6, <2>8, <3>1
    <3>3. MutexInv'
      BY <2>1, <2>5, <2>6, <2>8
    <3> QED
      BY <3>2, <3>3
  <2>9. \/ Finish(t) /\ UNCHANGED pInfo
        \/ /\ clock' = [clock EXCEPT ![t] = now + Expiry]
           /\ pc' = [pc EXCEPT ![t] = "storeExpire"]
           /\ pInfo' = Raced(e)
           /\ UNCHANGED req
    BY <1>7, StoreCodeEffect
  <2> QED
    BY <2>7, <2>8, <2>9
<1>8. ASSUME NEW t \in Threads, StoreExpire(t) \/ StoreAction(t)
      PROVE  TypeInv'
  <2> PICK e \in Emails : e = req[t].email
    BY <1>8, StoreExpireEffect, StoreActionEffect
  <2>1. /\ req[t].action \in Actions /\ m_codes[e] \in Infos /\ clock[t] \in Nat
    BY <1>8, StoreExpireEffect, StoreActionEffect, RequestFields
  <2>2. /\ [code |-> m_codes[e].code, expire_time |-> clock[t],
            action |-> m_codes[e].action] \in Infos
        /\ [code |-> m_codes[e].code, expire_time |-> m_codes[e].expire_time,
            action |-> req[t].action] \in Infos
    BY <2>1 DEF Infos
  <2>3. PICK new \in Infos : m_codes' = [m_codes EXCEPT ![e] = new]
    <3>1. CASE StoreExpire(t)
      BY <2>2, <3>1, StoreExpireEffect
    <3>2. CASE StoreAction(t)
      BY <2>2, <3>2, StoreActionEffect
    <3> QED
      BY <1>8, <3>1, <3>2
  <2>4. /\ pc[t] \in {"storeExpire", "storeAction"}
        /\ UNCHANGED <<now, pInfo, main, cnow, sends, mailed, issued>>
        /\ \/ pc' = [pc EXCEPT ![t] = "storeAction"] /\ UNCHANGED <<req, clock>>
           \/ Finish(t)
    <3>1. CASE StoreExpire(t)
      BY <3>1, StoreExpireEffect
    <3>2. CASE StoreAction(t)
      BY <3>2, StoreActionEffect
    <3> QED
      BY <1>8, <3>1, <3>2, Zenon
  <2>5. m_codes' \in [Emails -> Infos \cup {None}]
        /\ \A x \in Emails : m_codes[x] # None => m_codes'[x] # None
    BY <2>3
  <2>6. CASE pc' = [pc EXCEPT ![t] = "storeAction"] /\ UNCHANGED <<req, clock>>
    <3>1. TypeOK'
      BY <2>4, <2>5, <2>6
    <3>2. MutexInv'
      BY <2>4, <2>5, <2>6, RequestFields
    <3> QED
      BY <3>1, <3>2
  <2>7. CASE Finish(t)
    <3>1. TypeOK'
      BY <2>4, <2>5, <2>7 DEF Finish
    <3>2. MutexInv'
      BY <2>4, <2>5, <2>7 DEF Finish
    <3> QED
      BY <3>1, <3>2
  <2> QED
    BY <2>4, <2>6, <2>7, Zenon
<1>9. ASSUME NEW t \in Threads, StartVerify(t) \/ FindCode(t) \/ ReadClock(t)
      PROVE  TypeInv'
  BY <1>9 DEF StartVerify, FindCode, ReadClock
<1>10. ASSUME NEW t \in Threads, ReadExpire(t) \/ ReadAction(t) \/ ReadCode(t)
       PROVE  TypeInv'
  BY <1>10 DEF ReadExpire, ReadAction, ReadCode, Compare
<1>11. ASSUME NEW t \in Threads, Return(t)
       PROVE  TypeInv'
  BY <1>11 DEF Return, Finish
<1> QED
  BY <1>1, <1>2, <1>3, <1>4, <1>5, <1>6, <1>7, <1>8, <1>9, <1>10, <1>11
     DEF Next, Send, Verify

-----------------------------------------------------------------------------
(* The inductive invariant *)

(* Nobody is inside the assignment to the entry of e. *)
Quiet(e) == \A t \in Threads : Holds(t) => req[t].email # e

(* The entry of e, as issued records it. *)
Entry(e) ==
  [req |-> [email |-> e, action |-> m_codes[e].action, code |-> m_codes[e].code],
   expire_time |-> m_codes[e].expire_time]

(* What sendVerifyCode stores has been mailed; an entry that is not being  *)
(* assigned to is one that was issued, and a half-assigned one has the     *)
(* members assigned so far.                                                *)
IssueInv ==
  /\ \A t \in Threads :
       pc[t] \in {"store", "storeExpire", "storeAction"} => req[t] \in mailed
  /\ \A i \in issued : i.req \in mailed
  /\ \A e \in Emails : m_codes[e] # None /\ Quiet(e) => Entry(e) \in issued
  /\ \A t \in Threads : Holds(t) =>
       /\ [req |-> req[t], expire_time |-> clock[t]] \in issued
       /\ m_codes[req[t].email].code = req[t].code
       /\ pc[t] = "storeAction" => m_codes[req[t].email].expire_time = clock[t]

(* A pointer nobody has disturbed is to an entry that is there and not     *)
(* being assigned to, and what verifyCode has compared so far still holds. *)
LiveAt(t) ==
  LET info == m_codes[req[t].email]
  IN  /\ info # None /\ Quiet(req[t].email)
      /\ pc[t] \in {"action", "code", "accepted"} => info.expire_time >= clock[t]
      /\ pc[t] \in {"code", "accepted"} => info.action = req[t].action
      /\ pc[t] = "accepted" => info.code = req[t].code
      /\ pc[t] = "rejected" => \/ info.code # req[t].code
                              \/ info.action # req[t].action
                              \/ info.expire_time < clock[t]

LiveInv == \A t \in Threads : pInfo[t] = "live" => LiveAt(t)

(* The cleanup's clock is not ahead. *)
CleanupInv == cnow <= now

(* Every step keeps what was mailed, issued and stored in agreement. *)
LEMMA IssueInductive == TypeInv /\ IssueInv /\ [Next]_vars => IssueInv'
<1> SUFFICES ASSUME TypeInv, IssueInv, [Next]_vars
             PROVE  IssueInv'
  OBVIOUS
<1>t. TypeOK /\ MutexInv
  BY DEF TypeInv
<1>1. CASE UNCHANGED vars
  BY <1>1 DEF vars, IssueInv, Quiet, Holds, Entry
<1>2. CASE Tick \/ CleanupNow
  BY <1>2 DEF Tick, CleanupNow, IssueInv, Quiet, Holds, Entry
<1>3. CASE CleanupErase
  BY <1>3, <1>t DEF CleanupErase, TypeOK, Expired, IssueInv, Quiet, Holds, Entry
<1>4. ASSUME NEW t \in Threads, StartSend(t) \/ MailFails(t) \/ MailSent(t)
      PROVE  IssueInv'
  BY <1>4, <1>t DEF StartSend, MailFails, MailSent, Finish, TypeOK,
       IssueInv, Quiet, Holds, Entry
<1>5. ASSUME NEW t \in Threads, StoreCode(t)
      PROVE  IssueInv'
  <2>1. req[t] \in mailed
    BY <1>5, StoreCodeEffect DEF IssueInv
  <2>2. req[t] = [email |-> req[t].email, action |-> req[t].action, code |-> req[t].code]
    BY <1>5, StoreCodeEffect, RequestFields
  <2> PICK e \in Emails : e = req[t].email
    BY <1>5, StoreCodeEffect
  <2> DEFINE new == [req |-> req[t], expire_time |-> now + Expiry]
  <2>3. /\ new \in issued' /\ new.req = req[t]
        /\ issued' = issued \cup {new} /\ mailed' = mailed
    BY <1>5, StoreCodeEffect
  <2>4. \A u \in Threads : ~Holds(u)
    BY <1>5, StoreCodeEffect DEF MutexFree, Holds
  <2>5. /\ \A u \in Threads \ {t} : /\ pc'[u] = pc[u] /\ req'[u] = req[u]
                                    /\ clock'[u] = clock[u]
        /\ \A f \in Emails \ {e} : m_codes'[f] = m_codes[f]
    BY <1>5, <1>t, StoreCodeEffect DEF Finish, TypeInv, TypeOK
  <2>6. CASE m_codes[e] = None
    <3>1. pc'[t] = "idle" /\ m_codes'[e] = Info(t, now + Expiry)
      BY <1>5, <1>t, <2>6, StoreCodeEffect DEF TypeInv, Finish, TypeOK
    <3>2. Entry(e)' = new
      BY <2>2, <3>1 DEF Info, Entry
    <3> QED
      BY <2>1, <2>3, <2>4, <2>5, <3>1, <3>2 DEF IssueInv, Quiet, Holds, Entry
  <2>7. CASE m_codes[e] # None
    <3>1. /\ pc'[t] = "storeExpire" /\ req'[t] = req[t] /\ clock'[t] = now + Expiry
          /\ m_codes'[e].code = req[t].code
      BY <1>5, <1>t, <2>7, StoreCodeEffect DEF TypeInv, TypeOK
    <3> QED
      BY <2>1, <2>3, <2>4, <2>5, <3>1 DEF IssueInv, Quiet, Holds, Entry
  <2> QED
    BY <2>6, <2>7
<1>6. ASSUME NEW t \in Threads, StoreExpire(t)
      PROVE  IssueInv'
  <2> PICK e \in Emails : e = req[t].email
    BY <1>6, StoreExpireEffect
  <2>1. /\ pc[t] = "storeExpire" /\ pc'[t] = "storeAction"
        /\ \A u \in Threads \ {t} : pc'[u] = pc[u] /\ ~Holds(u)
        /\ \A f \in Emails \ {e} : m_codes'[f] = m_codes[f]
        /\ m_codes[e] # None
        /\ m_codes'[e].code = m_codes[e].code
        /\ m_codes'[e].expire_time = clock[t]
        /\ UNCHANGED <<req, clock, mailed, issued>>
    BY <1>6, <1>t, StoreExpireEffect DEF TypeInv, TypeOK, MutexInv, Holds
  <2> QED
    BY <2>1 DEF IssueInv, Quiet, Holds, Entry
<1>7. ASSUME NEW t \in Threads, StoreAction(t)
      PROVE  IssueInv'
  <2> PICK e \in Emails : e = req[t].email
    BY <1>7, StoreActionEffect
  <2>1. /\ pc[t] = "storeAction" /\ pc'[t] = "idle"
        /\ \A u \in Threads \ {t} :
             pc'[u] = pc[u] /\ req'[u] = req[u] /\ clock'[u] = clock[u] /\ ~Holds(u)
        /\ \A f \in Emails \ {e} : m_codes'[f] = m_codes[f]
        /\ m_codes'[e].code = m_codes[e].code
        /\ m_codes'[e].expire_time = m_codes[e].expire_time
        /\ m_codes'[e].action = req[t].action
        /\ UNCHANGED <<mailed, issued>>
    BY <1>7, <1>t, StoreActionEffect DEF TypeInv, Finish, TypeOK, MutexInv, Holds
  <2>2. req[t] = [email |-> e, action |-> req[t].action, code |-> req[t].code]
    BY <1>7, StoreActionEffect, RequestFields
  <2>3. Entry(e)' = [req |-> req[t], expire_time |-> clock[t]]
    BY <2>1, <2>2 DEF Entry, IssueInv, Holds
  <2> QED
    BY <2>1, <2>3 DEF IssueInv, Quiet, Holds, Entry
<1>8. ASSUME NEW t \in Threads, StartVerify(t) \/ FindCode(t) \/ ReadClock(t)
      PROVE  IssueInv'
  BY <1>8, <1>t DEF StartVerify, FindCode, ReadClock, TypeOK,
       IssueInv, Quiet, Holds, Entry
<1>9. ASSUME NEW t \in Threads, ReadExpire(t) \/ ReadAction(t) \/ ReadCode(t)
      PROVE  IssueInv'
  BY <1>9, <1>t DEF ReadExpire, ReadAction, ReadCode, Compare, TypeOK,
       IssueInv, Quiet, Holds, Entry
<1>10. ASSUME NEW t \in Threads, Return(t)
       PROVE  IssueInv'
  BY <1>10, <1>t DEF Return, Finish, TypeOK, IssueInv, Quiet, Holds, Entry
<1> QED
  BY <1>1, <1>2, <1>3, <1>4, <1>5, <1>6, <1>7, <1>8, <1>9, <1>10 DEF Next, Send, Verify

(* No step disturbs an entry that a live pointer is to, and each read      *)
(* finds what the comparison says.                                         *)
LEMMA LiveInductive == TypeInv /\ LiveInv /\ [Next]_vars => LiveInv'
<1> SUFFICES ASSUME TypeInv, LiveInv, [Next]_vars,
                    NEW u \in Threads, pInfo'[u] = "live"
             PROVE  LiveAt(u)'
  BY DEF LiveInv
<1>t. TypeOK /\ MutexInv
  BY DEF TypeInv
<1>1. CASE UNCHANGED vars
  BY <1>1 DEF vars, LiveInv, LiveAt, Quiet, Holds
<1>2. CASE Tick \/ CleanupNow
  BY <1>2 DEF Tick, CleanupNow, LiveInv, LiveAt, Quiet, Holds
<1>3. CASE CleanupErase
  <2>1. pInfo[u] = "live" /\ req[u] \in Requests /\ req[u].email \notin Expired
    BY <1>3, <1>t DEF CleanupErase, TypeOK
  <2>2. m_codes'[req[u].email] = m_codes[req[u].email]
    BY <1>3, <2>1, RequestFields DEF CleanupErase
  <2>3. UNCHANGED <<pc, req, clock>>
    BY <1>3 DEF CleanupErase
  <2> QED
    BY <2>1, <2>2, <2>3 DEF LiveInv, LiveAt, Quiet, Holds
<1>4. ASSUME NEW t \in Threads, StartSend(t) \/ MailFails(t) \/ MailSent(t)
      PROVE  LiveAt(u)'
  <2>1. /\ t # u /\ pInfo[u] = "live" /\ UNCHANGED m_codes
        /\ pc'[u] = pc[u] /\ req'[u] = req[u] /\ clock'[u] = clock[u]
        /\ pc'[t] \in {"idle", "mail", "store"}
        /\ \A w \in Threads \ {t} : pc'[w] = pc[w] /\ req'[w] = req[w]
    BY <1>4, <1>t DEF StartSend, MailFails, MailSent, Finish, TypeOK
  <2> QED
    BY <2>1 DEF LiveInv, LiveAt, Quiet, Holds
<1>5. ASSUME NEW t \in Threads, StoreCode(t)
      PROVE  LiveAt(u)'
  <2> PICK e \in Emails : e = req[t].email
    BY <1>5, StoreCodeEffect
  <2>1. t # u /\ pInfo[u] = "live" /\ req[u].email # e
    <3>1. pc[t] = "store" /\ pInfo' \in {pInfo, Raced(e)}
      BY <1>5, StoreCodeEffect
    <3>2. pInfo[u] = "live" /\ t # u
      BY <1>t, <3>1 DEF TypeOK, Raced
    <3>3. ASSUME req[u].email = e
          PROVE  FALSE
      <4>1. m_codes[e] # None
        BY <3>2, <3>3 DEF LiveInv, LiveAt
      <4>2. pInfo' = Raced(e)
        BY <1>5, <4>1, StoreCodeEffect
      <4> QED
        BY <3>2, <3>3, <4>2 DEF Raced
    <3> QED
      BY <3>2, <3>3
  <2>2. /\ pc'[u] = pc[u] /\ req'[u] = req[u] /\ clock'[u] = clock[u]
        /\ \A f \in Emails \ {e} : m_codes'[f] = m_codes[f]
        /\ \A w \in Threads \ {t} : pc'[w] = pc[w] /\ req'[w] = req[w]
        /\ pc'[t] = "storeExpire" => req'[t] = req[t]
        /\ pc'[t] \in {"idle", "storeExpire"}
    BY <1>5, <1>t, <2>1, StoreCodeEffect DEF Finish, TypeInv, TypeOK
  <2>3. req[u].email \in Emails
    BY <1>t, <2>1, RequestFields DEF TypeOK
  <2> QED
    BY <2>1, <2>2, <2>3 DEF LiveInv, LiveAt, Quiet, Holds
<1>6. ASSUME NEW t \in Threads, StoreExpire(t) \/ StoreAction(t)
      PROVE  LiveAt(u)'
  <2> PICK e \in Emails : e = req[t].email
    BY <1>6, StoreExpireEffect, StoreActionEffect
  <2>1. pInfo[u] = "live" /\ Holds(t)
    BY <1>6, StoreExpireEffect, StoreActionEffect DEF Holds
  <2>2. t # u /\ req[u].email \in Emails \ {e}
    BY <1>t, <2>1, RequestFields DEF LiveInv, LiveAt, Quiet, Holds, TypeOK
  <2>3. /\ pc'[u] = pc[u] /\ req'[u] = req[u] /\ clock'[u] = clock[u]
        /\ \A f \in Emails \ {e} : m_codes'[f] = m_codes[f]
        /\ \A w \in Threads \ {t} : pc'[w] = pc[w] /\ req'[w] = req[w]
        /\ (pc'[t] = "storeAction" /\ req'[t] = req[t]) \/ pc'[t] = "idle"
    BY <1>6, <1>t, <2>2, StoreExpireEffect, StoreActionEffect DEF Finish, TypeInv, TypeOK
  <2> QED
    BY <2>1, <2>2, <2>3 DEF LiveInv, LiveAt, Quiet, Holds
<1>7. ASSUME NEW t \in Threads, StartVerify(t) \/ Return(t)
      PROVE  LiveAt(u)'
  <2>1. /\ t # u /\ pInfo[u] = "live" /\ UNCHANGED m_codes
        /\ pc'[u] = pc[u] /\ req'[u] = req[u] /\ clock'[u] = clock[u]
        /\ pc'[t] \in {"idle", "find"}
        /\ \A w \in Threads \ {t} : pc'[w] = pc[w] /\ req'[w] = req[w]
    BY <1>7, <1>t DEF StartVerify, Return, Finish, TypeOK
  <2> QED
    BY <2>1 DEF LiveInv, LiveAt, Quiet, Holds
<1>8. ASSUME NEW t \in Threads, FindCode(t)
      PROVE  LiveAt(u)'
  <2>1. /\ UNCHANGED <<m_codes, req, clock>> /\ \A w \in Threads : ~Holds(w)
        /\ pc'[t] \in {"clock", "rejected"}
        /\ \A w \in Threads \ {t} : pc'[w] = pc[w] /\ pInfo'[w] = pInfo[w]
        /\ pInfo'[t] = "live" => m_codes[req[t].email] # None /\ pc'[t] = "clock"
    BY <1>8, <1>t DEF FindCode, MutexFree, Holds, TypeOK
  <2>2. CASE t = u
    BY <2>1, <2>2 DEF LiveAt, Quiet, Holds
  <2>3. CASE t # u
    BY <2>1, <2>3 DEF LiveInv, LiveAt, Quiet, Holds
  <2> QED
    BY <2>2, <2>3
<1>9. ASSUME NEW t \in Threads, ReadClock(t)
      PROVE  LiveAt(u)'
  <2>1. /\ UNCHANGED <<m_codes, req, pInfo>> /\ pc'[t] = "expire" /\ pc[t] = "clock"
        /\ \A w \in Threads \ {t} : pc'[w] = pc[w] /\ clock'[w] = clock[w]
    BY <1>9, <1>t DEF ReadClock, TypeOK
  <2> QED
    BY <2>1 DEF LiveInv, LiveAt, Quiet, Holds
<1>10. ASSUME NEW t \in Threads, ReadExpire(t) \/ ReadAction(t) \/ ReadCode(t)
       PROVE  LiveAt(u)'
  <2>1. /\ UNCHANGED <<m_codes, req, clock, pInfo>>
        /\ ~Holds(t) /\ pc'[t] \in {"action", "code", "accepted", "rejected"}
        /\ \A w \in Threads \ {t} : pc'[w] = pc[w]
    BY <1>10, <1>t DEF ReadExpire, ReadAction, ReadCode, Compare, TypeOK, Holds
  <2>2. CASE t # u
    BY <2>1, <2>2 DEF LiveInv, LiveAt, Quiet, Holds
  <2>3. CASE t = u
    <3>1. m_codes[req[u].email] \in Infos /\ clock[u] \in Nat
      BY <1>t, <2>1, <2>3, RequestFields DEF LiveInv, LiveAt, TypeOK
    <3>2. m_codes[req[u].email].expire_time \in Nat
      BY <3>1 DEF Infos
    <3>3. LiveAt(u) /\ Quiet(req[u].email)'
      BY <2>1, <2>3 DEF LiveInv, LiveAt, Quiet, Holds
    <3>4. CASE ReadExpire(t)
      <4> DEFINE ok == m_codes[req[u].email].expire_time >= clock[u]
      <4>1. pInfo[u] # "dangling"
        BY <2>1
      <4>2. PICK pass \in IF pInfo[u] = "dangling" THEN BOOLEAN ELSE {ok} :
              pc' = [pc EXCEPT ![u] = IF pass THEN "action" ELSE "rejected"]
        BY <2>3, <3>4, Zenon DEF ReadExpire, Compare
      <4>3. pass = ok
        BY <4>1, Zenon
      <4>4. ASSUME ok
            PROVE  pc'[u] = "action"
        <5>1. pc' = [pc EXCEPT ![u] = "action"]
          BY <4>2, <4>3, <4>4, Zenon
        <5> QED
          BY <1>t, <5>1 DEF TypeOK
      <4>5. ASSUME ~ok
            PROVE  pc'[u] = "rejected"
        <5>1. pc' = [pc EXCEPT ![u] = "rejected"]
          BY <4>2, <4>3, <4>5, Zenon
        <5> QED
          BY <1>t, <5>1 DEF TypeOK
      <4> QED
        BY <2>1, <3>1, <3>2, <3>3, <4>4, <4>5 DEF LiveAt
    <3>5. CASE ReadAction(t)
      BY <1>t, <2>1, <2>3, <3>1, <3>2, <3>3, <3>5 DEF ReadAction, Compare, LiveAt, TypeOK
    <3>6. CASE ReadCode(t)
      BY <1>t, <2>1, <2>3, <3>1, <3>2, <3>3, <3>6 DEF ReadCode, Compare, LiveAt, TypeOK
    <3> QED
      BY <1>10, <3>4, <3>5, <3>6
  <2> QED
    BY <2>2, <2>3
<1> QED
  BY <1>1, <1>2, <1>3, <1>4, <1>5, <1>6, <1>7, <1>8, <1>9, <1>10 DEF Next, Send, Verify

(* The clock does not go back. *)
LEMMA CleanupInductive == TypeInv /\ CleanupInv /\ [Next]_vars => CleanupInv'
<1> SUFFICES ASSUME TypeInv, CleanupInv, [Next]_vars
             PROVE  CleanupInv'
  OBVIOUS
<1>1. now \in Nat /\ cnow \in Nat
  BY VerifyAssumption DEF TypeInv, TypeOK
<1>2. UNCHANGED <<now, cnow>> \/ Tick \/ CleanupNow \/ CleanupErase
  BY DEF Next, Send, Verify, StartSend, MailFails, MailSent, StoreCode, StoreExpire,
         StoreAction, StartVerify, FindCode, ReadClock, ReadExpire, ReadAction,
         ReadCode, Compare, Return, vars
<1> QED
  BY <1>1, <1>2 DEF Tick, CleanupNow, CleanupErase, CleanupInv

-----------------------------------------------------------------------------
(* The theorems *)

Inv == TypeInv /\ IssueInv /\ LiveInv /\ CleanupInv

(* The inductive invariant holds in every reachable state. *)
LEMMA Invariance == Spec => []Inv
<1>1. Init => Inv
  BY VerifyAssumption DEF Init, Inv, TypeInv, TypeOK, MutexInv, IssueInv, LiveInv,
     CleanupInv, Holds, Quiet, CallState, Pointer
<1>2. Inv /\ [Next]_vars => Inv'
  BY TypeInductive, IssueInductive, LiveInductive, CleanupInductive DEF Inv
<1> QED
  BY <1>1, <1>2, PTL DEF Spec

(* The entries, the calls and the histories keep their types: in           *)
(* particular a pointer is set only inside verifyCode, after find.         *)
THEOREM TypeCorrect == Spec => []TypeOK
<1>1. Inv => TypeOK
  BY DEF Inv, TypeInv
<1> QED
  BY <1>1, Invariance, PTL

(* sendVerifyCode stores nothing that it failed to mail, and leaves no     *)
(* mixture of two codes behind when it releases m_mtx.                     *)
THEOREM OnlyMailedIsStored == Spec => []StoredWasMailed
<1>1. Inv => StoredWasMailed
  <2> SUFFICES ASSUME Inv, NEW e \in Emails, m_codes[e] # None,
                      \A t \in Threads : ~Holds(t)
               PROVE  [email |-> e, action |-> m_codes[e].action,
                       code |-> m_codes[e].code] \in mailed
    BY DEF StoredWasMailed
  <2>1. Entry(e) \in issued
    BY DEF Inv, IssueInv, Quiet
  <2>2. Entry(e).req \in mailed
    BY <2>1, Zenon DEF Inv, IssueInv
  <2> QED
    BY <2>2 DEF Entry
<1> QED
  BY <1>1, Invariance, PTL

(* verifyCode, which compares without m_mtx, judges an entry that nobody   *)
(* touches meanwhile exactly as one atomic comparison would.               *)
THEOREM UntouchedVerdictIsExact == Spec => []VerdictExact
<1>1. Inv => VerdictExact
  <2> SUFFICES ASSUME Inv, NEW t \in Threads,
                      pc[t] \in {"accepted", "rejected"}, pInfo[t] = "live"
               PROVE  LET info == m_codes[req[t].email]
                      IN  pc[t] = "accepted" <=> /\ info.code = req[t].code
                                                 /\ info.action = req[t].action
                                                 /\ info.expire_time >= clock[t]
    BY DEF VerdictExact
  <2>1. LiveAt(t)
    BY DEF Inv, LiveInv
  <2>2. m_codes[req[t].email] \in Infos /\ clock[t] \in Nat
    BY <2>1, RequestFields DEF Inv, TypeInv, TypeOK, LiveAt
  <2>3. m_codes[req[t].email].expire_time \in Nat
    BY <2>2 DEF Infos
  <2> QED
    BY <2>1, <2>2, <2>3 DEF LiveAt
<1> QED
  BY <1>1, Invariance, PTL

(* A code that verifyCode accepts by an entry nobody touches was mailed to *)
(* that address for that action, with an expiry still to come.             *)
THEOREM AcceptedIsGenuine == Spec => []AcceptedWasIssued
<1>1. Inv => AcceptedWasIssued
  <2> SUFFICES ASSUME Inv, NEW t \in Threads, pc[t] = "accepted", pInfo[t] = "live"
               PROVE  /\ req[t] \in mailed
                      /\ \E i \in issued : i.req = req[t] /\ i.expire_time >= clock[t]
    BY DEF AcceptedWasIssued
  <2>1. LiveAt(t) /\ req[t] \in Requests
    BY DEF Inv, LiveInv, TypeInv, TypeOK
  <2> PICK e \in Emails : e = req[t].email
    BY <2>1, RequestFields
  <2>2. Entry(e) \in issued
    BY <2>1 DEF Inv, IssueInv, LiveAt
  <2>3. /\ m_codes[e].code = req[t].code /\ m_codes[e].action = req[t].action
        /\ m_codes[e].expire_time >= clock[t]
    BY <2>1 DEF LiveAt
  <2>4. Entry(e).req = req[t] /\ Entry(e).expire_time >= clock[t]
    BY <2>1, <2>3, RequestFields DEF Entry
  <2>5. req[t] \in mailed
    BY <2>2, <2>4 DEF Inv, IssueInv
  <2> QED
    BY <2>2, <2>4, <2>5
<1> QED
  BY <1>1, Invariance, PTL

(* cleanupExpiredCodes reads the clock before it waits for m_mtx; what it  *)
(* then erases has nevertheless expired by the time it erases it, and no   *)
(* other step removes an entry.                                            *)
THEOREM CleanupSparesValidCodes == Spec => CleanupOnlyExpired
<1>1. ASSUME Inv, [Next]_vars
      PROVE  [\A e \in Emails : m_codes[e] # None /\ m_codes'[e] = None
                => m_codes[e].expire_time < now]_vars
  <2> SUFFICES ASSUME NEW e \in Emails, m_codes[e] # None, m_codes'[e] = None
               PROVE  m_codes[e].expire_time < now
    BY Zenon
  <2>t. TypeInv /\ TypeOK
    BY <1>1 DEF Inv, TypeInv
  <2>1. CASE CleanupErase
    <3>1. m_codes[e] \in Infos /\ now \in Nat /\ cnow \in Nat
      BY <2>t, VerifyAssumption DEF TypeOK
    <3>2. m_codes[e].expire_time < cnow
      BY <2>1 DEF CleanupErase, Expired
    <3> QED
      BY <1>1, <3>1, <3>2 DEF Inv, CleanupInv, Infos
  <2>2. ASSUME NEW t \in Threads, StoreCode(t) \/ StoreExpire(t) \/ StoreAction(t)
        PROVE  FALSE
    <3>1. PICK f \in Emails : f = req[t].email
      BY <2>2, <2>t, StoreCodeEffect, StoreExpireEffect, StoreActionEffect
    <3>2. e = f
      BY <2>2, <2>t, <3>1, StoreCodeEffect, StoreExpireEffect, StoreActionEffect
         DEF TypeInv, TypeOK
    <3>3. m_codes'[f] \in Infos
      <4>1. /\ req[t].code \in Codes /\ req[t].action \in Actions
            /\ m_codes[f] \in Infos /\ clock[t] \in Nat /\ now + Expiry \in Nat
        BY <2>2, <2>t, <3>1, <3>2, VerifyAssumption, RequestFields,
           StoreCodeEffect, StoreExpireEffect, StoreActionEffect DEF TypeInv, TypeOK
      <4>2. /\ [code |-> req[t].code, expire_time |-> m_codes[f].expire_time,
                action |-> m_codes[f].action] \in Infos
            /\ [code |-> m_codes[f].code, expire_time |-> clock[t],
                action |-> m_codes[f].action] \in Infos
            /\ [code |-> m_codes[f].code, expire_time |-> m_codes[f].expire_time,
                action |-> req[t].action] \in Infos
        BY <4>1 DEF Infos
      <4> QED
        BY <2>2, <2>t, <3>1, <3>2, <4>2, StoreCodeEffect, StoreExpireEffect,
           StoreActionEffect DEF TypeInv, TypeOK
    <3> QED
      BY <3>2, <3>3, VerifyAssumption
  <2> QED
    BY <1>1, <2>1, <2>2 DEF Next, Send, Verify, StartSend, MailFails, MailSent,
       StartVerify, FindCode, ReadClock, ReadExpire, ReadAction, ReadCode, Compare,
       Return, vars, Tick, CleanupNow
<1> QED
  BY <1>1, Invariance, PTL DEF Spec, CleanupOnlyExpired
=============================================================================
