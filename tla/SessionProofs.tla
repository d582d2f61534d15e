---------------------------- MODULE SessionProofs ----------------------------
(***************************************************************************)
(* Proofs, for any sessions, io threads and requests, that a session does  *)
(* one thing at a time without a lock, and that every response on the wire *)
(* answers the request of its number.                                      *)
(***************************************************************************)
EXTENDS Session, TLAPS, FiniteSetTheorems

Responses ==
  [to : SUBSET Nat,
   status : {"none", "handled", "internal_server_error", "not_found"}]

(* The types of the whole variables. *)
FunctionsOK ==
  /\ client \in [Sessions -> {"none", "open", "closed"}]
  /\ sent \in [Sessions -> Seq(Requests)]
  /\ taken \in [Sessions -> Nat]
  /\ reading \in [Sessions -> OpState]
  /\ writing \in [Sessions -> OpState]
  /\ m_request \in [Sessions -> SUBSET Nat]
  /\ m_response \in [Sessions -> Responses]
  /\ wire \in [Sessions -> Seq(Responses)]
  /\ busy \in [Threads -> Sessions \cup {Nobody}]
  /\ ended \subseteq Sessions

(* Response r answers request number n of session s, and that one alone. *)
AnswersTo(r, s, n) ==
  /\ r.to = {n}
  /\ r.status = "not_found" <=> ~HasRoute(sent[s][n])

Handled(s) == \E t \in Threads : busy[t] = s

(* A session reads, or writes, or is handled by one thread, or rests. *)
Exclusion(s) ==
  /\ reading[s] = "no" \/ writing[s] = "no"
  /\ Handled(s) => reading[s] = "no" /\ writing[s] = "no"
  /\ \A t, u \in Threads : busy[t] = s /\ busy[u] = s => t = u

(* How far the messages of the session are, by what it does: while it      *)
(* reads, all requests taken are answered and m_request is empty; from     *)
(* then on until the response is sent, m_request is the last one taken,    *)
(* and the only one not answered.                                          *)
Phase(s) ==
  /\ client[s] = "none" =>
       /\ taken[s] = 0 /\ Len(wire[s]) = 0 /\ m_request[s] = {}
       /\ reading[s] = "no" /\ writing[s] = "no" /\ ~Handled(s)
  /\ reading[s] \in {"pending", "failed"} =>
       m_request[s] = {} /\ Len(wire[s]) = taken[s]
  /\ reading[s] = "done" \/ Handled(s) \/ writing[s] = "pending" =>
       m_request[s] = {taken[s]} /\ taken[s] = Len(wire[s]) + 1
  /\ writing[s] = "pending" => AnswersTo(m_response[s], s, taken[s])
  /\ writing[s] = "done" => Len(wire[s]) = taken[s]

(* The bounds TypeOK states, and what ResponsesMatch says of this session. *)
Wire(s) ==
  /\ Len(sent[s]) <= MaxRequests
  /\ taken[s] <= Len(sent[s])
  /\ m_request[s] \subseteq 1 .. taken[s]
  /\ m_response[s].to \subseteq 1 .. taken[s]
  /\ Len(wire[s]) <= taken[s]
  /\ \A n \in 1 .. Len(wire[s]) : AnswersTo(wire[s][n], s, n)

SessionInv(s) == Exclusion(s) /\ Phase(s) /\ Wire(s)

Inv == FunctionsOK /\ \A s \in Sessions : SessionInv(s)

-----------------------------------------------------------------------------
(* Nothing about session s changes. *)
Same(s) ==
  /\ client'[s] = client[s] /\ sent'[s] = sent[s] /\ taken'[s] = taken[s]
  /\ reading'[s] = reading[s] /\ writing'[s] = writing[s]
  /\ m_request'[s] = m_request[s] /\ m_response'[s] = m_response[s]
  /\ wire'[s] = wire[s]
  /\ \A t \in Threads : busy'[t] = s <=> busy[t] = s

(* What a step says of one session it does not undo for another. *)
LEMMA Frame ==
  ASSUME NEW s \in Sessions, SessionInv(s), Same(s)
  PROVE  SessionInv(s)'
  BY DEF SessionInv, Exclusion, Phase, Wire, Same, Handled, AnswersTo

(* The router answers "not found" exactly if it has no route. *)
LEMMA RouterStatus ==
  ASSUME NEW r, NEW status \in Statuses(r)
  PROVE  /\ status \in {"handled", "internal_server_error", "not_found"}
         /\ status = "not_found" <=> ~HasRoute(r)
  BY DEF Statuses

(* Each step of a client, of the socket or of a handler keeps the          *)
(* invariant of its session, and touches no other.                         *)
LEMMA Inductive == Inv /\ [Next]_vars => Inv'
<1> SUFFICES ASSUME Inv, [Next]_vars
             PROVE  Inv'
  OBVIOUS
<1>f. FunctionsOK /\ \A s \in Sessions : SessionInv(s)
  BY DEF Inv
<1>g. ASSUME NEW s \in Sessions, FunctionsOK',
             \A x \in Sessions \ {s} : Same(x), SessionInv(s)'
      PROVE  Inv'
  BY <1>f, <1>g, Frame DEF Inv
<1>1. CASE UNCHANGED vars
  <2>1. FunctionsOK' /\ \A x \in Sessions : Same(x)
    BY <1>1, <1>f DEF vars, clientVars, messageVars, FunctionsOK, Same
  <2> QED
    BY <1>f, <2>1, Frame DEF Inv
<1>2. ASSUME NEW s \in Sessions, Connect(s)
      PROVE  Inv'
  <2>1. FunctionsOK' /\ \A x \in Sessions \ {s} : Same(x)
    BY <1>2, <1>f DEF Connect, FunctionsOK, Same, OpState, messageVars
  <2>2. SessionInv(s)'
    BY <1>2, <1>f DEF Connect, FunctionsOK, messageVars, SessionInv, Exclusion,
       Phase, Wire, Handled, AnswersTo
  <2> QED
    BY <1>g, <2>1, <2>2
<1>3. ASSUME NEW s \in Sessions, Send(s)
      PROVE  Inv'
  <2> PICK r \in Requests : sent' = [sent EXCEPT ![s] = Append(@, r)]
    BY <1>3 DEF Send
  <2>1. FunctionsOK' /\ \A x \in Sessions \ {s} : Same(x)
    BY <1>3, <1>f DEF Send, FunctionsOK, Same, messageVars
  <2>2. /\ Len(sent'[s]) = Len(sent[s]) + 1
        /\ \A n \in 1 .. Len(sent[s]) : sent'[s][n] = sent[s][n]
        /\ Len(sent[s]) \in Nat /\ Len(wire[s]) \in Nat /\ taken[s] \in Nat
    BY <1>f DEF FunctionsOK
  <2>a. /\ client[s] = "open" /\ Len(sent[s]) < MaxRequests
        /\ UNCHANGED <<client, taken, reading, writing, m_request, m_response, wire, busy>>
    BY <1>3 DEF Send, messageVars
  <2>b. Exclusion(s)'
    BY <1>f, <2>a DEF SessionInv, Exclusion, Handled
  <2>d. Wire(s)'
    <3>1. \A n \in 1 .. Len(wire'[s]) : AnswersTo(wire[s][n], s, n)'
      <4> SUFFICES ASSUME NEW n \in 1 .. Len(wire[s])
                   PROVE  AnswersTo(wire[s][n], s, n)'
        BY <2>a
      <4>1. AnswersTo(wire[s][n], s, n)
        BY <1>f DEF SessionInv, Wire
      <4>2. n \in 1 .. Len(sent[s])
        BY <1>f, <2>2 DEF SessionInv, Wire
      <4>3. sent'[s][n] = sent[s][n]
        BY <2>2, <4>2
      <4> QED
        BY <2>a, <4>1, <4>3 DEF AnswersTo
    <3>2. Len(sent'[s]) <= MaxRequests /\ taken[s] <= Len(sent'[s])
      BY <1>f, <2>2, <2>a, SessionAssumption DEF SessionInv, Wire
    <3> QED
      BY <1>f, <2>a, <3>1, <3>2 DEF SessionInv, Wire
  <2>e. Phase(s)'
    <3>1. writing[s] = "pending" => AnswersTo(m_response[s], s, taken[s])'
      <4>1. writing[s] = "pending" => taken[s] \in 1 .. Len(sent[s])
        BY <1>f, <2>2 DEF SessionInv, Phase, Wire
      <4> QED
        BY <1>f, <2>a, <2>2, <4>1 DEF SessionInv, Phase, AnswersTo
    <3> QED
      BY <1>f, <2>a, <3>1 DEF SessionInv, Phase, Handled, AnswersTo
  <2>3. SessionInv(s)'
    BY <2>b, <2>d, <2>e DEF SessionInv
  <2> QED
    BY <1>g, <2>1, <2>3
<1>4. ASSUME NEW s \in Sessions, Close(s)
      PROVE  Inv'
  <2>1. FunctionsOK' /\ \A x \in Sessions \ {s} : Same(x)
    BY <1>4, <1>f DEF Close, FunctionsOK, Same, messageVars
  <2>2. SessionInv(s)'
    BY <1>4, <1>f DEF Close, FunctionsOK, messageVars, SessionInv, Exclusion,
       Phase, Wire, Handled, AnswersTo
  <2> QED
    BY <1>g, <2>1, <2>2
<1>5. ASSUME NEW s \in Sessions, ReadRequest(s)
      PROVE  Inv'
  <2>1. FunctionsOK' /\ \A x \in Sessions \ {s} : Same(x)
    BY <1>5, <1>f DEF ReadRequest, FunctionsOK, Same, clientVars, OpState
  <2>2. Len(sent[s]) \in Nat /\ Len(wire[s]) \in Nat
    BY <1>f DEF FunctionsOK
  <2>3. SessionInv(s)'
    BY <1>5, <1>f, <2>2 DEF ReadRequest, FunctionsOK, clientVars, SessionInv, Exclusion,
       Phase, Wire, Handled, AnswersTo
  <2> QED
    BY <1>g, <2>1, <2>3
<1>6. ASSUME NEW s \in Sessions, ReadFails(s) \/ WriteFails(s)
      PROVE  Inv'
  <2>1. FunctionsOK' /\ \A x \in Sessions \ {s} : Same(x)
    BY <1>6, <1>f DEF ReadFails, WriteFails, FunctionsOK, Same, clientVars,
       messageVars, OpState
  <2>2. SessionInv(s)'
    BY <1>6, <1>f DEF ReadFails, WriteFails, FunctionsOK, clientVars, messageVars,
       SessionInv, Exclusion, Phase, Wire, Handled, AnswersTo
  <2> QED
    BY <1>g, <2>1, <2>2
<1>7. ASSUME NEW s \in Sessions, WriteResponse(s)
      PROVE  Inv'
  <2>1. FunctionsOK' /\ \A x \in Sessions \ {s} : Same(x)
    BY <1>7, <1>f DEF WriteResponse, FunctionsOK, Same, clientVars, messageVars, OpState
  <2>2. /\ Len(wire'[s]) = Len(wire[s]) + 1
        /\ \A n \in 1 .. Len(wire[s]) : wire'[s][n] = wire[s][n]
        /\ wire'[s][Len(wire[s]) + 1] = m_response[s]
        /\ Len(sent[s]) \in Nat /\ Len(wire[s]) \in Nat
    BY <1>7, <1>f DEF WriteResponse, FunctionsOK
  <2>3. SessionInv(s)'
    BY <1>7, <1>f, <2>2 DEF WriteResponse, FunctionsOK, clientVars, messageVars,
       SessionInv, Exclusion, Phase, Wire, Handled, AnswersTo
  <2> QED
    BY <1>g, <2>1, <2>3
<1>8. ASSUME NEW s \in Sessions, NEW t \in Threads, TakeRead(t, s)
      PROVE  Inv'
  <2>1. FunctionsOK' /\ \A x \in Sessions \ {s} : Same(x)
    BY <1>8, <1>f, SessionAssumption DEF TakeRead, FunctionsOK, Same, clientVars,
       messageVars, OpState
  <2>2. SessionInv(s)'
    BY <1>8, <1>f, SessionAssumption DEF TakeRead, FunctionsOK, clientVars, messageVars,
       SessionInv, Exclusion, Phase, Wire, Handled, AnswersTo
  <2> QED
    BY <1>g, <2>1, <2>2
<1>9. ASSUME NEW s \in Sessions, NEW t \in Threads, TakeWrite(t, s)
      PROVE  Inv'
  <2>1. FunctionsOK' /\ \A x \in Sessions \ {s} : Same(x)
    BY <1>9, <1>f DEF TakeWrite, NextRead, FunctionsOK, Same, clientVars, OpState
  <2>2. SessionInv(s)'
    BY <1>9, <1>f DEF TakeWrite, NextRead, FunctionsOK, clientVars,
       SessionInv, Exclusion, Phase, Wire, Handled, AnswersTo
  <2> QED
    BY <1>g, <2>1, <2>2
<1>10. ASSUME NEW t \in Threads, HandleRequest(t)
       PROVE  Inv'
  <2> PICK s \in Sessions :
        /\ busy[t] = s
        /\ \E status \in Statuses(Current(s)) :
             m_response' = [m_response EXCEPT ![s] = [to |-> m_request[s], status |-> status]]
        /\ writing' = [writing EXCEPT ![s] = "pending"]
        /\ busy' = [busy EXCEPT ![t] = Nobody]
        /\ UNCHANGED <<client, sent, taken, reading, m_request, wire, ended>>
    BY <1>10 DEF HandleRequest, DoWrite, clientVars
  <2> PICK status \in Statuses(Current(s)) :
        m_response' = [m_response EXCEPT ![s] = [to |-> m_request[s], status |-> status]]
    OBVIOUS
  <2>1. /\ status \in {"handled", "internal_server_error", "not_found"}
        /\ status = "not_found" <=> ~HasRoute(sent[s][taken[s]])
    BY RouterStatus DEF Current
  <2>2. [to |-> m_request[s], status |-> status] \in Responses
    BY <1>f, <2>1 DEF FunctionsOK, Responses
  <2>3. FunctionsOK' /\ \A x \in Sessions \ {s} : Same(x)
    BY <1>f, <2>2, SessionAssumption DEF FunctionsOK, Same, OpState
  <2>4. m_response'[s].to = m_request[s] /\ m_response'[s].status = status
    BY <1>f DEF FunctionsOK
  <2>5. SessionInv(s)'
    BY <1>f, <2>1, <2>4, SessionAssumption DEF FunctionsOK, 
       SessionInv, Exclusion, Phase, Wire, Handled, AnswersTo
  <2> QED
    BY <1>g, <2>3, <2>5
<1> QED
  BY <1>1, <1>2, <1>3, <1>4, <1>5, <1>6, <1>7, <1>8, <1>9, <1>10 DEF Next, Socket, Take

(* The inductive invariant holds in every reachable state. *)
LEMMA Invariance == Spec => []Inv
<1>1. Init => Inv
  BY SessionAssumption DEF Init, Inv, FunctionsOK, OpState, Responses, NoResponse,
     SessionInv, Exclusion, Phase, Wire, Handled
<1>2. Inv /\ [Next]_vars => Inv'
  BY Inductive
<1> QED
  BY <1>1, <1>2, PTL DEF Spec

(* Session.cpp has neither lock nor strand.  For any number of io threads  *)
(* a session nevertheless has at most one read, write or running handler.  *)
THEOREM OneThingAtATime == Spec => []OneActivity
<1>1. Inv => OneActivity
  <2> SUFFICES ASSUME Inv
               PROVE  OneActivity
    OBVIOUS
  <2>1. TypeOK
    BY DEF Inv, FunctionsOK, SessionInv, Wire, TypeOK
  <2>2. ASSUME NEW s \in Sessions
        PROVE  Activities(s) <= 1
    <3> DEFINE B == {t \in Threads : busy[t] = s}
    <3>1. Exclusion(s)
      BY DEF Inv, SessionInv
    <3>2. CASE B = {}
      <4>1. Cardinality(B) = 0
        BY <3>2, FS_EmptySet
      <4> QED
        BY <3>1, <4>1 DEF Exclusion, Activities
    <3>3. CASE B # {}
      <4>1. PICK t \in Threads : busy[t] = s
        BY <3>3
      <4>2. B = {t}
        BY <3>1, <4>1 DEF Exclusion
      <4>3. Cardinality(B) = 1
        BY <4>2, FS_Singleton
      <4>4. reading[s] = "no" /\ writing[s] = "no"
        BY <3>1, <4>1 DEF Exclusion, Handled
      <4> QED
        BY <4>3, <4>4 DEF Activities
    <3> QED
      BY <3>2, <3>3
  <2> QED
    BY <2>1, <2>2 DEF OneActivity
<1> QED
  BY <1>1, Invariance, PTL

(* However many requests a client sends ahead, and on whichever threads    *)
(* they are handled, the n-th response answers the n-th request alone,     *)
(* with "not found" exactly if the router has no route for it.             *)
THEOREM ResponsesInOrder == Spec => []ResponsesMatch
<1>1. Inv => ResponsesMatch
  <2> SUFFICES ASSUME Inv, NEW s \in Sessions, NEW n \in DOMAIN wire[s]
               PROVE  AnswersTo(wire[s][n], s, n)
    BY DEF ResponsesMatch, AnswersTo
  <2>1. n \in 1 .. Len(wire[s])
    BY DEF Inv, FunctionsOK
  <2> QED
    BY <2>1 DEF Inv, SessionInv, Wire
<1> QED
  BY <1>1, Invariance, PTL
=============================================================================
