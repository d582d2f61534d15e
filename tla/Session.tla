------------------------------- MODULE Session -------------------------------
(***************************************************************************)
(* The HTTP sessions of server/Session.cpp, run by the io threads.         *)
(*                                                                         *)
(* A session has no lock and no strand: it relies on starting its next     *)
(* asynchronous operation only in the handler of the last one.  It lives   *)
(* as long as an operation or a running handler holds its self pointer.    *)
(***************************************************************************)
EXTENDS Naturals, Sequences, FiniteSets, Router

CONSTANTS
  Sessions,
  Threads,      \* the io threads
  Requests,     \* records [method, target] that clients send
  MaxRequests,  \* bound: requests a client sends on a connection
  Nobody        \* busy[t] of a thread that waits in m_ioc.run()

ASSUME SessionAssumption ==
  /\ MaxRequests \in Nat
  /\ Nobody \notin Sessions

VARIABLES
  client,      \* client[s]: "none" yet connected, "open", or "closed"
  sent,        \* sent[s]: the requests the client has sent
  taken,       \* taken[s]: how many of them async_read has parsed
  reading,     \* reading[s]: the async_read, "no" if there is none
  writing,     \* writing[s]: the async_write
  m_request,   \* m_request[s]: the requests parsed into it, by number
  m_response,  \* m_response[s]
  wire,        \* wire[s]: the responses the client has received
  busy,        \* busy[t]: the session whose request thread t handles
  ended        \* history: sessions ended by an error or by need_eof()

clientVars == <<client, sent>>
messageVars == <<m_request, m_response>>
vars == <<clientVars, taken, reading, writing, messageVars, wire, busy, ended>>

OpState == {"no", "pending", "done", "failed"}
NoResponse == [to |-> {}, status |-> "none"]

Init ==
  /\ client = [s \in Sessions |-> "none"]
  /\ sent = [s \in Sessions |-> <<>>]
  /\ taken = [s \in Sessions |-> 0]
  /\ reading = [s \in Sessions |-> "no"]
  /\ writing = [s \in Sessions |-> "no"]
  /\ m_request = [s \in Sessions |-> {}]
  /\ m_response = [s \in Sessions |-> NoResponse]
  /\ wire = [s \in Sessions |-> <<>>]
  /\ busy = [t \in Threads |-> Nobody]
  /\ ended = {}

-----------------------------------------------------------------------------
(* The client *)

(* The accept handler makes the session and calls run, hence doRead. *)
Connect(s) ==
  /\ client[s] = "none"
  /\ client' = [client EXCEPT ![s] = "open"]
  /\ reading' = [reading EXCEPT ![s] = "pending"]
  /\ UNCHANGED <<sent, taken, writing, messageVars, wire, busy, ended>>

(* A client need not wait for an answer before it sends the next request. *)
Send(s) ==
  /\ client[s] = "open"
  /\ Len(sent[s]) < MaxRequests
  /\ \E r \in Requests : sent' = [sent EXCEPT ![s] = Append(@, r)]
  /\ UNCHANGED <<client, taken, reading, writing, messageVars, wire, busy, ended>>

(* The server learns that the connection is over: the client's FIN, or a   *)
(* RST, arrives.  A peer that vanishes without either is no Close: with no *)
(* timeout and no keepalive its async_read stays pending for ever.         *)
Close(s) ==
  /\ client[s] = "open"
  /\ client' = [client EXCEPT ![s] = "closed"]
  /\ UNCHANGED <<sent, taken, reading, writing, messageVars, wire, busy, ended>>

-----------------------------------------------------------------------------
(* The operations of the socket *)

(* async_read parses the next request into m_request; what is in m_buffer  *)
(* beyond it stays there for the next async_read.                          *)
ReadRequest(s) ==
  /\ reading[s] = "pending"
  /\ taken[s] < Len(sent[s])
  /\ taken' = [taken EXCEPT ![s] = @ + 1]
  /\ m_request' = [m_request EXCEPT ![s] = @ \cup {taken[s] + 1}]
  /\ reading' = [reading EXCEPT ![s] = "done"]
  /\ UNCHANGED <<clientVars, writing, m_response, wire, busy, ended>>

(* The end of the stream, or what the client sent is no HTTP request. *)
ReadFails(s) ==
  /\ reading[s] = "pending"
  /\ client[s] = "closed" \/ taken[s] < Len(sent[s])
  /\ reading' = [reading EXCEPT ![s] = "failed"]
  /\ UNCHANGED <<clientVars, taken, writing, messageVars, wire, busy, ended>>

(* async_write sends m_response as it then is. *)
WriteResponse(s) ==
  /\ writing[s] = "pending"
  /\ client[s] = "open"
  /\ wire' = [wire EXCEPT ![s] = Append(@, m_response[s])]
  /\ writing' = [writing EXCEPT ![s] = "done"]
  /\ UNCHANGED <<clientVars, taken, reading, messageVars, busy, ended>>

WriteFails(s) ==
  /\ writing[s] = "pending"
  /\ client[s] = "closed"
  /\ writing' = [writing EXCEPT ![s] = "failed"]
  /\ UNCHANGED <<clientVars, taken, reading, messageVars, wire, busy, ended>>

-----------------------------------------------------------------------------
(* The handlers, on the io threads *)

Current(s) == sent[s][taken[s]]

(* Mutant: after an error the session reads again. *)
ReadAgain(t, s) ==
  /\ busy[t] = Nobody
  /\ \/ /\ reading[s] = "done"
        /\ reading' = [reading EXCEPT ![s] = "no"]
        /\ busy' = [busy EXCEPT ![t] = s]
     \/ /\ reading[s] = "failed"
        /\ reading' = [reading EXCEPT ![s] = "pending"]
        /\ UNCHANGED busy
  /\ UNCHANGED <<clientVars, taken, writing, messageVars, wire, ended>>

(* The handler of async_read starts.  After an error it just returns. *)
TakeRead(t, s) ==
  /\ busy[t] = Nobody
  /\ reading' = [reading EXCEPT ![s] = "no"]
  /\ \/ /\ reading[s] = "done"
        /\ busy' = [busy EXCEPT ![t] = s]
        /\ UNCHANGED ended
     \/ /\ reading[s] = "failed"
        /\ ended' = ended \cup {s}
        /\ UNCHANGED busy
  /\ UNCHANGED <<clientVars, taken, writing, messageVars, wire>>

(* Mutant: the next read starts together with the write. *)
ReadAhead(s) ==
  /\ writing' = [writing EXCEPT ![s] = "pending"]
  /\ reading' = [reading EXCEPT ![s] = "pending"]

DoWrite(s) ==
  /\ writing' = [writing EXCEPT ![s] = "pending"]
  /\ UNCHANGED reading

(* handleRequest, then doWrite. *)
HandleRequest(t) ==
  \E s \in Sessions :
    /\ busy[t] = s
    /\ \E status \in Statuses(Current(s)) :
         m_response' = [m_response EXCEPT ![s] = [to |-> m_request[s], status |-> status]]
    /\ DoWrite(s)
    /\ busy' = [busy EXCEPT ![t] = Nobody]
    /\ UNCHANGED <<clientVars, taken, m_request, wire, ended>>

(* Mutant: m_request is not emptied. *)
ReadInto(s) ==
  /\ reading' = [reading EXCEPT ![s] = "pending"]
  /\ UNCHANGED m_request

(* Mutant: the handler ends without the next doRead. *)
NoFurtherRead(s) ==
  /\ m_request' = [m_request EXCEPT ![s] = {}]
  /\ UNCHANGED reading

(* m_request = {}, then doRead. *)
NextRead(s) ==
  /\ m_request' = [m_request EXCEPT ![s] = {}]
  /\ reading' = [reading EXCEPT ![s] = "pending"]

(* The handler of async_write: after an error, and after need_eof(), which *)
(* shuts the socket down for sending, the session ends.                    *)
TakeWrite(t, s) ==
  /\ busy[t] = Nobody
  /\ writing[s] \in {"done", "failed"}
  /\ writing' = [writing EXCEPT ![s] = "no"]
  /\ \/ /\ writing[s] = "done"
        /\ NextRead(s)
        /\ UNCHANGED ended
     \/ /\ ended' = ended \cup {s}
        /\ UNCHANGED <<reading, m_request>>
  /\ UNCHANGED <<clientVars, taken, m_response, wire, busy>>

-----------------------------------------------------------------------------
Take(s) == \E t \in Threads : TakeRead(t, s) \/ TakeWrite(t, s)

Socket(s) == ReadRequest(s) \/ ReadFails(s) \/ WriteResponse(s) \/ WriteFails(s)

Next ==
  \/ \E s \in Sessions : Connect(s) \/ Send(s) \/ Close(s) \/ Socket(s) \/ Take(s)
  \/ \E t \in Threads : HandleRequest(t)

Spec == Init /\ [][Next]_vars

Mailing(t) == busy[t] # Nobody /\ SendsMail(Current(busy[t]))

(* Operations of the socket complete once they can; a completed one is     *)
(* taken in its turn if threads come free again and again (the queue of    *)
(* the io_context is first-in first-out); a handler ends, except that a    *)
(* mail may hang.  Clients owe nothing.                                    *)
FairSpec ==
  /\ Spec
  /\ \A s \in Sessions : WF_vars(Socket(s)) /\ SF_vars(Take(s))
  /\ \A t \in Threads : WF_vars(~Mailing(t) /\ HandleRequest(t))

-----------------------------------------------------------------------------
(* Properties *)

(* Types *)
TypeOK ==
  /\ client \in [Sessions -> {"none", "open", "closed"}]
  /\ \A s \in Sessions :
       /\ sent[s] \in Seq(Requests) /\ Len(sent[s]) <= MaxRequests
       /\ taken[s] \in 0 .. Len(sent[s])
       /\ m_request[s] \subseteq 1 .. taken[s]
       /\ m_response[s].to \subseteq 1 .. taken[s]
       /\ Len(wire[s]) <= taken[s]
  /\ reading \in [Sessions -> OpState]
  /\ writing \in [Sessions -> OpState]
  /\ busy \in [Threads -> Sessions \cup {Nobody}]
  /\ ended \subseteq Sessions

Activities(s) ==
  (IF reading[s] = "no" THEN 0 ELSE 1) + (IF writing[s] = "no" THEN 0 ELSE 1)
    + Cardinality({t \in Threads : busy[t] = s})

(* Types; and a session, which no lock protects, does one thing at a time: *)
(* a read, a write or a handler, on whichever threads they run.            *)
OneActivity == TypeOK /\ \A s \in Sessions : Activities(s) <= 1

(* The n-th response a client gets answers the n-th request it sent, and   *)
(* that request alone, however many it has sent ahead: with "not found"    *)
(* exactly when the router has no route for it.                            *)
ResponsesMatch ==
  \A s \in Sessions : \A n \in DOMAIN wire[s] :
     /\ wire[s][n].to = {n}
     /\ wire[s][n].status = "not_found" <=> ~HasRoute(sent[s][n])

Gone(s) == client[s] # "none" /\ Activities(s) = 0

(* The mail for session s, or mails that occupy every thread, never end. *)
Hangs(s) == (\E t \in Threads : busy[t] = s /\ Mailing(t)) \/ (\A t \in Threads : Mailing(t))

(* Every request is answered, or its session was ended by an error or by   *)
(* need_eof(), unless from some moment on a mail holds the session or      *)
(* mails hold all the threads.                                             *)
RequestsAnswered ==
  \A s \in Sessions :
     \/ <>[]Hangs(s)
     \/ \A n \in 1 .. MaxRequests :
           (Len(sent[s]) >= n) ~> (Len(wire[s]) >= n \/ s \in ended)

(* A session whose client has closed, so that a FIN or a RST has reached   *)
(* the server, ends, with the same exception.                              *)
SessionsEnd ==
  \A s \in Sessions : <>[]Hangs(s) \/ ((client[s] = "closed") ~> Gone(s))
=============================================================================
