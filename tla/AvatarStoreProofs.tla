-------------------------- MODULE AvatarStoreProofs --------------------------
(***************************************************************************)
(* Proofs, for any threads, users, secrets and sizes of pictures, that     *)
(* tokens are judged right, that an undisturbed update leaves its picture  *)
(* whole, and that an undisturbed read answers with the whole picture.     *)
(***************************************************************************)
EXTENDS AvatarStore, TLAPS

Stages == {"idle", "verify", "expiry", "open", "write", "read"}

(* Types of the variables. *)
TypeInv ==
  /\ now \in 0 .. MaxTime
  /\ pc \in [Threads -> Stages]
  /\ req \in [Threads -> Requests(Tokens) \cup Requests(Claims) \cup {Null}]
  /\ file \in [Users -> Seq(Chunks) \cup {Null}]
  /\ data \in [Threads -> Seq(Chunks)]
  /\ pos \in [Threads -> Nat]
  /\ saved \in [Users -> Avatars \cup {Null}]
  /\ intact \in [Threads -> Avatars \cup {Null}]

(* The request of a thread at each stage: which token it still has, and    *)
(* that the verifier accepted it.                                          *)
RequestInv(t) ==
  /\ req[t] = Null <=> pc[t] = "idle"
  /\ pc[t] \in {"verify", "expiry"} => req[t] \in Requests(Tokens)
  /\ pc[t] = "expiry" => req[t].token.secret = m_secret
  /\ pc[t] \in {"open", "write", "read"} => req[t] \in Requests(Claims)

(* What a thread has of a file: nothing unless it is writing or reading,   *)
(* and then there is a file.                                               *)
StreamInv(t) ==
  /\ pc[t] \notin {"write", "read"} => data[t] = <<>> /\ intact[t] = Null
  /\ pc[t] # "write" => pos[t] = 0
  /\ pc[t] \in {"write", "read"} => file[FileOf(t)] # Null
  /\ Len(data[t]) + pos[t] <= MaxSize

Writing(t, u) == pc[t] = "write" /\ FileOf(t) = u

(* A saved picture is in the file, and nobody writes it. *)
SavedInv(u) ==
  /\ file[u] # Null => Len(file[u]) <= MaxSize
  /\ saved[u] # Null => /\ file[u] = Picture(u, saved[u])
                        /\ \A w \in Threads : ~Writing(w, u)

(* An undisturbed update is alone; the file holds the chunks it has        *)
(* written, and it has the others still to write.                          *)
WriteInv(t) ==
  pc[t] = "write" /\ intact[t] # Null =>
    /\ \A w \in Threads : Writing(w, FileOf(t)) => w = t
    /\ Len(file[FileOf(t)]) = pos[t]
    /\ pos[t] + Len(data[t]) = intact[t]
    /\ \A k \in 1 .. pos[t] : file[FileOf(t)][k] = Picture(FileOf(t), intact[t])[k]
    /\ \A k \in 1 .. Len(data[t]) :
         data[t][k] = Picture(FileOf(t), intact[t])[pos[t] + k]

(* An undisturbed read has read the first chunks of the saved picture. *)
ReadInv(t) ==
  pc[t] = "read" /\ intact[t] # Null =>
    /\ saved[FileOf(t)] = intact[t]
    /\ Len(data[t]) <= Len(file[FileOf(t)])
    /\ \A k \in 1 .. Len(data[t]) : data[t][k] = file[FileOf(t)][k]

ThreadInv(t) == RequestInv(t) /\ StreamInv(t) /\ WriteInv(t) /\ ReadInv(t)

Inv ==
  /\ TypeInv
  /\ \A t \in Threads : ThreadInv(t)
  /\ \A u \in Users : SavedInv(u)

-----------------------------------------------------------------------------
(* Requests, pictures and files *)

(* A request has its token, and an update its picture. *)
LEMMA RequestFields ==
  ASSUME NEW T, NEW r \in Requests(T)
  PROVE  /\ r.token \in T
         /\ r.op \in {"get", "update"}
         /\ r.op = "update" => r.avatar \in Avatars
  BY DEF Requests

(* From the verified token a request keeps the id claim. *)
LEMMA KeepsClaim ==
  ASSUME NEW r \in Requests(Tokens)
  PROVE  \E new \in Requests(Claims) :
           new = [r EXCEPT !.token = [id |-> r.token.id]]
<1>1. r.token.id \in Users
  BY DEF Requests, Tokens
<1>2. CASE r \in [op : {"get"}, token : Tokens]
  <2>1. [r EXCEPT !.token = [id |-> r.token.id]] \in [op : {"get"}, token : Claims]
    BY <1>1, <1>2 DEF Claims
  <2> QED
    BY <2>1 DEF Requests
<1>3. CASE r \in [op : {"update"}, token : Tokens, avatar : Avatars]
  <2>1. [r EXCEPT !.token = [id |-> r.token.id]]
          \in [op : {"update"}, token : Claims, avatar : Avatars]
    BY <1>1, <1>3 DEF Claims
  <2> QED
    BY <2>1 DEF Requests
<1> QED
  BY <1>2, <1>3 DEF Requests

(* A picture has as many chunks as its size says. *)
LEMMA PictureChunks ==
  ASSUME NEW u \in Users, NEW a \in Avatars
  PROVE  /\ Picture(u, a) \in Seq(Chunks)
         /\ Len(Picture(u, a)) = a
         /\ a \in Nat /\ 1 <= a /\ a <= MaxSize
<1>1. a \in Nat /\ 1 <= a /\ a <= MaxSize
  BY AvatarAssumption DEF Avatars
<1>2. \A k \in 1 .. a : [by |-> u, of |-> a, part |-> k] \in Chunks
  BY <1>1, AvatarAssumption DEF Chunks
<1>3. Picture(u, a) \in [1 .. a -> Chunks]
  BY <1>2 DEF Picture
<1> QED
  BY <1>1, <1>3

(* An empty file is a file. *)
LEMMA EmptyFile == <<>> \in Seq(Chunks) /\ <<>> # Null /\ Len(<<>>) = 0
<1>1. <<>> \in Seq(Chunks) /\ Len(<<>>) = 0
  OBVIOUS
<1>2. Null \notin Seq(Chunks)
  BY NullAssumption
<1> QED
  BY <1>1, <1>2

(* Two files are the same if they are as long and have the same chunks. *)
LEMMA SameFile ==
  ASSUME NEW f \in Seq(Chunks), NEW g \in Seq(Chunks), Len(f) = Len(g),
         \A k \in 1 .. Len(g) : f[k] = g[k]
  PROVE  f = g
<1>1. f \in [1 .. Len(g) -> Chunks] /\ g \in [1 .. Len(g) -> Chunks]
  OBVIOUS
<1> QED
  BY <1>1

(* A chunk h written at offset p of a file f: the file is as long as       *)
(* before, or ends with h, and has h there and nothing else new but a gap. *)
Overwrite(f, p, h, end) ==
  [k \in 1 .. end |-> CASE k = p + 1 -> h
                        [] k # p + 1 /\ k <= Len(f) -> f[k]
                        [] OTHER -> Gap]

LEMMA WrittenAt ==
  ASSUME NEW f \in Seq(Chunks), NEW p \in Nat, NEW h \in Chunks,
         NEW end \in Nat, end = IF Len(f) > p THEN Len(f) ELSE p + 1
  PROVE  /\ Overwrite(f, p, h, end) \in Seq(Chunks)
         /\ Len(Overwrite(f, p, h, end)) = end
         /\ Overwrite(f, p, h, end)[p + 1] = h
         /\ \A k \in 1 .. Len(f) : k # p + 1 => Overwrite(f, p, h, end)[k] = f[k]
<1> DEFINE g == Overwrite(f, p, h, end)
<1>g. g = [k \in 1 .. end |-> CASE k = p + 1 -> h
                                [] k # p + 1 /\ k <= Len(f) -> f[k]
                                [] OTHER -> Gap]
  BY DEF Overwrite
<1> HIDE DEF g
<1>1. Gap \in Chunks
  BY AvatarAssumption DEF Gap, Chunks
<1>2. \A k \in 1 .. end : g[k] \in Chunks
  BY <1>1, <1>g
<1>3. g \in [1 .. end -> Chunks]
  BY <1>2, <1>g
<1>4. g \in Seq(Chunks) /\ Len(g) = end
  BY <1>3
<1>5. p + 1 \in 1 .. end /\ \A k \in 1 .. Len(f) : k \in 1 .. end
  OBVIOUS
<1> QED
  BY <1>4, <1>5, <1>g DEF g

-----------------------------------------------------------------------------
(* Steps *)

(* Thread x does not move; the picture it should see may be lost. *)
Rests(x) ==
  /\ pc'[x] = pc[x] /\ req'[x] = req[x] /\ data'[x] = data[x] /\ pos'[x] = pos[x]
  /\ intact'[x] \in {intact[x], Null}

(* Nothing that matters to an undisturbed request happens to file u. *)
Quiet(u) ==
  /\ file'[u] = file[u] /\ saved'[u] = saved[u]
  /\ \A w \in Threads : Writing(w, u)' => Writing(w, u)

(* A thread that rests keeps its invariant if its file is still there and, *)
(* unless it was disturbed, is left alone.                                 *)
LEMMA Frame ==
  ASSUME NEW x \in Threads, ThreadInv(x), Rests(x),
         pc[x] \in {"write", "read"} => file'[FileOf(x)] # Null,
         pc[x] \in {"write", "read"} /\ intact'[x] # Null => Quiet(FileOf(x))
  PROVE  ThreadInv(x)'
<1>1. FileOf(x)' = FileOf(x)
  BY DEF Rests, FileOf, Token
<1>2. RequestInv(x)'
  BY DEF ThreadInv, RequestInv, Rests
<1>3. StreamInv(x)'
  BY <1>1 DEF ThreadInv, StreamInv, Rests
<1>4. WriteInv(x)'
  BY <1>1 DEF ThreadInv, WriteInv, Rests, Quiet
<1>5. ReadInv(x)'
  BY <1>1 DEF ThreadInv, ReadInv, Rests, Quiet
<1> QED
  BY <1>2, <1>3, <1>4, <1>5 DEF ThreadInv

(* A step of thread t that leaves the files alone and does not make t a    *)
(* writer has only to keep the invariant of t.                             *)
LEMMA OwnStep ==
  ASSUME Inv, TypeInv', NEW t \in Threads, UNCHANGED <<file, saved>>,
         \A x \in Threads \ {t} : Rests(x) /\ intact'[x] = intact[x],
         \A u \in Users : Writing(t, u)' => Writing(t, u),
         ThreadInv(t)'
  PROVE  Inv'
<1>1. \A w \in Threads : \A u \in Users : Writing(w, u)' => Writing(w, u)
  BY DEF Rests, Writing, FileOf, Token
<1>2. \A u \in Users : Quiet(u)
  BY <1>1 DEF Quiet
<1>3. \A x \in Threads : pc[x] \in {"write", "read"} => FileOf(x) \in Users
  BY RequestFields DEF Inv, ThreadInv, RequestInv, FileOf, Token, Claims
<1>4. \A x \in Threads \ {t} : ThreadInv(x)'
  <2> TAKE x \in Threads \ {t}
  <2>1. ThreadInv(x)
    BY DEF Inv
  <2>2. pc[x] \in {"write", "read"} => Quiet(FileOf(x)) /\ file'[FileOf(x)] # Null
    <3>1. pc[x] \in {"write", "read"} => Quiet(FileOf(x))
      BY <1>2, <1>3
    <3>2. pc[x] \in {"write", "read"} => file'[FileOf(x)] # Null
      BY <2>1 DEF ThreadInv, StreamInv
    <3> QED
      BY <3>1, <3>2
  <2> QED
    BY <2>1, <2>2, Frame
<1>5. \A u \in Users : SavedInv(u)'
  BY <1>2 DEF Inv, SavedInv, Quiet, Picture
<1> QED
  BY <1>4, <1>5 DEF Inv

(* The thread that has answered is idle and has let its file go. *)
LEMMA Answers ==
  ASSUME Inv, NEW t \in Threads, NEW s, NEW c, Answer(t, s, c), UNCHANGED fileVars
  PROVE  Inv'
<1>1. /\ pc'[t] = "idle" /\ req'[t] = Null /\ data'[t] = <<>> /\ pos'[t] = 0
      /\ intact'[t] = Null
      /\ \A x \in Threads \ {t} : Rests(x) /\ intact'[x] = intact[x]
      /\ UNCHANGED <<file, saved, now>>
  BY DEF Inv, TypeInv, Answer, Rests, fileVars
<1>2. TypeInv'
  BY DEF Inv, TypeInv, Answer, Stages, fileVars
<1>3. ThreadInv(t)'
  BY <1>1, AvatarAssumption DEF ThreadInv, RequestInv, StreamInv, WriteInv, ReadInv
<1>4. \A u \in Users : ~Writing(t, u)'
  BY <1>1 DEF Writing
<1> QED
  BY <1>1, <1>2, <1>3, <1>4, OwnStep

(* The clients' requests. *)
LEMMA ArrivalRequest ==
  ASSUME NEW n \in 0 .. MaxTime, NEW token \in TokensUntil(Users, n)
  PROVE  /\ token \in Tokens
         /\ [op |-> "get", token |-> token] \in Requests(Tokens)
         /\ \A a \in Avatars :
              [op |-> "update", token |-> token, avatar |-> a] \in Requests(Tokens)
<1>1. token \in Tokens
  BY AvatarAssumption, TokenAssumption DEF TokensUntil, GenerateToken, Tokens
<1> QED
  BY <1>1 DEF Requests

(* The invariant is inductive. *)
LEMMA Inductive == Inv /\ [Next]_vars => Inv'
<1> SUFFICES ASSUME Inv, [Next]_vars
             PROVE  Inv'
  OBVIOUS
<1>t. TypeInv
  BY DEF Inv
<1>i. \A t \in Threads : ThreadInv(t)
  BY DEF Inv
<1>s. \A u \in Users : SavedInv(u)
  BY DEF Inv
<1>u. \A t \in Threads : pc[t] \in {"open", "write", "read"} => FileOf(t) \in Users
  BY <1>i, RequestFields DEF ThreadInv, RequestInv, FileOf, Token, Claims
<1>1. CASE UNCHANGED vars \/ Tick
  <2>1. /\ UNCHANGED <<fileVars, threadVars>>
        /\ now' \in 0 .. MaxTime
    BY <1>1, <1>t, AvatarAssumption DEF Tick, vars, TypeInv
  <2>2. TypeInv'
    BY <1>t, <2>1 DEF TypeInv, fileVars, threadVars
  <2>3. \A t \in Threads : ThreadInv(t)'
    BY <1>i, <2>1 DEF ThreadInv, RequestInv, StreamInv, WriteInv, ReadInv, Writing, FileOf,
       Token, fileVars, threadVars
  <2>4. \A u \in Users : SavedInv(u)'
    BY <1>s, <2>1 DEF SavedInv, Writing, FileOf, Token, fileVars, threadVars
  <2> QED
    BY <2>2, <2>3, <2>4 DEF Inv
<1>2. CASE Restart
  <2>1. \A t \in Threads : /\ pc'[t] = "idle" /\ req'[t] = Null /\ data'[t] = <<>>
                           /\ pos'[t] = 0 /\ intact'[t] = Null
    BY <1>2 DEF Restart
  <2>2. TypeInv'
    BY <1>2, <1>t DEF Restart, TypeInv, Stages, fileVars
  <2>3. \A t \in Threads : ThreadInv(t)'
    BY <2>1, AvatarAssumption DEF ThreadInv, RequestInv, StreamInv, WriteInv, ReadInv
  <2>4. \A u \in Users : SavedInv(u)'
    BY <1>2, <1>s, <2>1 DEF Restart, SavedInv, Writing, fileVars
  <2> QED
    BY <2>2, <2>3, <2>4 DEF Inv
<1>3. ASSUME NEW t \in Threads, Arrive(t)
      PROVE  Inv'
  <2>1. PICK r \in Requests(Tokens) : req' = [req EXCEPT ![t] = r]
    <3>1. PICK token \in TokensUntil(Users, now) :
            \/ req' = [req EXCEPT ![t] = [op |-> "get", token |-> token]]
            \/ \E a \in Avatars :
                 req' = [req EXCEPT ![t] = [op |-> "update", token |-> token, avatar |-> a]]
      BY <1>3 DEF Arrive
    <3>2. now \in 0 .. MaxTime
      BY <1>t DEF TypeInv
    <3> QED
      BY <3>1, <3>2, ArrivalRequest, Zenon
  <2>2. /\ pc'[t] = "verify" /\ pc[t] = "idle" /\ req'[t] = r
        /\ \A x \in Threads \ {t} : Rests(x) /\ intact'[x] = intact[x]
        /\ UNCHANGED <<file, saved, data, pos, intact>>
    BY <1>3, <1>t, <2>1 DEF Arrive, TypeInv, Rests, fileVars
  <2>3. TypeInv'
    BY <1>3, <1>t, <2>1 DEF Arrive, TypeInv, Stages, fileVars
  <2>4. r # Null
    BY NullAssumption
  <2>5. ThreadInv(t)'
    <3>1. RequestInv(t)'
      BY <2>2, <2>4 DEF RequestInv
    <3> QED
      BY <1>i, <2>2, <3>1 DEF ThreadInv, StreamInv, WriteInv, ReadInv
  <2>6. \A u \in Users : ~Writing(t, u)'
    BY <2>2 DEF Writing
  <2> QED
    BY <2>2, <2>3, <2>5, <2>6, OwnStep
<1>4. ASSUME NEW t \in Threads, Verify(t)
      PROVE  Inv'
  <2>1. CASE \E s, c : Answer(t, s, c) /\ UNCHANGED fileVars
    BY <2>1, Answers, Zenon
  <2>2. CASE VerifierAccepts(Token(t), now) /\ Goto(t, "expiry")
               /\ UNCHANGED <<fileVars, now, data, pos, intact>>
    <3>1. /\ pc'[t] = "expiry" /\ pc[t] = "verify" /\ Token(t).secret = m_secret
          /\ \A x \in Threads \ {t} : Rests(x) /\ intact'[x] = intact[x]
          /\ UNCHANGED <<file, saved, req, data, pos, intact>>
      BY <1>4, <1>t, <2>2 DEF Verify, Goto, TypeInv, Rests, fileVars, VerifierAccepts
    <3>2. TypeInv'
      BY <1>t, <2>2 DEF Goto, TypeInv, Stages, fileVars
    <3>3. ThreadInv(t)'
      BY <1>i, <3>1 DEF ThreadInv, RequestInv, StreamInv, WriteInv, ReadInv, Token
    <3>4. \A u \in Users : ~Writing(t, u)'
      BY <3>1 DEF Writing
    <3> QED
      BY <3>1, <3>2, <3>3, <3>4, OwnStep
  <2> QED
    BY <1>4, <2>1, <2>2, Zenon DEF Verify
<1>5. ASSUME NEW t \in Threads, CheckExpiry(t)
      PROVE  Inv'
  <2>1. CASE \E s, c : Answer(t, s, c) /\ UNCHANGED fileVars
    BY <2>1, Answers, Zenon
  <2>2. CASE /\ pc' = [pc EXCEPT ![t] = "open"]
             /\ req' = [req EXCEPT ![t].token = [id |-> Token(t).id]]
             /\ UNCHANGED <<fileVars, now, data, pos, intact>>
    <3>0. req[t] \in Requests(Tokens) /\ pc[t] = "expiry"
      BY <1>5, <1>i DEF CheckExpiry, ThreadInv, RequestInv
    <3>1. PICK r \in Requests(Claims) : req' = [req EXCEPT ![t] = r]
      <4>1. PICK r \in Requests(Claims) :
              r = [req[t] EXCEPT !.token = [id |-> req[t].token.id]]
        BY <3>0, KeepsClaim
      <4>2. req' = [req EXCEPT ![t] = [req[t] EXCEPT !.token = [id |-> req[t].token.id]]]
        BY <2>2, Zenon DEF Token
      <4> QED
        BY <4>1, <4>2, Zenon
    <3>2. r # Null
      BY NullAssumption
    <3>3. /\ pc'[t] = "open" /\ req'[t] = r
          /\ \A x \in Threads \ {t} : Rests(x) /\ intact'[x] = intact[x]
          /\ UNCHANGED <<file, saved, data, pos, intact>>
      <4>1. /\ pc' = [pc EXCEPT ![t] = "open"]
            /\ UNCHANGED <<fileVars, now, data, pos, intact>>
        BY <2>2
      <4> QED
        BY <1>t, <3>1, <4>1 DEF TypeInv, Rests, fileVars
    <3>4. TypeInv'
      <4>1. pc' = [pc EXCEPT ![t] = "open"] /\ UNCHANGED <<fileVars, now, data, pos, intact>>
        BY <2>2
      <4> QED
        BY <1>t, <3>1, <4>1 DEF TypeInv, Stages, fileVars
    <3>5. ThreadInv(t)'
      <4>1. RequestInv(t)'
        BY <3>2, <3>3 DEF RequestInv
      <4> QED
        BY <1>i, <3>0, <3>3, <4>1 DEF ThreadInv, StreamInv, WriteInv, ReadInv
    <3>6. \A u \in Users : ~Writing(t, u)'
      BY <3>3 DEF Writing
    <3> QED
      BY <3>3, <3>4, <3>5, <3>6, OwnStep
  <2> QED
    BY <1>5, <2>1, <2>2, Zenon DEF CheckExpiry
<1>6. ASSUME NEW t \in Threads, OpenToWrite(t)
      PROVE  Inv'
  <2>1. CASE \E s, c : Answer(t, s, c) /\ UNCHANGED fileVars
    BY <2>1, Answers, Zenon
  <2>2. CASE /\ Goto(t, "write")
             /\ file' = [file EXCEPT ![FileOf(t)] = Truncated(FileOf(t))]
             /\ saved' = [saved EXCEPT ![FileOf(t)] = Null]
             /\ data' = [data EXCEPT ![t] = Picture(Token(t).id, req[t].avatar)]
             /\ intact' = [Disturbed(FileOf(t)) EXCEPT ![t] =
                             IF \E w \in On(FileOf(t)) : pc[w] = "write"
                               THEN Null ELSE req[t].avatar]
             /\ UNCHANGED <<now, pos>>
    <3>1. PICK u \in Users : u = FileOf(t) /\ u = Token(t).id
      BY <1>6, <1>u DEF OpenToWrite, FileOf
    <3>2. PICK a \in Avatars : a = req[t].avatar
      BY <1>6, <1>i, RequestFields DEF OpenToWrite, ThreadInv, RequestInv
    <3>3. PICK p \in Seq(Chunks) : p = Picture(u, a) /\ Len(p) = a
      BY PictureChunks
    <3>4. PICK g \in {Null, a} :
            /\ intact' = [Disturbed(u) EXCEPT ![t] = g]
            /\ g # Null => \A w \in On(u) : pc[w] # "write"
      BY <2>2, <3>1, <3>2
    <3>5. /\ pc' = [pc EXCEPT ![t] = "write"] /\ UNCHANGED <<req, now, pos>>
          /\ file' = [file EXCEPT ![u] = <<>>]
          /\ saved' = [saved EXCEPT ![u] = Null]
          /\ data' = [data EXCEPT ![t] = p]
      BY <2>2, <3>1, <3>2, <3>3 DEF Goto, Truncated
    <3>6. /\ pc'[t] = "write" /\ pc[t] = "open" /\ req'[t] = req[t]
          /\ data'[t] = p /\ intact'[t] = g /\ pos'[t] = 0
          /\ file'[u] = <<>> /\ saved'[u] = Null
      <4>1. pos[t] = 0 /\ pc[t] = "open"
        BY <1>6, <1>i DEF OpenToWrite, ThreadInv, StreamInv
      <4> QED
        BY <1>t, <3>4, <3>5, <4>1 DEF TypeInv, Disturbed
    <3>7. \A v \in Users \ {u} : file'[v] = file[v] /\ saved'[v] = saved[v]
      BY <1>t, <3>5 DEF TypeInv
    <3>8. \A x \in Threads \ {t} :
            /\ pc'[x] = pc[x] /\ req'[x] = req[x] /\ data'[x] = data[x] /\ pos'[x] = pos[x]
            /\ intact'[x] = IF x \in On(u) THEN Null ELSE intact[x]
      BY <1>t, <3>4, <3>5 DEF TypeInv, Disturbed
    <3>9. TypeInv'
      <4>1. intact' \in [Threads -> Avatars \cup {Null}]
        BY <1>t, <3>4 DEF TypeInv, Disturbed
      <4>2. <<>> \in Seq(Chunks)
        OBVIOUS
      <4> QED
        BY <1>t, <3>5, <4>1, <4>2 DEF TypeInv, Stages
    <3>10. \A x \in Threads : FileOf(x)' = FileOf(x)
      BY <3>5 DEF FileOf, Token
    <3>11. \A x \in Threads \ {t} : ThreadInv(x)'
      <4> TAKE x \in Threads \ {t}
      <4>1. Rests(x) /\ ThreadInv(x)
        BY <1>i, <3>8 DEF Rests
      <4>2. <<>> # Null
        BY EmptyFile
      <4>3. pc[x] \in {"write", "read"} => file'[FileOf(x)] # Null
        BY <1>u, <3>6, <3>7, <4>1, <4>2 DEF ThreadInv, StreamInv
      <4>4. ASSUME pc[x] \in {"write", "read"}, intact'[x] # Null
            PROVE  Quiet(FileOf(x))
        <5>1. FileOf(x) \in Users \ {u}
          BY <1>u, <3>8, <4>4 DEF On
        <5>2. \A w \in Threads : Writing(w, FileOf(x))' => Writing(w, FileOf(x))
          BY <3>1, <3>8, <3>10, <5>1 DEF Writing
        <5> QED
          BY <3>7, <5>1, <5>2 DEF Quiet
      <4> QED
        BY <4>1, <4>3, <4>4, Frame
    <3>12. ThreadInv(t)'
      <4>1. FileOf(t)' = u /\ <<>> # Null /\ Len(<<>>) = 0
        BY <3>1, <3>10, EmptyFile
      <4>2. RequestInv(t)'
        BY <1>i, <3>6 DEF ThreadInv, RequestInv
      <4>3. StreamInv(t)'
        BY <3>3, <3>6, <4>1, PictureChunks DEF StreamInv
      <4>4. WriteInv(t)'
        <5>1. ASSUME g # Null, NEW w \in Threads, Writing(w, u)'
              PROVE  w = t
          BY <3>4, <3>8, <3>10, <5>1 DEF Writing, On
        <5>2. g # Null => g = a
          BY <3>4
        <5> QED
          BY <3>3, <3>6, <4>1, <5>1, <5>2 DEF WriteInv
      <4>5. ReadInv(t)'
        BY <3>6 DEF ReadInv
      <4> QED
        BY <4>2, <4>3, <4>4, <4>5 DEF ThreadInv
    <3>13. \A v \in Users : SavedInv(v)'
      <4> TAKE v \in Users
      <4>1. CASE v = u
        BY <3>6, <4>1, AvatarAssumption DEF SavedInv
      <4>2. CASE v # u
        <5>1. \A w \in Threads : Writing(w, v)' => Writing(w, v)
          BY <3>1, <3>8, <3>10, <4>2 DEF Writing
        <5> QED
          BY <1>s, <3>7, <4>2, <5>1 DEF SavedInv
      <4> QED
        BY <4>1, <4>2
    <3> QED
      BY <3>9, <3>11, <3>12, <3>13 DEF Inv
  <2> QED
    BY <1>6, <2>1, <2>2, Zenon DEF OpenToWrite
<1>7. ASSUME NEW t \in Threads, Write(t)
      PROVE  Inv'
  <2>1. PICK u \in Users : u = FileOf(t)
    BY <1>7, <1>u DEF Write
  <2>2. PICK f \in Seq(Chunks) : f = file[u]
    BY <1>7, <1>t, <1>i, <2>1 DEF Write, TypeInv, ThreadInv, StreamInv
  <2>3. PICK p \in Nat : p = pos[t]
    BY <1>t DEF TypeInv
  <2>4. PICK d \in Seq(Chunks) : d = data[t] /\ d # <<>> /\ p + Len(d) <= MaxSize
    BY <1>7, <1>t, <1>i, <2>3 DEF Write, TypeInv, ThreadInv, StreamInv
  <2>5. /\ Head(d) \in Chunks /\ Tail(d) \in Seq(Chunks)
        /\ Len(d) \in Nat /\ Len(d) >= 1 /\ Len(Tail(d)) = Len(d) - 1
        /\ Head(d) = d[1] /\ \A k \in 1 .. Len(Tail(d)) : Tail(d)[k] = d[k + 1]
    BY <2>4
  <2>6. PICK end \in Nat : end = IF Len(f) > p THEN Len(f) ELSE p + 1
    OBVIOUS
  <2>7. PICK g \in Seq(Chunks) :
          /\ file' = [file EXCEPT ![u] = g]
          /\ Len(g) = end
          /\ g[p + 1] = Head(d)
          /\ \A k \in 1 .. Len(f) : k # p + 1 => g[k] = f[k]
    <3>1. PICK h \in Chunks : h = Head(d)
      BY <2>5
    <3>2. file' = [file EXCEPT ![u] =
                     Overwrite(f, p, h, IF Len(f) > p THEN Len(f) ELSE p + 1)]
      BY <1>7, <2>1, <2>2, <2>3, <2>4, <3>1, Zenon DEF Write, WriteChunk, Overwrite
    <3>3. file' = [file EXCEPT ![u] = Overwrite(f, p, h, end)]
      BY <2>6, <3>2, Zenon
    <3>4. /\ Overwrite(f, p, h, end) \in Seq(Chunks)
          /\ Len(Overwrite(f, p, h, end)) = end
          /\ Overwrite(f, p, h, end)[p + 1] = h
          /\ \A k \in 1 .. Len(f) : k # p + 1 => Overwrite(f, p, h, end)[k] = f[k]
      BY <2>6, WrittenAt
    <3> QED
      BY <3>1, <3>3, <3>4
  <2>8. /\ pc[t] = "write" /\ UNCHANGED <<now, req, saved, intact>>
        /\ pc' = [pc EXCEPT ![t] = "write"]
        /\ data' = [data EXCEPT ![t] = Tail(d)]
        /\ pos' = [pos EXCEPT ![t] = p + 1]
    BY <1>7, <2>3, <2>4 DEF Write, Goto
  <2>9. /\ pc'[t] = "write" /\ data'[t] = Tail(d) /\ pos'[t] = p + 1
        /\ file'[u] = g /\ g # Null
        /\ \A v \in Users \ {u} : file'[v] = file[v]
        /\ \A x \in Threads : FileOf(x)' = FileOf(x)
        /\ \A x \in Threads \ {t} : Rests(x) /\ intact'[x] = intact[x]
    <3>1. g # Null
      BY NullAssumption
    <3> QED
      BY <1>t, <2>7, <2>8, <3>1 DEF TypeInv, FileOf, Token, Rests
  <2>10. TypeInv'
    BY <1>t, <2>5, <2>7, <2>8 DEF TypeInv, Stages
  <2>11. Writing(t, u) /\ saved[u] = Null
    BY <1>s, <2>1, <2>8 DEF Writing, SavedInv
  <2>12. \A w \in Threads : \A v \in Users : Writing(w, v)' => Writing(w, v)
    BY <2>8, <2>9 DEF Writing, Rests
  <2>13. \A x \in Threads \ {t} : ThreadInv(x)'
    <3> TAKE x \in Threads \ {t}
    <3>1. ThreadInv(x) /\ Rests(x)
      BY <1>i, <2>9
    <3>2. pc[x] \in {"write", "read"} => file'[FileOf(x)] # Null
      BY <1>u, <2>9, <3>1 DEF ThreadInv, StreamInv
    <3>3. ASSUME pc[x] \in {"write", "read"}, intact'[x] # Null
          PROVE  Quiet(FileOf(x))
      <4>1. intact[x] # Null
        BY <2>9, <3>3
      <4>2. FileOf(x) # u
        BY <2>11, <3>1, <3>3, <4>1 DEF ThreadInv, WriteInv, ReadInv
      <4> QED
        BY <1>u, <2>8, <2>9, <2>12, <3>3, <4>2 DEF Quiet
    <3> QED
      BY <3>1, <3>2, <3>3, Frame
  <2>14. ThreadInv(t)'
    <3>1. FileOf(t)' = u
      BY <2>1, <2>9
    <3>2. RequestInv(t)'
      BY <1>i, <2>8, <2>9 DEF ThreadInv, RequestInv
    <3>3. StreamInv(t)'
      <4>1. Len(Tail(d)) + (p + 1) <= MaxSize
        BY <2>4, <2>5
      <4> QED
        BY <2>9, <3>1, <4>1 DEF StreamInv
    <3>4. WriteInv(t)'
      <4> SUFFICES ASSUME intact[t] # Null
                   PROVE  WriteInv(t)'
        BY <2>8 DEF WriteInv
      <4>1. PICK q : q = Picture(u, intact[t])
        OBVIOUS
      <4>2. /\ \A w \in Threads : Writing(w, u) => w = t
            /\ Len(f) = p
            /\ p + Len(d) = intact[t]
            /\ \A k \in 1 .. p : f[k] = q[k]
            /\ \A k \in 1 .. Len(d) : d[k] = q[p + k]
        BY <1>i, <2>1, <2>2, <2>3, <2>4, <2>8, <4>1 DEF ThreadInv, WriteInv
      <4>3. \A w \in Threads : Writing(w, u)' => w = t
        BY <2>12, <4>2
      <4>4. Len(g) = p + 1
        BY <2>6, <2>7, <4>2
      <4>5. (p + 1) + Len(Tail(d)) = intact[t]
        BY <2>5, <4>2
      <4>6. \A k \in 1 .. (p + 1) : g[k] = q[k]
        <5>1. g[p + 1] = q[p + 1]
          BY <2>5, <2>7, <4>2
        <5>2. \A k \in 1 .. p : g[k] = q[k]
          BY <2>7, <4>2
        <5> QED
          BY <5>1, <5>2
      <4>7. \A k \in 1 .. Len(Tail(d)) : Tail(d)[k] = q[(p + 1) + k]
        <5> TAKE k \in 1 .. Len(Tail(d))
        <5>1. k + 1 \in 1 .. Len(d) /\ p + (k + 1) = (p + 1) + k
          BY <2>5
        <5> QED
          BY <2>5, <4>2, <5>1
      <4> QED
        BY <2>8, <2>9, <3>1, <4>1, <4>3, <4>4, <4>5, <4>6, <4>7 DEF WriteInv
    <3>5. ReadInv(t)'
      BY <2>9 DEF ReadInv
    <3> QED
      BY <3>2, <3>3, <3>4, <3>5 DEF ThreadInv
  <2>15. \A v \in Users : SavedInv(v)'
    <3> TAKE v \in Users
    <3>1. CASE v = u
      <4>1. Len(f) <= MaxSize
        BY <1>s, <1>7, <1>i, <2>1, <2>2 DEF Write, SavedInv, ThreadInv, StreamInv
      <4>2. Len(g) <= MaxSize
        BY <2>4, <2>5, <2>6, <2>7, <4>1, AvatarAssumption
      <4> QED
        BY <2>8, <2>9, <2>11, <3>1, <4>2 DEF SavedInv
    <3>2. CASE v # u
      BY <1>s, <2>8, <2>9, <2>12, <3>2 DEF SavedInv
    <3> QED
      BY <3>1, <3>2
  <2> QED
    BY <2>10, <2>13, <2>14, <2>15 DEF Inv
<1>8. ASSUME NEW t \in Threads, WriteFails(t)
      PROVE  Inv'
  <2>1. /\ pc'[t] = "write" /\ pc[t] = "write" /\ UNCHANGED <<req, pos, file, saved>>
        /\ data'[t] = <<>> /\ intact'[t] = Null
        /\ \A x \in Threads \ {t} : Rests(x) /\ intact'[x] = intact[x]
    BY <1>8, <1>t DEF WriteFails, Goto, TypeInv, Rests, fileVars
  <2>2. TypeInv'
    BY <1>8, <1>t DEF WriteFails, Goto, TypeInv, Stages, fileVars
  <2>3. FileOf(t)' = FileOf(t)
    BY <2>1 DEF FileOf, Token
  <2>4. ThreadInv(t)'
    <3>1. data[t] \in Seq(Chunks) /\ pos[t] \in Nat /\ Len(<<>>) = 0
      BY <1>t DEF TypeInv
    <3>2. StreamInv(t)'
      BY <1>i, <2>1, <2>3, <3>1, AvatarAssumption DEF ThreadInv, StreamInv
    <3> QED
      BY <1>i, <2>1, <3>2 DEF ThreadInv, RequestInv, WriteInv, ReadInv
  <2>5. \A u \in Users : Writing(t, u)' => Writing(t, u)
    BY <2>1, <2>3 DEF Writing
  <2> QED
    BY <2>1, <2>2, <2>4, <2>5, OwnStep
<1>9. ASSUME NEW t \in Threads, CloseWritten(t)
      PROVE  Inv'
  <2>1. PICK u \in Users : u = FileOf(t)
    BY <1>9, <1>u DEF CloseWritten
  <2>2. /\ pc[t] = "write" /\ data[t] = <<>> /\ UNCHANGED <<file, now>>
        /\ saved' = [saved EXCEPT ![u] = IF intact[t] # Null THEN intact[t] ELSE saved[u]]
        /\ pc' = [pc EXCEPT ![t] = "idle"]
        /\ req' = [req EXCEPT ![t] = Null]
        /\ data' = [data EXCEPT ![t] = <<>>]
        /\ pos' = [pos EXCEPT ![t] = 0]
        /\ intact' = [intact EXCEPT ![t] = Null]
    BY <1>9, <2>1 DEF CloseWritten, Answer
  <2>3. TypeInv'
    <3>1. saved' \in [Users -> Avatars \cup {Null}]
      BY <1>t, <2>2 DEF TypeInv
    <3> QED
      BY <1>t, <2>2, <3>1, EmptyFile DEF TypeInv, Stages
  <2>4. /\ pc'[t] = "idle" /\ req'[t] = Null /\ data'[t] = <<>> /\ pos'[t] = 0
        /\ intact'[t] = Null
        /\ saved'[u] = IF intact[t] # Null THEN intact[t] ELSE saved[u]
        /\ \A v \in Users \ {u} : saved'[v] = saved[v]
        /\ \A x \in Threads \ {t} : Rests(x) /\ intact'[x] = intact[x]
    BY <1>t, <2>2 DEF TypeInv, Rests
  <2>5. Writing(t, u) /\ saved[u] = Null
    BY <1>s, <2>1, <2>2 DEF Writing, SavedInv
  <2>6. \A x \in Threads \ {t} : FileOf(x)' = FileOf(x)
    BY <2>4 DEF Rests, FileOf, Token
  <2>7. \A w \in Threads : \A v \in Users : Writing(w, v)' => w # t /\ Writing(w, v)
    BY <2>4, <2>6 DEF Writing, Rests
  <2>8. \A x \in Threads \ {t} : ThreadInv(x)'
    <3> TAKE x \in Threads \ {t}
    <3>1. ThreadInv(x) /\ Rests(x)
      BY <1>i, <2>4
    <3>2. pc[x] \in {"write", "read"} => file'[FileOf(x)] # Null
      BY <2>2, <3>1 DEF ThreadInv, StreamInv
    <3>3. ASSUME pc[x] \in {"write", "read"}, intact'[x] # Null
          PROVE  Quiet(FileOf(x))
      <4>1. intact[x] # Null
        BY <2>4, <3>3
      <4>2. FileOf(x) # u
        BY <2>5, <3>1, <3>3, <4>1 DEF ThreadInv, WriteInv, ReadInv
      <4>3. FileOf(x) \in Users \ {u}
        BY <1>u, <3>3, <4>2
      <4>4. saved'[FileOf(x)] = saved[FileOf(x)] /\ file' = file
        BY <2>2, <2>4, <4>3
      <4>5. \A w \in Threads : Writing(w, FileOf(x))' => Writing(w, FileOf(x))
        BY <2>6, <2>7, <4>3
      <4> QED
        BY <4>4, <4>5 DEF Quiet
    <3> QED
      BY <3>1, <3>2, <3>3, Frame
  <2>9. ThreadInv(t)'
    BY <2>4, EmptyFile, AvatarAssumption DEF ThreadInv, RequestInv, StreamInv, WriteInv, ReadInv
  <2>10. \A v \in Users : SavedInv(v)'
    <3> TAKE v \in Users
    <3>1. CASE v = u /\ intact[t] # Null
      <4>1. PICK a \in Avatars : a = intact[t]
        BY <1>t, <3>1 DEF TypeInv
      <4>2. PICK q \in Seq(Chunks) : q = Picture(u, a) /\ Len(q) = a
        BY PictureChunks
      <4>3. PICK f \in Seq(Chunks) : f = file[u]
        BY <1>t, <1>i, <2>1, <2>2 DEF TypeInv, ThreadInv, StreamInv
      <4>4. /\ a \in Nat /\ Len(f) = a
            /\ \A w \in Threads : Writing(w, u) => w = t
            /\ \A k \in 1 .. a : f[k] = q[k]
        <5>1. pos[t] \in Nat /\ a \in Nat
          BY <1>t, PictureChunks DEF TypeInv
        <5>2. /\ \A w \in Threads : Writing(w, u) => w = t
              /\ Len(f) = pos[t]
              /\ pos[t] + Len(data[t]) = a
              /\ \A k \in 1 .. pos[t] : f[k] = q[k]
          BY <1>i, <2>1, <2>2, <3>1, <4>1, <4>2, <4>3 DEF ThreadInv, WriteInv
        <5>3. Len(data[t]) = 0
          BY <2>2, EmptyFile
        <5> QED
          BY <5>1, <5>2, <5>3
      <4>5. f = q
        BY <4>2, <4>4, SameFile
      <4>6. \A w \in Threads : ~Writing(w, u)'
        BY <2>7, <4>4
      <4>7. Len(file'[u]) <= MaxSize
        BY <2>2, <4>2, <4>3, <4>5, PictureChunks
      <4>8. saved'[u] = a /\ file'[u] = Picture(u, a)
        BY <2>2, <2>4, <3>1, <4>1, <4>2, <4>3, <4>5
      <4> QED
        BY <3>1, <4>6, <4>7, <4>8 DEF SavedInv
    <3>2. CASE v # u \/ intact[t] = Null
      <4>1. saved'[v] = saved[v] /\ file' = file
        BY <2>2, <2>4, <3>2
      <4> QED
        BY <1>s, <2>7, <4>1 DEF SavedInv
    <3> QED
      BY <3>1, <3>2
  <2> QED
    BY <2>3, <2>8, <2>9, <2>10 DEF Inv
<1>10. ASSUME NEW t \in Threads, OpenToRead(t)
       PROVE  Inv'
  <2>1. CASE \E s, c : Answer(t, s, c) /\ UNCHANGED fileVars
    BY <2>1, Answers, Zenon
  <2>2. CASE /\ file[FileOf(t)] # Null
             /\ Goto(t, "read")
             /\ intact' = [intact EXCEPT ![t] = saved[FileOf(t)]]
             /\ UNCHANGED <<now, data, pos, fileVars>>
    <3>1. /\ pc'[t] = "read" /\ pc[t] = "open" /\ UNCHANGED <<req, data, pos, file, saved>>
          /\ intact'[t] = saved[FileOf(t)] /\ FileOf(t) \in Users
          /\ \A x \in Threads \ {t} : Rests(x) /\ intact'[x] = intact[x]
      BY <1>10, <1>t, <1>u, <2>2 DEF OpenToRead, Goto, TypeInv, Rests, fileVars
    <3>2. TypeInv'
      BY <1>t, <2>2, <3>1 DEF Goto, TypeInv, Stages, fileVars
    <3>3. FileOf(t)' = FileOf(t)
      BY <3>1 DEF FileOf, Token
    <3>4. ThreadInv(t)'
      <4>1. data[t] = <<>> /\ Len(<<>>) = 0 /\ pos[t] = 0
        BY <1>i, <3>1 DEF ThreadInv, StreamInv
      <4>2. RequestInv(t)' /\ StreamInv(t)' /\ WriteInv(t)'
        BY <1>i, <2>2, <3>1, <3>3 DEF ThreadInv, RequestInv, StreamInv, WriteInv
      <4>3. ReadInv(t)'
        <5>1. file[FileOf(t)] \in Seq(Chunks)
          BY <1>t, <2>2, <3>1 DEF TypeInv
        <5> QED
          BY <3>1, <3>3, <4>1, <5>1 DEF ReadInv
      <4> QED
        BY <4>2, <4>3 DEF ThreadInv
    <3>5. \A u \in Users : ~Writing(t, u)'
      BY <3>1 DEF Writing
    <3> QED
      BY <3>1, <3>2, <3>4, <3>5, OwnStep
  <2> QED
    BY <1>10, <2>1, <2>2, Zenon DEF OpenToRead
<1>11. ASSUME NEW t \in Threads, Read(t)
       PROVE  Inv'
  <2>1. PICK u \in Users : u = FileOf(t)
    BY <1>11, <1>u DEF Read
  <2>2. PICK f \in Seq(Chunks) : f = file[u] /\ Len(f) <= MaxSize
    BY <1>11, <1>t, <1>i, <1>s, <2>1 DEF Read, TypeInv, ThreadInv, StreamInv, SavedInv
  <2>3. PICK d \in Seq(Chunks) : d = data[t]
    BY <1>t DEF TypeInv
  <2>4. Len(d) \in Nat /\ Len(f) \in Nat /\ Len(d) < Len(f)
    BY <1>11, <2>1, <2>2, <2>3 DEF Read, AtEnd
  <2>5. f[Len(d) + 1] \in Chunks
    BY <2>2, <2>4
  <2>6. PICK e \in Seq(Chunks) :
          /\ data' = [data EXCEPT ![t] = e]
          /\ Len(e) = Len(d) + 1
          /\ \A k \in 1 .. Len(e) : e[k] = IF k = Len(d) + 1 THEN f[k] ELSE d[k]
    <3>1. data' = [data EXCEPT ![t] = Append(d, f[Len(d) + 1])]
      BY <1>11, <2>1, <2>2, <2>3 DEF Read
    <3>2. PICK c \in Chunks : c = f[Len(d) + 1]
      BY <2>5
    <3>3. PICK e : e = Append(d, c)
      OBVIOUS
    <3>4. /\ e \in Seq(Chunks) /\ Len(e) = Len(d) + 1
          /\ e[Len(d) + 1] = c /\ \A k \in 1 .. Len(d) : e[k] = d[k]
      BY <3>3
    <3>5. \A k \in 1 .. Len(e) : e[k] = IF k = Len(d) + 1 THEN f[k] ELSE d[k]
      BY <2>4, <3>2, <3>4
    <3>6. data' = [data EXCEPT ![t] = e]
      BY <3>1, <3>2, <3>3
    <3> QED
      BY <3>4, <3>5, <3>6
  <2>7. /\ pc[t] = "read" /\ pc' = [pc EXCEPT ![t] = "read"]
        /\ UNCHANGED <<now, req, file, saved, pos, intact>>
    BY <1>11 DEF Read, Goto, fileVars
  <2>8. /\ pc'[t] = "read" /\ data'[t] = e
        /\ \A x \in Threads \ {t} : Rests(x) /\ intact'[x] = intact[x]
    BY <1>t, <2>6, <2>7 DEF TypeInv, Rests
  <2>9. TypeInv'
    BY <1>t, <2>6, <2>7 DEF TypeInv, Stages
  <2>10. FileOf(t)' = u
    BY <2>1, <2>7 DEF FileOf, Token
  <2>11. ThreadInv(t)'
    <3>1. RequestInv(t)' /\ WriteInv(t)'
      BY <1>i, <2>7, <2>8 DEF ThreadInv, RequestInv, WriteInv
    <3>2. StreamInv(t)'
      <4>1. pos[t] = 0 /\ file[u] # Null
        BY <1>i, <2>1, <2>7 DEF ThreadInv, StreamInv
      <4> QED
        BY <2>2, <2>4, <2>6, <2>7, <2>8, <2>10, <4>1, AvatarAssumption DEF StreamInv
    <3>3. ReadInv(t)'
      <4> SUFFICES ASSUME intact[t] # Null
                   PROVE  ReadInv(t)'
        BY <2>7 DEF ReadInv
      <4>1. saved[u] = intact[t] /\ \A k \in 1 .. Len(d) : d[k] = f[k]
        BY <1>i, <2>1, <2>2, <2>3, <2>7 DEF ThreadInv, ReadInv
      <4>2. Len(e) <= Len(f) /\ \A k \in 1 .. Len(e) : e[k] = f[k]
        BY <2>4, <2>6, <4>1
      <4> QED
        BY <2>2, <2>7, <2>8, <2>10, <4>1, <4>2 DEF ReadInv
    <3> QED
      BY <3>1, <3>2, <3>3 DEF ThreadInv
  <2>12. \A v \in Users : ~Writing(t, v)'
    BY <2>8 DEF Writing
  <2> QED
    BY <2>7, <2>8, <2>9, <2>11, <2>12, OwnStep
<1>12. ASSUME NEW t \in Threads, CloseRead(t)
       PROVE  Inv'
  <2>1. \E s, c : Answer(t, s, c) /\ UNCHANGED fileVars
    BY <1>12, Zenon DEF CloseRead
  <2> QED
    BY <2>1, Answers, Zenon
<1> QED
  BY <1>1, <1>2, <1>3, <1>4, <1>5, <1>6, <1>7, <1>8, <1>9, <1>10, <1>11, <1>12
  DEF Next

(* Every state of every behaviour satisfies the invariant. *)
THEOREM Invariance == Spec => []Inv
<1>1. Init => Inv
  <2> SUFFICES ASSUME Init
               PROVE  Inv
    OBVIOUS
  <2>1. TypeInv
    BY EmptyFile, AvatarAssumption DEF Init, TypeInv, Stages
  <2>2. \A t \in Threads : ThreadInv(t)
    BY EmptyFile, AvatarAssumption DEF Init, ThreadInv, RequestInv, StreamInv, WriteInv, ReadInv
  <2>3. \A u \in Users : SavedInv(u)
    BY DEF Init, SavedInv, Writing
  <2> QED
    BY <2>1, <2>2, <2>3 DEF Inv
<1> QED
  BY <1>1, Inductive, PTL DEF Spec

(* An update that neither failed nor met another update of that user has   *)
(* saved its picture whole, until the next update begins.                  *)
THEOREM UndisturbedUpdateSaves == Spec => []UpdateSaves
<1>1. Inv => UpdateSaves
  <2> SUFFICES ASSUME Inv
               PROVE  UpdateSaves
    OBVIOUS
  <2>1. TypeInv
    BY DEF Inv
  <2>2. \A t \in Threads : (req[t] = Null <=> pc[t] = "idle") /\ Len(data[t]) + pos[t] <= MaxSize
    BY DEF Inv, ThreadInv, RequestInv, StreamInv
  <2>3. \A u \in Users : /\ file[u] # Null => Len(file[u]) <= MaxSize
                         /\ saved[u] # Null => file[u] = Picture(u, saved[u])
    BY DEF Inv, SavedInv
  <2> QED
    BY <2>1, <2>2, <2>3 DEF UpdateSaves, TypeOK, TypeInv, Stages
<1> QED
  BY <1>1, Invariance, PTL

-----------------------------------------------------------------------------
(* What requests are answered *)

(* In a step of t the other threads stay where they are. *)
LEMMA OthersStay ==
  ASSUME Inv, NEW t \in Threads, NEW u \in Threads, t # u,
         \/ Arrive(u) \/ Verify(u) \/ CheckExpiry(u)
         \/ OpenToWrite(u) \/ Write(u) \/ WriteFails(u) \/ CloseWritten(u)
         \/ OpenToRead(u) \/ Read(u) \/ CloseRead(u)
  PROVE  pc'[t] = pc[t]
<1>1. \E s : pc' = [pc EXCEPT ![u] = s]
  BY Zenon DEF Arrive, Verify, CheckExpiry, OpenToWrite, Write, WriteFails, CloseWritten,
     OpenToRead, Read, CloseRead, Goto, Answer
<1> QED
  BY <1>1 DEF Inv, TypeInv

(* No token was issued in the future. *)
IssuedInv ==
  \A t \in Threads : pc[t] = "verify" => req[t].token.expires_at <= now + ValidFor

(* Every step keeps it, as the clock never goes back. *)
LEMMA IssuedBefore == Inv /\ IssuedInv /\ [Next]_vars => IssuedInv'
<1> SUFFICES ASSUME Inv, IssuedInv, [Next]_vars, NEW t \in Threads, pc'[t] = "verify"
             PROVE  req'[t].token.expires_at <= now' + ValidFor
  BY DEF IssuedInv
<1>1. now \in Nat /\ pc \in [Threads -> Stages] /\ t \in DOMAIN req /\ ValidFor \in Nat
  BY AvatarAssumption, TokenAssumption DEF Inv, TypeInv
<1>2. pc[t] = "verify" => req[t].token.expires_at \in Nat
  <2>1. pc[t] = "verify" => req[t].token \in Tokens
    BY RequestFields DEF Inv, ThreadInv, RequestInv
  <2> QED
    BY <2>1, AvatarAssumption, TokenAssumption DEF Tokens
<1>3. ASSUME pc[t] = "verify", req'[t] = req[t], now' \in {now, now + 1}
      PROVE  req'[t].token.expires_at <= now' + ValidFor
  BY <1>1, <1>2, <1>3 DEF IssuedInv
<1>4. CASE UNCHANGED vars \/ Tick
  BY <1>3, <1>4 DEF vars, Tick, threadVars
<1>5. CASE Restart
  BY <1>5 DEF Restart
<1>6. CASE Arrive(t)
  <2>1. PICK token \in TokensUntil(Users, now) : req'[t].token = token
    <3>1. PICK token \in TokensUntil(Users, now) :
            \/ req' = [req EXCEPT ![t] = [op |-> "get", token |-> token]]
            \/ \E a \in Avatars :
                 req' = [req EXCEPT ![t] = [op |-> "update", token |-> token, avatar |-> a]]
      BY <1>6 DEF Arrive
    <3> QED
      BY <1>1, <3>1
  <2>2. PICK issued_at \in 0 .. now : token.expires_at = issued_at + ValidFor
    BY DEF TokensUntil, GenerateToken
  <2>3. now' = now
    BY <1>6 DEF Arrive
  <2> QED
    BY <1>1, <2>1, <2>2, <2>3
<1>7. CASE \/ Verify(t) \/ CheckExpiry(t)
           \/ OpenToWrite(t) \/ Write(t) \/ WriteFails(t) \/ CloseWritten(t)
           \/ OpenToRead(t) \/ Read(t) \/ CloseRead(t)
  <2>1. PICK s \in {"idle", "expiry", "open", "write", "read"} : pc' = [pc EXCEPT ![t] = s]
    BY <1>7, Zenon DEF Verify, CheckExpiry, OpenToWrite, Write, WriteFails, CloseWritten,
       OpenToRead, Read, CloseRead, Goto, Answer
  <2> QED
    BY <1>1, <2>1
<1>8. ASSUME NEW u \in Threads, u # t,
             \/ Arrive(u) \/ Verify(u) \/ CheckExpiry(u)
             \/ OpenToWrite(u) \/ Write(u) \/ WriteFails(u) \/ CloseWritten(u)
             \/ OpenToRead(u) \/ Read(u) \/ CloseRead(u)
      PROVE  req'[t].token.expires_at <= now' + ValidFor
  <2>1. pc'[t] = pc[t]
    BY <1>8, OthersStay
  <2>2. req' = req \/ \E r : req' = [req EXCEPT ![u] = r]
    <3>1. CASE CheckExpiry(u)
      BY <3>1, Zenon DEF CheckExpiry, Answer
    <3> QED
      BY <1>8, <3>1, Zenon DEF Arrive, Verify, OpenToWrite, Write, WriteFails, CloseWritten,
         OpenToRead, Read, CloseRead, Goto, Answer
  <2>3. now' = now
    BY <1>8, Zenon DEF Arrive, Verify, CheckExpiry, OpenToWrite, Write, WriteFails,
       CloseWritten, OpenToRead, Read, CloseRead, Answer
  <2>4. req'[t] = req[t]
    BY <1>1, <1>8, <2>2
  <2> QED
    BY <1>3, <2>1, <2>3, <2>4
<1> QED
  BY <1>4, <1>5, <1>6, <1>7, <1>8 DEF Next

(* verifyToken refuses no token of this server that has not expired, and   *)
(* lets none pass that has by more than the leeway.                        *)
THEOREM TokensAreJudgedRight == Spec => TokenVerdict
<1>1. ASSUME Inv, IssuedInv, [Next]_vars, NEW t \in Threads, pc[t] \in {"verify", "expiry"}
      PROVE  /\ pc'[t] = "open" => WithinLeeway(Token(t), now)
             /\ pc'[t] = "idle" /\ answer' # Null => ~Genuine(Token(t), now)
  <2>1. pc \in [Threads -> Stages] /\ now \in Nat
    BY <1>1, AvatarAssumption DEF Inv, TypeInv
  <2>2. /\ Token(t) \in Tokens /\ Token(t).expires_at \in Nat
        /\ pc[t] = "expiry" => Token(t).secret = m_secret
    <3>1. req[t] \in Requests(Tokens) /\ (pc[t] = "expiry" => req[t].token.secret = m_secret)
      BY <1>1 DEF Inv, ThreadInv, RequestInv
    <3>2. Token(t) \in Tokens
      BY <3>1, RequestFields DEF Token
    <3> QED
      BY <3>1, <3>2, AvatarAssumption, TokenAssumption DEF Token, Tokens
  <2>3. CASE UNCHANGED vars
    BY <1>1, <2>3 DEF vars, threadVars
  <2>4. CASE Tick \/ Restart
    BY <1>1, <2>1, <2>4 DEF Tick, Restart, threadVars
  <2>5. CASE Verify(t)
    <3>1. CASE VerifierAccepts(Token(t), now) /\ Goto(t, "expiry")
      <4>1. pc'[t] = "expiry"
        BY <2>1, <3>1 DEF Goto
      <4> QED
        BY <4>1
    <3>2. CASE ~VerifierAccepts(Token(t), now) /\ Answer(t, "unauthorized", <<>>)
      <4>1. pc'[t] = "idle"
        BY <2>1, <3>2 DEF Answer
      <4>2. Token(t).expires_at <= now + ValidFor
        BY <1>1, <2>5 DEF IssuedInv, Verify, Token
      <4>3. ~Genuine(Token(t), now)
        BY <2>1, <2>2, <3>2, <4>2, TokenAssumption DEF VerifierAccepts, Leeway, Genuine
      <4> QED
        BY <4>1, <4>3
    <3> QED
      BY <2>5, <3>1, <3>2, Zenon DEF Verify
  <2>6. CASE CheckExpiry(t)
    <3>0. pc[t] = "expiry"
      BY <2>6 DEF CheckExpiry
    <3>1. CASE ~IsTokenExpired(Token(t), now) /\ pc' = [pc EXCEPT ![t] = "open"]
      <4>1. pc'[t] = "open"
        BY <2>1, <3>1
      <4>2. WithinLeeway(Token(t), now)
        BY <2>1, <2>2, <3>0, <3>1 DEF IsTokenExpired, WithinLeeway, Leeway
      <4> QED
        BY <4>1, <4>2
    <3>2. CASE IsTokenExpired(Token(t), now) /\ Answer(t, "unauthorized", <<>>)
      <4>1. pc'[t] = "idle"
        BY <2>1, <3>2 DEF Answer
      <4>2. ~Genuine(Token(t), now)
        BY <2>1, <2>2, <3>2 DEF IsTokenExpired, Genuine
      <4> QED
        BY <4>1, <4>2
    <3> QED
      BY <2>6, <3>1, <3>2, Zenon DEF CheckExpiry
  <2>7. CASE \/ Arrive(t) \/ OpenToWrite(t) \/ Write(t) \/ WriteFails(t) \/ CloseWritten(t)
             \/ OpenToRead(t) \/ Read(t) \/ CloseRead(t)
    <3>1. pc[t] \in {"idle", "open", "write", "read"}
      BY <2>7, Zenon DEF Arrive, OpenToWrite, Write, WriteFails, CloseWritten, OpenToRead,
         Read, CloseRead
    <3> QED
      BY <1>1, <3>1
  <2>8. ASSUME NEW u \in Threads, u # t,
               \/ Arrive(u) \/ Verify(u) \/ CheckExpiry(u)
               \/ OpenToWrite(u) \/ Write(u) \/ WriteFails(u) \/ CloseWritten(u)
               \/ OpenToRead(u) \/ Read(u) \/ CloseRead(u)
        PROVE  pc'[t] = pc[t]
    BY <1>1, <2>8, OthersStay
  <2> QED
    BY <1>1, <2>3, <2>4, <2>5, <2>6, <2>7, <2>8 DEF Next
<1>2. ASSUME Inv, IssuedInv, [Next]_vars
      PROVE  [\A t \in Threads :
                /\ pc[t] \in {"verify", "expiry"} /\ pc'[t] = "open" => WithinLeeway(Token(t), now)
                /\ pc[t] \in {"verify", "expiry"} /\ pc'[t] = "idle" /\ answer' # Null
                     => ~Genuine(Token(t), now)]_vars
  BY <1>1, <1>2, Zenon
<1>3. Init => IssuedInv
  BY DEF Init, IssuedInv
<1> QED
  BY <1>2, <1>3, IssuedBefore, Invariance, PTL DEF Spec, TokenVerdict

(* A picture is read whole if it was saved whole and no update began       *)
(* while it was being read.                                                *)
THEOREM UndisturbedReadIsWhole == Spec => ReadsWhole
<1>1. ASSUME Inv, [Next]_vars, NEW t \in Threads,
             pc[t] = "read", pc'[t] = "idle", intact[t] # Null, answer' # Null
      PROVE  answer' = [status |-> "ok", content |-> Picture(FileOf(t), intact[t])]
  <2>1. pc \in [Threads -> Stages]
    BY <1>1 DEF Inv, TypeInv
  <2>2. CASE UNCHANGED vars
    BY <1>1, <2>2 DEF vars, threadVars
  <2>3. CASE Tick \/ Restart
    BY <1>1, <2>1, <2>3 DEF Tick, Restart, threadVars
  <2>4. CASE CloseRead(t)
    <3>1. PICK u \in Users : u = FileOf(t)
      BY <1>1, RequestFields DEF Inv, ThreadInv, RequestInv, FileOf, Token, Claims
    <3>2. PICK a \in Avatars : a = intact[t]
      BY <1>1 DEF Inv, TypeInv
    <3>3. PICK q \in Seq(Chunks) : q = Picture(u, a)
      BY PictureChunks
    <3>4. file[u] = q
      BY <1>1, <3>1, <3>2, <3>3 DEF Inv, ThreadInv, ReadInv, SavedInv
    <3>5. PICK d \in Seq(Chunks) : d = data[t]
      BY <1>1 DEF Inv, TypeInv
    <3>6. /\ Len(d) <= Len(q) /\ \A k \in 1 .. Len(d) : d[k] = q[k]
          /\ Len(d) >= Len(q)
      BY <1>1, <2>4, <3>1, <3>4, <3>5 DEF Inv, ThreadInv, ReadInv, CloseRead, AtEnd
    <3>7. d = q
      <4>1. Len(d) = Len(q)
        BY <3>6
      <4> QED
        BY <3>6, <4>1, SameFile
    <3>8. data[t] = Picture(FileOf(t), a)
      BY <3>1, <3>3, <3>5, <3>7
    <3>9. Answer(t, "ok", data[t])
      BY <2>4, <3>8, Zenon DEF CloseRead
    <3> QED
      BY <3>2, <3>8, <3>9, Zenon DEF Answer
  <2>5. CASE \/ Arrive(t) \/ Verify(t) \/ CheckExpiry(t)
             \/ OpenToWrite(t) \/ Write(t) \/ WriteFails(t) \/ CloseWritten(t)
             \/ OpenToRead(t)
    <3>1. pc[t] \in {"idle", "verify", "expiry", "open", "write"}
      BY <2>5, Zenon DEF Arrive, Verify, CheckExpiry, OpenToWrite, Write, WriteFails,
         CloseWritten, OpenToRead
    <3> QED
      BY <1>1, <3>1
  <2>6. CASE Read(t)
    BY <1>1, <2>1, <2>6 DEF Read, Goto
  <2>7. ASSUME NEW u \in Threads, u # t,
               \/ Arrive(u) \/ Verify(u) \/ CheckExpiry(u)
               \/ OpenToWrite(u) \/ Write(u) \/ WriteFails(u) \/ CloseWritten(u)
               \/ OpenToRead(u) \/ Read(u) \/ CloseRead(u)
        PROVE  FALSE
    BY <1>1, <2>7, OthersStay
  <2> QED
    BY <1>1, <2>2, <2>3, <2>4, <2>5, <2>6, <2>7 DEF Next
<1>2. ASSUME Inv, [Next]_vars
      PROVE  [\A t \in Threads :
                pc[t] = "read" /\ pc'[t] = "idle" /\ intact[t] # Null /\ answer' # Null
                  => answer' = [status |-> "ok", content |-> Picture(FileOf(t), intact[t])]]_vars
  BY <1>1, <1>2, Zenon
<1> QED
  BY <1>2, Invariance, PTL DEF Spec, ReadsWhole
=============================================================================
