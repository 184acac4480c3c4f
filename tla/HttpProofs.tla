------------------------------ MODULE HttpProofs ------------------------------
(***************************************************************************)
(* Proofs about HttpServer, for any number of connections at a time and in *)
(* all.  The invariant has a part for each connection and one for what is  *)
(* stored; a step of one connection leaves the parts of the others alone.  *)
(***************************************************************************)
EXTENDS HttpServer, TLAPS

Statuses == {200, 400, 500}

GoodOf(u, n) == {i \in 1..n : u[i] = 200}

Latest(good) ==
    IF good = {} THEN 0 ELSE CHOOSE i \in good : \A j \in good : j <= i

\* Acknowledged(n), of the uploads in u.
NewestOf(u, n) == Latest(GoodOf(u, n))

SpoiltIn(u, n) == \E j \in NewestOf(u, n) + 1..n : u[j] = 500

(***************************************************************************)
(* Until its response is written a connection has changed nothing and its  *)
(* client read nothing; only a whole request is acted on; half a request   *)
(* line has no route, and a GET has no body to wait for.                   *)
(***************************************************************************)
ReadsFirst(c) ==
    /\ phase[c] \notin {"drain", "closing"} =>
           answers[c] = <<>> /\ c \notin performed
    /\ body[c] = "whole" => sent[c] = Pieces
    /\ phase[c] \in {"idle", "line"} => route[c] = "none"
    /\ phase[c] \in {"headers", "body", "handle"} => route[c] \in Routes
    /\ phase[c] = "body" => route[c] # "download"

\* SilenceMeansUndone, of one connection.
ConfirmedIfDone(c) ==
    c \in performed =>
        /\ sent[c] = Pieces
        /\ route[c] # "upload" /\ client[c] # "gone" =>
               /\ Len(answers[c]) = 1
               /\ answers[c][1].status = 200
               /\ answers[c][1].data = 1

\* DownloadFollowsUploads, of one connection.
AnswerFollowsUploads(c) ==
    answers[c] # <<>> =>
        LET n == answers[c][1].after
        IN  /\ n \in 0..Len(uploads)
            /\ NewestOf(uploads, n) \in 0..n
            /\ route[c] = "download" =>
                   (~ SpoiltIn(uploads, n) =>
                       /\ answers[c][1].status = 200
                       /\ answers[c][1].data = NewestOf(uploads, n))

SlotInv(c) ==
    /\ Len(answers[c]) <= 1
    /\ ReadsFirst(c)
    /\ ConfirmedIfDone(c)
    /\ AnswerFollowsUploads(c)

(***************************************************************************)
(* What is stored is the newest upload acknowledged, until another upload  *)
(* is answered 500.                                                        *)
(***************************************************************************)
StoredMatchesUploads ==
    LET a == NewestOf(uploads, Len(uploads))
    IN  /\ a \in 0..Len(uploads)
        /\ ~ SpoiltIn(uploads, Len(uploads)) =>
               IF a = 0 THEN latest_benchmarks.body = "none"
               ELSE /\ latest_benchmarks.body = "object"
                    /\ latest_benchmarks.id = a

HttpInv ==
    /\ TypeOK
    /\ \A c \in Slots : SlotInv(c)
    /\ StoredMatchesUploads

------------------------------------------------------------------------------
\* What appending does to a sequence.
LEMMA AppendFacts ==
    ASSUME NEW S, NEW q \in Seq(S), NEW e \in S
    PROVE  /\ Append(q, e) \in Seq(S)
           /\ Len(Append(q, e)) = Len(q) + 1
           /\ Append(q, e)[Len(q) + 1] = e
           /\ \A k \in 1..Len(q) : Append(q, e)[k] = q[k]
           /\ Append(q, e) # <<>>
OBVIOUS

\* A later upload changes nothing for the first n.
LEMMA PrefixKept ==
    ASSUME NEW u \in Seq(Statuses), NEW s \in Statuses, NEW n \in 0..Len(u),
           NewestOf(u, n) \in 0..n
    PROVE  /\ NewestOf(Append(u, s), n) = NewestOf(u, n)
           /\ SpoiltIn(Append(u, s), n) <=> SpoiltIn(u, n)
<1>1. \A j \in 1..n : Append(u, s)[j] = u[j]
  BY AppendFacts
<1>2. GoodOf(Append(u, s), n) = GoodOf(u, n)
  BY <1>1 DEF GoodOf
<1>3. NewestOf(Append(u, s), n) = NewestOf(u, n)
  BY <1>2 DEF NewestOf
<1>4. \A j \in NewestOf(u, n) + 1..n : j \in 1..n
  OBVIOUS
<1> QED
  BY <1>1, <1>3, <1>4 DEF SpoiltIn

\* A good upload is the newest one.
LEMMA NewestIsAppended ==
    ASSUME NEW u \in Seq(Statuses)
    PROVE  NewestOf(Append(u, 200), Len(u) + 1) = Len(u) + 1
<1> DEFINE w == Append(u, 200)
           good == GoodOf(w, Len(u) + 1)
<1>1. Len(u) \in Nat /\ w[Len(u) + 1] = 200
  BY AppendFacts DEF Statuses
<1>2. Len(u) + 1 \in good /\ good # {} /\ good \subseteq 1..Len(u) + 1
  BY <1>1 DEF GoodOf
<1>3. \A j \in good : j <= Len(u) + 1
  BY <1>1, <1>2
<1>4. \A i \in good : (\A j \in good : j <= i) => i = Len(u) + 1
  BY <1>1, <1>2
<1> HIDE DEF good
<1>5. Latest(good) = Len(u) + 1
  BY <1>2, <1>3, <1>4 DEF Latest
<1> QED
  BY <1>5 DEF good, NewestOf

\* Another upload is not.
LEMMA NewestIsKept ==
    ASSUME NEW u \in Seq(Statuses), NEW s \in Statuses, s # 200
    PROVE  NewestOf(Append(u, s), Len(u) + 1) = NewestOf(u, Len(u))
<1>1. Len(u) \in Nat /\ Append(u, s)[Len(u) + 1] = s
      /\ \A j \in 1..Len(u) : Append(u, s)[j] = u[j]
  BY AppendFacts
<1>2. GoodOf(Append(u, s), Len(u) + 1) = GoodOf(u, Len(u))
  BY <1>1 DEF GoodOf
<1> QED
  BY <1>2 DEF NewestOf

\* What a client finds written.
LEMMA WriteFacts ==
    ASSUME TypeOK, NEW c \in Slots, answers[c] = <<>>,
           NEW status \in Statuses, NEW data \in Nat, Write(c, status, data)
    PROVE  /\ answers' \in [Slots -> Seq(Answer)]
           /\ \A x \in Slots \ {c} : answers'[x] = answers[x]
           /\ Len(answers'[c]) <= 1
           /\ client[c] = "gone" => answers' = answers
           /\ client[c] # "gone" =>
                  /\ Len(answers'[c]) = 1
                  /\ answers'[c] # <<>>
                  /\ answers'[c][1].status = status
                  /\ answers'[c][1].data = data
                  /\ answers'[c][1].after = Len(uploads)
<1> DEFINE e == [status |-> status, data |-> data, after |-> Len(uploads)]
<1>1. answers \in [Slots -> Seq(Answer)] /\ Len(uploads) \in Nat
  BY DEF TypeOK
<1>2. e \in Answer
  BY <1>1 DEF Answer, Statuses
<1>3. CASE client[c] = "gone"
  <2>1. answers' = answers /\ Len(answers[c]) = 0
    BY <1>3 DEF Write
  <2> QED
    BY <1>1, <1>3, <2>1
<1>4. CASE client[c] # "gone"
  <2>1. answers' = [answers EXCEPT ![c] = Append(<<>>, e)]
    BY <1>1, <1>4 DEF Write
  <2>2. /\ Append(<<>>, e) \in Seq(Answer)
        /\ Len(Append(<<>>, e)) = 1
        /\ Append(<<>>, e)[1] = e
        /\ Append(<<>>, e) # <<>>
    BY <1>2
  <2>3. answers'[c] = Append(<<>>, e)
        /\ \A x \in Slots \ {c} : answers'[x] = answers[x]
    BY <1>1, <2>1
  <2>4. answers' \in [Slots -> Seq(Answer)]
    BY <1>1, <2>1, <2>2
  <2> QED
    BY <1>4, <2>2, <2>3, <2>4
<1> QED
  BY <1>3, <1>4

------------------------------------------------------------------------------
\* Connection x takes no part in the step.
Untouched(x) ==
    /\ phase'[x] = phase[x] /\ route'[x] = route[x] /\ sent'[x] = sent[x]
    /\ client'[x] = client[x] /\ body'[x] = body[x]
    /\ answers'[x] = answers[x]
    /\ x \in performed' <=> x \in performed

\* An invariant that lasts while uploads are added lasts for it.
LEMMA OthersKeep ==
    ASSUME TypeOK, TypeOK', NEW x \in Slots, SlotInv(x), Untouched(x),
           \/ uploads' = uploads
           \/ \E s \in Statuses : uploads' = Append(uploads, s)
    PROVE  SlotInv(x)'
<1>1. /\ Len(answers'[x]) <= 1
      /\ ReadsFirst(x)'
      /\ ConfirmedIfDone(x)'
  BY DEF SlotInv, Untouched, ReadsFirst, ConfirmedIfDone
<1>2. AnswerFollowsUploads(x)'
  <2>1. CASE uploads' = uploads
    BY <2>1 DEF SlotInv, Untouched, AnswerFollowsUploads
  <2>2. ASSUME NEW s \in Statuses, uploads' = Append(uploads, s)
        PROVE  AnswerFollowsUploads(x)'
    <3> SUFFICES ASSUME answers[x] # <<>> PROVE AnswerFollowsUploads(x)'
      BY DEF AnswerFollowsUploads, Untouched
    <3> DEFINE n == answers[x][1].after
    <3>1. n \in 0..Len(uploads) /\ NewestOf(uploads, n) \in 0..n
      BY DEF SlotInv, AnswerFollowsUploads
    <3>2. uploads \in Seq(Statuses) /\ Len(uploads') = Len(uploads) + 1
      BY <2>2, AppendFacts DEF TypeOK, Statuses
    <3>3. /\ NewestOf(uploads', n) = NewestOf(uploads, n)
          /\ SpoiltIn(uploads', n) <=> SpoiltIn(uploads, n)
      BY <2>2, <3>1, <3>2, PrefixKept
    <3>4. answers'[x] = answers[x] /\ route'[x] = route[x] /\ sent'[x] = sent[x]
      BY DEF Untouched
    <3>5. n \in 0..Len(uploads')
      BY <3>1, <3>2
    <3> QED
      BY <3>1, <3>3, <3>4, <3>5 DEF SlotInv, AnswerFollowsUploads
  <2> QED
    BY <2>1, <2>2
<1> QED
  BY <1>1, <1>2 DEF SlotInv

\* A step of connection c that handles no upload.
LEMMA LocalStep ==
    ASSUME HttpInv, NEW c \in Slots, TypeOK', SlotInv(c)',
           \A x \in Slots \ {c} : Untouched(x),
           UNCHANGED <<latest_benchmarks, uploads>>
    PROVE  HttpInv'
<1>1. \A x \in Slots : SlotInv(x)'
  BY OthersKeep DEF HttpInv
<1>2. StoredMatchesUploads'
  BY DEF HttpInv, StoredMatchesUploads
<1> QED
  BY <1>1, <1>2 DEF HttpInv

------------------------------------------------------------------------------
\* No connection is open and nothing is stored.
LEMMA HttpInit == Init => HttpInv
<1> SUFFICES ASSUME Init PROVE HttpInv
  OBVIOUS
<1>1. uploads = <<>> /\ Len(uploads) = 0 /\ uploads \in Seq(Statuses)
  BY DEF Init
<1>2. TypeOK
  BY <1>1, HttpAssumption DEF Init, TypeOK, Nothing, Pieces, Statuses
<1>3. ASSUME NEW c \in Slots PROVE SlotInv(c)
  <2>1. /\ phase[c] = "idle" /\ route[c] = "none" /\ body[c] = "none"
        /\ answers[c] = <<>> /\ Len(answers[c]) = 0 /\ c \notin performed
    BY DEF Init
  <2> QED
    BY <2>1 DEF SlotInv, ReadsFirst, ConfirmedIfDone, AnswerFollowsUploads
<1>4. GoodOf(uploads, 0) = {} /\ ~ SpoiltIn(uploads, 0)
      /\ NewestOf(uploads, 0) = 0
  <2>1. GoodOf(uploads, 0) = {}
    BY DEF GoodOf
  <2>2. NewestOf(uploads, 0) = 0
    BY <2>1 DEF NewestOf, Latest
  <2> QED
    BY <2>1, <2>2 DEF SpoiltIn
<1>5. StoredMatchesUploads
  BY <1>1, <1>4 DEF Init, Nothing, StoredMatchesUploads
<1> QED
  BY <1>2, <1>3, <1>5 DEF HttpInv

\* What clients do.
LEMMA ClientStep ==
    ASSUME HttpInv, NEW c \in Slots, Client(c)
    PROVE  HttpInv'
<1> USE DEF serverData
<1>1. TypeOK /\ SlotInv(c)
  BY DEF HttpInv
<1>2. UNCHANGED <<latest_benchmarks, uploads>>
      /\ \A x \in Slots \ {c} : Untouched(x)
  BY <1>1 DEF Client, Open, Send, Shutdown, Leave, Untouched, TypeOK
<1>3. TypeOK' /\ SlotInv(c)'
  <2>1. CASE Open(c)
    <3>1. TypeOK'
      BY <1>1, <2>1, HttpAssumption DEF Open, TypeOK
    <3>2. /\ phase[c] = "idle" /\ phase'[c] = "line"
          /\ UNCHANGED <<route, sent, body, answers, performed>>
      BY <1>1, <2>1 DEF Open, TypeOK
    <3>3. answers[c] = <<>> /\ c \notin performed /\ route[c] = "none"
          /\ (body[c] = "whole" => sent[c] = Pieces)
      BY <1>1, <3>2 DEF SlotInv, ReadsFirst
    <3> QED
      BY <3>1, <3>2, <3>3
         DEF SlotInv, ReadsFirst, ConfirmedIfDone, AnswerFollowsUploads
  <2>2. CASE Send(c)
    <3>1. sent[c] \in 0..3 /\ sent[c] < 3 /\ sent[c] + 1 \in 0..3
      BY <1>1, <2>2 DEF Send, TypeOK, Pieces
    <3>3. body[c] # "whole"
      BY <1>1, <3>1 DEF SlotInv, ReadsFirst, Pieces
    <3>2. answers[c] = <<>> /\ c \notin performed
      BY <1>1, <2>2 DEF Send, Reads, SlotInv, ReadsFirst
    <3> QED
      BY <1>1, <2>2, <3>1, <3>2, <3>3
         DEF Send, TypeOK, SlotInv, ReadsFirst, ConfirmedIfDone,
             AnswerFollowsUploads, Pieces
  <2>3. CASE Shutdown(c)
    BY <1>1, <2>3 DEF Shutdown, Reads, TypeOK, SlotInv, ReadsFirst,
                      ConfirmedIfDone, AnswerFollowsUploads
  <2>4. CASE Leave(c)
    BY <1>1, <2>4 DEF Leave, TypeOK, SlotInv, ReadsFirst, ConfirmedIfDone,
                      AnswerFollowsUploads
  <2> QED
    BY <2>1, <2>2, <2>3, <2>4 DEF Client
<1> QED
  BY <1>2, <1>3, LocalStep

\* A connection that went wrong while it was read changed nothing.
LEMMA RaiseStep ==
    ASSUME HttpInv, NEW c \in Slots, Raise(c),
           phase[c] \in {"line", "headers", "body"},
           phase[c] = "headers" => client[c] = "gone",
           UNCHANGED <<reading, route, body, serverData>>
    PROVE  HttpInv'
<1> USE DEF serverData, reading
<1>1. TypeOK /\ SlotInv(c) /\ StoredMatchesUploads
  BY DEF HttpInv
<1>2. answers[c] = <<>> /\ c \notin performed
  BY <1>1 DEF SlotInv, ReadsFirst
<1>3. /\ answers' \in [Slots -> Seq(Answer)]
      /\ \A x \in Slots \ {c} : answers'[x] = answers[x]
      /\ Len(answers'[c]) <= 1
      /\ client[c] = "gone" => answers' = answers
      /\ client[c] # "gone" => answers'[c][1].after = Len(uploads)
  BY <1>1, <1>2, WriteFacts DEF Raise, Statuses
<1>4. phase' = [phase EXCEPT ![c] = "drain"]
  BY DEF Raise, Goto
<1>5. UNCHANGED <<latest_benchmarks, uploads>>
      /\ \A x \in Slots \ {c} : Untouched(x)
  BY <1>1, <1>3, <1>4 DEF Untouched, TypeOK
<1>6. TypeOK'
  BY <1>1, <1>3, <1>4 DEF TypeOK
<1>7. /\ phase'[c] = "drain" /\ Len(answers'[c]) <= 1
      /\ c \notin performed'
      /\ route'[c] = route[c] /\ body'[c] = body[c] /\ sent'[c] = sent[c]
      /\ client'[c] = client[c]
  <2>1. Len(answers'[c]) <= 1
    BY <1>3
  <2>2. phase'[c] = "drain"
    BY <1>1, <1>4 DEF TypeOK
  <2> QED
    BY <1>2, <2>1, <2>2
<1>8. AnswerFollowsUploads(c)'
  <2>1. CASE client[c] = "gone"
    BY <1>2, <1>3, <2>1 DEF AnswerFollowsUploads
  <2>2. CASE client[c] # "gone"
    <3>1. route[c] # "download"
      BY <1>1, <2>2 DEF SlotInv, ReadsFirst
    <3>2. NewestOf(uploads, Len(uploads)) \in 0..Len(uploads)
          /\ Len(uploads) \in Nat
      BY <1>1 DEF StoredMatchesUploads, TypeOK
    <3> QED
      BY <1>3, <1>5, <1>7, <2>2, <3>1, <3>2 DEF AnswerFollowsUploads
  <2> QED
    BY <2>1, <2>2
<1>9. SlotInv(c)'
  BY <1>1, <1>7, <1>8 DEF SlotInv, ReadsFirst, ConfirmedIfDone
<1> QED
  BY <1>5, <1>6, <1>9, LocalStep

\* What reading gives, when it goes well, ends early or takes too long.
LEMMA ReadStep ==
    ASSUME HttpInv, NEW c \in Slots,
           ReadLine(c) \/ ReadHeaders(c) \/ ReadBody(c) \/ TimeOut(c)
    PROVE  HttpInv'
<1> USE DEF serverData, reading
<1>1. TypeOK /\ SlotInv(c)
  BY DEF HttpInv
<1>2. /\ phase[c] \in {"line", "headers", "body"}
      /\ answers[c] = <<>> /\ c \notin performed
  BY <1>1 DEF ReadLine, ReadHeaders, ReadBody, TimeOut, Timed, SlotInv,
             ReadsFirst
<1>3. ASSUME UNCHANGED <<reading, answers, serverData>>,
             NEW r \in Routes \cup {"none"}, route' = [route EXCEPT ![c] = r],
             NEW b \in {"whole", "none"}, body' = [body EXCEPT ![c] = b],
             NEW p \in {"headers", "body", "handle", "closing"}, Goto(c, p),
             b = "whole" => sent[c] = Pieces,
             p # "closing" => r \in Routes,
             p = "body" => r # "download"
      PROVE  HttpInv'
  <2>1. TypeOK'
    BY <1>1, <1>3 DEF TypeOK, Goto
  <2>2. \A x \in Slots \ {c} : Untouched(x)
    BY <1>1, <1>3 DEF TypeOK, Goto, Untouched
  <2>3. /\ phase'[c] = p /\ route'[c] = r /\ body'[c] = b
        /\ UNCHANGED <<sent, answers, performed>>
    BY <1>1, <1>3 DEF TypeOK, Goto
  <2>4. SlotInv(c)'
    BY <1>1, <1>2, <1>3, <2>3
       DEF SlotInv, ReadsFirst, ConfirmedIfDone, AnswerFollowsUploads
  <2> QED
    BY <1>3, <2>1, <2>2, <2>4, LocalStep
<1>4. /\ route[c] \in Routes \cup {"none"} /\ body[c] \in {"whole", "none"}
      /\ route = [route EXCEPT ![c] = route[c]]
      /\ body = [body EXCEPT ![c] = body[c]]
      /\ body[c] = "whole" => sent[c] = Pieces
      /\ phase[c] \in {"headers", "body"} => route[c] \in Routes
  BY <1>1 DEF TypeOK, SlotInv, ReadsFirst
<1>5. CASE ReadLine(c)
  <2>1. CASE /\ \E r \in Routes : route' = [route EXCEPT ![c] = r]
             /\ Goto(c, "headers")
             /\ UNCHANGED <<reading, body, answers, serverData>>
    <3>1. PICK r \in Routes : route' = [route EXCEPT ![c] = r]
      BY <2>1
    <3> QED
      BY <1>3, <1>4, <2>1, <3>1
  <2>2. CASE /\ Goto(c, "closing")
             /\ UNCHANGED <<reading, route, body, answers, serverData>>
    BY <1>3, <1>4, <2>2
  <2>3. CASE Raise(c) /\ UNCHANGED <<reading, route, body, serverData>>
    BY <1>5, <2>3, RaiseStep DEF ReadLine
  <2> QED
    BY <1>5, <2>1, <2>2, <2>3 DEF ReadLine
<1>6. CASE ReadHeaders(c)
  <2>1. CASE /\ HasBody(c) /\ Goto(c, "body") /\ UNCHANGED answers
    BY <1>3, <1>4, <1>6, <2>1 DEF ReadHeaders, HasBody
  <2>2. CASE /\ Goto(c, "handle") /\ UNCHANGED answers
    BY <1>3, <1>4, <1>6, <2>2 DEF ReadHeaders
  <2>3. CASE Raise(c) /\ client[c] = "gone"
    BY <1>6, <2>3, RaiseStep DEF ReadHeaders
  <2> QED
    BY <1>6, <2>1, <2>2, <2>3 DEF ReadHeaders, ResetSeen
<1>7. CASE ReadBody(c)
  <2>1. CASE /\ Arrived(c, 3) /\ body' = [body EXCEPT ![c] = "whole"]
             /\ Goto(c, "handle") /\ UNCHANGED answers
    <3>1. sent[c] = Pieces
      <4>1. sent[c] \in 0..3
        BY <1>1 DEF TypeOK, Pieces
      <4>2. sent[c] >= 3
        BY <2>1 DEF Arrived
      <4> QED
        BY <4>1, <4>2 DEF Pieces
    <3>2. UNCHANGED <<reading, route, serverData>> /\ phase[c] = "body"
      BY <1>7 DEF ReadBody
    <3>3. route[c] \in Routes
      BY <1>4, <3>2
    <3> QED
      BY <1>3, <1>4, <2>1, <3>1, <3>2, <3>3
  <2>2. CASE Raise(c) /\ UNCHANGED body
    BY <1>7, <2>2, RaiseStep DEF ReadBody
  <2> QED
    BY <1>7, <2>1, <2>2 DEF ReadBody
<1>8. CASE TimeOut(c)
  BY <1>3, <1>4, <1>8 DEF TimeOut
<1> QED
  BY <1>5, <1>6, <1>7, <1>8

\* After the write.  A 500 sent because drain() failed reaches nobody.
LEMMA EndStep ==
    ASSUME HttpInv, NEW c \in Slots, Drain(c) \/ DrainFails(c) \/ Close(c)
    PROVE  HttpInv'
<1> USE DEF serverData, reading
<1>1. TypeOK /\ SlotInv(c)
  BY DEF HttpInv
<1>2. CASE Drain(c) \/ DrainFails(c)
  <2>1. /\ phase[c] = "drain" /\ phase' = [phase EXCEPT ![c] = "closing"]
        /\ UNCHANGED <<route, sent, client, body, answers, latest_benchmarks,
                       performed, uploads, opened>>
    BY <1>2 DEF Drain, DrainFails, DrainRaises, ResetSeen, Write, Goto
  <2>2. TypeOK' /\ \A x \in Slots \ {c} : Untouched(x)
    BY <1>1, <2>1 DEF TypeOK, Untouched
  <2>3. phase'[c] = "closing"
    BY <1>1, <2>1 DEF TypeOK
  <2>4. SlotInv(c)'
    BY <1>1, <2>1, <2>3
       DEF SlotInv, ReadsFirst, ConfirmedIfDone, AnswerFollowsUploads
  <2> QED
    BY <2>1, <2>2, <2>4, LocalStep
<1>3. CASE Close(c)
  <2>1. TypeOK'
    BY <1>1, <1>3 DEF Close, Goto, TypeOK, Pieces
  <2>2. /\ \A x \in Slots \ {c} : Untouched(x)
        /\ UNCHANGED <<latest_benchmarks, uploads>>
    BY <1>1, <1>3 DEF Close, Goto, TypeOK, Untouched
  <2>3. /\ phase'[c] = "idle" /\ route'[c] = "none" /\ body'[c] = "none"
        /\ answers'[c] = <<>> /\ c \notin performed'
        /\ Len(answers'[c]) = 0
    BY <1>1, <1>3 DEF Close, Goto, TypeOK
  <2>4. SlotInv(c)'
    BY <2>3 DEF SlotInv, ReadsFirst, ConfirmedIfDone, AnswerFollowsUploads
  <2> QED
    BY <2>1, <2>2, <2>4, LocalStep
<1> QED
  BY <1>2, <1>3

------------------------------------------------------------------------------
\* A handler writes before anything was written.
LEMMA BeforeHandling ==
    ASSUME HttpInv, NEW c \in Slots, Handle(c)
    PROVE  /\ TypeOK /\ SlotInv(c) /\ StoredMatchesUploads
           /\ phase[c] = "handle" /\ phase' = [phase EXCEPT ![c] = "drain"]
           /\ phase'[c] = "drain"
           /\ answers[c] = <<>> /\ c \notin performed
           /\ body[c] = "whole" => sent[c] = Pieces
           /\ UNCHANGED <<sent, client, opened, route, body>>
BY DEF HttpInv, Handle, Goto, reading, TypeOK, SlotInv, ReadsFirst

\* The device endpoints.
LEMMA DeviceStep ==
    ASSUME HttpInv, NEW c \in Slots, Handle(c),
           NEW b \in Bodies[route[c]], HandleDevice(c, b)
    PROVE  HttpInv'
<1>1. /\ TypeOK /\ SlotInv(c) /\ StoredMatchesUploads
      /\ phase' = [phase EXCEPT ![c] = "drain"] /\ phase'[c] = "drain"
      /\ answers[c] = <<>> /\ c \notin performed
      /\ body[c] = "whole" => sent[c] = Pieces
      /\ UNCHANGED <<sent, client, opened, route, body>>
  BY BeforeHandling
<1>2. /\ route[c] # "download" /\ UNCHANGED <<latest_benchmarks, uploads>>
  BY DEF HandleDevice
<1>3. PICK status \in Statuses, data \in {0, 1} :
          /\ Write(c, status, data)
          /\ \/ /\ performed' = performed \cup {c}
                /\ body[c] = "whole" /\ status = 200 /\ data = 1
             \/ performed' = performed
  <2>1. RefusalStatus(c, b) \in Statuses
    BY DEF RefusalStatus, Statuses
  <2> QED
    BY <2>1 DEF HandleDevice, Verifies, Statuses
<1>4. /\ answers' \in [Slots -> Seq(Answer)]
      /\ \A x \in Slots \ {c} : answers'[x] = answers[x]
      /\ Len(answers'[c]) <= 1
      /\ client[c] = "gone" => answers' = answers
      /\ client[c] # "gone" =>
             /\ Len(answers'[c]) = 1
             /\ answers'[c][1].status = status
             /\ answers'[c][1].data = data
             /\ answers'[c][1].after = Len(uploads)
  BY <1>1, <1>3, WriteFacts
<1>5. TypeOK'
  BY <1>1, <1>2, <1>3, <1>4 DEF TypeOK
<1>6. \A x \in Slots \ {c} : Untouched(x)
  BY <1>1, <1>3, <1>4 DEF TypeOK, Untouched
<1>7. ReadsFirst(c)'
  BY <1>1 DEF ReadsFirst
<1>8. ConfirmedIfDone(c)'
  BY <1>1, <1>3, <1>4 DEF ConfirmedIfDone
<1>9. AnswerFollowsUploads(c)'
  <2>1. Len(uploads) \in Nat
        /\ NewestOf(uploads, Len(uploads)) \in 0..Len(uploads)
    BY <1>1 DEF StoredMatchesUploads, TypeOK
  <2> QED
    BY <1>1, <1>2, <1>4, <2>1 DEF AnswerFollowsUploads
<1>10. SlotInv(c)'
  BY <1>4, <1>7, <1>8, <1>9 DEF SlotInv
<1> QED
  BY <1>2, <1>5, <1>6, <1>10, LocalStep

\* GET /api/benchmarks: what is stored is what the uploads say.
LEMMA DownloadStep ==
    ASSUME HttpInv, NEW c \in Slots, Handle(c), HandleDownload(c)
    PROVE  HttpInv'
<1>1. /\ TypeOK /\ SlotInv(c) /\ StoredMatchesUploads
      /\ phase' = [phase EXCEPT ![c] = "drain"] /\ phase'[c] = "drain"
      /\ answers[c] = <<>> /\ c \notin performed
      /\ body[c] = "whole" => sent[c] = Pieces
      /\ UNCHANGED <<sent, client, opened, route, body>>
  BY BeforeHandling
<1>2. UNCHANGED <<latest_benchmarks, uploads, performed>>
  BY DEF HandleDownload, serverData
<1> DEFINE n == Len(uploads)
           a == NewestOf(uploads, n)
<1>3. n \in Nat /\ a \in 0..n
  BY <1>1 DEF StoredMatchesUploads, TypeOK
<1>4. PICK status \in Statuses, data \in Nat :
          /\ Write(c, status, data)
          /\ ~ SpoiltIn(uploads, n) => status = 200 /\ data = a
  <2>1. CASE latest_benchmarks.body \in {"none", "falsy"}
    <3>1. Write(c, 200, 0)
      BY <2>1 DEF HandleDownload
    <3>2. ~ SpoiltIn(uploads, n) => 0 = a
      BY <1>1, <2>1 DEF StoredMatchesUploads
    <3> QED
      BY <3>1, <3>2 DEF Statuses
  <2>2. CASE latest_benchmarks.body = "object"
    <3>1. Write(c, 200, latest_benchmarks.id) /\ latest_benchmarks.id \in Nat
      BY <1>1, <2>2 DEF HandleDownload, TypeOK
    <3>2. ~ SpoiltIn(uploads, n) => latest_benchmarks.id = a
      BY <1>1, <2>2 DEF StoredMatchesUploads
    <3> QED
      BY <3>1, <3>2 DEF Statuses
  <2>3. CASE latest_benchmarks.body = "list"
    <3>1. Write(c, 500, 0)
      BY <2>3 DEF HandleDownload
    <3>2. SpoiltIn(uploads, n)
      BY <1>1, <2>3 DEF StoredMatchesUploads
    <3> QED
      BY <3>1, <3>2 DEF Statuses
  <2> QED
    BY <1>1, <2>1, <2>2, <2>3 DEF TypeOK
<1>5. /\ answers' \in [Slots -> Seq(Answer)]
      /\ \A x \in Slots \ {c} : answers'[x] = answers[x]
      /\ Len(answers'[c]) <= 1
      /\ client[c] = "gone" => answers' = answers
      /\ client[c] # "gone" =>
             /\ answers'[c][1].status = status
             /\ answers'[c][1].data = data
             /\ answers'[c][1].after = n
  BY <1>1, <1>4, WriteFacts
<1>6. TypeOK'
  BY <1>1, <1>2, <1>5 DEF TypeOK
<1>7. \A x \in Slots \ {c} : Untouched(x)
  BY <1>1, <1>2, <1>5 DEF TypeOK, Untouched
<1>8. ReadsFirst(c)' /\ ConfirmedIfDone(c)'
  BY <1>1, <1>2 DEF ReadsFirst, ConfirmedIfDone
<1>9. AnswerFollowsUploads(c)'
  BY <1>1, <1>2, <1>3, <1>4, <1>5 DEF AnswerFollowsUploads
<1>10. SlotInv(c)'
  BY <1>5, <1>8, <1>9 DEF SlotInv
<1> QED
  BY <1>2, <1>6, <1>7, <1>10, LocalStep

\* What is stored after one more upload was answered with s.
LEMMA StoredStep ==
    ASSUME uploads \in Seq(Statuses), StoredMatchesUploads,
           NEW s \in Statuses, uploads' = Append(uploads, s),
           s = 200 => /\ latest_benchmarks'.id = Len(uploads) + 1
                      /\ latest_benchmarks'.body = "object",
           s = 400 => UNCHANGED latest_benchmarks
    PROVE  StoredMatchesUploads'
<1> DEFINE n == Len(uploads)
           a == NewestOf(uploads, n)
           w == Append(uploads, s)
<1>1. /\ n \in Nat /\ a \in 0..n
      /\ Len(w) = n + 1 /\ w[n + 1] = s
      /\ \A j \in 1..n : w[j] = uploads[j]
  BY AppendFacts DEF StoredMatchesUploads
<1>2. uploads' = w
  OBVIOUS
<1>3. CASE s = 200
  <2>1. NewestOf(w, n + 1) = n + 1
    BY <1>3, NewestIsAppended
  <2> HIDE DEF n, w
  <2>2. n + 1 # 0 /\ n + 1 \in 0..n + 1
    BY <1>1
  <2>3. latest_benchmarks'.id = n + 1 /\ latest_benchmarks'.body = "object"
    BY <1>3 DEF n
  <2> QED
    BY <1>1, <1>2, <2>1, <2>2, <2>3 DEF StoredMatchesUploads
<1>4. ASSUME s # 200
      PROVE  /\ NewestOf(w, n + 1) = a
             /\ a \in 0..n + 1
             /\ SpoiltIn(w, n + 1) <=> SpoiltIn(uploads, n) \/ s = 500
  <2>1. NewestOf(w, n + 1) = a
    BY <1>4, NewestIsKept
  <2> HIDE DEF n, a, w
  <2>2. \A j \in a + 1..n + 1 : j = n + 1 \/ (j \in a + 1..n /\ j \in 1..n)
    BY <1>1
  <2>3. \A j \in a + 1..n : j \in a + 1..n + 1 /\ j \in 1..n
    BY <1>1
  <2>4. n + 1 \in a + 1..n + 1
    BY <1>1
  <2>5. SpoiltIn(uploads, n) <=> \E j \in a + 1..n : uploads[j] = 500
    BY DEF SpoiltIn, a
  <2>6. SpoiltIn(w, n + 1) <=> \E j \in a + 1..n + 1 : w[j] = 500
    BY <2>1 DEF SpoiltIn
  <2>7. SpoiltIn(w, n + 1) <=> SpoiltIn(uploads, n) \/ s = 500
    BY <1>1, <2>2, <2>3, <2>4, <2>5, <2>6
  <2> QED
    BY <1>1, <2>1, <2>7
<1>5. CASE s = 400
  <2>1. /\ NewestOf(w, n + 1) = a /\ a \in 0..n + 1
        /\ SpoiltIn(w, n + 1) <=> SpoiltIn(uploads, n)
    BY <1>4, <1>5
  <2> HIDE DEF w
  <2> QED
    BY <1>1, <1>2, <1>5, <2>1 DEF StoredMatchesUploads
<1>6. CASE s = 500
  <2>1. /\ NewestOf(w, n + 1) = a /\ a \in 0..n + 1
        /\ SpoiltIn(w, n + 1)
    BY <1>4, <1>6
  <2> HIDE DEF w
  <2> QED
    BY <1>1, <1>2, <2>1 DEF StoredMatchesUploads
<1> QED
  BY <1>3, <1>5, <1>6 DEF Statuses

\* POST /api/benchmarks: stored before it is answered.
LEMMA UploadStep ==
    ASSUME HttpInv, NEW c \in Slots, Handle(c),
           NEW b0 \in Bodies[route[c]], HandleUpload(c, b0)
    PROVE  HttpInv'
<1> DEFINE b == IF body[c] = "whole" THEN b0 ELSE "text"
           n == Len(uploads)
           s == UploadStatus(b)
<1>1. /\ TypeOK /\ SlotInv(c) /\ StoredMatchesUploads
      /\ phase' = [phase EXCEPT ![c] = "drain"] /\ phase'[c] = "drain"
      /\ answers[c] = <<>> /\ c \notin performed
      /\ body[c] = "whole" => sent[c] = Pieces
      /\ UNCHANGED <<sent, client, opened, route, body>>
  BY BeforeHandling
<1>2. /\ route[c] = "upload"
      /\ \/ /\ Parses(b)
            /\ latest_benchmarks' = [id |-> n + 1, body |-> Stamped(b)]
            /\ performed' = performed \cup {c}
         \/ /\ ~ Parses(b)
            /\ UNCHANGED <<latest_benchmarks, performed>>
      /\ uploads' = Append(uploads, s)
      /\ Write(c, s, 0)
  BY DEF HandleUpload
<1>3. b \in {"object", "empty", "list", "falsy", "text", "binary"}
  BY <1>2 DEF Bodies
<1>4. /\ s \in Statuses
      /\ s = 200 => Parses(b) /\ Stamped(b) = "object"
      /\ s = 400 => ~ Parses(b)
      /\ Parses(b) => Stamped(b) \in {"object", "list", "falsy"}
      /\ Parses(b) => body[c] = "whole"
  <2>1. Parses(b) => b # "text"
    BY DEF Parses
  <2>2. Parses(b) => body[c] = "whole"
    BY <2>1
  <2> HIDE DEF b
  <2> QED
    BY <1>3, <2>2 DEF UploadStatus, Parses, Stamped, Statuses
<1> HIDE DEF b, s
<1>5. /\ uploads \in Seq(Statuses) /\ n \in Nat
      /\ uploads' \in Seq(Statuses) /\ Len(uploads') = n + 1
  BY <1>1, <1>2, <1>4, AppendFacts DEF TypeOK, Statuses
<1>6. /\ answers' \in [Slots -> Seq(Answer)]
      /\ \A x \in Slots \ {c} : answers'[x] = answers[x]
      /\ Len(answers'[c]) <= 1
      /\ client[c] = "gone" => answers' = answers
      /\ client[c] # "gone" => answers'[c][1].after = n
  BY <1>1, <1>2, <1>4, WriteFacts
<1>7. /\ latest_benchmarks'.id \in Nat
      /\ latest_benchmarks'.body \in {"none", "object", "list", "falsy"}
      /\ performed' \subseteq Slots
  BY <1>1, <1>2, <1>4, <1>5 DEF TypeOK
<1>8. TypeOK'
  BY <1>1, <1>5, <1>6, <1>7 DEF TypeOK, Statuses
<1>9. \A x \in Slots \ {c} : Untouched(x)
  BY <1>1, <1>2, <1>6 DEF TypeOK, Untouched
<1>10. ReadsFirst(c)' /\ ConfirmedIfDone(c)'
  <2>1. sent[c] = Pieces \/ c \notin performed'
    BY <1>1, <1>2, <1>4
  <2> QED
    BY <1>1, <1>2, <2>1 DEF ReadsFirst, ConfirmedIfDone
<1>11. AnswerFollowsUploads(c)'
  <2>1. n \in 0..n + 1 /\ NewestOf(uploads, n) \in 0..n
    BY <1>1, <1>5 DEF StoredMatchesUploads
  <2>2. NewestOf(uploads', n) = NewestOf(uploads, n)
    BY <1>2, <1>4, <1>5, <2>1, PrefixKept
  <2>3. answers'[c] # <<>> => answers'[c][1].after = n
    BY <1>1, <1>6
  <2>4. route'[c] # "download"
    BY <1>1, <1>2
  <2> HIDE DEF n
  <2> QED
    BY <1>5, <2>1, <2>2, <2>3, <2>4 DEF AnswerFollowsUploads
<1>12. StoredMatchesUploads'
  BY <1>1, <1>2, <1>4, <1>5, StoredStep
<1>13. \A x \in Slots : SlotInv(x)'
  <2>1. SlotInv(c)'
    BY <1>6, <1>10, <1>11 DEF SlotInv
  <2>2. ASSUME NEW x \in Slots \ {c} PROVE SlotInv(x)'
    BY <1>1, <1>2, <1>4, <1>8, <1>9, OthersKeep DEF HttpInv
  <2> QED
    BY <2>1, <2>2
<1> QED
  BY <1>8, <1>12, <1>13 DEF HttpInv

------------------------------------------------------------------------------
\* The invariant is inductive.
THEOREM HttpInvariant == Spec => []HttpInv
<1>1. HttpInv /\ [Next]_vars => HttpInv'
  <2> SUFFICES ASSUME HttpInv, [Next]_vars PROVE HttpInv'
    OBVIOUS
  <2>1. CASE UNCHANGED vars
    BY <2>1 DEF vars, HttpInv, TypeOK, SlotInv, ReadsFirst, ConfirmedIfDone,
                AnswerFollowsUploads, StoredMatchesUploads
  <2>2. ASSUME NEW c \in Slots, Handle(c) PROVE HttpInv'
    BY <2>2, DeviceStep, DownloadStep, UploadStep DEF Handle
  <2>3. ASSUME NEW c \in Slots, Client(c) \/ Coroutine(c) PROVE HttpInv'
    BY <2>2, <2>3, ClientStep, ReadStep, EndStep DEF Coroutine
  <2> QED
    BY <2>1, <2>3 DEF Next
<1> QED
  BY <1>1, HttpInit, PTL DEF Spec

\* Every variable keeps its type.
THEOREM HttpTypes == Spec => []TypeOK
BY HttpInvariant, PTL DEF HttpInv

\* No client finds two responses, whatever the exception handler sends.
THEOREM AnsweredOnce == Spec => []OneAnswer
<1>1. HttpInv => OneAnswer
  BY DEF HttpInv, SlotInv, OneAnswer
<1> QED
  BY <1>1, HttpInvariant, PTL

\* Without a confirmation nothing happened.
THEOREM SilenceIsSafe == Spec => []SilenceMeansUndone
<1>1. HttpInv => SilenceMeansUndone
  BY DEF HttpInv, TypeOK, SlotInv, ConfirmedIfDone, SilenceMeansUndone
<1> QED
  BY <1>1, HttpInvariant, PTL

\* A GET serves the newest upload acknowledged, unless a 500 came after it.
THEOREM DownloadsFollow == Spec => []DownloadFollowsUploads
<1>1. ASSUME NEW n PROVE Acknowledged(n) = NewestOf(uploads, n)
  BY DEF Acknowledged, NewestOf, Latest, GoodOf
<1>2. HttpInv => DownloadFollowsUploads
  BY <1>1 DEF HttpInv, SlotInv, AnswerFollowsUploads, SpoiltIn, Downloads,
              DownloadFollowsUploads
<1> QED
  BY <1>2, HttpInvariant, PTL
==============================================================================
