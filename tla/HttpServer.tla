----------------------------- MODULE HttpServer ------------------------------
(***************************************************************************)
(* server/server.py, handle_request: one coroutine per TCP connection      *)
(* reads a request in three pieces (request line, headers, body), calls    *)
(* the handler, writes the response and closes.  Coroutines interleave     *)
(* only at an await; from the end of the body to the write there is none.  *)
(* A client sends the pieces in order, as slowly as it likes, may shut     *)
(* down its sending side and still listen, read the response or not, or be *)
(* gone.  One that is reset without a word just takes no more steps.       *)
(***************************************************************************)
EXTENDS Naturals, Sequences

CONSTANTS
    Slots,        \* connections open at a time
    MaxRequests   \* bound: connections opened in all

ASSUME HttpAssumption == MaxRequests \in Nat

VARIABLES
    phase,            \* slot -> the await its coroutine is at
    route,            \* slot -> method and path, once read
    sent,             \* slot -> pieces that have arrived
    client,           \* slot -> "open", "eof" (listens, sends no more), "gone"
    body,             \* slot -> "whole" or "none": the body argument
    answers,          \* slot -> responses its client may read
    latest_benchmarks,\* self.latest_benchmarks: the upload it holds
    performed,        \* history: slots whose POST changed the server's state
    uploads,          \* history: the POSTs /api/benchmarks handled
    opened            \* connections opened so far

vars == <<phase, route, sent, client, body, answers, latest_benchmarks,
          performed, uploads, opened>>

(***************************************************************************)
(* The routes whose handlers keep state, and what tells request bodies     *)
(* apart.  Handshake, telemetry: "good" verifies, "bad" does not; a        *)
(* "useless" handshake verifies with an X25519 key that agrees on zero.    *)
(* Benchmarks: a JSON object, the empty object, other JSON that Python     *)
(* takes for true, or for false ([], null), no JSON, no UTF-8.             *)
(***************************************************************************)
Bodies ==
    [handshake |-> {"good", "bad", "useless"},
     telemetry |-> {"good", "bad"},
     upload |-> {"object", "empty", "list", "falsy", "text", "binary"},
     download |-> {"none"}]

Routes == DOMAIN Bodies

Pieces == 3   \* request line, headers, body

\* The benchmarks before any upload; an upload is named by its number.
Nothing == [id |-> 0, body |-> "none"]

Init ==
    /\ phase = [c \in Slots |-> "idle"]
    /\ route = [c \in Slots |-> "none"]
    /\ sent = [c \in Slots |-> 0]
    /\ client = [c \in Slots |-> "gone"]
    /\ body = [c \in Slots |-> "none"]
    /\ answers = [c \in Slots |-> <<>>]
    /\ latest_benchmarks = Nothing
    /\ performed = {}
    /\ uploads = <<>>
    /\ opened = 0

serverData == <<latest_benchmarks, performed, uploads>>

------------------------------------------------------------------------------
(* Clients *)

Open(c) ==
    /\ phase[c] = "idle"
    /\ opened < MaxRequests
    /\ opened' = opened + 1
    /\ phase' = [phase EXCEPT ![c] = "line"]
    /\ client' = [client EXCEPT ![c] = "open"]
    /\ UNCHANGED <<route, sent, body, answers, serverData>>

\* What comes after the coroutine has stopped reading changes nothing.
Reads(c) == phase[c] \in {"line", "headers", "body"}

Send(c) ==
    /\ Reads(c)
    /\ client[c] = "open"
    /\ sent[c] < Pieces
    /\ sent' = [sent EXCEPT ![c] = @ + 1]
    /\ UNCHANGED <<phase, route, client, body, answers, serverData, opened>>

Shutdown(c) ==
    /\ Reads(c)
    /\ client[c] = "open"
    /\ sent[c] < Pieces
    /\ client' = [client EXCEPT ![c] = "eof"]
    /\ UNCHANGED <<phase, route, sent, body, answers, serverData, opened>>

\* drain() and wait_closed() have no timeout.  The longest response, the
\* stored benchmarks with the last packets, may fill every buffer up to the
\* high-water mark; they then wait for a client that does not read.  Every
\* other response fits.
AwaitsReader(c) ==
    /\ phase[c] \in {"drain", "closing"}
    /\ client[c] # "gone"
    /\ route[c] = "download"
    /\ answers[c] # <<>> /\ answers[c][1].status = 200

\* close() or a reset: nothing it had not received reaches it any more.  It
\* makes no difference to a connection that is closed anyway.
Leave(c) ==
    /\ phase[c] \notin {"idle", "closing"} \/ AwaitsReader(c)
    /\ client[c] # "gone"
    /\ client' = [client EXCEPT ![c] = "gone"]
    /\ UNCHANGED <<phase, route, sent, body, answers, serverData, opened>>

------------------------------------------------------------------------------
(* What an await of the reader gives *)

\* The piece is there; a reset discards what was buffered.
Arrived(c, n) == sent[c] >= n

\* The end of the stream comes after sent[c] pieces: readline returns less
\* than a line or b'', readexactly raises IncompleteReadError.
AtEnd(c, n) == client[c] # "open" /\ sent[c] < n

\* ConnectionResetError instead of what was asked for.
ResetSeen(c) == client[c] = "gone"

Goto(c, p) == phase' = [phase EXCEPT ![c] = p]

\* writer.write: nobody reads what is written to a closed connection.
Write(c, status, data) ==
    answers' = IF client[c] = "gone" THEN answers
               ELSE [answers EXCEPT ![c] =
                        Append(@, [status |-> status, data |-> data,
                                   after |-> Len(uploads)])]

\* except Exception: one attempt at a 500.
Raise(c) ==
    /\ Write(c, 500, 0)
    /\ Goto(c, "drain")

reading == <<sent, client, opened>>

------------------------------------------------------------------------------
(* The coroutine *)

\* A line the stream cuts off is b'', or splits in three if the cut comes
\* after its second space, or does not.
ReadLine(c) ==
    /\ phase[c] = "line"
    /\ \/ /\ Arrived(c, 1) \/ AtEnd(c, 1)
          /\ \E r \in Routes : route' = [route EXCEPT ![c] = r]
          /\ Goto(c, "headers")
          /\ UNCHANGED answers
       \/ /\ AtEnd(c, 1)              \* closed without an answer
          /\ Goto(c, "closing")
          /\ UNCHANGED <<route, answers>>
       \/ /\ AtEnd(c, 1) \/ ResetSeen(c)
          /\ Raise(c)
          /\ UNCHANGED route
    /\ UNCHANGED <<reading, body, serverData>>

HasBody(c) == route[c] # "download"

\* The loop over header lines breaks on an empty line and, with `not line',
\* at the end of the stream.
\* A bug: the end of the stream is not an end of the headers.
EndOfHeadersBlankOnly(c) == Arrived(c, 2)

EndOfHeaders(c) == Arrived(c, 2) \/ AtEnd(c, 2)

\* A stream that ends in the headers may have brought Content-Length or not;
\* one that ended in the request line has not.
ReadHeaders(c) ==
    /\ phase[c] = "headers"
    /\ \/ /\ EndOfHeaders(c)
          /\ Arrived(c, 1)
          /\ HasBody(c)
          /\ Goto(c, "body")
          /\ UNCHANGED answers
       \/ /\ EndOfHeaders(c)
          /\ ~ Arrived(c, 2) \/ ~ HasBody(c)
          /\ Goto(c, "handle")
          /\ UNCHANGED answers
       \/ /\ ResetSeen(c)
          /\ Raise(c)
    /\ UNCHANGED <<reading, route, body, serverData>>

ReadBody(c) ==
    /\ phase[c] = "body"
    /\ \/ /\ Arrived(c, 3)
          /\ body' = [body EXCEPT ![c] = "whole"]
          /\ Goto(c, "handle")
          /\ UNCHANGED answers
       \/ /\ AtEnd(c, 3) \/ ResetSeen(c)
          /\ Raise(c)
          /\ UNCHANGED body
    /\ UNCHANGED <<reading, route, serverData>>

\* asyncio.wait_for(..., timeout=10): the request line and the body, not the
\* headers.  The timer may win against a piece that has just arrived.
Timed == {"line", "body"}

TimeOut(c) ==
    /\ phase[c] \in Timed
    /\ Goto(c, "closing")
    /\ UNCHANGED <<reading, route, body, answers, serverData>>

------------------------------------------------------------------------------
(* The handlers, up to their write: b is what the whole body says *)

\* The request changes sessions or the log.
\* A bug: the session is opened before its HMAC is verified.
VerifiesLater(c, b) == body[c] = "whole"

Verifies(c, b) == body[c] = "whole" /\ b = "good"

\* A refused handshake is answered 200 with an empty body (data 0), refused
\* telemetry 400; _perform_x25519 raises ValueError for a useless key.
RefusalStatus(c, b) ==
    CASE body[c] = "whole" /\ b = "useless" -> 500
      [] route[c] = "telemetry" -> 400
      [] OTHER -> 200

HandleDevice(c, b) ==
    /\ route[c] \in {"handshake", "telemetry"}
    /\ \/ /\ Verifies(c, b)
          /\ performed' = performed \cup {c}
          /\ Write(c, 200, IF b = "good" THEN 1 ELSE 0)
       \/ /\ ~ Verifies(c, b)
          /\ UNCHANGED performed
          /\ Write(c, RefusalStatus(c, b), 0)
    /\ UNCHANGED <<latest_benchmarks, uploads>>

\* json.loads(body.decode()) returns, and its value is assigned at once.
\* A bug: a body that is no JSON is kept as it came.
ParsesAnything(b) == b # "binary"

Parses(b) == b \notin {"text", "binary"}

\* The assignment of ['timestamp'] succeeds for a dict only, and makes an
\* empty one true.
\* A bug: the timestamp is kept elsewhere.
StampedElsewhere(b) == IF b = "empty" THEN "falsy" ELSE b

Stamped(b) == IF b = "empty" THEN "object" ELSE b

\* JSONDecodeError is a 400, every other exception a 500.
UploadStatus(b) ==
    CASE b \in {"object", "empty"} -> 200
      [] b = "text" -> 400
      [] OTHER -> 500

\* Without Content-Length the body is b'', which is no JSON.
HandleUpload(c, sending) ==
    LET b == IF body[c] = "whole" THEN sending ELSE "text"
        id == Len(uploads) + 1
    IN  /\ route[c] = "upload"
        /\ \/ /\ Parses(b)
              /\ latest_benchmarks' = [id |-> id, body |-> Stamped(b)]
              /\ performed' = performed \cup {c}
           \/ /\ ~ Parses(b)
              /\ UNCHANGED <<latest_benchmarks, performed>>
        /\ uploads' = Append(uploads, UploadStatus(b))
        /\ Write(c, UploadStatus(b), 0)

\* self.latest_benchmarks or the demo data (data 0); then three keys are
\* assigned, which fails unless it is a dict.
HandleDownload(c) ==
    /\ route[c] = "download"
    /\ CASE latest_benchmarks.body \in {"none", "falsy"} -> Write(c, 200, 0)
         [] latest_benchmarks.body = "object" ->
                Write(c, 200, latest_benchmarks.id)
         [] OTHER -> Write(c, 500, 0)
    /\ UNCHANGED serverData

Handle(c) ==
    /\ phase[c] = "handle"
    /\ \E b \in Bodies[route[c]] :
          HandleDevice(c, b) \/ HandleUpload(c, b) \/ HandleDownload(c)
    /\ Goto(c, "drain")
    /\ UNCHANGED <<reading, route, body>>

------------------------------------------------------------------------------
(* After the write *)

Drain(c) ==
    /\ phase[c] = "drain"
    /\ Goto(c, "closing")
    /\ UNCHANGED <<reading, route, body, answers, serverData>>

\* drain() raises once the connection is lost.
\* A bug: it may raise for other reasons (a timeout around it).
DrainRaisesAnyTime(c) == TRUE

DrainRaises(c) == ResetSeen(c)

\* The handler of the exception then tries to send a 500 as well.
DrainFails(c) ==
    /\ phase[c] = "drain"
    /\ DrainRaises(c)
    /\ Write(c, 500, 0)
    /\ Goto(c, "closing")
    /\ UNCHANGED <<reading, route, body, serverData>>

\* finally: the connection is gone and the slot free for another.
Close(c) ==
    /\ phase[c] = "closing"
    /\ Goto(c, "idle")
    /\ route' = [route EXCEPT ![c] = "none"]
    /\ sent' = [sent EXCEPT ![c] = 0]
    /\ client' = [client EXCEPT ![c] = "gone"]
    /\ body' = [body EXCEPT ![c] = "none"]
    /\ answers' = [answers EXCEPT ![c] = <<>>]
    /\ performed' = performed \ {c}
    /\ UNCHANGED <<latest_benchmarks, uploads, opened>>

------------------------------------------------------------------------------
Client(c) ==
    \/ Open(c)
    \/ Send(c)
    \/ Shutdown(c)
    \/ Leave(c)

Coroutine(c) ==
    \/ ReadLine(c)
    \/ ReadHeaders(c)
    \/ ReadBody(c)
    \/ TimeOut(c)
    \/ Handle(c)
    \/ Drain(c)
    \/ DrainFails(c)
    \/ Close(c)

Next == \E c \in Slots : Client(c) \/ Coroutine(c)

Spec == Init /\ [][Next]_vars

\* The event loop runs every coroutine that can go on; clients promise
\* nothing, not even to read what is written to them.
FairSpec ==
    Spec /\ \A c \in Slots : WF_vars(Coroutine(c) /\ ~ AwaitsReader(c))

------------------------------------------------------------------------------
Answer == [status : {200, 400, 500}, data : Nat, after : Nat]

TypeOK ==
    /\ phase \in [Slots -> {"idle", "line", "headers", "body", "handle",
                            "drain", "closing"}]
    /\ route \in [Slots -> Routes \cup {"none"}]
    /\ sent \in [Slots -> 0..Pieces]
    /\ client \in [Slots -> {"open", "eof", "gone"}]
    /\ body \in [Slots -> {"whole", "none"}]
    /\ answers \in [Slots -> Seq(Answer)]
    /\ latest_benchmarks.id \in Nat
    /\ latest_benchmarks.body \in {"none", "object", "list", "falsy"}
    /\ performed \subseteq Slots
    /\ uploads \in Seq({200, 400, 500})
    /\ opened \in 0..MaxRequests

(***************************************************************************)
(* A client that listens gets one response at most, although the exception *)
(* handler of handle_request sends a 500 also when the exception came from *)
(* the drain() of a response already written.                              *)
(***************************************************************************)
OneAnswer == \A c \in Slots : Len(answers[c]) <= 1

(***************************************************************************)
(* A device that listens to the end knows: without a 200 that carries data *)
(* its handshake or packet changed nothing, however the connection ended   *)
(* (cut in the headers or the body, timed out, refused), so it may start   *)
(* over (the timeouts and except branches of handle_request).              *)
(***************************************************************************)
SilenceMeansUndone ==
    \A c \in performed :
        /\ sent[c] = Pieces
        /\ route[c] # "upload" /\ client[c] # "gone" =>
               /\ Len(answers[c]) = 1
               /\ answers[c][1].status = 200
               /\ answers[c][1].data = 1

\* The newest upload acknowledged among the first n, 0 if none.
Acknowledged(n) ==
    LET good == {i \in 1..n : uploads[i] = 200}
    IN  IF good = {} THEN 0 ELSE CHOOSE i \in good : \A j \in good : j <= i

\* The GETs answered.
Downloads == {c \in Slots : route[c] = "download" /\ answers[c] # <<>>}

(***************************************************************************)
(* GET /api/benchmarks serves the newest upload that was answered 200,     *)
(* also an empty object, whatever was refused with 400 since.  Only a POST *)
(* answered 500 can displace it or make the GET fail, and does so until    *)
(* the next good one (latest_benchmarks is assigned before it is indexed). *)
(***************************************************************************)
DownloadFollowsUploads ==
    \A c \in Downloads :
        LET n == answers[c][1].after
            a == Acknowledged(n)
            spoilt == \E j \in a + 1..n : uploads[j] = 500
        IN  ~ spoilt => answers[c][1].status = 200 /\ answers[c][1].data = a

(***************************************************************************)
(* Every connection ends, unless its client keeps it open in the middle of *)
(* the headers or does not read a long response: the request line and the  *)
(* body have a timeout; the headers have none but end with the stream      *)
(* (`not line'); drain() and wait_closed() end when the client reads or is *)
(* gone.                                                                   *)
(***************************************************************************)
StallsOnlyOnClient ==
    \A c \in Slots :
        phase[c] # "idle" ~>
            \/ phase[c] = "idle"
            \/ phase[c] = "headers" /\ sent[c] < 2 /\ client[c] = "open"
            \/ AwaitsReader(c)
==============================================================================
