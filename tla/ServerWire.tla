----------------------------- MODULE ServerWire -----------------------------
(***************************************************************************)
(* src/server.ts between stdin and stdout: the lines cut out of the chunks, *)
(* the two replies to a line that is no message, the era the first message  *)
(* decides, the task methods the server takes from the SDK's dispatch in    *)
(* the 2026 era, and the shutdown on SIGTERM, SIGINT or the end of stdin.   *)
(* The SDK (serveStdio, Protocol) is modelled from how the server uses it.  *)
(***************************************************************************)
EXTENDS Integers, Sequences, FiniteSets

CONSTANTS
  Scripts     \* sequences of lines a client writes, each of them once

Null == <<"null", "">>

(* No two requests of a client have the same id, and none has none.         *)
ASSUME ScriptsAssumption ==
  \A s \in Scripts :
    /\ s \in Seq({s[i] : i \in DOMAIN s})
    /\ \A i \in DOMAIN s :
         /\ s[i].kind \in {"request", "notification", "garbage", "bad"}
         /\ s[i].kind \in {"request", "notification"} => s[i].era \in {"modern", "legacy"}
         /\ s[i].kind = "request" => s[i].id # Null
    /\ \A i, j \in DOMAIN s :
         s[i].kind = "request" /\ s[j].kind = "request" /\ s[i].id = s[j].id => i = j

VARIABLES
  script, typed,      \* the client's lines, and how many fragments it has written
  pipe,               \* what was written and not read
  buffered,           \* read, and no newline yet
  virtualStdin,       \* lines forwarded to the transport
  eof,                \* the client closed its end: "no", "written", "seen"
  servedModernEra,    \* "none" until the first message, then "modern" or "legacy"
  negotiated, greeted,\* initializeNegotiationSucceeded, receivedInitializedNotification
  unanswered,            \* requests whose handler has not answered
  toldCancelled,            \* requests the SDK has been told are cancelled
  sent,               \* the answers, in order
  jobs, reaped,       \* runs admitted; those among the records at the shutdown
  admitting,          \* the shutdown gate is open
  shutdown,           \* "none", "reaping", "closing", "exited", "killed"
  handlers            \* of SIGTERM and SIGINT: process.once

wireVars   == <<script, typed, pipe, buffered, virtualStdin, eof>>
dispatchVars == <<servedModernEra, negotiated, greeted, unanswered, toldCancelled, jobs>>
stopVars   == <<reaped, admitting, shutdown, handlers>>
srvVars    == <<wireVars, dispatchVars, sent, stopVars>>

ServerInit ==
  /\ script \in Scripts /\ typed = 0 /\ pipe = <<>> /\ buffered = <<>> /\ virtualStdin = <<>>
  /\ eof = "no" /\ servedModernEra = "none" /\ negotiated = FALSE /\ greeted = FALSE
  /\ unanswered = {} /\ toldCancelled = {} /\ sent = <<>> /\ jobs = {} /\ reaped = {}
  /\ admitting = TRUE /\ shutdown = "none" /\ handlers = {"SIGTERM", "SIGINT"}

Up == shutdown \notin {"exited", "killed"}

-----------------------------------------------------------------------------
(* The client.  A line is two fragments and a newline; it may be cut off.   *)

Newline == <<0, 0>>
Fragments(k) == << <<k, 1>>, <<k, 2>>, Newline >>
Text == [i \in 1 .. 3 * Len(script) |-> Fragments((i + 2) \div 3)[((i + 2) % 3) + 1]]

ClientWrites ==
  /\ Up /\ eof = "no" /\ typed < Len(Text)
  /\ \E n \in 1 .. Len(Text) - typed :
       pipe' = pipe \o SubSeq(Text, typed + 1, typed + n) /\ typed' = typed + n
  /\ UNCHANGED <<script, buffered, virtualStdin, eof, dispatchVars, sent, stopVars>>

ClientCloses ==
  /\ Up /\ eof = "no" /\ eof' = "written"
  /\ UNCHANGED <<script, typed, pipe, buffered, virtualStdin, dispatchVars, sent, stopVars>>

-----------------------------------------------------------------------------
(* createStdioTransport.                                                    *)

(* The numbers of a set, in their order.                                    *)
Ascending(S) ==
  [i \in 1 .. Cardinality(S) |-> CHOOSE n \in S : Cardinality({m \in S : m <= n}) = i]

NewlineIn(text) == {i \in DOMAIN text : text[i] = Newline}

(* The lines that end in text, and what is left after the last newline.     *)
LinesOf(text) ==
  LET ends == Ascending(NewlineIn(text))
      from(k) == IF k = 1 THEN 1 ELSE ends[k - 1] + 1
  IN  [k \in DOMAIN ends |-> SubSeq(text, from(k), ends[k] - 1)]

LeftOver(text) ==
  LET last == IF NewlineIn(text) = {} THEN 0
              ELSE CHOOSE i \in NewlineIn(text) : \A j \in NewlineIn(text) : j <= i
  IN  SubSeq(text, last + 1, Len(text))

MessageOf(line) ==
  IF Len(line) = 2 /\ line[1][1] = line[2][1] THEN script[line[1][1]] ELSE [kind |-> "garbage"]

classifyStdinLine(line) ==
  CASE MessageOf(line).kind = "garbage" -> "parse-error"
    [] MessageOf(line).kind = "bad"     -> "invalid-envelope"
    [] OTHER                            -> "ok"

Answer(id, outcome) == [id |-> id, outcome |-> outcome]

(* The lines of these classes, in their order.                              *)
Classified(lines, classes) ==
  LET at == Ascending({k \in DOMAIN lines : classifyStdinLine(lines[k]) \in classes})
  IN  [i \in DOMAIN at |-> lines[at[i]]]

sendProtocolErrorResponse(line) ==
  Answer(Null, IF classifyStdinLine(line) = "parse-error" THEN "ParseError" ELSE "InvalidRequest")

IsWritable == shutdown \in {"none", "reaping"}

(* As if every chunk began a line of its own.                               *)
BufferForgotten(chunk) == chunk

Buffered(chunk) == buffered \o chunk

StdinData ==
  /\ Up /\ pipe # <<>>
  /\ \E n \in 1 .. Len(pipe) :
       LET text  == Buffered(SubSeq(pipe, 1, n))
           lines == LinesOf(text)
           wrong == Classified(lines, {"parse-error", "invalid-envelope"})
       IN  /\ pipe' = SubSeq(pipe, n + 1, Len(pipe))
           /\ buffered' = LeftOver(text)
           /\ virtualStdin' = virtualStdin \o Classified(lines, {"ok"})
           /\ sent' = IF IsWritable
                      THEN sent \o [k \in DOMAIN wrong |-> sendProtocolErrorResponse(wrong[k])]
                      ELSE sent
  /\ UNCHANGED <<script, typed, eof, dispatchVars, stopVars>>

-----------------------------------------------------------------------------
(* The connection: the era, and who takes a message.                        *)

interceptableTaskMethodRequest(m) ==
  m.kind = "request" /\ m.method \in {"tasks/get", "tasks/cancel"}

(* serveStdio: the first message decides the era, and asks the factory for  *)
(* a server, which opens the gate of the shutdown.                          *)
Era(m) == IF servedModernEra = "none" THEN m.era ELSE servedModernEra

DroppedBySdk(id) == id \in {<<"n", "0">>, <<"s", "">>}

(* cancelledNotificationInfo, and the SDK's own dispatch of it.             *)
Cancels(m) == IF m.kind = "notification" /\ m.method = "cancelled" /\ ~DroppedBySdk(m.requestId)
                THEN {p \in unanswered : p.id = m.requestId /\ ~p.intercepted} ELSE {}

Dispatch ==
  /\ Up /\ shutdown # "closing" /\ virtualStdin # <<>>
  /\ virtualStdin' = Tail(virtualStdin)
  /\ LET m == MessageOf(Head(virtualStdin))
         era == Era(m)
     IN  /\ servedModernEra' = era
         /\ admitting' = (admitting \/ servedModernEra = "none")
         /\ greeted' = (greeted \/ era = "modern"
                          \/ (m.kind = "notification" /\ m.method = "initialized"))
         /\ negotiated' = (negotiated \/ era = "modern")
         /\ unanswered' = IF m.kind # "request" THEN unanswered
                       ELSE unanswered \cup
                         {[id |-> m.id, request |-> m,
                           intercepted |-> interceptableTaskMethodRequest(m) /\ era = "modern"]}
         /\ toldCancelled' = toldCancelled \cup {p.id : p \in Cancels(m)}
  /\ UNCHANGED <<script, typed, pipe, buffered, eof, sent, jobs, reaped, shutdown, handlers>>

Answers(p, outcome) ==
  /\ unanswered' = unanswered \ {p}
  /\ sent' = IF IsWritable THEN Append(sent, Answer(p.id, outcome)) ELSE sent

dispatchRest == UNCHANGED <<wireVars, servedModernEra, greeted, toldCancelled, stopVars>>

(* handleInterceptedTaskMethodRequest: its own validation, and no signal of *)
(* the SDK's.                                                               *)
InterceptedAnswers ==
  /\ Up
  /\ \E p \in unanswered :
       /\ p.intercepted
       /\ \E outcome \in IF p.request.valid THEN {"result", "InvalidParams"} ELSE {"InvalidParams"} :
            Answers(p, outcome)
  /\ UNCHANGED <<negotiated, jobs>> /\ dispatchRest

(* What a handler the SDK calls returns or throws.                          *)
Outcomes(m) ==
  CASE m.method = "initialize"  -> {"result", "InvalidRequest"}
    [] m.method = "tools/call"  -> IF negotiated /\ greeted THEN {"result"} ELSE {"InvalidRequest"}
    [] m.method \in {"tasks/get", "tasks/cancel"} ->
         IF servedModernEra = "modern" THEN {"MethodNotFound"}
         ELSE IF m.valid THEN {"result", "InvalidParams"} ELSE {"InvalidParams"}
    [] OTHER                    -> {"result"}

(* A cancelled request is not answered.  The era observer sees the answer   *)
(* to initialize as it is sent.  A run() is admitted while the gate is open.*)
HandlerAnswers ==
  /\ Up
  /\ \E p \in unanswered :
       /\ ~p.intercepted
       /\ \E outcome \in Outcomes(p.request) :
            /\ IF p.id \in toldCancelled THEN unanswered' = unanswered \ {p} /\ sent' = sent
               ELSE Answers(p, outcome)
            /\ negotiated' = (negotiated \/ /\ p.request.method = "initialize"
                                            /\ p.id \notin toldCancelled /\ outcome = "result")
            /\ jobs' = IF p.request.method = "tools/call" /\ outcome = "result" /\ admitting
                         THEN jobs \cup {p.id} ELSE jobs
  /\ dispatchRest

-----------------------------------------------------------------------------
(* The shutdown.                                                            *)

(* As if the gate stayed open until the jobs are reaped.                    *)
BeginsShutdownLate ==
  IF shutdown # "none" THEN UNCHANGED <<shutdown, admitting, reaped>>
  ELSE /\ shutdown' = IF jobs = {} THEN "closing" ELSE "reaping"
       /\ UNCHANGED admitting /\ reaped' = jobs

(* reapJobsForShutdown up to its first await.  The reap of no job at all    *)
(* takes no turn of the event loop.                                         *)
BeginsShutdown ==
  IF shutdown # "none" THEN UNCHANGED <<shutdown, admitting, reaped>>
  ELSE /\ shutdown' = IF jobs = {} THEN "closing" ELSE "reaping"
       /\ admitting' = FALSE /\ reaped' = jobs

(* onSignal.  Its listener is gone then: the signal that comes once more    *)
(* has its default effect.                                                  *)
Signalled ==
  /\ Up
  /\ \E signal \in {"SIGTERM", "SIGINT"} :
       IF signal \in handlers
         THEN handlers' = handlers \ {signal} /\ BeginsShutdown
         ELSE shutdown' = "killed" /\ UNCHANGED <<handlers, admitting, reaped>>
  /\ UNCHANGED <<wireVars, dispatchVars, sent>>

StdinEnds ==
  /\ Up /\ eof = "written" /\ pipe = <<>>
  /\ eof' = "seen" /\ BeginsShutdown
  /\ UNCHANGED <<script, typed, pipe, buffered, virtualStdin, dispatchVars, sent, handlers>>

Reaped ==
  /\ shutdown = "reaping" /\ shutdown' = "closing"
  /\ UNCHANGED <<wireVars, dispatchVars, sent, reaped, admitting, handlers>>

Exits ==
  /\ shutdown = "closing" /\ shutdown' = "exited"
  /\ UNCHANGED <<wireVars, dispatchVars, sent, reaped, admitting, handlers>>

ServerNext ==
  \/ ClientWrites \/ ClientCloses \/ StdinData \/ Dispatch
  \/ InterceptedAnswers \/ HandlerAnswers
  \/ Signalled \/ StdinEnds \/ Reaped \/ Exits

ServerSpec == ServerInit /\ [][ServerNext]_srvVars

-----------------------------------------------------------------------------
(* Properties.                                                              *)

(* The lines read to their newline, and the answers with an id.             *)
Complete == LET read == typed - Len(pipe) IN {script[k] : k \in 1 .. read \div 3}
Count(id, outcomes) ==
  Cardinality({k \in DOMAIN sent : sent[k].id = id /\ sent[k].outcome \in outcomes})
Kind(kind) == Cardinality({k \in 1 .. (typed - Len(pipe)) \div 3 : script[k].kind = kind})

(* However the chunks cut the text: each line that is no JSON and each that *)
(* is no message has had its one reply, a request never has two answers,    *)
(* nothing else is answered, and a task method of the 2026 era is never     *)
(* refused as unknown.  With nothing left to do every request has had its   *)
(* answer, unless it was cancelled.                                         *)
EachLineIsAnswered ==
  LET requests == {m \in Complete : m.kind = "request"}
  IN  /\ shutdown = "none" =>
           /\ Count(Null, {"ParseError"}) = Kind("garbage")
           /\ Count(Null, {"InvalidRequest"}) = Kind("bad")
      /\ \A k \in DOMAIN sent : sent[k].id = Null \/ \E m \in requests : m.id = sent[k].id
      /\ \A m \in requests :
           LET all == {sent[k].outcome : k \in {j \in DOMAIN sent : sent[j].id = m.id}}
           IN  /\ Count(m.id, all) <= 1 /\ "MethodNotFound" \notin all
               /\ shutdown = "none" /\ virtualStdin = <<>> /\ unanswered = {} =>
                    m.id \in toldCancelled \/ all # {}

(* A run the server admitted is among the records the shutdown reaps, and   *)
(* none is admitted once it has begun.                                      *)
NoJobIsLeftBehind ==
  shutdown \in {"reaping", "closing", "exited"} => jobs = reaped /\ ~admitting

(* Every line of a client has its reply, and every run its reap.            *)
WireIsSound == EachLineIsAnswered /\ NoJobIsLeftBehind

=============================================================================
