--------------------------- MODULE WakeTransports ---------------------------
(***************************************************************************)
(* The three wake transports, as selectAndWake uses them: the inherited     *)
(* messaging socket, a codex app-server started as a child, and the IPC     *)
(* socket of the desktop app; with the sessions they wake.  A session takes *)
(* up what it was sent whenever it comes to it: the transport may have      *)
(* given up by then.                                                        *)
(*                                                                         *)
(* What arrives is read in chunks.  All of a chunk is dispatched before the *)
(* function that awaits part of it goes on.  A frame or a line cut in two   *)
(* by the chunks is read with the chunk that completes it.                  *)
(***************************************************************************)
EXTENDS WakeSelection

CONSTANTS
  MAX_FEATURE_LIST_PAGES,
  MaxStray               \* bound on the messages that answer nothing, per attempt

ASSUME PagesAssumption == MAX_FEATURE_LIST_PAGES \in Nat \ {0} /\ MaxStray \in Nat

VARIABLES
  child,       \* the app-server of an attempt, its connection and what it sends
  tracked,     \* #liveChildrenForCrashSafety
  serverUp,
  ipc,         \* the connection of an attempt to the desktop app, and what it brings
  sent,        \* <<a, transport>>: what a session has been sent and not taken up
  woken        \* history: <<a, transport>> whose session was woken

vars == <<settingVars, attempt, child, tracked, serverUp, ipc, sent, woken>>

NoChild == [life |-> "none", pending |-> "none", page |-> 0, waiter |-> "none",
            reply |-> "none", todo |-> "none", goal |-> "none", wire |-> <<>>,
            stray |-> 0]

NoIpc == [pending |-> "none", todo |-> "none", wire |-> <<>>, stray |-> 0]

Init ==
  /\ InitSelection
  /\ child = [a \in Attempts |-> NoChild] /\ tracked = {} /\ serverUp = TRUE
  /\ ipc = [a \in Attempts |-> NoIpc]
  /\ sent = {} /\ woken = {}

Prefix(s, n) == SubSeq(s, 1, n)
After(s, n)  == SubSeq(s, n + 1, Len(s))

-----------------------------------------------------------------------------
(* ClaudeMessagingWakeTransport.  A probe sends the line that authenticates,*)
(* a wake the message after it; no answer within a grace time is a yes.     *)

messagingRest == UNCHANGED <<settingVars, child, tracked, serverUp, ipc, woken>>

MessagingStarts(a) ==
  /\ Stands(a, "messaging", "start")
  /\ IF inherited THEN Moves(a, "connecting") ELSE Reports(a, "never")
  /\ UNCHANGED sent /\ messagingRest

Connects(a) ==
  /\ Stands(a, "messaging", "connecting")
  /\ Moves(a, "auth")
  /\ UNCHANGED sent /\ messagingRest

(* The callback of a write, in which the next line is written.              *)
LineWritten(a) ==
  /\ \/ /\ At(a, "messaging", "probe", "auth") \/ At(a, "messaging", "wake", "message")
        /\ Moves(a, "grace") /\ UNCHANGED sent
     \/ /\ At(a, "messaging", "wake", "auth")
        /\ Moves(a, "message") /\ sent' = sent \cup {<<a, "messaging">>}
  /\ messagingRest

(* A write that fails, or an error of the socket, whose first listener      *)
(* settles it as a failure to connect at any time.                          *)
SocketFails(a) ==
  /\ \E stage \in {"connecting", "auth", "message", "grace"} : Stands(a, "messaging", stage)
  /\ Reports(a, "unavailable")
  /\ UNCHANGED sent /\ messagingRest

ConnectTimesOut(a) ==
  /\ Stands(a, "messaging", "connecting")
  /\ Reports(a, "unavailable")
  /\ UNCHANGED sent /\ messagingRest

SocketCloses(a) ==
  /\ Stands(a, "messaging", "grace")
  /\ Reports(a, IF attempt[a].op = "wake" THEN "refused" ELSE "unavailable")
  /\ UNCHANGED sent /\ messagingRest

GraceEnds(a) ==
  /\ Stands(a, "messaging", "grace")
  /\ Reports(a, IF attempt[a].op = "wake" THEN "delivered" ELSE "available")
  /\ UNCHANGED sent /\ messagingRest

-----------------------------------------------------------------------------
(* AppServerGoalWakeTransport: the child, and its end.                      *)

appServerRest == UNCHANGED <<settingVars, serverUp, ipc, sent, woken>>

Becomes(a, c) == child' = [child EXCEPT ![a] = c]

Spawns(a) ==
  /\ Stands(a, "appServer", "start")
  /\ Becomes(a, [NoChild EXCEPT !.life = "up", !.pending = "initialize",
                                !.todo = "initialize"])
  /\ tracked' = tracked \cup {a}
  /\ Moves(a, "running")
  /\ appServerRest

SpawnFails(a) ==
  /\ Stands(a, "appServer", "start")
  /\ Reports(a, "unavailable")
  /\ UNCHANGED <<child, tracked>> /\ appServerRest

(* shutdownChild up to its first await.  reply is what the probe or the wake*)
(* returns when the child is gone, "none" when the wake has returned.       *)
AskedToEnd(c, reply) ==
  [c EXCEPT !.life = "asked", !.pending = "none", !.waiter = "none", !.reply = reply]

Kills(a) == child[a].life = "asked"

TermGraceEnds(a) ==
  /\ Kills(a)
  /\ Becomes(a, [child[a] EXCEPT !.life = "killed"])
  /\ UNCHANGED <<attempt, tracked>> /\ appServerRest

(* What an exit nobody asked for makes of the function that awaits.         *)
ReplyOnExit(c) ==
  CASE c.life # "up"                              -> c.reply
    [] c.life = "up" /\ c.pending # "none"        -> "unavailable"
    [] c.life = "up" /\ c.waiter = "started"      -> "refused"
    [] OTHER                                      -> "none"

ChildExits(a) ==
  /\ child[a].life # "none" /\ serverUp
  /\ Becomes(a, NoChild)
  /\ tracked' = tracked \ {a}
  /\ IF ReplyOnExit(child[a]) = "none" THEN UNCHANGED attempt
     ELSE Reports(a, ReplyOnExit(child[a]))
  /\ appServerRest

-----------------------------------------------------------------------------
(* The connection to the child.                                             *)

IsReply(m) == m \notin {"started", "completed", "startedElsewhere"}

Requesting(c, method, page) ==
  [c EXCEPT !.pending = method, !.todo = method, !.page = page]

(* What follows the reply r to the pending request: in a probe, pages of    *)
(* features until one names the goals; in a wake, the goal and its turn.    *)
OnReply(c, op, r) ==
  CASE c.pending = "initialize" /\ r = "ok" ->
         IF op = "probe" THEN Requesting(c, "list", 1) ELSE Requesting(c, "goal", 0)
    [] c.pending = "list" /\ r = "enabled" -> AskedToEnd(c, "available")
    [] c.pending = "list" /\ r = "more" /\ c.page < MAX_FEATURE_LIST_PAGES ->
         Requesting(c, "list", c.page + 1)
    [] c.pending = "goal" /\ r = "ok"    -> [c EXCEPT !.pending = "none", !.waiter = "started"]
    [] c.pending = "goal" /\ r = "error" -> AskedToEnd(c, "refused")
    [] OTHER                             -> AskedToEnd(c, "unavailable")

(* Fault: a turn of any thread is taken for the one that was asked for.     *)
MatchesAnyThread(waiter, m) ==
  m = waiter \/ (waiter = "started" /\ m = "startedElsewhere")

(* isNotificationForThread, with the method the waiter is for.              *)
Matches(waiter, m) == m = waiter

(* A chunk of n lines: a notification that nobody waits for yet is dropped, *)
(* also when the reply before it in the chunk is what the wait follows.     *)
StdoutData(a, n) ==
  LET c     == [child[a] EXCEPT !.wire = After(@, n)]
      lines == Prefix(child[a].wire, n)
      reply == {i \in 1 .. n : IsReply(lines[i])}
  IN  /\ child[a].life = "up"
      /\ \/ /\ c.pending # "none"
            /\ \E i \in reply : Becomes(a, OnReply(c, attempt[a].op, lines[i]))
            /\ UNCHANGED attempt
         \/ /\ c.waiter = "started"
            /\ \E i \in 1 .. n : Matches("started", lines[i])
            /\ Becomes(a, [c EXCEPT !.waiter = "completed"])
            /\ Reports(a, "delivered")
         \/ /\ c.waiter = "completed"
            /\ \E i \in 1 .. n : Matches("completed", lines[i])
            /\ Becomes(a, AskedToEnd(c, "none"))
            /\ UNCHANGED attempt
         \/ /\ c.pending # "none" => reply = {}
            /\ \A i \in 1 .. n : ~Matches(c.waiter, lines[i])
            /\ Becomes(a, c)
            /\ UNCHANGED attempt
      /\ UNCHANGED tracked /\ appServerRest

(* Fault: only the handshake is given a time.                               *)
RequestTimesOutOnce(a) ==
  /\ child[a].pending = "initialize"
  /\ Becomes(a, AskedToEnd(child[a], "unavailable"))
  /\ UNCHANGED <<attempt, tracked>> /\ appServerRest

RequestTimesOut(a) ==
  /\ child[a].pending # "none"
  /\ Becomes(a, AskedToEnd(child[a], "unavailable"))
  /\ UNCHANGED <<attempt, tracked>> /\ appServerRest

(* waitForNotification gives up: on the start of the turn, or, when         *)
(* maxSessionMs are over, on its end.                                       *)
WaitTimesOut(a) ==
  /\ child[a].waiter # "none"
  /\ Becomes(a, AskedToEnd(child[a], IF child[a].waiter = "started" THEN "refused"
                                     ELSE "none"))
  /\ UNCHANGED <<attempt, tracked>> /\ appServerRest

(* Fault: a child that was asked to end is left to that.                    *)
CrashSafetyHandlerTrusting(a) ==
  IF a \in tracked /\ child[a].life = "up" THEN "killed" ELSE child[a].life

(* The crash-safety handler, when the server exits for whatever reason.     *)
CrashSafetyHandler(a) == IF a \in tracked THEN "killed" ELSE child[a].life

ServerExits ==
  /\ serverUp' = FALSE
  /\ child' = [a \in Attempts |-> [child[a] EXCEPT !.life = CrashSafetyHandler(a)]]
  /\ UNCHANGED <<settingVars, attempt, tracked, ipc, sent, woken>>

-----------------------------------------------------------------------------
(* The app-server itself.                                                   *)

Running(a) == child[a].life \in {"up", "asked"}

Says(a, m) == [child[a] EXCEPT !.wire = Append(@, m)]

AppServerReplies(a) ==
  /\ Running(a) /\ child[a].todo # "none"
  /\ \E r \in CASE child[a].todo = "list" -> {"enabled", "disabled", "more", "error"}
                [] OTHER                  -> {"ok", "error"} :
       Becomes(a, [Says(a, r) EXCEPT !.todo = "none",
                                     !.goal = IF child[a].todo = "goal" /\ r = "ok"
                                              THEN "set" ELSE @])
  /\ UNCHANGED <<settingVars, attempt, tracked, serverUp, ipc, sent, woken>>

TurnStarts(a) ==
  /\ Running(a) /\ child[a].goal = "set"
  /\ Becomes(a, [Says(a, "started") EXCEPT !.goal = "turn"])
  /\ woken' = woken \cup {<<a, "appServer">>}
  /\ UNCHANGED <<settingVars, attempt, tracked, serverUp, ipc, sent>>

TurnCompletes(a) ==
  /\ Running(a) /\ child[a].goal = "turn"
  /\ Becomes(a, [Says(a, "completed") EXCEPT !.goal = "none"])
  /\ UNCHANGED <<settingVars, attempt, tracked, serverUp, ipc, sent, woken>>

OtherThreadStarts(a) ==
  /\ Running(a) /\ child[a].stray < MaxStray
  /\ Becomes(a, [Says(a, "startedElsewhere") EXCEPT !.stray = @ + 1])
  /\ UNCHANGED <<settingVars, attempt, tracked, serverUp, ipc, sent, woken>>

-----------------------------------------------------------------------------
(* DesktopIpcWakeTransport.                                                 *)

desktopRest == UNCHANGED <<settingVars, child, tracked, serverUp, woken>>

Carries(a, i) == ipc' = [ipc EXCEPT ![a] = i]

(* What the connection's owner reports is its last act: it is closed.       *)
Closes(a, what) == Carries(a, NoIpc) /\ Reports(a, what)

(* A probe first looks at the socket: there, a socket, and this user's own. *)
DesktopStarts(a) ==
  /\ \/ Stands(a, "desktop", "start") /\ Moves(a, "connecting")
     \/ At(a, "desktop", "probe", "start") /\ Reports(a, "unavailable")
  /\ UNCHANGED <<ipc, sent>> /\ desktopRest

Call(i, method) == [i EXCEPT !.pending = method, !.todo = method]

DesktopConnects(a) ==
  /\ Stands(a, "desktop", "connecting")
  /\ Moves(a, "calling")
  /\ Carries(a, Call(ipc[a], "initialize"))
  /\ UNCHANGED sent /\ desktopRest

(* The connect timer, the timer of a call; or, at any time, an error.       *)
DesktopTimesOut(a) ==
  /\ Stands(a, "desktop", "connecting") \/ Stands(a, "desktop", "calling")
  /\ Closes(a, "unavailable")
  /\ UNCHANGED sent /\ desktopRest

(* Fault: whatever frame comes is taken for the reply.                      *)
DispatchesAny(frame) == TRUE

Dispatches(frame) == frame.ours

OnFrame(a, i, r) ==
  CASE i.pending = "initialize" /\ r = "ok" /\ attempt[a].op = "probe" ->
         Closes(a, "available") /\ UNCHANGED sent
    [] i.pending = "initialize" /\ r = "ok" /\ attempt[a].op = "wake" ->
         Carries(a, Call(i, "discovery")) /\ UNCHANGED <<attempt, sent>>
    [] i.pending = "discovery" /\ r = "ok" ->
         /\ Carries(a, [i EXCEPT !.pending = "startTurn"])
         /\ sent' = sent \cup {<<a, "desktop">>}
         /\ UNCHANGED attempt
    [] i.pending = "startTurn" /\ r = "ok" -> Closes(a, "delivered") /\ UNCHANGED sent
    [] i.pending \in {"discovery", "startTurn"} /\ r = "noClient" ->
         Closes(a, "refused") /\ UNCHANGED sent
    [] OTHER -> Closes(a, "unavailable") /\ UNCHANGED sent

(* A chunk of n frames: one that is too long or does not parse makes the    *)
(* decoder throw, and the frames before it in the chunk are lost with it.   *)
DesktopData(a, n) ==
  LET i      == [ipc[a] EXCEPT !.wire = After(@, n)]
      frames == Prefix(ipc[a].wire, n)
      bad    == \E k \in 1 .. n : frames[k].says = "bad"
      ours   == {k \in 1 .. n : Dispatches(frames[k])}
  IN  /\ \/ bad /\ Closes(a, "unavailable") /\ UNCHANGED sent
         \/ /\ ~bad
            /\ \E k \in ours : (\A l \in ours : k <= l) /\ OnFrame(a, i, frames[k].says)
         \/ ~bad /\ ours = {} /\ Carries(a, i) /\ UNCHANGED <<attempt, sent>>
      /\ desktopRest

Frame(a, ours, r) == [ipc[a] EXCEPT !.wire = Append(@, [ours |-> ours, says |-> r])]

DesktopReplies(a) ==
  /\ ipc[a].todo # "none"
  /\ \E r \in {"ok", "noClient", "error"} :
       Carries(a, [Frame(a, TRUE, r) EXCEPT !.todo = "none"])
  /\ UNCHANGED <<attempt, sent>> /\ desktopRest

DesktopBroadcasts(a) ==
  /\ ipc[a].pending # "none" /\ ipc[a].stray < MaxStray
  /\ \E f \in {<<TRUE, "bad">>, <<FALSE, "noClient">>, <<FALSE, "ok">>} :
       Carries(a, [Frame(a, f[1], f[2]) EXCEPT !.stray = @ + 1])
  /\ UNCHANGED <<attempt, sent>> /\ desktopRest

-----------------------------------------------------------------------------
(* The sessions: one takes up what it was sent, or declines it, and the     *)
(* owner of a desktop conversation replies if it still can.                 *)

Answers(a, transport, r) ==
  IF transport = "desktop" /\ ipc[a].pending = "startTurn"
  THEN \E says \in r : Carries(a, Frame(a, TRUE, says)) ELSE UNCHANGED ipc

SessionTakesUp(a, transport) ==
  /\ <<a, transport>> \in sent
  /\ sent' = sent \ {<<a, transport>>}
  /\ woken' = woken \cup {<<a, transport>>}
  /\ Answers(a, transport, {"ok"})
  /\ UNCHANGED <<settingVars, attempt, child, tracked, serverUp>>

SessionDeclines(a, transport) ==
  /\ <<a, transport>> \in sent
  /\ sent' = sent \ {<<a, transport>>}
  /\ Answers(a, transport, {"noClient", "error"})
  /\ UNCHANGED <<settingVars, attempt, child, tracked, serverUp, woken>>

(* A killed child is gone also when the server is.                          *)
KilledChildGoes(a) ==
  /\ child[a].life = "killed" /\ ~serverUp
  /\ Becomes(a, NoChild)
  /\ UNCHANGED <<settingVars, attempt, tracked, serverUp, ipc, sent, woken>>

Starts(a) == MessagingStarts(a) \/ Spawns(a) \/ SpawnFails(a) \/ DesktopStarts(a)

TimersFire(a) ==
  \/ ConnectTimesOut(a) \/ GraceEnds(a) \/ TermGraceEnds(a) \/ RequestTimesOut(a)
  \/ WaitTimesOut(a) \/ DesktopTimesOut(a)

Wake(a) ==
  \/ Dispatch(a) /\ UNCHANGED <<settingVars, child, tracked, serverUp, ipc, sent, woken>>
  \/ Starts(a) \/ TimersFire(a)
  \/ Connects(a) \/ LineWritten(a) \/ SocketFails(a) \/ SocketCloses(a)
  \/ ChildExits(a) \/ \E n \in 1 .. Len(child[a].wire) : StdoutData(a, n)
  \/ DesktopConnects(a) \/ \E n \in 1 .. Len(ipc[a].wire) : DesktopData(a, n)

Others(a) ==
  \/ AppServerReplies(a) \/ TurnStarts(a) \/ TurnCompletes(a) \/ OtherThreadStarts(a)
  \/ DesktopReplies(a) \/ DesktopBroadcasts(a)
  \/ \E transport \in {"messaging", "desktop"} :
       SessionTakesUp(a, transport) \/ SessionDeclines(a, transport)

Next ==
  \/ serverUp /\ (ServerExits \/ \E a \in Attempts : Wake(a))
  \/ \E a \in Attempts : Others(a) \/ KilledChildGoes(a)

Spec == Init /\ [][Next]_vars

(* Timers fire, a line of a few bytes is written, and a child that is       *)
(* killed goes; nothing is assumed of who is on the other end.              *)
FairSpec ==
  /\ Spec
  /\ \A a \in Attempts :
       /\ WF_vars(serverUp /\ Starts(a)) /\ WF_vars(serverUp /\ TimersFire(a))
       /\ WF_vars(serverUp /\ LineWritten(a))
       /\ WF_vars(serverUp /\ child[a].life = "killed" /\ ChildExits(a))
       /\ WF_vars(KilledChildGoes(a))

-----------------------------------------------------------------------------
Settled(a) == attempt[a].stage = "settled"

(* A wake that is reported as delivered over a channel that answers did     *)
(* start a turn of the session it was addressed to.                         *)
DeliveryIsReal ==
  \A a \in Attempts : attempt[a].outcome = "delivered"
    => Transports[attempt[a].n] = "messaging"
         \/ <<a, Transports[attempt[a].n]>> \in woken

(* Where the desktop app refused, it neither woke the session nor will:     *)
(* the refusal is never the answer to something else.                       *)
DesktopRefusalIsFinal ==
  \A a \in Attempts : \A n \in DOMAIN attempt[a].log :
    Transports[n] = "desktop" /\ attempt[a].log[n].refused
      => <<a, "desktop">> \notin sent \cup woken

(* An attempt that says a wake can never work is right about every later    *)
(* one of the same job: none of its transports could serve one.             *)
PermanentStays ==
  \A a \in Attempts : attempt[a].permanent
    => ~inherited /\ \A n \in DOMAIN Transports : Transports[n] = "messaging"

(* What an attempt concludes from a failure, that the next transport may be *)
(* tried or that none ever will do, stays right.                            *)
ConclusionsHold == DesktopRefusalIsFinal /\ PermanentStays

(* When the server exits, at whatever moment of whatever probe, wake or     *)
(* supervision, no app-server is left to itself.                            *)
ExitLeavesNoChild == ~serverUp => \A a \in Attempts : child[a].life \in {"none", "killed"}

(* Every app-server ends, also one whose turn is never reported completed   *)
(* and one that ignores SIGTERM.                                            *)
EveryChildEnds == \A a \in Attempts : child[a].life # "none" ~> child[a].life = "none"

(* Every attempt settles, whatever the other ends do.                       *)
AttemptsSettle == \A a \in Attempts : attempt[a].n > 0 ~> Settled(a) \/ ~serverUp

(* Neither an attempt nor the app-server it started goes on for ever.       *)
WakesComeToAnEnd == AttemptsSettle /\ EveryChildEnds

(* selectAndWake's doc: "a later transport is only ever worth trying once   *)
(* an earlier one has conclusively failed to deliver for this specific      *)
(* attempt": one attempt wakes one session at most.                         *)
OneWakePerAttempt ==
  \A a \in Attempts : \A s, t \in {"messaging", "appServer", "desktop"} :
    {<<a, s>>, <<a, t>>} \subseteq woken => s = t

(* A delivery is real, and what is concluded of a failure stays right.      *)
AnswersStandUp == DeliveryIsReal /\ ConclusionsHold

=============================================================================
