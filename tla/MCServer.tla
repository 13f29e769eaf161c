------------------------------ MODULE MCServer ------------------------------
(***************************************************************************)
(* Between a client and a job's output, checked side by side: the lines on  *)
(* the server's wire, the follow calls of a connection, and the buffer one  *)
(* stream of a job fills.  A behaviour is of one of them, and the others    *)
(* stand where they start.                                                  *)
(***************************************************************************)
EXTENDS ServerWire, FollowSession, StreamBuffer

-----------------------------------------------------------------------------
(* What ServerWire is checked with.                                        *)

Garbage == [kind |-> "garbage"]
Bad     == [kind |-> "bad"]

Asks(id, method, era) ==
  [kind |-> "request", id |-> <<"n", id>>, method |-> method, era |-> era, valid |-> id # "9"]
Cancelled(id, era) ==
  [kind |-> "notification", method |-> "cancelled", requestId |-> <<"n", id>>, era |-> era]
Initialized == [kind |-> "notification", method |-> "initialized", era |-> "legacy"]

MCScripts ==
  {<<Asks("0", "initialize", "legacy"), Initialized, Asks("1", "tools/call", "legacy")>>,
   <<Asks("1", "initialize", "legacy"), Garbage, Asks("2", "tools/call", "legacy")>>,
   <<Bad, Asks("1", "tasks/get", "legacy"), Cancelled("1", "legacy")>>,
   <<Asks("1", "tools/call", "modern"), Asks("2", "tasks/cancel", "modern"),
     Cancelled("2", "modern")>>,
   <<Asks("9", "tasks/get", "modern"), Garbage, Asks("1", "tools/call", "modern")>>,
   <<Asks("0", "tools/call", "modern"), Cancelled("0", "modern"), Bad>>}

-----------------------------------------------------------------------------
(* What FollowSession is checked with.                                     *)

MCIds == {<<"n", "0">>, <<"s", "0">>}

-----------------------------------------------------------------------------
VARIABLE part

connectionVars == <<part, srvVars, vars, streamVars>>

ConnectionInit ==
  /\ part \in {"wire", "follow", "buffer"}
  /\ ServerInit /\ Init /\ BufferInit
  /\ part # "wire" => script = CHOOSE s \in MCScripts : TRUE
  /\ part # "follow" => negotiation = "none"

OnWire(A)   == part = "wire" /\ A /\ UNCHANGED <<part, vars, streamVars>>
InFollow(A) == part = "follow" /\ A /\ UNCHANGED <<part, srvVars, streamVars>>
InBuffer(A) == part = "buffer" /\ A /\ UNCHANGED <<part, srvVars, vars>>

WireMoves ==
  \/ OnWire(ClientWrites) \/ OnWire(ClientCloses) \/ OnWire(StdinData) \/ OnWire(Dispatch)
  \/ OnWire(InterceptedAnswers) \/ OnWire(HandlerAnswers)
  \/ OnWire(Signalled) \/ OnWire(StdinEnds) \/ OnWire(Reaped) \/ OnWire(Exits)

FollowMoves ==
  \/ \E id \in Ids : InFollow(Request(id)) \/ InFollow(Cancel(id)) \/ InFollow(Starts(id))
  \/ /\ arrived = {}
     /\ \/ InFollow(Handshake) \/ InFollow(JobGoesOn)
        \/ \E id \in Ids : InFollow(Returns(id)) \/ InFollow(TimesOut(id))

BufferMoves ==
  \/ \E chunk \in Chunks : InBuffer(AppendChunk(chunk))
  \/ InBuffer(FinalizeStream) \/ InBuffer(EvictAllLines) \/ InBuffer(LateChunk)

ConnectionNext == WireMoves \/ FollowMoves \/ BufferMoves

(* The fairness of FollowSession, if it is the one that moves.              *)
ConnectionSpec ==
  /\ ConnectionInit /\ [][ConnectionNext]_connectionVars
  /\ \A id \in Ids :
       /\ WF_vars(InFollow(Starts(id)))
       /\ WF_vars(InFollow(arrived = {} /\ (Returns(id) \/ TimesOut(id))))

=============================================================================
