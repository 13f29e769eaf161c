--------------------------- MODULE ServerRequests ---------------------------
(***************************************************************************)
(* What the server does with a tools/call request around its handler: the   *)
(* handshake gate, and the cancellations, which it tracks beside the SDK     *)
(* because the SDK drops the one of a request whose id is 0 or "".           *)
(*                                                                         *)
(* All messages of one chunk are dispatched before the first handler runs:  *)
(* the SDK starts handlers in microtasks.                                   *)
(***************************************************************************)
EXTENDS Integers, FiniteSets

CONSTANTS
  Ids,                \* ids of the requests a client makes, each used once
  MAX_PENDING_EARLY_CANCELLATIONS

(* A JSON-RPC id: its type and its text.                                    *)
ASSUME IdsAssumption ==
  /\ IsFiniteSet(Ids) /\ Ids \subseteq {"n", "s"} \X STRING
  /\ MAX_PENDING_EARLY_CANCELLATIONS \in Nat

VARIABLES
  negotiation,        \* the initialize request: "none", "pending", "done"
  initialized,        \* receivedInitializedNotification
  arrived,            \* requests dispatched whose handler has not run yet
  sdkAborted,         \* requests whose controller in the SDK is aborted
  controllers,        \* keys of requestCancellationControllers
  earlyCancellations, \* its keys
  inFlight            \* history: unanswered requests that were cancelled in time

requestVars == <<negotiation, initialized, arrived, sdkAborted, controllers,
                 earlyCancellations, inFlight>>

RequestsInit ==
  /\ \/ negotiation = "none" /\ initialized = FALSE
     \/ negotiation = "done" /\ initialized = TRUE       \* the 2026 era
  /\ arrived = {} /\ sdkAborted = {} /\ controllers = {} /\ earlyCancellations = {}
  /\ inFlight = {}

(* Fault: the key is the id as a property name, whatever its type.          *)
CancellationKeyUntagged(id) == <<id[2]>>

(* The tag of the id's type, then its text.                                 *)
cancellationKey(id) == <<id[1], ":", id[2]>>

IsFalsy(id) == id \in {<<"n", "0">>, <<"s", "">>}

-----------------------------------------------------------------------------
(* The handshake.  A rejected initialize may be followed by another.        *)

handshakeRest == UNCHANGED <<arrived, sdkAborted, controllers, earlyCancellations,
                             inFlight>>

InitializeArrives ==
  /\ negotiation = "none" /\ negotiation' = "pending"
  /\ UNCHANGED initialized /\ handshakeRest

InitializeAnswered ==
  /\ negotiation = "pending" /\ negotiation' \in {"done", "none"}
  /\ UNCHANGED initialized /\ handshakeRest

InitializedArrives ==
  /\ ~initialized /\ initialized' = TRUE
  /\ UNCHANGED negotiation /\ handshakeRest

isInitializedForToolCalls == negotiation = "done" /\ initialized

-----------------------------------------------------------------------------
RequestArrives(id) ==
  /\ id \notin arrived
  /\ arrived' = arrived \cup {id}
  /\ UNCHANGED <<negotiation, initialized, sdkAborted, controllers, earlyCancellations,
                 inFlight>>

(* The handler's signal is aborted before the handler is called.            *)
AbortedAtStart(id) == id \in sdkAborted \/ cancellationKey(id) \in earlyCancellations

(* The handler of tools/call up to the tool's first await, or to its end.   *)
HandlerStarts(id, waits) ==
  /\ id \in arrived
  /\ arrived' = arrived \ {id}
  /\ IF isInitializedForToolCalls
     THEN /\ earlyCancellations' = earlyCancellations \ {cancellationKey(id)}
          /\ controllers' = IF waits THEN controllers \cup {cancellationKey(id)} ELSE controllers
     ELSE UNCHANGED <<earlyCancellations, controllers>>
  /\ sdkAborted' = sdkAborted \ {id}
  /\ inFlight' = IF waits THEN inFlight ELSE inFlight \ {id}
  /\ UNCHANGED <<negotiation, initialized>>

HandlerEnds(id) ==
  /\ controllers' = controllers \ {cancellationKey(id)}
  /\ inFlight' = inFlight \ {id}
  /\ UNCHANGED <<negotiation, initialized, arrived, sdkAborted, earlyCancellations>>

HasRoom == Cardinality(earlyCancellations) < MAX_PENDING_EARLY_CANCELLATIONS

(* applyCancellation: without a controller it is recorded, up to a bound.   *)
Records(id) == cancellationKey(id) \notin controllers /\ HasRoom

(* A cancellation of a request that was sent; running: its handler waits.   *)
(* With the map full, only the SDK's own controller is left to a request    *)
(* whose handler has not started.                                           *)
CancelArrives(id, running) ==
  /\ sdkAborted' = IF id \in arrived /\ ~IsFalsy(id) THEN sdkAborted \cup {id} ELSE sdkAborted
  /\ earlyCancellations' = IF Records(id) THEN earlyCancellations \cup {cancellationKey(id)}
                           ELSE earlyCancellations
  /\ inFlight' = IF running \/ (id \in arrived /\ (HasRoom \/ ~IsFalsy(id)))
                 THEN inFlight \cup {id} ELSE inFlight
  /\ UNCHANGED <<negotiation, initialized, arrived, controllers>>

=============================================================================
