---------------------------- MODULE EngineBridge ----------------------------
(***************************************************************************)
(* The bridge between the agent (client) and the engine (server): requests *)
(* and responses over a web socket, without anything in a response that    *)
(* says which request it answers.  The client hands the next message on    *)
(* the socket to every request that is waiting there; the engine answers   *)
(* the requests of a connection in the order they came.  A socket that     *)
(* closes is opened again after a pause, a limited number of times.        *)
(*                                                                         *)
(* Sources: src/brain/src/deepclaw-bridge/index.ts and                     *)
(* src/engine/crates/websocket-bridge/src/lib.rs.                          *)
(***************************************************************************)
EXTENDS Naturals, Sequences, FiniteSets

CONSTANTS
    Request,               \* calls of executeBash, readFile, ...
    KindOf,                \* the kind of response a request expects
    MaxSockets,            \* bound: sockets alive at a time
    maxReconnectAttempts,
    MaxStops,              \* bound: times the engine goes down
    MaxConnects,           \* bound: calls of connect by the caller
    MaxDisconnects,        \* bound: calls of disconnect
    NoRequest

ASSUME BridgeAssumption ==
    /\ MaxSockets \in Nat \ {0} /\ maxReconnectAttempts \in Nat
    /\ MaxStops \in Nat /\ MaxConnects \in Nat /\ MaxDisconnects \in Nat
    /\ DOMAIN KindOf = Request /\ NoRequest \notin Request
    /\ Request \cap (1..MaxSockets) = {}

Socket == 1..MaxSockets
NoSocket == 0

VARIABLES
    ws,                  \* the current socket of the client
    sock,                \* "none", "connecting", "open", "closing" or "closed"
    reconnectAttempts,
    timers,              \* reconnect timers that are running
    req,                 \* the promise of a request
    on,                  \* the socket a request waits on
    toEngine, fromEngine,
    engineUp, stops,
    connects, disconnects, \* calls by the caller
    (* History.                                                            *)
    answer,              \* the request whose response a request was given
    mixed                \* sockets on which two requests have waited at a time,
                         \* and requests that were answered on one of them

vars == <<ws, sock, reconnectAttempts, timers, req, on, toEngine, fromEngine,
          engineUp, stops, connects, disconnects, answer, mixed>>

(* The states of the bridge.                                               *)
TypeOK ==
    /\ ws \in Socket \cup {NoSocket}
    /\ sock \in [Socket -> {"none", "connecting", "open", "closing", "closed"}]
    /\ reconnectAttempts \in 0..maxReconnectAttempts
    /\ timers \in Nat
    /\ req \in [Request -> {"idle", "waiting", "resolved", "rejected", "stranded"}]
    /\ on \in [Request -> Socket \cup {NoSocket}]
    /\ toEngine \in [Socket -> Seq(Request)] /\ fromEngine \in [Socket -> Seq(Request)]
    /\ engineUp \in BOOLEAN /\ stops \in 0..MaxStops
    /\ connects \in 0..MaxConnects /\ disconnects \in 0..MaxDisconnects
    /\ answer \in [Request -> Request \cup {NoRequest}]
    /\ mixed \subseteq Socket \cup Request

Init ==
    /\ ws = NoSocket /\ sock = [s \in Socket |-> "none"]
    /\ reconnectAttempts = 0 /\ timers = 0
    /\ req = [r \in Request |-> "idle"] /\ on = [r \in Request |-> NoSocket]
    /\ toEngine = [s \in Socket |-> <<>>] /\ fromEngine = [s \in Socket |-> <<>>]
    /\ engineUp \in BOOLEAN /\ stops = 0 /\ connects = 0 /\ disconnects = 0
    /\ answer = [r \in Request |-> NoRequest] /\ mixed = {}

Waiting(s) == {r \in Request : req[r] = "waiting" /\ on[r] = s}
Alive(s) == sock[s] \in {"connecting", "open", "closing"}

Online == ws # NoSocket /\ sock[ws] = "open"

messages == <<toEngine, fromEngine>>
requests == <<req, on, answer, mixed>>
calls == <<connects, disconnects>>
environment == <<engineUp, stops, calls>>

-----------------------------------------------------------------------------
(* Connections.                                                            *)

(* A new socket takes the place of the one before.                         *)
NewSocket ==
    \E s \in Socket :
        /\ ~Alive(s) /\ s # ws /\ \A t \in 1..(s - 1) : Alive(t) \/ t = ws
        /\ sock' = [sock EXCEPT ![s] = "connecting"]
        /\ ws' = s

(* The caller may connect whenever it likes: nothing asks whether there is *)
(* a socket or a pause already, and a caller whose connect was rejected    *)
(* may well try again while the close event has started a pause.           *)
connect ==
    /\ connects < MaxConnects
    /\ connects' = connects + 1
    /\ NewSocket
    /\ UNCHANGED <<reconnectAttempts, timers, messages, requests, engineUp, stops, disconnects>>

Opened(s) ==
    /\ sock[s] = "connecting" /\ engineUp
    /\ sock' = [sock EXCEPT ![s] = "open"]
    /\ reconnectAttempts' = 0
    /\ UNCHANGED <<ws, timers, messages, requests, environment>>

(* Mutant: the pause is not started.                                       *)
attemptReconnect_NoTimer ==
    /\ reconnectAttempts' = IF reconnectAttempts < maxReconnectAttempts
                            THEN reconnectAttempts + 1 ELSE reconnectAttempts
    /\ UNCHANGED timers

(* Mutant: the pause is started twice, on the error and on the close.      *)
attemptReconnect_Twice ==
    IF reconnectAttempts >= maxReconnectAttempts
    THEN UNCHANGED <<reconnectAttempts, timers>>
    ELSE /\ reconnectAttempts' = reconnectAttempts + 1
         /\ timers' = IF timers + 2 <= MaxSockets THEN timers + 2 ELSE timers

attemptReconnect ==
    IF reconnectAttempts >= maxReconnectAttempts
    THEN UNCHANGED <<reconnectAttempts, timers>>
    ELSE /\ reconnectAttempts' = reconnectAttempts + 1
         /\ timers' = timers + 1

(* The close event, of whichever socket and for whatever reason.  Nobody   *)
(* tells the requests that wait there.                                     *)
Closed(s) ==
    /\ sock' = [sock EXCEPT ![s] = "closed"]
    /\ attemptReconnect
    /\ req' = [r \in Request |-> IF r \in Waiting(s) THEN "stranded" ELSE req[r]]
    /\ on' = [r \in Request |-> IF on[r] = s THEN NoSocket ELSE on[r]]
    /\ toEngine' = [toEngine EXCEPT ![s] = <<>>]
    /\ fromEngine' = [fromEngine EXCEPT ![s] = <<>>]
    /\ mixed' = mixed \ {s}
    /\ UNCHANGED <<ws, answer>>

(* A connection is refused, the engine goes away, or a close handshake     *)
(* completes.                                                              *)
CloseEvent(s) ==
    /\ sock[s] = "closing" \/ (sock[s] \in {"connecting", "open"} /\ ~engineUp)
    /\ Closed(s)
    /\ UNCHANGED environment

ReconnectTimer ==
    /\ timers > 0
    /\ timers' = timers - 1
    /\ NewSocket
    /\ UNCHANGED <<reconnectAttempts, messages, requests, environment>>

(* The socket closes on its own time; its close event starts a reconnect   *)
(* like any other.                                                         *)
disconnect ==
    /\ ws # NoSocket /\ disconnects < MaxDisconnects
    /\ disconnects' = disconnects + 1
    /\ sock' = [sock EXCEPT ![ws] = IF Alive(ws) THEN "closing" ELSE @]
    /\ ws' = NoSocket
    /\ UNCHANGED <<reconnectAttempts, timers, messages, requests, engineUp, stops, connects>>

-----------------------------------------------------------------------------
(* Requests.                                                               *)

sendRequest(r) ==
    /\ req[r] = "idle" /\ Online
    /\ req' = [req EXCEPT ![r] = "waiting"]
    /\ on' = [on EXCEPT ![r] = ws]
    /\ toEngine' = [toEngine EXCEPT ![ws] = Append(@, r)]
    /\ mixed' = IF Waiting(ws) # {} THEN mixed \cup {ws} ELSE mixed
    /\ UNCHANGED <<ws, sock, reconnectAttempts, timers, fromEngine, environment, answer>>

SendRefused(r) ==
    /\ req[r] = "idle" /\ ~Online
    /\ req' = [req EXCEPT ![r] = "rejected"]
    /\ UNCHANGED <<ws, sock, reconnectAttempts, timers, on, messages, environment, answer, mixed>>

(* The engine handles the requests of a connection one by one.             *)
handle_request(s) ==
    /\ toEngine[s] # <<>> /\ engineUp
    /\ toEngine' = [toEngine EXCEPT ![s] = Tail(@)]
    /\ fromEngine' = [fromEngine EXCEPT ![s] = Append(@, Head(toEngine[s]))]
    /\ UNCHANGED <<ws, sock, reconnectAttempts, timers, requests, environment>>

(* Mutant: a request may be answered by a response to another socket.      *)
Message_AnySocket(s) ==
    LET m == Head(fromEngine[s])
        given == {r \in Request : req[r] = "waiting"}
    IN  /\ fromEngine[s] # <<>>
        /\ fromEngine' = [fromEngine EXCEPT ![s] = Tail(@)]
        /\ req' = [r \in Request |-> IF r \notin given THEN req[r]
                                     ELSE IF KindOf[r] = KindOf[m] THEN "resolved" ELSE "rejected"]
        /\ answer' = [r \in Request |-> IF r \in given THEN m ELSE answer[r]]
        /\ on' = [r \in Request |-> IF r \in given THEN NoSocket ELSE on[r]]
        /\ mixed' = IF s \in mixed THEN mixed \cup given ELSE mixed
        /\ UNCHANGED <<ws, sock, reconnectAttempts, timers, toEngine, environment>>

(* A message is given to all requests that wait on the socket; one that    *)
(* expects another kind of response throws.                                *)
Message(s) ==
    LET m == Head(fromEngine[s])
        given == Waiting(s)
    IN  /\ fromEngine[s] # <<>>
        /\ fromEngine' = [fromEngine EXCEPT ![s] = Tail(@)]
        /\ req' = [r \in Request |-> IF r \notin given THEN req[r]
                                     ELSE IF KindOf[r] = KindOf[m] THEN "resolved" ELSE "rejected"]
        /\ answer' = [r \in Request |-> IF r \in given THEN m ELSE answer[r]]
        /\ on' = [r \in Request |-> IF r \in given THEN NoSocket ELSE on[r]]
        /\ mixed' = IF s \in mixed THEN mixed \cup given ELSE mixed
        /\ UNCHANGED <<ws, sock, reconnectAttempts, timers, toEngine, environment>>

-----------------------------------------------------------------------------
(* The engine process.                                                     *)

EngineStops ==
    /\ engineUp /\ stops < MaxStops
    /\ engineUp' = FALSE /\ stops' = stops + 1
    /\ UNCHANGED <<ws, sock, reconnectAttempts, timers, messages, requests, calls>>

EngineStarts ==
    /\ ~engineUp /\ \A s \in Socket : sock[s] # "open"
    /\ engineUp' = TRUE
    /\ UNCHANGED <<ws, sock, reconnectAttempts, timers, messages, requests, stops, calls>>

Next ==
    \/ connect \/ disconnect \/ ReconnectTimer \/ EngineStops \/ EngineStarts
    \/ \E s \in Socket : Opened(s) \/ CloseEvent(s) \/ handle_request(s) \/ Message(s)
    \/ \E r \in Request : sendRequest(r) \/ SendRefused(r)

(* Sockets open or close, timers fire, the engine answers and messages     *)
(* arrive.  The engine need not come back.  That a handshake ends assumes  *)
(* that no other peer of the engine stays silent in its own: the engine    *)
(* accepts one connection at a time.                                       *)
Fairness ==
    /\ WF_vars(ReconnectTimer)
    /\ \A s \in Socket : /\ WF_vars(Opened(s) \/ CloseEvent(s))
                         /\ WF_vars(handle_request(s)) /\ WF_vars(Message(s))

Spec == Init /\ [][Next]_vars
FairSpec == Spec /\ Fairness

-----------------------------------------------------------------------------
(* Correctness.                                                            *)

(* A request is resolved with the response to another one only on a socket *)
(* on which two requests have waited at the same time: sent one after the  *)
(* other, requests get their own responses, across reconnects too.         *)
OwnAnswer == \A r \in Request : req[r] = "resolved" => answer[r] = r \/ r \in mixed

(* A chain is a socket or the pause before the next one.  Only a call of   *)
(* connect starts one: however often connections are refused or lost and   *)
(* whenever the caller disconnects, reconnects only carry the chains on.   *)
(* A caller that connects once has one connection.                         *)
ChainPerConnect ==
    timers + Cardinality({s \in Socket : Alive(s)}) <= connects

(* For a caller that connected once, the connection comes back, even from  *)
(* a disconnect, unless the engine goes down again or all attempts have    *)
(* been used up.  With a second chain the socket that opens need not be    *)
(* the one the bridge sends on.                                            *)
ConnectionComesBack ==
    (ws # NoSocket /\ engineUp /\ connects = 1) ~>
        (Online \/ ~engineUp \/ reconnectAttempts = maxReconnectAttempts \/ connects > 1)

=============================================================================
