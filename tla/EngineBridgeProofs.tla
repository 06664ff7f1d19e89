------------------------- MODULE EngineBridgeProofs -------------------------
(***************************************************************************)
(* Theorems about the engine bridge, for any number of requests, sockets,  *)
(* reconnect attempts, calls of the caller and stops of the engine.        *)
(***************************************************************************)
EXTENDS EngineBridge, FiniteSetTheorems, TLAPS

AliveSockets == {s \in Socket : Alive(s)}

(* On a socket where requests have not overlapped, nothing is under way,   *)
(* or one request waits and its message, in either direction, is the only  *)
(* one.                                                                    *)
OneInFlight(s) ==
    \/ Waiting(s) = {} /\ toEngine[s] = <<>> /\ fromEngine[s] = <<>>
    \/ \E r \in Request :
          /\ Waiting(s) = {r}
          /\ \/ toEngine[s] = <<r>> /\ fromEngine[s] = <<>>
             \/ toEngine[s] = <<>> /\ fromEngine[s] = <<r>>

FlightInv == \A s \in Socket : s \in mixed \/ OneInFlight(s)

IInv == TypeOK /\ OwnAnswer /\ FlightInv /\ ChainPerConnect

-----------------------------------------------------------------------------
(* Sockets are finitely many, and opening or closing one counts.           *)
LEMMA AliveFinite ==
    ASSUME NEW T \in SUBSET Socket
    PROVE  IsFiniteSet(T) /\ Cardinality(T) \in Nat
<1>1. IsFiniteSet(Socket)
  BY FS_Interval, BridgeAssumption DEF Socket
<1> QED
  BY <1>1, FS_Subset, FS_CardinalityType

LEMMA OpenCounts ==
    ASSUME NEW s \in Socket, ~Alive(s), AliveSockets' = AliveSockets \cup {s}
    PROVE  Cardinality(AliveSockets') = Cardinality(AliveSockets) + 1
<1>1. s \notin AliveSockets /\ AliveSockets \in SUBSET Socket
  BY DEF AliveSockets
<1> QED
  BY <1>1, AliveFinite, FS_AddElement

LEMMA CloseCounts ==
    ASSUME NEW s \in Socket, Alive(s), AliveSockets' = AliveSockets \ {s}
    PROVE  /\ Cardinality(AliveSockets') = Cardinality(AliveSockets) - 1
           /\ Cardinality(AliveSockets) \in Nat \ {0}
<1>1. s \in AliveSockets /\ AliveSockets \in SUBSET Socket
  BY DEF AliveSockets
<1>2. /\ IsFiniteSet(AliveSockets)
      /\ Cardinality(AliveSockets \ {s}) = Cardinality(AliveSockets) - 1
  BY <1>1, AliveFinite, FS_RemoveElement
<1>3. Cardinality(AliveSockets) # 0
  BY <1>1, <1>2, FS_EmptySet
<1> QED
  BY <1>1, <1>2, <1>3, AliveFinite

-----------------------------------------------------------------------------
(* The initial state.                                                      *)
LEMMA InitInv == Init => IInv
<1> SUFFICES ASSUME Init PROVE IInv
  OBVIOUS
<1>1. TypeOK
  BY BridgeAssumption DEF Init, TypeOK
<1>2. OwnAnswer
  BY DEF Init, OwnAnswer
<1>3. FlightInv
  BY DEF Init, FlightInv, OneInFlight, Waiting
<1>4. ChainPerConnect
  <2>1. AliveSockets = {}
    BY DEF Init, AliveSockets, Alive
  <2>2. ChainPerConnect <=> timers + Cardinality(AliveSockets) <= connects
    BY DEF ChainPerConnect, AliveSockets
  <2> QED
    BY <2>1, <2>2, FS_EmptySet DEF Init
<1> QED
  BY <1>1, <1>2, <1>3, <1>4 DEF IInv

-----------------------------------------------------------------------------
(* Types.                                                                  *)
LEMMA TypeStep == TypeOK /\ [Next]_vars => TypeOK'
<1> SUFFICES ASSUME TypeOK, [Next]_vars PROVE TypeOK'
  OBVIOUS
<1> USE DEF TypeOK, messages, requests, environment, calls
<1>1. CASE connect
  <2>1. connects' \in 0..MaxConnects
    BY <1>1, BridgeAssumption DEF connect
  <2> QED
    BY <1>1, <2>1 DEF connect, NewSocket
<1>2. CASE disconnect
  BY <1>2, BridgeAssumption DEF disconnect
<1>3. CASE ReconnectTimer
  BY <1>3 DEF ReconnectTimer, NewSocket
<1>4. CASE EngineStops
  <2>1. stops' \in 0..MaxStops
    BY <1>4, BridgeAssumption DEF EngineStops
  <2> QED
    BY <1>4, <2>1 DEF EngineStops
<1>5. CASE EngineStarts
  BY <1>5 DEF EngineStarts
<1>6. ASSUME NEW s \in Socket, Opened(s) PROVE TypeOK'
  BY <1>6, BridgeAssumption DEF Opened
<1>7. ASSUME NEW s \in Socket, CloseEvent(s) PROVE TypeOK'
  <2>1. reconnectAttempts' \in 0..maxReconnectAttempts /\ timers' \in Nat
    BY <1>7, BridgeAssumption DEF CloseEvent, Closed, attemptReconnect
  <2>2. toEngine' \in [Socket -> Seq(Request)] /\ fromEngine' \in [Socket -> Seq(Request)]
    BY <1>7 DEF CloseEvent, Closed
  <2>3. /\ req' \in [Request -> {"idle", "waiting", "resolved", "rejected", "stranded"}]
        /\ on' \in [Request -> Socket \cup {NoSocket}]
    BY <1>7 DEF CloseEvent, Closed
  <2> QED
    BY <1>7, <2>1, <2>2, <2>3 DEF CloseEvent, Closed
<1>8. ASSUME NEW s \in Socket, handle_request(s) PROVE TypeOK'
  <2>1. Head(toEngine[s]) \in Request /\ Tail(toEngine[s]) \in Seq(Request)
    BY <1>8 DEF handle_request
  <2>2. toEngine' \in [Socket -> Seq(Request)] /\ fromEngine' \in [Socket -> Seq(Request)]
    BY <1>8, <2>1 DEF handle_request
  <2> QED
    BY <1>8, <2>2 DEF handle_request
<1>9. ASSUME NEW s \in Socket, Message(s) PROVE TypeOK'
  <2>1. Head(fromEngine[s]) \in Request /\ Tail(fromEngine[s]) \in Seq(Request)
    BY <1>9 DEF Message
  <2>2. fromEngine' \in [Socket -> Seq(Request)]
    BY <1>9, <2>1 DEF Message
  <2>3. /\ req' \in [Request -> {"idle", "waiting", "resolved", "rejected", "stranded"}]
        /\ answer' \in [Request -> Request \cup {NoRequest}]
        /\ on' \in [Request -> Socket \cup {NoSocket}]
    BY <1>9, <2>1 DEF Message
  <2>4. mixed' \subseteq Socket \cup Request
    BY <1>9 DEF Message, Waiting
  <2> QED
    BY <1>9, <2>2, <2>3, <2>4 DEF Message
<1>10. ASSUME NEW r \in Request, sendRequest(r) PROVE TypeOK'
  <2>1. ws \in Socket
    BY <1>10 DEF sendRequest, Online
  <2>2. Append(toEngine[ws], r) \in Seq(Request)
    BY <2>1
  <2>3. toEngine' \in [Socket -> Seq(Request)]
    BY <1>10, <2>2 DEF sendRequest
  <2>4. mixed' \subseteq Socket \cup Request
    BY <1>10, <2>1 DEF sendRequest
  <2> QED
    BY <1>10, <2>1, <2>3, <2>4 DEF sendRequest
<1>11. ASSUME NEW r \in Request, SendRefused(r) PROVE TypeOK'
  BY <1>11 DEF SendRefused
<1>12. CASE UNCHANGED vars
  BY <1>12 DEF vars
<1> QED
  BY <1>1, <1>2, <1>3, <1>4, <1>5, <1>6, <1>7, <1>8, <1>9, <1>10, <1>11, <1>12 DEF Next

-----------------------------------------------------------------------------
(* Sockets and pauses.                                                     *)

(* A new socket is one more.                                               *)
LEMMA NewSocketCounts ==
    ASSUME TypeOK, NewSocket
    PROVE  /\ ws' \in Socket
           /\ Cardinality(AliveSockets') = Cardinality(AliveSockets) + 1
<1>1. PICK s \in Socket : /\ ~Alive(s) /\ ws' = s
                          /\ sock' = [sock EXCEPT ![s] = "connecting"]
  BY DEF NewSocket
<1>2. AliveSockets' = AliveSockets \cup {s}
  BY <1>1 DEF AliveSockets, Alive, TypeOK
<1> QED
  BY <1>1, <1>2, OpenCounts

LEMMA ChainStep == TypeOK /\ ChainPerConnect /\ [Next]_vars => ChainPerConnect'
<1> SUFFICES ASSUME TypeOK, ChainPerConnect, [Next]_vars PROVE ChainPerConnect'
  OBVIOUS
<1>0. /\ Cardinality(AliveSockets) \in Nat /\ timers \in Nat /\ connects \in Nat
  BY AliveFinite, BridgeAssumption DEF AliveSockets, TypeOK
<1>b. ChainPerConnect <=> timers + Cardinality(AliveSockets) <= connects
  BY DEF ChainPerConnect, AliveSockets
<1>c. ChainPerConnect' <=> timers' + Cardinality(AliveSockets') <= connects'
  BY DEF ChainPerConnect, AliveSockets
<1> USE <1>0, <1>b, <1>c DEF messages, requests, environment, calls
<1>1. CASE connect
  BY <1>1, NewSocketCounts DEF connect
<1>2. CASE disconnect
  <2>1. AliveSockets' = AliveSockets
    BY <1>2 DEF disconnect, AliveSockets, Alive, TypeOK
  <2> QED
    BY <1>2, <2>1 DEF disconnect
<1>3. CASE ReconnectTimer
  BY <1>3, NewSocketCounts DEF ReconnectTimer
<1>4. ASSUME NEW s \in Socket, Opened(s) PROVE ChainPerConnect'
  <2>1. AliveSockets' = AliveSockets
    BY <1>4 DEF Opened, AliveSockets, Alive, TypeOK
  <2> QED
    BY <1>4, <2>1 DEF Opened
<1>5. ASSUME NEW s \in Socket, CloseEvent(s) PROVE ChainPerConnect'
  <2>1. Alive(s)
    BY <1>5 DEF CloseEvent, Alive
  <2>2. AliveSockets' = AliveSockets \ {s}
    BY <1>5 DEF CloseEvent, Closed, AliveSockets, Alive, TypeOK
  <2>3. Cardinality(AliveSockets') = Cardinality(AliveSockets) - 1
    BY <2>1, <2>2, CloseCounts
  <2>4. timers' = timers \/ timers' = timers + 1
    BY <1>5 DEF CloseEvent, Closed, attemptReconnect
  <2>5. connects' = connects
    BY <1>5 DEF CloseEvent
  <2> QED
    BY <2>3, <2>4, <2>5
<1>6. CASE UNCHANGED <<sock, timers, connects>>
  <2>1. AliveSockets' = AliveSockets
    BY <1>6 DEF AliveSockets, Alive
  <2> QED
    BY <1>6, <2>1
<1>7. CASE \/ EngineStops \/ EngineStarts
           \/ \E s \in Socket : handle_request(s) \/ Message(s)
           \/ \E r \in Request : sendRequest(r) \/ SendRefused(r)
  BY <1>6, <1>7 DEF EngineStops, EngineStarts, handle_request, Message, sendRequest, SendRefused
<1>8. CASE UNCHANGED vars
  BY <1>6, <1>8 DEF vars
<1> QED
  BY <1>1, <1>2, <1>3, <1>4, <1>5, <1>7, <1>8 DEF Next

-----------------------------------------------------------------------------
(* What is under way on a socket.                                          *)

(* Nothing about a socket changed.                                         *)
LEMMA FlightKept ==
    ASSUME NEW s \in Socket, s \in mixed \/ OneInFlight(s),
           s \in mixed => s \in mixed', Waiting(s)' = Waiting(s),
           toEngine'[s] = toEngine[s], fromEngine'[s] = fromEngine[s]
    PROVE  s \in mixed' \/ OneInFlight(s)'
BY DEF OneInFlight

LEMMA FlightStep == TypeOK /\ FlightInv /\ [Next]_vars => FlightInv'
<1> SUFFICES ASSUME TypeOK, FlightInv, [Next]_vars, NEW t \in Socket
             PROVE  t \in mixed' \/ OneInFlight(t)'
  BY DEF FlightInv
<1>0. t \in mixed \/ OneInFlight(t)
  BY DEF FlightInv
<1>1. CASE UNCHANGED <<req, on, toEngine, fromEngine, mixed>>
  BY <1>0, <1>1, FlightKept DEF Waiting
<1>2. ASSUME NEW r \in Request, SendRefused(r) PROVE t \in mixed' \/ OneInFlight(t)'
  <2>1. Waiting(t)' = Waiting(t)
    BY <1>2 DEF SendRefused, Waiting, TypeOK
  <2> QED
    BY <1>0, <1>2, <2>1, FlightKept DEF SendRefused, messages
<1>3. ASSUME NEW r \in Request, sendRequest(r) PROVE t \in mixed' \/ OneInFlight(t)'
  <2>1. ws \in Socket
    BY <1>3 DEF sendRequest, Online, TypeOK
  <2>2. CASE t # ws
    <3>1. Waiting(t)' = Waiting(t)
      BY <1>3, <2>2 DEF sendRequest, Waiting, TypeOK
    <3>2. toEngine'[t] = toEngine[t] /\ fromEngine'[t] = fromEngine[t]
      BY <1>3, <2>1, <2>2 DEF sendRequest, TypeOK
    <3> QED
      BY <1>0, <1>3, <3>1, <3>2, FlightKept DEF sendRequest
  <2>3. CASE t = ws /\ (Waiting(t) # {} \/ t \in mixed)
    BY <1>3, <2>3 DEF sendRequest
  <2>4. CASE t = ws /\ Waiting(t) = {} /\ t \notin mixed
    <3>1. toEngine[t] = <<>> /\ fromEngine[t] = <<>>
      BY <1>0, <2>4 DEF OneInFlight
    <3>2. Waiting(t)' = {r}
      BY <1>3, <2>1, <2>4 DEF sendRequest, Waiting, TypeOK
    <3>3. toEngine'[t] = Append(toEngine[t], r) /\ fromEngine' = fromEngine
      BY <1>3, <2>1, <2>4 DEF sendRequest, TypeOK
    <3>4. Append(toEngine[t], r) = <<r>>
      BY <3>1
    <3> QED
      BY <3>1, <3>2, <3>3, <3>4 DEF OneInFlight
  <2> QED
    BY <2>2, <2>3, <2>4
<1>4. ASSUME NEW s \in Socket, CloseEvent(s) PROVE t \in mixed' \/ OneInFlight(t)'
  <2>1. CASE t # s
    <3>1. Waiting(t)' = Waiting(t)
      BY <1>4, <2>1 DEF CloseEvent, Closed, Waiting, TypeOK, NoSocket, Socket
    <3>2. toEngine'[t] = toEngine[t] /\ fromEngine'[t] = fromEngine[t]
      BY <1>4, <2>1 DEF CloseEvent, Closed, TypeOK
    <3> QED
      BY <1>0, <1>4, <2>1, <3>1, <3>2, FlightKept DEF CloseEvent, Closed
  <2>2. CASE t = s
    <3>1. Waiting(t)' = {}
      BY <1>4, <2>2 DEF CloseEvent, Closed, Waiting, NoSocket, Socket
    <3>2. toEngine'[t] = <<>> /\ fromEngine'[t] = <<>>
      BY <1>4, <2>2 DEF CloseEvent, Closed, TypeOK
    <3> QED
      BY <3>1, <3>2 DEF OneInFlight
  <2> QED
    BY <2>1, <2>2
<1>5. ASSUME NEW s \in Socket, handle_request(s) PROVE t \in mixed' \/ OneInFlight(t)'
  <2>0. Waiting(t)' = Waiting(t) /\ mixed' = mixed
    BY <1>5 DEF handle_request, requests, Waiting
  <2>1. CASE t # s
    <3>1. toEngine'[t] = toEngine[t] /\ fromEngine'[t] = fromEngine[t]
      BY <1>5, <2>1 DEF handle_request, TypeOK
    <3> QED
      BY <1>0, <2>0, <3>1, FlightKept
  <2>2. CASE t = s /\ t \notin mixed
    <3>1. PICK r \in Request : /\ Waiting(t) = {r}
                               /\ toEngine[t] = <<r>> /\ fromEngine[t] = <<>>
      BY <1>0, <1>5, <2>2 DEF handle_request, OneInFlight
    <3>2. /\ toEngine'[t] = Tail(toEngine[t])
          /\ fromEngine'[t] = Append(fromEngine[t], Head(toEngine[t]))
      BY <1>5, <2>2 DEF handle_request, TypeOK
    <3>3. Tail(<<r>>) = <<>> /\ Head(<<r>>) = r /\ Append(<<>>, r) = <<r>>
      OBVIOUS
    <3> QED
      BY <2>0, <3>1, <3>2, <3>3 DEF OneInFlight
  <2> QED
    BY <2>0, <2>1, <2>2
<1>6. ASSUME NEW s \in Socket, Message(s) PROVE t \in mixed' \/ OneInFlight(t)'
  <2>0. t \in mixed => t \in mixed'
    BY <1>6 DEF Message
  <2>1. CASE t # s
    <3>1. Waiting(t)' = Waiting(t)
      BY <1>6, <2>1 DEF Message, Waiting, TypeOK
    <3>2. toEngine'[t] = toEngine[t] /\ fromEngine'[t] = fromEngine[t]
      BY <1>6, <2>1 DEF Message, TypeOK
    <3> QED
      BY <1>0, <2>0, <3>1, <3>2, FlightKept
  <2>2. CASE t = s /\ t \notin mixed
    <3>1. PICK r \in Request : toEngine[t] = <<>> /\ fromEngine[t] = <<r>>
      BY <1>0, <1>6, <2>2 DEF Message, OneInFlight
    <3>2. /\ toEngine'[t] = toEngine[t]
          /\ fromEngine'[t] = Tail(fromEngine[t])
      BY <1>6, <2>2 DEF Message, TypeOK
    <3>3. Waiting(t)' = {}
      BY <1>6, <2>2 DEF Message, Waiting, TypeOK
    <3>4. Tail(<<r>>) = <<>>
      OBVIOUS
    <3> QED
      BY <3>1, <3>2, <3>3, <3>4 DEF OneInFlight
  <2> QED
    BY <2>0, <2>1, <2>2
<1>7. CASE \/ connect \/ disconnect \/ ReconnectTimer \/ EngineStops \/ EngineStarts
           \/ (\E s \in Socket : Opened(s)) \/ UNCHANGED vars
  BY <1>1, <1>7 DEF connect, disconnect, ReconnectTimer, EngineStops, EngineStarts, Opened,
                    vars, messages, requests
<1> QED
  BY <1>2, <1>3, <1>4, <1>5, <1>6, <1>7 DEF Next

-----------------------------------------------------------------------------
(* Responses.                                                              *)
LEMMA OwnAnswerStep == TypeOK /\ FlightInv /\ OwnAnswer /\ [Next]_vars => OwnAnswer'
<1> SUFFICES ASSUME TypeOK, FlightInv, OwnAnswer, [Next]_vars,
                    NEW q \in Request, req'[q] = "resolved"
             PROVE  answer'[q] = q \/ q \in mixed'
  BY DEF OwnAnswer
<1>0. req[q] = "resolved" => answer[q] = q \/ q \in mixed
  BY DEF OwnAnswer
<1>1. CASE UNCHANGED <<req, answer, mixed>>
  BY <1>0, <1>1
<1>2. ASSUME NEW r \in Request, SendRefused(r) PROVE answer'[q] = q \/ q \in mixed'
  BY <1>0, <1>2 DEF SendRefused, TypeOK
<1>3. ASSUME NEW r \in Request, sendRequest(r) PROVE answer'[q] = q \/ q \in mixed'
  BY <1>0, <1>3 DEF sendRequest, TypeOK
<1>4. ASSUME NEW s \in Socket, CloseEvent(s) PROVE answer'[q] = q \/ q \in mixed'
  <2>1. q # s
    BY BridgeAssumption DEF Socket
  <2>2. req[q] = "resolved"
    BY <1>4 DEF CloseEvent, Closed
  <2> QED
    BY <1>0, <1>4, <2>1, <2>2 DEF CloseEvent, Closed
<1>5. ASSUME NEW s \in Socket, Message(s) PROVE answer'[q] = q \/ q \in mixed'
  <2>1. CASE q \notin Waiting(s)
    BY <1>0, <1>5, <2>1 DEF Message
  <2>2. CASE q \in Waiting(s) /\ s \in mixed
    BY <1>5, <2>2 DEF Message
  <2>3. CASE q \in Waiting(s) /\ s \notin mixed
    <3>1. OneInFlight(s) /\ fromEngine[s] # <<>>
      BY <1>5, <2>3 DEF FlightInv, Message
    <3>2. fromEngine[s] = <<q>>
      BY <2>3, <3>1 DEF OneInFlight
    <3>3. Head(<<q>>) = q
      OBVIOUS
    <3> QED
      BY <1>5, <2>3, <3>2, <3>3 DEF Message
  <2> QED
    BY <2>1, <2>2, <2>3
<1>6. CASE \/ connect \/ disconnect \/ ReconnectTimer \/ EngineStops \/ EngineStarts
           \/ (\E s \in Socket : Opened(s) \/ handle_request(s)) \/ UNCHANGED vars
  BY <1>1, <1>6 DEF connect, disconnect, ReconnectTimer, EngineStops, EngineStarts, Opened,
                    handle_request, vars, requests
<1> QED
  BY <1>2, <1>3, <1>4, <1>5, <1>6 DEF Next

-----------------------------------------------------------------------------
(* Theorems.                                                               *)

LEMMA InductiveInv == Spec => []IInv
<1>1. IInv /\ [Next]_vars => IInv'
  BY TypeStep, OwnAnswerStep, FlightStep, ChainStep DEF IInv
<1> QED
  BY InitInv, <1>1, PTL DEF Spec

(* The state of the bridge keeps its types.                                *)
THEOREM TypeCorrect == Spec => []TypeOK
<1>1. IInv => TypeOK
  BY DEF IInv
<1> QED
  BY InductiveInv, <1>1, PTL

(* A request gets the response to another one only where requests have     *)
(* overlapped on its socket, whatever connections were lost in between.    *)
THEOREM OwnAnswerHolds == Spec => []OwnAnswer
<1>1. IInv => OwnAnswer
  BY DEF IInv
<1> QED
  BY InductiveInv, <1>1, PTL

(* However often connections are refused or lost, whenever the caller      *)
(* connects or disconnects, reconnects do not multiply: there are never    *)
(* more sockets and pauses than calls of connect.                          *)
THEOREM ChainPerConnectHolds == Spec => []ChainPerConnect
<1>1. IInv => ChainPerConnect
  BY DEF IInv
<1> QED
  BY InductiveInv, <1>1, PTL

=============================================================================
