------------------------ MODULE DeliveryQueueProofs -------------------------
(***************************************************************************)
(* Proofs about DeliveryQueue for every set of messages and scans, any     *)
(* number of retries and crashes, and with every failure switched on.      *)
(***************************************************************************)
EXTENDS DeliveryQueue, TLAPS

(* A scan holds an entry exactly while it has one in hand; a live sender   *)
(* always handles its own message and never claims or moves one.           *)
InHandInv ==
    /\ \A a \in Scan : pc[a] \in Claiming \cup {"deferWriting"} => cur[a] \in Msg
    /\ \A m \in Msg : cur[m] = m

(* Only a message that was sent or dropped, or a best-effort one, reaches  *)
(* the ack.                                                                *)
AckInv ==
    \A w \in Worker : pc[w] = "acking" => cur[w] \in sent \cup dropped \cup BestEffort

(* The inductive invariant.                                                *)
IInv == TypeOK /\ InHandInv /\ AckInv /\ NothingLost /\ ClaimsExact

(* What a step that only moves one worker's pc may do to the claims.       *)
LEMMA ClaimsKept ==
    ASSUME NEW w \in Worker, TypeOK, ClaimsExact, UNCHANGED <<cur, entriesInProgress>>,
           NEW label, pc' = [pc EXCEPT ![w] = label],
           w \in Scan => (pc[w] \in Claiming <=> label \in Claiming)
    PROVE  ClaimsExact'
<1>1. \A a \in Scan : pc'[a] \in Claiming <=> pc[a] \in Claiming
  BY DEF TypeOK, Worker
<1>2. {cur'[a] : a \in {b \in Scan : pc'[b] \in Claiming}}
        = {cur[a] : a \in {b \in Scan : pc[b] \in Claiming}}
  BY <1>1
<1> QED
  BY <1>1, <1>2 DEF ClaimsExact

(* Finishing an entry gives back exactly one claim.                        *)
LEMMA FinishFacts ==
    ASSUME NEW w \in Worker, TypeOK, InHandInv, ClaimsExact, Finish(w),
           w \in Scan => pc[w] \in Claiming
    PROVE  /\ ClaimsExact'
           /\ InHandInv'
           /\ pc' \in [Worker -> PC]
           /\ cur' \in [Worker -> Msg \cup {NoMsg}]
           /\ entriesInProgress' \subseteq Msg
           /\ pc'[w] # "acking"
           /\ \A v \in Worker \ {w} : pc'[v] = pc[v] /\ cur'[v] = cur[v]
<1>1. CASE w \in Msg
  <2>1. pc' = [pc EXCEPT ![w] = "done"] /\ UNCHANGED <<cur, entriesInProgress>>
    BY <1>1 DEF Finish, Goto
  <2>2. w \notin Scan
    BY <1>1, ScanAssumption
  <2>3. ClaimsExact'
    BY <2>1, <2>2, ClaimsKept
  <2>4. \A a \in Scan : pc'[a] = pc[a]
    BY <2>1, <2>2 DEF TypeOK
  <2>5. InHandInv'
    BY <2>1, <2>4 DEF InHandInv
  <2> QED
    BY <2>1, <2>3, <2>5 DEF TypeOK, PC
<1>2. CASE w \notin Msg
  <2>1. /\ pc' = [pc EXCEPT ![w] = "loop"]
        /\ entriesInProgress' = entriesInProgress \ {cur[w]}
        /\ cur' = [cur EXCEPT ![w] = NoMsg]
    BY <1>2 DEF Finish, Goto
  <2>2. w \in Scan /\ pc[w] \in Claiming
    BY <1>2 DEF Worker
  <2>3. pc \in [Worker -> PC] /\ cur \in [Worker -> Msg \cup {NoMsg}] /\ Scan \subseteq Worker
    BY DEF TypeOK, Worker
  <2>4. \A a \in Scan : /\ pc'[a] \in Claiming <=> (a # w /\ pc[a] \in Claiming)
                        /\ a # w => cur'[a] = cur[a]
    BY <2>1, <2>2, <2>3 DEF Claiming
  <2>5. \A a \in Scan : (a # w /\ pc[a] \in Claiming) => cur[a] # cur[w]
    BY <2>2 DEF ClaimsExact
  <2>6. entriesInProgress' = {cur'[a] : a \in {b \in Scan : pc'[b] \in Claiming}}
    BY <2>1, <2>2, <2>4, <2>5 DEF ClaimsExact
  <2>7. ClaimsExact'
    BY <2>4, <2>6 DEF ClaimsExact
  <2>8. \A a \in Scan : pc'[a] = IF a = w THEN "loop" ELSE pc[a]
    BY <2>1, <2>3
  <2>9. \A m \in Msg : cur'[m] = cur[m]
    BY <1>2, <2>1, <2>3 DEF Worker
  <2>10. InHandInv'
    BY <2>4, <2>8, <2>9 DEF InHandInv, Claiming
  <2> QED
    BY <2>1, <2>3, <2>7, <2>10 DEF TypeOK, PC
<1> QED
  BY <1>1, <1>2

(* Moving one worker's pc, inside or outside the claimed region, keeps     *)
(* claims and entries in hand.                                             *)
LEMMA GotoFacts ==
    ASSUME NEW w \in Worker, TypeOK, InHandInv, ClaimsExact, UNCHANGED <<cur, entriesInProgress>>,
           NEW label \in PC, Goto(w, label), label # "deferWriting",
           w \in Scan => (pc[w] \in Claiming <=> label \in Claiming)
    PROVE  /\ ClaimsExact'
           /\ InHandInv'
           /\ pc' \in [Worker -> PC]
           /\ pc'[w] = label
           /\ \A v \in Worker \ {w} : pc'[v] = pc[v] /\ cur'[v] = cur[v]
<1>1. pc' = [pc EXCEPT ![w] = label]
  BY DEF Goto
<1>2. ClaimsExact'
  BY <1>1, ClaimsKept
<1>3. pc' \in [Worker -> PC] /\ pc'[w] = label /\ \A v \in Worker \ {w} : pc'[v] = pc[v]
  BY <1>1 DEF TypeOK
<1>4. \A a \in Scan : pc'[a] \in Claiming \cup {"deferWriting"} =>
                          pc[a] \in Claiming \cup {"deferWriting"}
  BY <1>3 DEF Worker
<1>5. InHandInv'
  BY <1>4 DEF InHandInv
<1> QED
  BY <1>2, <1>3, <1>5

(* The ack invariant looks at one moved worker.                            *)
LEMMA AckKept ==
    ASSUME AckInv, sent \cup dropped \subseteq sent' \cup dropped', NEW w \in Worker,
           \A v \in Worker \ {w} : pc'[v] = pc[v] /\ cur'[v] = cur[v],
           pc'[w] = "acking" => cur'[w] \in sent' \cup dropped' \cup BestEffort
    PROVE  AckInv'
BY DEF AckInv

-----------------------------------------------------------------------------
(* The initial state.                                                      *)

LEMMA InitInv == Init => IInv
<1> SUFFICES ASSUME Init PROVE IInv
  OBVIOUS
<1> USE DEF Init
<1>1. TypeOK
  BY NumberAssumption, MsgAssumption DEF TypeOK, PC, Worker
<1>2. \A w \in Worker : pc[w] \in {"none", "idle"}
  OBVIOUS
<1>3. \A a \in Scan : pc[a] = "idle"
  BY ScanAssumption DEF Worker
<1>4. InHandInv
  BY <1>3 DEF InHandInv, Claiming, Worker
<1>5. AckInv /\ NothingLost
  BY <1>2 DEF AckInv, NothingLost
<1>6. ClaimsExact
  BY <1>3 DEF ClaimsExact, Claiming
<1> QED
  BY <1>1, <1>4, <1>5, <1>6 DEF IInv

-----------------------------------------------------------------------------
(* One lemma per group of actions.                                         *)

(* Steps that move a worker's pc and may add to sent, dropped and unsure.  *)
LEMMA MoveSentInv ==
    ASSUME IInv, NEW w \in Worker, NEW label \in PC, Goto(w, label), label # "deferWriting",
           w \in Scan => (pc[w] \in Claiming <=> label \in Claiming),
           label = "acking" => cur[w] \in sent' \cup dropped' \cup BestEffort,
           sent \cup dropped \subseteq sent' \cup dropped',
           sent' \subseteq Msg, dropped' \subseteq Msg, unsure' \subseteq Msg,
           UNCHANGED <<disk, cur, todo, seen, entriesInProgress, crashes, persisted, acked>>
    PROVE  IInv'
<1>1. TypeOK /\ InHandInv /\ AckInv /\ NothingLost /\ ClaimsExact
  BY DEF IInv
<1>2. UNCHANGED <<cur, entriesInProgress>>
  OBVIOUS
<1>3. /\ ClaimsExact' /\ InHandInv' /\ pc' \in [Worker -> PC] /\ pc'[w] = label
      /\ \A v \in Worker \ {w} : pc'[v] = pc[v] /\ cur'[v] = cur[v]
  BY <1>1, <1>2, GotoFacts
<1>4. TypeOK'
  BY <1>1, <1>3 DEF TypeOK, disk
<1>5. AckInv'
  BY <1>1, <1>2, <1>3, AckKept
<1>6. NothingLost'
  BY <1>1 DEF NothingLost, disk
<1> QED
  BY <1>3, <1>4, <1>5, <1>6 DEF IInv

(* Steps that only move a worker's pc.                                     *)
LEMMA MoveInv ==
    ASSUME IInv, NEW w \in Worker, NEW label \in PC, Goto(w, label), label # "deferWriting",
           w \in Scan => (pc[w] \in Claiming <=> label \in Claiming),
           label = "acking" => cur[w] \in sent \cup dropped \cup BestEffort,
           UNCHANGED <<disk, cur, todo, seen, entriesInProgress, crashes, history>>
    PROVE  IInv'
<1>1. /\ unsure' \subseteq Msg /\ sent' \subseteq Msg /\ sent' = sent
      /\ dropped' \subseteq Msg /\ dropped' = dropped
  BY DEF IInv, TypeOK, history
<1> QED
  BY <1>1, MoveSentInv DEF history

(* Steps that finish an entry and may add to unsure.                       *)
LEMMA FinishUnsureInv ==
    ASSUME IInv, NEW w \in Worker, Finish(w), w \in Scan => pc[w] \in Claiming,
           pending' \subseteq Msg, marker' \subseteq Msg, failed' \subseteq Msg,
           retryCount' \in [Msg -> 0..MaxRetries],
           seen' \in [Worker -> 0..MaxRetries],
           (pending \cup failed) \ (sent \cup dropped \cup BestEffort) \subseteq pending' \cup failed',
           unsure' \subseteq Msg,
           UNCHANGED <<todo, crashes, persisted, sent, dropped, acked>>
    PROVE  IInv'
<1>1. TypeOK /\ InHandInv /\ AckInv /\ NothingLost /\ ClaimsExact
  BY DEF IInv
<1>2. UNCHANGED <<persisted, sent, dropped, acked>>
  OBVIOUS
<1>3. /\ ClaimsExact' /\ InHandInv' /\ pc' \in [Worker -> PC]
      /\ cur' \in [Worker -> Msg \cup {NoMsg}] /\ entriesInProgress' \subseteq Msg
      /\ pc'[w] # "acking"
      /\ \A v \in Worker \ {w} : pc'[v] = pc[v] /\ cur'[v] = cur[v]
  BY <1>1, FinishFacts
<1>4. TypeOK'
  BY <1>1, <1>2, <1>3 DEF TypeOK
<1>5. AckInv'
  BY <1>1, <1>2, <1>3, AckKept
<1>6. NothingLost'
  BY <1>1, <1>2 DEF NothingLost
<1> QED
  BY <1>3, <1>4, <1>5, <1>6 DEF IInv

(* Steps that only finish an entry.                                        *)
LEMMA FinishInv ==
    ASSUME IInv, NEW w \in Worker, Finish(w), w \in Scan => pc[w] \in Claiming,
           pending' \subseteq Msg, marker' \subseteq Msg, failed' \subseteq Msg,
           retryCount' \in [Msg -> 0..MaxRetries],
           seen' \in [Worker -> 0..MaxRetries],
           (pending \cup failed) \ (sent \cup dropped \cup BestEffort) \subseteq pending' \cup failed',
           UNCHANGED <<todo, crashes, history>>
    PROVE  IInv'
<1>1. unsure' \subseteq Msg
  BY DEF IInv, TypeOK, history
<1> QED
  BY <1>1, FinishUnsureInv DEF history

(* The steps of a live sender up to its send.                              *)
LEMMA LiveInv ==
    ASSUME IInv, NEW m \in Msg, enqueueDelivery(m) \/ EnqueueFails(m) \/ SendAborted(m)
    PROVE  IInv'
<1>1. TypeOK /\ InHandInv /\ AckInv /\ NothingLost /\ ClaimsExact
  BY DEF IInv
<1>2. m \in Worker /\ m \notin Scan /\ cur[m] = m
  BY <1>1, ScanAssumption DEF Worker, InHandInv
<1>3. {"sending", "done", "acking"} \subseteq PC
  BY DEF PC
<1>4. CASE EnqueueFails(m)
  BY <1>2, <1>3, <1>4, MoveInv DEF EnqueueFails
<1>5. CASE enqueueDelivery(m)
  <2>1. /\ ClaimsExact' /\ InHandInv' /\ pc' \in [Worker -> PC] /\ pc'[m] = "sending"
        /\ \A v \in Worker \ {m} : pc'[v] = pc[v] /\ cur'[v] = cur[v]
    BY <1>1, <1>2, <1>3, <1>5, GotoFacts DEF enqueueDelivery
  <2>2. TypeOK'
    BY <1>1, <1>5, <2>1 DEF TypeOK, enqueueDelivery
  <2>3. AckInv'
    BY <1>1, <1>2, <1>5, <2>1, AckKept DEF enqueueDelivery
  <2>4. NothingLost'
    BY <1>1, <1>5 DEF NothingLost, enqueueDelivery
  <2> QED
    BY <2>1, <2>2, <2>3, <2>4 DEF IInv
<1>6. CASE SendAborted(m)
  <2>1. /\ sent' = sent /\ m \in sent \cup dropped' \cup BestEffort
        /\ dropped \subseteq dropped' /\ dropped' \subseteq Msg
        /\ sent \subseteq Msg /\ unsure' \subseteq Msg
    BY <1>1, <1>6 DEF SendAborted, Drops, TypeOK
  <2> QED
    BY <1>2, <1>3, <1>6, <2>1, MoveSentInv DEF SendAborted
<1> QED
  BY <1>4, <1>5, <1>6

(* What becomes of the payloads.                                           *)
LEMMA PayloadFacts ==
    ASSUME TypeOK, NEW m \in Msg, PayloadsEnd(m)
    PROVE  /\ sent' \subseteq Msg /\ dropped' \subseteq Msg
           /\ m \in sent' \cup dropped' \cup BestEffort
           /\ sent \cup dropped \subseteq sent' \cup dropped'
           /\ sent' \ {m} = sent \ {m}
<1>1. CASE sent' = sent \cup {m} /\ dropped' = dropped \ {m}
  BY <1>1 DEF TypeOK
<1>2. CASE UNCHANGED sent /\ Drops(m)
  BY <1>2 DEF TypeOK, Drops
<1> QED
  BY <1>1, <1>2 DEF PayloadsEnd

(* The outcomes of a send.                                                 *)
LEMMA SendInv ==
    ASSUME IInv, NEW w \in Worker, SendStep(w)
    PROVE  IInv'
<1>1. TypeOK /\ InHandInv /\ AckInv /\ NothingLost /\ ClaimsExact
  BY DEF IInv
<1>2. {"failing", "moving", "acking"} \subseteq PC /\ {"failing", "moving", "acking"} \subseteq Claiming
  BY DEF PC, Claiming
<1>3. pc[w] = "sending" /\ "sending" \in Claiming
  BY DEF SendStep, Deliver, SendThrows, SendSwallowed, Claiming
<1>4. CASE SendThrows(w)
  BY <1>2, <1>3, <1>4, MoveInv DEF SendThrows
<1>5. CASE SendSwallowed(w)
  BY <1>2, <1>3, <1>5, MoveInv DEF SendSwallowed
<1>6. CASE Deliver(w)
  <2>1. cur[w] \in Msg
    BY <1>1, <1>3 DEF InHandInv, Worker
  <2>2. /\ sent' \subseteq Msg /\ dropped' \subseteq Msg /\ unsure' \subseteq Msg
        /\ cur[w] \in sent' \cup dropped' \cup BestEffort
        /\ sent \cup dropped \subseteq sent' \cup dropped'
    BY <1>1, <1>6, <2>1, PayloadFacts DEF TypeOK, Deliver
  <2> QED
    BY <1>2, <1>3, <1>6, <2>2, MoveSentInv DEF Deliver
<1> QED
  BY <1>4, <1>5, <1>6 DEF SendStep

(* A counted attempt stays within the cap.                                 *)
LEMMA BumpedFacts == \A n \in 0..MaxRetries : Bumped(n) \in 0..MaxRetries
BY NumberAssumption DEF Bumped

(* An entry that leaves the directory has its count reset.                 *)
LEMMA ResetFacts ==
    ASSUME TypeOK, NEW m \in Msg, retryCount' = [retryCount EXCEPT ![m] = 0]
    PROVE  retryCount' \in [Msg -> 0..MaxRetries]
<1>1. 0 \in 0..MaxRetries
  BY NumberAssumption
<1> QED
  BY <1>1 DEF TypeOK

(* ackDelivery and failDelivery.                                           *)
LEMMA BookkeepingInv ==
    ASSUME IInv, NEW w \in Worker, BookkeepingStep(w)
    PROVE  IInv'
<1>1. TypeOK /\ InHandInv /\ AckInv /\ NothingLost /\ ClaimsExact
  BY DEF IInv
<1>2. pc[w] \in {"acking", "unlinking", "failing", "writing"}
  BY DEF BookkeepingStep, AckRename, AckUnlink, FailRead, FailWrite
<1>3. pc[w] \in Claiming
  BY <1>2 DEF Claiming
<1>4. cur[w] \in Msg
  BY <1>1, <1>3 DEF InHandInv, Worker
<1>5. {"unlinking", "writing"} \subseteq PC /\ {"unlinking", "writing"} \subseteq Claiming
  BY DEF PC, Claiming
<1>6. ASSUME AckRename(w), cur[w] \in pending PROVE IInv'
  <2>1. /\ pending' = pending \ {cur[w]} /\ marker' = marker \cup {cur[w]}
        /\ acked' \in {acked, acked \cup {cur[w]}} /\ Goto(w, "unlinking")
        /\ retryCount' = [retryCount EXCEPT ![cur[w]] = 0]
        /\ UNCHANGED <<cur, entriesInProgress, failed, todo, seen, crashes,
                       persisted, sent, dropped, unsure>>
    BY <1>6 DEF AckRename
  <2>2. /\ ClaimsExact' /\ InHandInv' /\ pc' \in [Worker -> PC] /\ pc'[w] = "unlinking"
        /\ \A v \in Worker \ {w} : pc'[v] = pc[v] /\ cur'[v] = cur[v]
    BY <1>1, <1>3, <1>5, <2>1, GotoFacts
  <2>3. TypeOK'
    <3>1. retryCount' \in [Msg -> 0..MaxRetries]
      BY <1>1, <1>4, <2>1, ResetFacts
    <3> QED
      BY <1>1, <1>4, <2>1, <2>2, <3>1 DEF TypeOK
  <2>4. AckInv'
    BY <1>1, <2>1, <2>2, AckKept
  <2>5. cur[w] \in sent \cup dropped \cup BestEffort
    BY <1>1, <1>6 DEF AckInv, AckRename
  <2>6. NothingLost'
    BY <1>1, <2>1, <2>5 DEF NothingLost
  <2> QED
    BY <2>2, <2>3, <2>4, <2>6 DEF IInv
<1>7. ASSUME AckRename(w), cur[w] \notin pending PROVE IInv'
  BY <1>1, <1>3, <1>7, FinishInv DEF AckRename, TypeOK, history
<1>8. CASE AckUnlink(w)
  BY <1>1, <1>3, <1>8, FinishInv DEF AckUnlink, TypeOK
<1>9. ASSUME FailRead(w), cur[w] \in pending PROVE IInv'
  <2>1. /\ seen' = [seen EXCEPT ![w] = retryCount[cur[w]]] /\ Goto(w, "writing")
        /\ UNCHANGED <<cur, entriesInProgress, disk, todo, crashes, history>>
    BY <1>9 DEF FailRead
  <2>2. /\ ClaimsExact' /\ InHandInv' /\ pc' \in [Worker -> PC] /\ pc'[w] = "writing"
        /\ \A v \in Worker \ {w} : pc'[v] = pc[v] /\ cur'[v] = cur[v]
    BY <1>1, <1>3, <1>5, <2>1, GotoFacts
  <2>3. TypeOK'
    BY <1>1, <1>4, <2>1, <2>2 DEF TypeOK, disk, history
  <2>4. AckInv'
    BY <1>1, <2>1, <2>2, AckKept DEF history
  <2>5. NothingLost'
    BY <1>1, <2>1 DEF NothingLost, disk, history
  <2> QED
    BY <2>2, <2>3, <2>4, <2>5 DEF IInv
<1>10. ASSUME FailRead(w), cur[w] \notin pending PROVE IInv'
  BY <1>1, <1>3, <1>10, FinishInv DEF FailRead, TypeOK, disk
<1>11. CASE FailWrite(w)
  <2>1. seen[w] \in 0..MaxRetries
    BY <1>1 DEF TypeOK
  <2>2. Bumped(seen[w]) \in 0..MaxRetries /\ 0 \in 0..MaxRetries
    BY <2>1, BumpedFacts, NumberAssumption
  <2>3. retryCount' \in [Msg -> 0..MaxRetries] /\ seen' \in [Worker -> 0..MaxRetries]
    BY <1>1, <1>11, <2>2 DEF FailWrite, WriteEntry, TypeOK
  <2>4. /\ unsure' \subseteq Msg /\ pending' = pending \cup {cur[w]} /\ pending' \subseteq Msg
        /\ Finish(w) /\ UNCHANGED <<marker, failed, todo, crashes, persisted, sent, dropped, acked>>
    BY <1>1, <1>4, <1>11 DEF FailWrite, WriteEntry, TypeOK
  <2> QED
    BY <1>1, <1>3, <2>3, <2>4, FinishUnsureInv DEF TypeOK
<1> QED
  BY <1>6, <1>7, <1>8, <1>9, <1>10, <1>11 DEF BookkeepingStep

(* Failing file operations.                                                *)
LEMMA DiskFaultInv ==
    ASSUME IInv, NEW w \in Worker, DiskFault(w)
    PROVE  IInv'
<1>1. TypeOK
  BY DEF IInv
<1>2. CASE AckFails(w)
  <2>1. {"failing", "done"} \subseteq PC /\ "failing" \in Claiming /\ "acking" \in Claiming
    BY DEF PC, Claiming
  <2>2. cur[w] \in Msg
    BY <1>2, <2>1 DEF IInv, InHandInv, AckFails, Worker
  <2>3. /\ sent' \subseteq Msg /\ dropped' \subseteq Msg /\ unsure' \subseteq Msg
        /\ sent \cup dropped \subseteq sent' \cup dropped'
    BY <1>1, <1>2, <2>2 DEF AckFails, TypeOK
  <2> QED
    BY <1>2, <2>1, <2>3, MoveSentInv DEF AckFails
<1>3. CASE BookkeepingFails(w)
  <2>1. pc[w] \in Claiming
    BY <1>3 DEF BookkeepingFails, Claiming
  <2>2. seen' \in [Worker -> 0..MaxRetries]
    BY <1>1, <1>3, NumberAssumption DEF BookkeepingFails, TypeOK
  <2> QED
    BY <1>1, <1>3, <2>1, <2>2, FinishInv DEF BookkeepingFails, TypeOK, disk
<1>4. CASE MirrorFails(w)
  <2>1. {"failing", "moving"} \subseteq PC \cap Claiming /\ "sending" \in Claiming
    BY DEF PC, Claiming
  <2>2. cur[w] \in Msg
    BY <1>4, <2>1 DEF IInv, InHandInv, MirrorFails, Worker
  <2>3. /\ sent' \subseteq Msg /\ dropped' \subseteq Msg /\ unsure' \subseteq Msg
        /\ sent \cup dropped \subseteq sent' \cup dropped'
    BY <1>1, <1>4, <2>2, PayloadFacts DEF MirrorFails, TypeOK
  <2> QED
    BY <1>4, <2>1, <2>3, MoveSentInv DEF MirrorFails
<1> QED
  BY <1>2, <1>3, <1>4 DEF DiskFault

(* Claiming an entry.                                                      *)
LEMMA ClaimInv ==
    ASSUME IInv, NEW a \in Scan, claimRecoveryEntry(a)
    PROVE  IInv'
<1>1. TypeOK /\ InHandInv /\ AckInv /\ NothingLost /\ ClaimsExact
  BY DEF IInv
<1>2. a \in Worker /\ a \notin Msg /\ pc[a] \notin Claiming
  BY ScanAssumption DEF Worker, claimRecoveryEntry, Claiming
<1>3. PICK m \in todo[a] :
         /\ todo' = [todo EXCEPT ![a] = @ \ {m}]
         /\ IF m \in entriesInProgress
            THEN Goto(a, "loop") /\ UNCHANGED <<cur, entriesInProgress>>
            ELSE /\ entriesInProgress' = entriesInProgress \cup {m}
                 /\ cur' = [cur EXCEPT ![a] = m]
                 /\ Goto(a, "claimed")
  BY DEF claimRecoveryEntry
<1>4. m \in Msg /\ todo' \in [Scan -> SUBSET Msg]
  BY <1>1, <1>3 DEF TypeOK
<1>5. UNCHANGED <<disk, seen, crashes, history>>
  BY DEF claimRecoveryEntry
<1>6. /\ ClaimsExact' /\ InHandInv' /\ pc' \in [Worker -> PC]
      /\ cur' \in [Worker -> Msg \cup {NoMsg}] /\ entriesInProgress' \subseteq Msg
      /\ pc'[a] # "acking"
      /\ \A v \in Worker \ {a} : pc'[v] = pc[v] /\ cur'[v] = cur[v]
  <2>1. CASE m \in entriesInProgress
    <3>1. "loop" \in PC /\ "loop" \notin Claiming
      BY DEF PC, Claiming
    <3>2. Goto(a, "loop") /\ UNCHANGED <<cur, entriesInProgress>>
      BY <1>3, <2>1
    <3>3. /\ ClaimsExact' /\ InHandInv' /\ pc' \in [Worker -> PC] /\ pc'[a] = "loop"
          /\ \A v \in Worker \ {a} : pc'[v] = pc[v] /\ cur'[v] = cur[v]
      BY <1>1, <1>2, <3>1, <3>2, GotoFacts
    <3> QED
      BY <1>1, <3>2, <3>3 DEF TypeOK
  <2>2. CASE m \notin entriesInProgress
    <3>1. /\ entriesInProgress' = entriesInProgress \cup {m}
          /\ cur' = [cur EXCEPT ![a] = m] /\ pc' = [pc EXCEPT ![a] = "claimed"]
      BY <1>3, <2>2 DEF Goto
    <3>2. pc \in [Worker -> PC] /\ cur \in [Worker -> Msg \cup {NoMsg}]
      BY <1>1 DEF TypeOK
    <3>3. /\ pc' \in [Worker -> PC] /\ cur' \in [Worker -> Msg \cup {NoMsg}]
          /\ \A v \in Worker \ {a} : pc'[v] = pc[v] /\ cur'[v] = cur[v]
          /\ pc'[a] = "claimed" /\ cur'[a] = m
      BY <1>2, <1>4, <3>1, <3>2 DEF PC
    <3>4. \A b \in Scan : /\ pc'[b] \in Claiming <=> (b = a \/ pc[b] \in Claiming)
                          /\ cur'[b] = IF b = a THEN m ELSE cur[b]
      BY <3>3 DEF Claiming, Worker
    <3>5. \A b \in Scan : pc[b] \in Claiming => cur[b] # m
      BY <1>1, <2>2 DEF ClaimsExact
    <3>6. entriesInProgress' = {cur'[b] : b \in {c \in Scan : pc'[c] \in Claiming}}
      <4>1. entriesInProgress = {cur[b] : b \in {c \in Scan : pc[c] \in Claiming}}
        BY <1>1 DEF ClaimsExact
      <4> QED
        BY <1>2, <3>1, <3>4, <4>1
    <3>7. ClaimsExact'
      BY <1>2, <3>4, <3>5, <3>6, <1>1 DEF ClaimsExact
    <3>8. InHandInv'
      BY <1>1, <1>2, <1>4, <3>3 DEF InHandInv, Worker
    <3> QED
      BY <1>1, <1>4, <3>1, <3>3, <3>7, <3>8 DEF TypeOK
  <2> QED
    BY <2>1, <2>2
<1>7. TypeOK'
  BY <1>1, <1>4, <1>5, <1>6 DEF TypeOK, disk, history
<1>8. AckInv'
  BY <1>1, <1>2, <1>5, <1>6, AckKept DEF history
<1>9. NothingLost'
  BY <1>1, <1>5 DEF NothingLost, disk, history
<1> QED
  BY <1>6, <1>7, <1>8, <1>9 DEF IInv

(* Leaving the claimed region or the deferral, with the entry put down.    *)
LEMMA PutDownFacts ==
    ASSUME TypeOK, InHandInv, ClaimsExact, NEW a \in Scan, NEW label \in PC \ Claiming,
           label # "deferWriting", Goto(a, label), cur' = [cur EXCEPT ![a] = NoMsg],
           entriesInProgress' = IF pc[a] \in Claiming THEN entriesInProgress \ {cur[a]}
                                                      ELSE entriesInProgress
    PROVE  /\ ClaimsExact' /\ InHandInv'
           /\ pc' \in [Worker -> PC] /\ cur' \in [Worker -> Msg \cup {NoMsg}]
           /\ entriesInProgress' \subseteq Msg
           /\ pc'[a] = label
           /\ \A v \in Worker \ {a} : pc'[v] = pc[v] /\ cur'[v] = cur[v]
<1>1. pc \in [Worker -> PC] /\ cur \in [Worker -> Msg \cup {NoMsg}] /\ a \in Worker /\ a \notin Msg
  BY ScanAssumption DEF TypeOK, Worker
<1>2. /\ pc' \in [Worker -> PC] /\ cur' \in [Worker -> Msg \cup {NoMsg}] /\ pc'[a] = label
      /\ \A v \in Worker \ {a} : pc'[v] = pc[v] /\ cur'[v] = cur[v]
  BY <1>1 DEF Goto
<1>3. \A b \in Scan : /\ pc'[b] \in Claiming <=> (b # a /\ pc[b] \in Claiming)
                      /\ b # a => cur'[b] = cur[b]
  BY <1>2 DEF Worker
<1>4. \A b \in Scan : (b # a /\ pc[a] \in Claiming /\ pc[b] \in Claiming) => cur[b] # cur[a]
  BY DEF ClaimsExact
<1>5. entriesInProgress' = {cur'[b] : b \in {c \in Scan : pc'[c] \in Claiming}}
  <2>1. entriesInProgress = {cur[b] : b \in {c \in Scan : pc[c] \in Claiming}}
    BY DEF ClaimsExact
  <2>2. CASE pc[a] \in Claiming
    BY <1>3, <1>4, <2>1, <2>2
  <2>3. CASE pc[a] \notin Claiming
    BY <1>3, <2>1, <2>3
  <2> QED
    BY <2>2, <2>3
<1>6. ClaimsExact'
  BY <1>3, <1>5 DEF ClaimsExact
<1>7. InHandInv'
  BY <1>1, <1>2 DEF InHandInv, Worker
<1> QED
  BY <1>2, <1>6, <1>7 DEF TypeOK

(* The steps of a scan.                                                    *)
LEMMA ScanInv ==
    ASSUME IInv, NEW a \in Scan, ScanStep(a)
    PROVE  IInv'
<1>1. TypeOK /\ InHandInv /\ AckInv /\ NothingLost /\ ClaimsExact
  BY DEF IInv
<1>2. a \in Worker /\ a \notin Msg
  BY ScanAssumption DEF Worker
<1>3. CASE claimRecoveryEntry(a)
  BY <1>3, ClaimInv
<1>4. CASE AlreadyGone(a) \/ TooEarly(a)
  <2>1. pc[a] \in Claiming /\ Finish(a) /\ UNCHANGED <<disk, todo, seen, crashes, history>>
    BY <1>4 DEF AlreadyGone, TooEarly, Claiming
  <2> QED
    BY <1>1, <1>2, <2>1, FinishInv DEF TypeOK, disk
<1>5. CASE Exhausted(a)
  <2>1. "pruning" \in PC /\ "pruning" \in Claiming /\ "claimed" \in Claiming
    BY DEF PC, Claiming
  <2> QED
    BY <1>2, <1>5, <2>1, MoveInv DEF Exhausted
<1>6. CASE StartSend(a)
  <2>1. "sending" \in PC /\ "sending" \in Claiming /\ "claimed" \in Claiming
    BY DEF PC, Claiming
  <2> QED
    BY <1>2, <1>6, <2>1, MoveInv DEF StartSend
<1>7. CASE moveToFailed(a)
  <2>1. pc[a] \in Claiming
    BY <1>7 DEF moveToFailed, Claiming
  <2>2. retryCount' \in [Msg -> 0..MaxRetries]
    BY <1>1, <1>7, <2>1, ResetFacts DEF moveToFailed, InHandInv, Worker
  <2> QED
    BY <1>1, <1>2, <1>7, <2>1, <2>2, FinishInv DEF moveToFailed, TypeOK
<1>8. CASE ScanEnds(a)
  <2>1. "idle" \in PC /\ {"idle", "loop", "deferring"} \cap Claiming = {}
    BY DEF PC, Claiming
  <2> QED
    BY <1>2, <1>8, <2>1, MoveInv DEF ScanEnds
<1>9. CASE BudgetExpires(a)
  <2>1. "deferring" \in PC /\ {"loop", "deferring"} \cap Claiming = {}
    BY DEF PC, Claiming
  <2> QED
    BY <1>2, <1>9, <2>1, MoveInv DEF BudgetExpires
<1>10. CASE DeferRead(a)
  <2>1. PICK m \in todo[a] :
           /\ todo' = [todo EXCEPT ![a] = @ \ {m}]
           /\ IF m \in pending
              THEN /\ cur' = [cur EXCEPT ![a] = m]
                   /\ seen' = [seen EXCEPT ![a] = retryCount[m]]
                   /\ Goto(a, "deferWriting")
              ELSE UNCHANGED <<cur, seen, pc>>
    BY <1>10 DEF DeferRead
  <2>2. UNCHANGED <<disk, entriesInProgress, crashes, history>> /\ pc[a] = "deferring"
    BY <1>10 DEF DeferRead
  <2>3. m \in Msg /\ todo' \in [Scan -> SUBSET Msg]
    BY <1>1, <2>1 DEF TypeOK
  <2>4. CASE m \notin pending
    <3>1. UNCHANGED <<cur, seen, pc>>
      BY <2>1, <2>4
    <3>2. TypeOK'
      BY <1>1, <2>2, <2>3, <3>1 DEF TypeOK, disk, history
    <3>3. InHandInv' /\ AckInv' /\ NothingLost' /\ ClaimsExact'
      BY <1>1, <2>2, <3>1 DEF InHandInv, AckInv, NothingLost, ClaimsExact, disk, history
    <3> QED
      BY <3>2, <3>3 DEF IInv
  <2>5. CASE m \in pending
    <3>1. /\ cur' = [cur EXCEPT ![a] = m] /\ seen' = [seen EXCEPT ![a] = retryCount[m]]
          /\ pc' = [pc EXCEPT ![a] = "deferWriting"]
      BY <2>1, <2>5 DEF Goto
    <3>2. TypeOK'
      BY <1>1, <1>2, <2>2, <2>3, <3>1 DEF TypeOK, PC, disk, history
    <3>3. /\ \A v \in Worker \ {a} : pc'[v] = pc[v] /\ cur'[v] = cur[v]
          /\ pc'[a] = "deferWriting" /\ cur'[a] = m
      BY <1>1, <1>2, <3>1 DEF TypeOK
    <3>4. InHandInv'
      BY <1>1, <1>2, <2>3, <3>3 DEF InHandInv, Worker
    <3>5. AckInv'
      BY <1>1, <1>2, <2>2, <3>3, AckKept DEF history
    <3>6. NothingLost'
      BY <1>1, <2>2 DEF NothingLost, disk, history
    <3>7. \A b \in Scan : /\ pc'[b] \in Claiming <=> pc[b] \in Claiming
                          /\ pc[b] \in Claiming => cur'[b] = cur[b]
      BY <2>2, <3>3 DEF Claiming, Worker
    <3>8. ClaimsExact'
      BY <1>1, <2>2, <3>7 DEF ClaimsExact
    <3> QED
      BY <3>2, <3>4, <3>5, <3>6, <3>8 DEF IInv
  <2> QED
    BY <2>4, <2>5
<1>11. CASE DeferWrite(a)
  <2>1. "deferring" \in PC \ Claiming /\ pc[a] \notin Claiming /\ cur[a] \in Msg
    BY <1>1, <1>11 DEF PC, Claiming, DeferWrite, InHandInv
  <2>2. Goto(a, "deferring") /\ cur' = [cur EXCEPT ![a] = NoMsg] /\ UNCHANGED entriesInProgress
    BY <1>11 DEF DeferWrite
  <2>3. /\ ClaimsExact' /\ InHandInv'
        /\ pc' \in [Worker -> PC] /\ cur' \in [Worker -> Msg \cup {NoMsg}]
        /\ entriesInProgress' \subseteq Msg
        /\ pc'[a] = "deferring"
        /\ \A v \in Worker \ {a} : pc'[v] = pc[v] /\ cur'[v] = cur[v]
    BY <1>1, <2>1, <2>2, PutDownFacts
  <2>4. Bumped(seen[a]) \in 0..MaxRetries /\ 0 \in 0..MaxRetries
    BY <1>1, <1>2, BumpedFacts, NumberAssumption DEF TypeOK
  <2>5. TypeOK'
    BY <1>1, <1>11, <2>1, <2>3, <2>4 DEF TypeOK, DeferWrite, WriteEntry, history
  <2>6. AckInv'
    BY <1>1, <1>2, <1>11, <2>3, AckKept DEF DeferWrite, history
  <2>7. NothingLost'
    BY <1>1, <1>11 DEF NothingLost, DeferWrite, WriteEntry, history
  <2> QED
    BY <2>3, <2>5, <2>6, <2>7 DEF IInv
<1> QED
  BY <1>3, <1>4, <1>5, <1>6, <1>7, <1>8, <1>9, <1>10, <1>11 DEF ScanStep

(* The start of a scan, and a scan that an error ends.                     *)
LEMMA ScanBoundsInv ==
    ASSUME IInv, NEW a \in Scan, StartScan(a) \/ ScanThrows(a)
    PROVE  IInv'
<1>1. TypeOK /\ InHandInv /\ AckInv /\ NothingLost /\ ClaimsExact
  BY DEF IInv
<1>2. a \in Worker /\ a \notin Msg
  BY ScanAssumption DEF Worker
<1>3. {"idle", "first"} \subseteq PC \ Claiming
  BY DEF PC, Claiming
<1>4. CASE StartScan(a)
  <2>1. PICK label \in {"idle", "first"} : Goto(a, label)
    BY <1>4 DEF StartScan
  <2>2. pc[a] \notin Claiming
    BY <1>4 DEF StartScan, Claiming
  <2>3. /\ ClaimsExact' /\ InHandInv' /\ pc' \in [Worker -> PC] /\ pc'[a] = label
        /\ \A v \in Worker \ {a} : pc'[v] = pc[v] /\ cur'[v] = cur[v]
    BY <1>1, <1>2, <1>3, <1>4, <2>1, <2>2, GotoFacts DEF StartScan
  <2>4. TypeOK'
    BY <1>1, <1>4, <2>3 DEF TypeOK, StartScan, history
  <2>5. AckInv'
    BY <1>1, <1>2, <1>4, <2>1, <2>3, AckKept DEF StartScan, history
  <2>6. NothingLost'
    BY <1>1, <1>4 DEF NothingLost, StartScan, history
  <2> QED
    BY <2>3, <2>4, <2>5, <2>6 DEF IInv
<1>5. CASE ScanThrows(a)
  <2>1. pc[a] \in Claiming
    BY <1>5 DEF ScanThrows, Claiming
  <2>2. /\ ClaimsExact' /\ InHandInv'
        /\ pc' \in [Worker -> PC] /\ cur' \in [Worker -> Msg \cup {NoMsg}]
        /\ entriesInProgress' \subseteq Msg
        /\ pc'[a] = "idle"
        /\ \A v \in Worker \ {a} : pc'[v] = pc[v] /\ cur'[v] = cur[v]
    BY <1>1, <1>3, <1>5, <2>1, PutDownFacts DEF ScanThrows
  <2>3. TypeOK'
    BY <1>1, <1>5, <2>2 DEF TypeOK, ScanThrows, disk, history
  <2>4. AckInv'
    BY <1>1, <1>2, <1>5, <2>2, AckKept DEF ScanThrows, history
  <2>5. NothingLost'
    BY <1>1, <1>5 DEF NothingLost, ScanThrows, disk, history
  <2> QED
    BY <2>2, <2>3, <2>4, <2>5 DEF IInv
<1> QED
  BY <1>4, <1>5

(* A crash empties the memory and leaves the disk.                         *)
LEMMA CrashInv ==
    ASSUME IInv, Crash
    PROVE  IInv'
<1>1. TypeOK /\ NothingLost
  BY DEF IInv
<1>2. \A w \in Worker : pc'[w] \in {"idle", "none", "done"}
  BY DEF Crash
<1>3. TypeOK'
  BY <1>1, NumberAssumption DEF TypeOK, Crash, PC, disk, Worker
<1>4. \A a \in Scan : pc'[a] = "idle"
  BY DEF Crash, Worker
<1>5. \A m \in Msg : cur'[m] = m
  BY DEF Crash, Worker
<1>6. InHandInv' /\ ClaimsExact'
  BY <1>4, <1>5 DEF InHandInv, ClaimsExact, Claiming, Crash
<1>7. AckInv' /\ NothingLost'
  BY <1>1, <1>2 DEF AckInv, NothingLost, Crash, disk
<1> QED
  BY <1>3, <1>6, <1>7 DEF IInv

-----------------------------------------------------------------------------
(* Invariance.                                                             *)

(* Every step preserves the inductive invariant.                           *)
LEMMA NextInv == IInv /\ [Next]_vars => IInv'
<1> SUFFICES ASSUME IInv, [Next]_vars PROVE IInv'
  OBVIOUS
<1>1. CASE Next
  BY <1>1, LiveInv, SendInv, BookkeepingInv, DiskFaultInv, ScanInv, ScanBoundsInv, CrashInv
     DEF Next
<1>2. CASE UNCHANGED vars
  <2> USE <1>2 DEF IInv, vars, disk, workers, history
  <2>1. TypeOK'
    BY DEF TypeOK
  <2>2. InHandInv' /\ AckInv' /\ NothingLost' /\ ClaimsExact'
    BY DEF InHandInv, AckInv, NothingLost, ClaimsExact
  <2> QED
    BY <2>1, <2>2
<1> QED
  BY <1>1, <1>2

(* The inductive invariant is an invariant of the queue.                   *)
THEOREM Invariance == Spec => []IInv
<1>1. Init => IInv
  BY InitInv
<1>2. IInv /\ [Next]_vars => IInv'
  BY NextInv
<1> QED
  BY <1>1, <1>2, PTL DEF Spec

(* The state always has its type.                                          *)
THEOREM TypeCorrect == Spec => []TypeOK
<1>1. IInv => TypeOK
  BY DEF IInv
<1> QED
  BY <1>1, Invariance, PTL

(* No message that was written to disk and is not best-effort is lost, in  *)
(* spite of crashes, failing file operations and workers that overlap.     *)
THEOREM NothingLostHolds == Spec => []NothingLost
<1>1. IInv => NothingLost
  BY DEF IInv
<1> QED
  BY <1>1, Invariance, PTL

(* Two scans never work on one entry, and no claim is left behind.         *)
THEOREM ClaimsExactHolds == Spec => []ClaimsExact
<1>1. IInv => ClaimsExact
  BY DEF IInv
<1> QED
  BY <1>1, Invariance, PTL

-----------------------------------------------------------------------------
(* What a scan may send again.                                             *)

(* Before its live send starts, a message is nowhere.                      *)
FreshInv ==
    \A m \in Msg : pc[m] = "none" =>
        /\ m \notin pending \cup sent
        /\ \A a \in Scan : m \notin todo[a] /\ cur[a] # m

(* An entry the channel already has is about to be acked, unless a crash,  *)
(* an error or a late write has come in between.                           *)
SentInv ==
    \A m \in (sent \cap pending) \ unsure : \E w \in Worker : pc[w] = "acking" /\ cur[w] = m

ReplayInv == FreshInv /\ SentInv

(* What worker w may do in a step: it moves only itself, sends, writes or  *)
(* removes only its own entry, and takes up only what its snapshot holds.  *)
(* After a send it goes to the ack, and from there only once the entry is  *)
(* removed or uncertain.                                                   *)
Moves(w) ==
    /\ pc'[w] # "none"
    /\ \A v \in Worker \ {w} : pc'[v] = pc[v] /\ cur'[v] = cur[v]
    /\ w \in Msg => cur'[w] = w
    /\ w \in Scan => cur'[w] \in {cur[w], NoMsg} \cup todo[w]
    /\ \A a \in Scan : todo'[a] \subseteq todo[a] \cup pending

Touches(w) ==
    /\ pending' \subseteq pending \cup {cur[w]} /\ sent' \subseteq sent \cup {cur[w]}
    /\ unsure \subseteq unsure'
    /\ (cur[w] \in sent' \cap pending' /\ cur[w] \notin unsure')
          => \/ pc'[w] = "acking" /\ cur'[w] = cur[w]
             \/ pc[w] # "acking" /\ cur[w] \in sent \cap pending

LEMMA ReplayStep ==
    ASSUME IInv, ReplayInv, NEW w \in Worker, Moves(w), Touches(w)
    PROVE  ReplayInv'
<1>1. /\ \A m \in Msg : cur[m] = m
      /\ NoMsg \notin Msg
  BY MsgAssumption DEF IInv, InHandInv
<1>2. FreshInv'
  <2> SUFFICES ASSUME NEW m \in Msg, pc'[m] = "none"
               PROVE  m \notin pending' \cup sent' /\ \A a \in Scan : m \notin todo'[a] /\ cur'[a] # m
    BY DEF FreshInv
  <2>1. m # w /\ pc[m] = "none"
    BY DEF Moves, Worker
  <2>2. m \notin pending \cup sent /\ \A a \in Scan : m \notin todo[a] /\ cur[a] # m
    BY <2>1 DEF ReplayInv, FreshInv
  <2>3. cur[w] # m
    BY <1>1, <2>1, <2>2 DEF Worker
  <2>4. \A a \in Scan : cur'[a] # m
    BY <1>1, <2>2 DEF Moves, Worker
  <2> QED
    BY <2>2, <2>3, <2>4 DEF Moves, Touches
<1>3. SentInv'
  <2> SUFFICES ASSUME NEW m \in (sent' \cap pending') \ unsure'
               PROVE  \E v \in Worker : pc'[v] = "acking" /\ cur'[v] = m
    BY DEF SentInv
  <2>1. CASE m = cur[w] /\ pc'[w] = "acking" /\ cur'[w] = cur[w]
    BY <2>1
  <2>2. CASE m # cur[w] \/ ~(pc'[w] = "acking" /\ cur'[w] = cur[w])
    <3>1. m \in (sent \cap pending) \ unsure /\ (pc[w] = "acking" => cur[w] # m)
      BY <2>2 DEF Touches
    <3>2. PICK v \in Worker : pc[v] = "acking" /\ cur[v] = m
      BY <3>1 DEF ReplayInv, SentInv
    <3>3. v # w
      BY <3>1, <3>2
    <3> QED
      BY <3>2, <3>3 DEF Moves
  <2> QED
    BY <2>1, <2>2
<1> QED
  BY <1>2, <1>3 DEF ReplayInv

LEMMA GotoMoves ==
    ASSUME IInv, NEW w \in Worker, NEW label, Goto(w, label), label # "none", UNCHANGED <<cur, todo>>
    PROVE  Moves(w) /\ pc'[w] = label /\ cur'[w] = cur[w]
<1>1. pc'[w] = label /\ \A v \in Worker \ {w} : pc'[v] = pc[v]
  BY DEF IInv, TypeOK, Goto
<1> QED
  BY <1>1 DEF Moves, IInv, InHandInv

LEMMA FinishMoves ==
    ASSUME IInv, NEW w \in Worker, Finish(w), UNCHANGED todo
    PROVE  Moves(w)
<1>1. pc \in [Worker -> PC] /\ cur \in [Worker -> Msg \cup {NoMsg}] /\ \A m \in Msg : cur[m] = m
  BY DEF IInv, TypeOK, InHandInv
<1>2. CASE w \in Msg
  BY <1>1, <1>2, GotoMoves DEF Finish
<1>3. CASE w \notin Msg
  <2>1. pc' = [pc EXCEPT ![w] = "loop"] /\ cur' = [cur EXCEPT ![w] = NoMsg]
    BY <1>3 DEF Finish, Goto
  <2> QED
    BY <1>1, <1>3, <2>1 DEF Moves
<1> QED
  BY <1>2, <1>3

(* Steps that only move a worker and leave the disk: they stay clear of a  *)
(* worker that is about to ack.                                            *)
LEMMA QuietTouches ==
    ASSUME NEW w \in Worker, pc[w] # "acking", UNCHANGED <<pending, sent, unsure>>
    PROVE  Touches(w)
BY DEF Touches

LEMMA ReplayLive ==
    ASSUME IInv, ReplayInv, NEW m \in Msg, enqueueDelivery(m) \/ EnqueueFails(m) \/ SendAborted(m)
    PROVE  ReplayInv'
<1>1. m \in Worker /\ cur[m] = m
  BY DEF Worker, IInv, InHandInv
<1>2. Moves(m)
  BY <1>1, GotoMoves DEF enqueueDelivery, EnqueueFails, SendAborted
<1>3. CASE enqueueDelivery(m)
  <2>1. m \notin sent
    BY <1>3 DEF ReplayInv, FreshInv, enqueueDelivery
  <2>2. Touches(m)
    BY <1>1, <1>3, <2>1 DEF Touches, enqueueDelivery
  <2> QED
    BY <1>1, <1>2, <2>2, ReplayStep
<1>4. CASE EnqueueFails(m) \/ SendAborted(m)
  BY <1>1, <1>2, <1>4, QuietTouches, ReplayStep
     DEF EnqueueFails, SendAborted, disk, history
<1> QED
  BY <1>3, <1>4

LEMMA ReplaySend ==
    ASSUME IInv, ReplayInv, NEW w \in Worker, SendStep(w)
    PROVE  ReplayInv'
<1>1. CASE Deliver(w)
  <2>1. Moves(w) /\ pc'[w] = "acking" /\ cur'[w] = cur[w]
    BY <1>1, GotoMoves DEF Deliver
  <2>2. Touches(w)
    BY <1>1, <2>1 DEF Touches, Deliver, PayloadsEnd, disk
  <2> QED
    BY <2>1, <2>2, ReplayStep
<1>2. CASE SendThrows(w)
  <2>1. Moves(w)
    BY <1>2, GotoMoves DEF SendThrows
  <2> QED
    BY <1>2, <2>1, QuietTouches, ReplayStep DEF SendThrows, disk, history
<1>3. CASE SendSwallowed(w)
  <2>1. Moves(w)
    BY <1>3, GotoMoves DEF SendSwallowed
  <2> QED
    BY <1>3, <2>1, QuietTouches, ReplayStep DEF SendSwallowed, disk, history
<1> QED
  BY <1>1, <1>2, <1>3 DEF SendStep

LEMMA ReplayBookkeeping ==
    ASSUME IInv, ReplayInv, NEW w \in Worker, BookkeepingStep(w)
    PROVE  ReplayInv'
<1>1. CASE AckRename(w)
  <2>1. Moves(w)
    BY <1>1, GotoMoves, FinishMoves DEF AckRename
  <2>2. Touches(w)
    BY <1>1 DEF Touches, AckRename
  <2> QED
    BY <2>1, <2>2, ReplayStep
<1>2. CASE AckUnlink(w)
  <2>1. Moves(w)
    BY <1>2, FinishMoves DEF AckUnlink
  <2> QED
    BY <1>2, <2>1, QuietTouches, ReplayStep DEF AckUnlink, history
<1>3. CASE FailRead(w)
  <2>1. Moves(w)
    BY <1>3, GotoMoves, FinishMoves DEF FailRead
  <2> QED
    BY <1>3, <2>1, QuietTouches, ReplayStep DEF FailRead, disk, history
<1>4. CASE FailWrite(w)
  <2>1. Moves(w)
    BY <1>4, FinishMoves DEF FailWrite
  <2>2. Touches(w)
    BY <1>4 DEF Touches, FailWrite, WriteEntry
  <2> QED
    BY <2>1, <2>2, ReplayStep
<1> QED
  BY <1>1, <1>2, <1>3, <1>4 DEF BookkeepingStep

LEMMA ReplayDiskFault ==
    ASSUME IInv, ReplayInv, NEW w \in Worker, DiskFault(w)
    PROVE  ReplayInv'
<1>1. CASE MirrorFails(w)
  <2>1. Moves(w)
    BY <1>1, GotoMoves DEF MirrorFails
  <2>2. Touches(w)
    BY <1>1 DEF Touches, MirrorFails, PayloadsEnd, disk
  <2> QED
    BY <2>1, <2>2, ReplayStep
<1>2. CASE AckFails(w)
  <2>1. Moves(w)
    BY <1>2, GotoMoves DEF AckFails
  <2>2. Touches(w)
    BY <1>2 DEF Touches, AckFails, disk
  <2> QED
    BY <2>1, <2>2, ReplayStep
<1>3. CASE BookkeepingFails(w)
  <2>1. Moves(w)
    BY <1>3, FinishMoves DEF BookkeepingFails
  <2> QED
    BY <1>3, <2>1, QuietTouches, ReplayStep DEF BookkeepingFails, disk, history
<1> QED
  BY <1>1, <1>2, <1>3 DEF DiskFault

(* The steps of a scan that keep its snapshot.                             *)
LEMMA ReplayHandle ==
    ASSUME IInv, ReplayInv, NEW a \in Scan,
           \/ AlreadyGone(a) \/ Exhausted(a) \/ TooEarly(a) \/ StartSend(a) \/ moveToFailed(a)
           \/ ScanEnds(a) \/ BudgetExpires(a)
    PROVE  ReplayInv'
<1>1. a \in Worker
  BY DEF Worker
<1>2. CASE AlreadyGone(a) \/ TooEarly(a)
  <2>1. Moves(a)
    BY <1>1, <1>2, FinishMoves DEF AlreadyGone, TooEarly
  <2> QED
    BY <1>1, <1>2, <2>1, QuietTouches, ReplayStep DEF AlreadyGone, TooEarly, disk, history
<1>3. CASE Exhausted(a) \/ StartSend(a) \/ ScanEnds(a) \/ BudgetExpires(a)
  <2>1. Moves(a)
    BY <1>1, <1>3, GotoMoves DEF Exhausted, StartSend, ScanEnds, BudgetExpires
  <2> QED
    BY <1>1, <1>3, <2>1, QuietTouches, ReplayStep
       DEF Exhausted, StartSend, ScanEnds, BudgetExpires, disk, history
<1>4. CASE moveToFailed(a)
  <2>1. Moves(a)
    BY <1>1, <1>4, FinishMoves DEF moveToFailed
  <2>2. Touches(a)
    BY <1>4 DEF Touches, moveToFailed, history
  <2> QED
    BY <1>1, <2>1, <2>2, ReplayStep
<1> QED
  BY <1>2, <1>3, <1>4

(* The steps of a scan that take or drop its snapshot.                     *)
LEMMA ReplaySnapshot ==
    ASSUME IInv, ReplayInv, NEW a \in Scan,
           \/ StartScan(a) \/ ScanThrows(a) \/ claimRecoveryEntry(a) \/ DeferRead(a) \/ DeferWrite(a)
    PROVE  ReplayInv'
<1>1. /\ a \in Worker /\ a \notin Msg /\ pc \in [Worker -> PC]
      /\ cur \in [Worker -> Msg \cup {NoMsg}] /\ todo \in [Scan -> SUBSET Msg]
      /\ \A m \in Msg : m \in Worker /\ cur[m] = m
  BY ScanAssumption DEF Worker, IInv, TypeOK, InHandInv
<1>2. pc[a] # "acking"
  BY DEF StartScan, ScanThrows, claimRecoveryEntry, DeferRead, DeferWrite
<1>3. CASE StartScan(a)
  <2>1. Moves(a)
    BY <1>1, <1>3 DEF Moves, StartScan, Goto
  <2> QED
    BY <1>1, <1>2, <1>3, <2>1, QuietTouches, ReplayStep DEF StartScan, history
<1>4. CASE ScanThrows(a)
  <2>1. Moves(a)
    BY <1>1, <1>4 DEF Moves, ScanThrows, Goto
  <2> QED
    BY <1>1, <1>2, <1>4, <2>1, QuietTouches, ReplayStep DEF ScanThrows, disk, history
<1>5. CASE claimRecoveryEntry(a)
  <2>1. Moves(a)
    BY <1>1, <1>5 DEF Moves, claimRecoveryEntry, Goto
  <2> QED
    BY <1>1, <1>2, <1>5, <2>1, QuietTouches, ReplayStep DEF claimRecoveryEntry, disk, history
<1>6. CASE DeferRead(a)
  <2>1. Moves(a)
    BY <1>1, <1>6 DEF Moves, DeferRead, Goto
  <2> QED
    BY <1>1, <1>2, <1>6, <2>1, QuietTouches, ReplayStep DEF DeferRead, disk, history
<1>7. CASE DeferWrite(a)
  <2>1. Moves(a)
    BY <1>1, <1>7 DEF Moves, DeferWrite, Goto
  <2>2. Touches(a)
    BY <1>7 DEF Touches, DeferWrite, WriteEntry
  <2> QED
    BY <1>1, <2>1, <2>2, ReplayStep
<1> QED
  BY <1>3, <1>4, <1>5, <1>6, <1>7

LEMMA ReplayCrash ==
    ASSUME IInv, ReplayInv, Crash
    PROVE  ReplayInv'
<1>1. SentInv'
  BY DEF SentInv, Crash, disk
<1>2. FreshInv'
  <2>1. \A m \in Msg : pc'[m] = "none" => pc[m] = "none"
    BY ScanAssumption DEF Crash, Worker
  <2>2. \A a \in Scan : todo'[a] = {} /\ cur'[a] = NoMsg
    BY ScanAssumption DEF Crash, Worker
  <2> QED
    BY <2>1, <2>2, MsgAssumption DEF FreshInv, ReplayInv, Crash, disk
<1> QED
  BY <1>1, <1>2 DEF ReplayInv

LEMMA ReplayNext == IInv /\ ReplayInv /\ [Next]_vars => ReplayInv'
<1> SUFFICES ASSUME IInv, ReplayInv, [Next]_vars PROVE ReplayInv'
  OBVIOUS
<1>1. ASSUME NEW a \in Scan, ScanStep(a) PROVE ReplayInv'
  BY <1>1, ReplayHandle, ReplaySnapshot DEF ScanStep
<1>2. CASE Next
  BY <1>1, <1>2, ReplayLive, ReplaySend, ReplayBookkeeping, ReplayDiskFault, ReplaySnapshot,
     ReplayCrash DEF Next
<1>3. CASE UNCHANGED vars
  BY <1>3 DEF ReplayInv, FreshInv, SentInv, vars, disk, workers, history
<1> QED
  BY <1>2, <1>3

LEMMA ReplayInit == Init => ReplayInv
<1> SUFFICES ASSUME Init PROVE ReplayInv
  OBVIOUS
<1>1. \A a \in Scan : todo[a] = {} /\ cur[a] = NoMsg
  BY ScanAssumption DEF Init, Worker
<1> QED
  BY <1>1, MsgAssumption DEF Init, ReplayInv, FreshInv, SentInv

(* A scan starts to send only from a claim, with the entry still there.    *)
LEMMA StartsFacts ==
    ASSUME IInv, Next, NEW a \in Scan, NEW m \in Msg, Starts(a, m)
    PROVE  m \in pending
<1>1. /\ pc \in [Worker -> PC] /\ a \in Worker /\ a \notin Msg
      /\ pc[a] = "claimed" /\ pc'[a] = "sending" /\ cur[a] = m
  BY ScanAssumption DEF IInv, TypeOK, Worker, Starts
<1>2. ASSUME NEW w \in Worker, NEW label, Goto(w, label), label # "sending" PROVE FALSE
  BY <1>1, <1>2 DEF Goto
<1>3. ASSUME NEW w \in Worker, Finish(w) PROVE FALSE
  BY <1>2, <1>3 DEF Finish
<1>4. ASSUME NEW k \in Msg, enqueueDelivery(k) \/ EnqueueFails(k) \/ SendAborted(k) PROVE FALSE
  <2>1. pc'[a] = pc[a]
    BY <1>1, <1>4 DEF enqueueDelivery, EnqueueFails, SendAborted, Goto
  <2> QED
    BY <1>1, <2>1
<1>5. ASSUME NEW w \in Worker, SendStep(w) \/ DiskFault(w) PROVE FALSE
  BY <1>2, <1>3, <1>5
     DEF SendStep, Deliver, SendThrows, SendSwallowed, DiskFault, MirrorFails, AckFails,
         BookkeepingFails
<1>6. ASSUME NEW w \in Worker, BookkeepingStep(w) PROVE FALSE
  BY <1>2, <1>3, <1>6 DEF BookkeepingStep, AckRename, AckUnlink, FailRead, FailWrite
<1>7. ASSUME NEW b \in Scan, StartScan(b) \/ ScanThrows(b) PROVE FALSE
  BY <1>2, <1>7 DEF StartScan, ScanThrows, Worker
<1>8. ASSUME NEW b \in Scan, ScanStep(b) PROVE m \in pending
  <2>1. b \in Worker
    BY DEF Worker
  <2>2. CASE StartSend(b)
    <3>1. b = a
      BY <1>1, <2>1, <2>2 DEF StartSend, Goto
    <3> QED
      BY <1>1, <2>2, <3>1 DEF StartSend
  <2>3. CASE claimRecoveryEntry(b) \/ DeferRead(b)
    BY <1>1, <1>2, <2>1, <2>3 DEF claimRecoveryEntry, DeferRead
  <2>4. CASE \/ AlreadyGone(b) \/ Exhausted(b) \/ TooEarly(b) \/ moveToFailed(b)
             \/ ScanEnds(b) \/ BudgetExpires(b) \/ DeferWrite(b)
    BY <1>2, <1>3, <2>1, <2>4
       DEF AlreadyGone, Exhausted, TooEarly, moveToFailed, ScanEnds, BudgetExpires, DeferWrite
  <2> QED
    BY <1>8, <2>2, <2>3, <2>4 DEF ScanStep
<1>9. CASE Crash
  BY <1>1, <1>9 DEF Crash
<1> QED
  BY <1>4, <1>5, <1>6, <1>7, <1>8, <1>9 DEF Next

(* A scan sends a message the channel already has only after a crash, a    *)
(* failed file operation or a late write, or while its live sender is      *)
(* between the send and the ack: no overlap of scans, and no stale         *)
(* snapshot, is a reason.                                                  *)
THEOREM ReplayHasCauseHolds == Spec => ReplayHasCause
<1> DEFINE Caused == \A a \in Scan, m \in Msg :
                        (Starts(a, m) /\ m \in sent) => m \in unsure \/ pc[m] = "acking"
<1>1. IInv /\ ReplayInv /\ Next => Caused
  <2> SUFFICES ASSUME IInv, ReplayInv, Next, NEW a \in Scan, NEW m \in Msg, Starts(a, m),
                      m \in sent, m \notin unsure
               PROVE  pc[m] = "acking"
    OBVIOUS
  <2>1. PICK w \in Worker : pc[w] = "acking" /\ cur[w] = m
    BY StartsFacts DEF ReplayInv, SentInv
  <2>2. w \notin Scan
    BY <2>1 DEF Starts, IInv, ClaimsExact, Claiming
  <2> QED
    BY <2>1, <2>2 DEF Worker, IInv, InHandInv
<1>2. UNCHANGED vars => Caused
  BY DEF Starts, vars, workers
<1>3. IInv /\ ReplayInv /\ [Next]_vars => [Caused]_vars
  BY <1>1, <1>2
<1>4. Spec => [](IInv /\ ReplayInv)
  <2>1. Init => IInv /\ ReplayInv
    BY InitInv, ReplayInit
  <2>2. IInv /\ ReplayInv /\ [Next]_vars => (IInv /\ ReplayInv)'
    BY NextInv, ReplayNext
  <2> QED
    BY <2>1, <2>2, PTL DEF Spec
<1> QED
  BY <1>3, <1>4, PTL DEF Spec, ReplayHasCause

=============================================================================
