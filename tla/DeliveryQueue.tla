---------------------------- MODULE DeliveryQueue ---------------------------
(***************************************************************************)
(* The write-ahead queue of outbound messages: src/brain/src/infra/        *)
(* outbound/delivery-queue-storage.ts and delivery-queue-recovery.ts, with *)
(* their caller deliverOutboundPayloads in deliver.ts.                     *)
(*                                                                         *)
(* A message is written to disk before it is sent and removed afterwards.  *)
(* Three kinds of workers share the directory, each interleaving with the  *)
(* others at every file operation and every send: the live sender of a     *)
(* message, the recovery scan of a gateway start, and the drain that a     *)
(* reconnecting channel starts.  Only scans and drains claim entries.  A   *)
(* crash stops them all and leaves the directory as it is.                 *)
(*                                                                         *)
(* Entries of older versions (the lastAttemptAt backfill) are left out; so *)
(* is the temporary file of writeQueueEntry, whose rename is atomic.       *)
(***************************************************************************)
EXTENDS Naturals, FiniteSets

CONSTANTS
    Msg,            \* messages, numbered in the order of enqueuedAt
    Startup,        \* scans by recoverPendingDeliveries
    Drain,          \* scans by drainPendingDeliveries, one per drainKey
    MatchesDrain,   \* messages the drains' selectEntry matches
    BestEffort,     \* messages sent with bestEffort
    WithOnError,    \* of those, the ones whose live caller passes onError
    MaxRetries,     \* MAX_RETRIES
    MaxCrashes,     \* bound: how often the process crashes
    MaxLive,        \* bound: live sends in flight at once
    Unreliable,     \* bound: messages whose file operations may fail, other
                    \* than with ENOENT
    NoMsg

Scan == Startup \cup Drain
Worker == Msg \cup Scan

ASSUME MsgAssumption == Msg \subseteq Nat /\ NoMsg \notin Msg
ASSUME ScanAssumption == Startup \cap Drain = {} /\ Scan \cap Msg = {}
ASSUME SubsetAssumption ==
    MatchesDrain \subseteq Msg /\ BestEffort \subseteq Msg /\ WithOnError \subseteq BestEffort
ASSUME NumberAssumption == {MaxRetries, MaxCrashes, MaxLive} \subseteq Nat
ASSUME UnreliableAssumption == Unreliable \subseteq Msg

VARIABLES
    pending,     \* messages with a file <id>.json
    retryCount,  \* of that file, 0 without one
    marker,      \* messages with a file <id>.delivered
    failed,      \* messages with a file in failed/
    pc,          \* per worker: where it is
    cur,         \* per worker: the entry it handles
    todo,        \* per scan: entries of its snapshot not handled yet
    seen,        \* per worker: retryCount read by failDelivery
    entriesInProgress,
    crashes,
    persisted,   \* history: messages that were written to disk
    sent,        \* history: messages all of whose payloads the channel has taken
    dropped,     \* history: other messages that are not best-effort and of which a
                 \* send withheld a payload or the live send ended with an AbortError
    acked,       \* history: messages a scan has acked after their live send
    unsure       \* history: a crash or an error kept the entry after its send,
                 \* or a late write brought it back

disk == <<pending, retryCount, marker, failed>>
workers == <<pc, cur, todo, seen, entriesInProgress>>
history == <<persisted, sent, dropped, acked, unsure>>
vars == <<disk, workers, crashes, history>>

PC == {"none", "done", "idle", "first", "loop", "claimed", "sending", "acking", "unlinking",
       "failing", "writing", "moving", "pruning", "deferring", "deferWriting"}

TypeOK ==
    /\ pending \subseteq Msg /\ marker \subseteq Msg /\ failed \subseteq Msg
    /\ retryCount \in [Msg -> 0..MaxRetries]
    /\ pc \in [Worker -> PC]
    /\ cur \in [Worker -> Msg \cup {NoMsg}]
    /\ todo \in [Scan -> SUBSET Msg]
    /\ seen \in [Worker -> 0..MaxRetries]
    /\ entriesInProgress \subseteq Msg
    /\ crashes \in 0..MaxCrashes
    /\ \A h \in {persisted, sent, dropped, acked, unsure} : h \subseteq Msg

Init ==
    /\ pending = {} /\ marker = {} /\ failed = {}
    /\ retryCount = [m \in Msg |-> 0]
    /\ pc = [w \in Worker |-> IF w \in Msg THEN "none" ELSE "idle"]
    /\ cur = [w \in Worker |-> IF w \in Msg THEN w ELSE NoMsg]
    /\ todo = [a \in Scan |-> {}]
    /\ seen = [w \in Worker |-> 0]
    /\ entriesInProgress = {}
    /\ crashes = 0
    /\ persisted = {} /\ sent = {} /\ dropped = {} /\ acked = {} /\ unsure = {}

-----------------------------------------------------------------------------
(* Helpers.                                                                *)

Goto(w, label) == pc' = [pc EXCEPT ![w] = label]

(* The worker is done with its entry: a live send returns, a scan releases *)
(* its claim (releaseRecoveryEntry) and goes on.                           *)
Finish(w) ==
    IF w \in Msg
    THEN Goto(w, "done") /\ UNCHANGED <<cur, entriesInProgress>>
    ELSE /\ Goto(w, "loop")
         /\ entriesInProgress' = entriesInProgress \ {cur[w]}
         /\ cur' = [cur EXCEPT ![w] = NoMsg]

(* retryCount is only compared with MAX_RETRIES, so it is capped there.     *)
Bumped(n) == IF n >= MaxRetries THEN n ELSE n + 1

(* The send of m is over although not all of it has reached the channel.   *)
Drops(m) == dropped' = dropped \cup ({m} \ (sent \cup BestEffort))

-----------------------------------------------------------------------------
(* deliverOutboundPayloads, the live sender of m.                          *)

Sending == {m \in Msg : pc[m] \notin {"none", "done"}}
Earlier(m) == \A k \in Msg : k < m => pc[k] # "none"

enqueueDelivery(m) ==
    /\ pc[m] = "none" /\ Earlier(m) /\ Cardinality(Sending) < MaxLive
    /\ pending' = pending \cup {m}
    /\ persisted' = persisted \cup {m}
    /\ Goto(m, "sending")
    /\ UNCHANGED <<retryCount, marker, failed, cur, todo, seen, entriesInProgress, crashes,
                   sent, dropped, acked, unsure>>

(* The write fails: the message is sent without the queue.                 *)
EnqueueFails(m) ==
    /\ m \in Unreliable
    /\ pc[m] = "none" /\ Earlier(m)
    /\ Goto(m, "done")
    /\ UNCHANGED <<disk, cur, todo, seen, entriesInProgress, crashes, history>>

(* The send ends with an AbortError and the entry is acked: its caller's   *)
(* abort, or that of anything it called, a channel's own timeout say.      *)
SendAborted(m) ==
    /\ pc[m] = "sending"
    /\ Drops(m)
    /\ Goto(m, "acking")
    /\ UNCHANGED <<disk, cur, todo, seen, entriesInProgress, crashes, persisted, sent, acked, unsure>>

-----------------------------------------------------------------------------
(* The outcome of a send, live or by a scan.                               *)

(* All payloads went through: each was taken by the channel, or some were  *)
(* withheld, as a message_sending hook cancelled them or nothing was left  *)
(* of them once normalised and chunked.                                    *)
PayloadsEnd(m) ==
    \/ sent' = sent \cup {m} /\ dropped' = dropped \ {m}
    \/ UNCHANGED sent /\ Drops(m)

Deliver(w) ==
    /\ pc[w] = "sending"
    /\ PayloadsEnd(cur[w])
    /\ Goto(w, "acking")
    /\ UNCHANGED <<disk, cur, todo, seen, entriesInProgress, crashes, persisted, acked, unsure>>

(* Mutant: a message that could not be sent is acked.                      *)
SendThrows_Acks(w) ==
    /\ pc[w] = "sending"
    /\ Goto(w, "acking")
    /\ UNCHANGED <<disk, cur, todo, seen, entriesInProgress, crashes, history>>

(* A scan quarantines an entry whose error is permanent.                   *)
SendThrows(w) ==
    /\ pc[w] = "sending"
    /\ \/ Goto(w, "failing")
       \/ w \in Scan /\ Goto(w, "moving")
    /\ UNCHANGED <<disk, cur, todo, seen, entriesInProgress, crashes, history>>

(* The message is out, but appending it to the session transcript throws.  *)
MirrorFails(w) ==
    /\ cur[w] \in Unreliable /\ pc[w] = "sending"
    /\ PayloadsEnd(cur[w])
    /\ unsure' = unsure \cup {cur[w]}
    /\ \/ Goto(w, "failing")
       \/ w \in Scan /\ Goto(w, "moving")
    /\ UNCHANGED <<disk, cur, todo, seen, entriesInProgress, crashes, persisted, acked>>

(* With bestEffort a failed payload does not throw; it is noticed through  *)
(* onError, which a scan does not pass.                                    *)
SendSwallowed(w) ==
    /\ pc[w] = "sending" /\ cur[w] \in BestEffort
    /\ Goto(w, IF w \in WithOnError THEN "failing" ELSE "acking")
    /\ UNCHANGED <<disk, cur, todo, seen, entriesInProgress, crashes, history>>

-----------------------------------------------------------------------------
(* ackDelivery, failDelivery and moveToFailed.                             *)

(* Phase 1 renames the entry; if it is gone, only the marker is removed.   *)
AckRename(w) ==
    LET m == cur[w] IN
    /\ pc[w] = "acking"
    /\ IF m \in pending
       THEN /\ pending' = pending \ {m}
            /\ marker' = marker \cup {m}
            /\ acked' = IF w \in Scan /\ pc[m] = "done" THEN acked \cup {m} ELSE acked
            /\ Goto(w, "unlinking")
            /\ retryCount' = [retryCount EXCEPT ![m] = 0]
            /\ UNCHANGED <<cur, entriesInProgress>>
       ELSE /\ marker' = marker \ {m}
            /\ Finish(w)
            /\ UNCHANGED <<pending, acked, retryCount>>
    /\ UNCHANGED <<failed, todo, seen, crashes, persisted, sent, dropped, unsure>>

(* Phase 2.                                                                *)
AckUnlink(w) ==
    /\ pc[w] = "unlinking"
    /\ marker' = marker \ {cur[w]}
    /\ Finish(w)
    /\ UNCHANGED <<pending, retryCount, failed, todo, seen, crashes, history>>

(* A scan's ack fails: its catch block takes that for a failed send.       *)
AckFails(w) ==
    /\ cur[w] \in Unreliable /\ pc[w] = "acking"
    /\ unsure' = unsure \cup {cur[w]}
    /\ Goto(w, IF w \in Scan THEN "failing" ELSE "done")
    /\ UNCHANGED <<disk, cur, todo, seen, entriesInProgress, crashes, persisted, sent, dropped,
                   acked>>

FailRead(w) ==
    /\ pc[w] = "failing"
    /\ IF cur[w] \in pending
       THEN /\ seen' = [seen EXCEPT ![w] = retryCount[cur[w]]]
            /\ Goto(w, "writing")
            /\ UNCHANGED <<cur, entriesInProgress>>
       ELSE Finish(w) /\ UNCHANGED seen
    /\ UNCHANGED <<disk, todo, crashes, history>>

(* Mutant: the attempt is not counted.                                     *)
WriteEntry_NotCounted(w) ==
    /\ pending' = pending \cup {cur[w]}
    /\ retryCount' = [retryCount EXCEPT ![cur[w]] = seen[w]]
    /\ seen' = [seen EXCEPT ![w] = 0]
    /\ unsure' = unsure \cup ({cur[w]} \ pending)

(* The entry is written whether or not it still exists.                    *)
WriteEntry(w) ==
    /\ pending' = pending \cup {cur[w]}
    /\ retryCount' = [retryCount EXCEPT ![cur[w]] = Bumped(seen[w])]
    /\ seen' = [seen EXCEPT ![w] = 0]
    /\ unsure' = unsure \cup ({cur[w]} \ pending)

FailWrite(w) ==
    /\ pc[w] = "writing"
    /\ WriteEntry(w)
    /\ Finish(w)
    /\ UNCHANGED <<marker, failed, todo, crashes, persisted, sent, dropped, acked>>

moveToFailed(a) ==
    /\ pc[a] \in {"moving", "pruning"}
    /\ pending' = pending \ {cur[a]}
    /\ failed' = IF cur[a] \in pending THEN failed \cup {cur[a]} ELSE failed
    /\ retryCount' = [retryCount EXCEPT ![cur[a]] = 0]
    /\ Finish(a)
    /\ UNCHANGED <<marker, todo, seen, crashes, history>>

(* Any other error while bookkeeping a failed send is dropped.             *)
BookkeepingFails(w) ==
    /\ cur[w] \in Unreliable
    /\ pc[w] \in {"failing", "writing", "moving"} \/ (w \in Startup /\ pc[w] = "pruning")
    /\ Finish(w)
    /\ seen' = [seen EXCEPT ![w] = 0]
    /\ UNCHANGED <<disk, todo, crashes, history>>

-----------------------------------------------------------------------------
(* recoverPendingDeliveries and drainPendingDeliveries.                    *)

(* loadPendingDeliveries: remove stale markers and take a snapshot.  A     *)
(* drain whose key is in progress is skipped.                              *)
StartScan(a) ==
    /\ pc[a] = "idle"
    /\ marker' = {}
    /\ todo' = [todo EXCEPT ![a] = IF a \in Drain THEN pending \cap MatchesDrain ELSE pending]
    /\ Goto(a, IF todo'[a] = {} THEN "idle" ELSE "first")
    /\ UNCHANGED <<pending, retryCount, failed, cur, seen, entriesInProgress, crashes, history>>

Oldest(m, S) == m \in S /\ \A k \in S : m <= k

claimRecoveryEntry(a) ==
    /\ pc[a] \in {"first", "loop"}
    /\ \E m \in todo[a] :
         /\ Oldest(m, todo[a])
         /\ todo' = [todo EXCEPT ![a] = @ \ {m}]
         /\ IF m \in entriesInProgress
            THEN Goto(a, "loop") /\ UNCHANGED <<cur, entriesInProgress>>
            ELSE /\ entriesInProgress' = entriesInProgress \cup {m}
                 /\ cur' = [cur EXCEPT ![a] = m]
                 /\ Goto(a, "claimed")
    /\ UNCHANGED <<disk, seen, crashes, history>>

(* The entry is read again, and is gone.                                   *)
AlreadyGone(a) ==
    /\ pc[a] = "claimed" /\ cur[a] \notin pending
    /\ Finish(a)
    /\ UNCHANGED <<disk, todo, seen, crashes, history>>

Exhausted(a) ==
    /\ pc[a] = "claimed" /\ cur[a] \in pending
    /\ retryCount[cur[a]] >= MaxRetries
    /\ Goto(a, "pruning")
    /\ UNCHANGED <<disk, cur, todo, seen, entriesInProgress, crashes, history>>

(* Its backoff has not elapsed.  The first replay never waits.             *)
TooEarly(a) ==
    /\ pc[a] = "claimed" /\ cur[a] \in pending
    /\ retryCount[cur[a]] \in 1..MaxRetries - 1
    /\ Finish(a)
    /\ UNCHANGED <<disk, todo, seen, crashes, history>>

(* Mutant: the snapshot is trusted, the entry is not read again.           *)
StartSend_FromSnapshot(a) ==
    /\ pc[a] = "claimed"
    /\ Goto(a, "sending")
    /\ UNCHANGED <<disk, cur, todo, seen, entriesInProgress, crashes, history>>

StartSend(a) ==
    /\ pc[a] = "claimed" /\ cur[a] \in pending
    /\ retryCount[cur[a]] < MaxRetries
    /\ Goto(a, "sending")
    /\ UNCHANGED <<disk, cur, todo, seen, entriesInProgress, crashes, history>>

(* Mutant: the claim is not released on the way out.                       *)
ScanThrows_KeepsClaim(a) ==
    /\ cur[a] \in Unreliable
    /\ pc[a] = "claimed" \/ (a \in Drain /\ pc[a] = "pruning")
    /\ Goto(a, "idle")
    /\ cur' = [cur EXCEPT ![a] = NoMsg]
    /\ todo' = [todo EXCEPT ![a] = {}]
    /\ UNCHANGED <<disk, seen, entriesInProgress, crashes, history>>

(* An error that leaves the whole scan, through its finally blocks.        *)
ScanThrows(a) ==
    /\ cur[a] \in Unreliable
    /\ pc[a] = "claimed" \/ (a \in Drain /\ pc[a] = "pruning")
    /\ Goto(a, "idle")
    /\ entriesInProgress' = entriesInProgress \ {cur[a]}
    /\ cur' = [cur EXCEPT ![a] = NoMsg]
    /\ todo' = [todo EXCEPT ![a] = {}]
    /\ UNCHANGED <<disk, seen, crashes, history>>

ScanEnds(a) ==
    /\ pc[a] \in {"loop", "deferring"} /\ todo[a] = {}
    /\ Goto(a, "idle")
    /\ UNCHANGED <<disk, cur, todo, seen, entriesInProgress, crashes, history>>

(* The deadline is checked before every entry and lies after the first.    *)
BudgetExpires(a) ==
    /\ a \in Startup
    /\ pc[a] = "loop" /\ todo[a] # {}
    /\ Goto(a, "deferring")
    /\ UNCHANGED <<disk, cur, todo, seen, entriesInProgress, crashes, history>>

(* deferRemainingEntriesForBudget calls failDelivery for every remaining   *)
(* entry, claimed by somebody else or not.                                 *)
DeferRead(a) ==
    /\ pc[a] = "deferring"
    /\ \E m \in todo[a] :
         /\ todo' = [todo EXCEPT ![a] = @ \ {m}]
         /\ IF m \in pending
            THEN /\ cur' = [cur EXCEPT ![a] = m]
                 /\ seen' = [seen EXCEPT ![a] = retryCount[m]]
                 /\ Goto(a, "deferWriting")
            ELSE UNCHANGED <<cur, seen, pc>>
    /\ UNCHANGED <<disk, entriesInProgress, crashes, history>>

DeferWrite(a) ==
    /\ pc[a] = "deferWriting"
    /\ WriteEntry(a)
    /\ cur' = [cur EXCEPT ![a] = NoMsg]
    /\ Goto(a, "deferring")
    /\ UNCHANGED <<marker, failed, todo, entriesInProgress, crashes, persisted, sent, dropped,
                   acked>>

-----------------------------------------------------------------------------

Crash ==
    /\ crashes < MaxCrashes
    /\ crashes' = crashes + 1
    /\ pc' = [w \in Worker |-> IF w \in Scan THEN "idle"
                               ELSE IF pc[w] = "none" THEN "none" ELSE "done"]
    /\ cur' = [w \in Worker |-> IF w \in Msg THEN w ELSE NoMsg]
    /\ todo' = [a \in Scan |-> {}]
    /\ seen' = [w \in Worker |-> 0]
    /\ entriesInProgress' = {}
    /\ unsure' = unsure \cup (sent \cap pending)
    /\ UNCHANGED <<disk, persisted, sent, dropped, acked>>

SendStep(w) == Deliver(w) \/ SendThrows(w) \/ SendSwallowed(w)
BookkeepingStep(w) == AckRename(w) \/ AckUnlink(w) \/ FailRead(w) \/ FailWrite(w)
DiskFault(w) == MirrorFails(w) \/ AckFails(w) \/ BookkeepingFails(w)
ScanStep(a) ==
    \/ claimRecoveryEntry(a) \/ AlreadyGone(a) \/ Exhausted(a) \/ TooEarly(a) \/ StartSend(a)
    \/ moveToFailed(a) \/ ScanEnds(a) \/ BudgetExpires(a) \/ DeferRead(a) \/ DeferWrite(a)

Next ==
    \/ \E m \in Msg : enqueueDelivery(m) \/ EnqueueFails(m) \/ SendAborted(m)
    \/ \E w \in Worker : SendStep(w) \/ BookkeepingStep(w) \/ DiskFault(w)
    \/ \E a \in Scan : StartScan(a) \/ ScanThrows(a) \/ ScanStep(a)
    \/ Crash

(* The sends of a scan end (they carry timeouts) and its file operations   *)
(* return.  A backoff elapses, so an entry is not found too early forever. *)
(* Nothing is asked of the live senders.                                   *)
Fairness ==
    \A a \in Scan : /\ WF_vars(ScanStep(a) \/ SendStep(a) \/ BookkeepingStep(a))
                    /\ SF_vars(StartSend(a))

Spec == Init /\ [][Next]_vars
FairSpec == Spec /\ Fairness

-----------------------------------------------------------------------------
(* Properties.                                                             *)

(* The queue prevents lost messages: what was written to disk and is not   *)
(* best-effort is still there, is in failed/ or reached the channel,       *)
(* through crashes and overlapping workers, unless a send withheld some of *)
(* it or its live send ended with an AbortError, which are both acked.     *)
NothingLost ==
    persisted \ BestEffort \subseteq pending \cup failed \cup sent \cup dropped

Claiming == {"claimed", "sending", "acking", "unlinking", "failing", "writing", "moving",
             "pruning"}

(* The claims are exactly the entries that scans are working on, one scan  *)
(* per entry: two scans never send the same entry at once, and no claim is *)
(* left behind that would hide an entry until the next start.              *)
ClaimsExact ==
    /\ entriesInProgress = {cur[a] : a \in {b \in Scan : pc[b] \in Claiming}}
    /\ \A a, b \in Scan : (a # b /\ pc[a] \in Claiming /\ pc[b] \in Claiming) => cur[a] # cur[b]

Starts(a, m) == pc[a] = "claimed" /\ pc'[a] = "sending" /\ cur[a] = m

(* delivery-queue-recovery.ts:257 - no stale snapshot of a scan makes an   *)
(* entry be sent again that another recovery path has acked.  Entries      *)
(* whose live sender was still at work are left out: it has no snapshot.   *)
AckedNotResent == [][\A a \in Scan, m \in Msg : Starts(a, m) => m \notin acked]_vars

(* A scan sends a message that the channel already has only for a reason:  *)
(* a crash or a failed file operation came between its last payload and    *)
(* phase 1 of the ack, failDelivery wrote the entry back after it had been removed,   *)
(* or its live sender is between the send and the ack, which no claim      *)
(* covers.                                                                 *)
ReplayHasCause ==
    [][\A a \in Scan, m \in Msg :
        (Starts(a, m) /\ m \in sent) => m \in unsure \/ pc[m] = "acking"]_vars

DiskError == \/ \E w \in Worker : DiskFault(w)
             \/ \E a \in Scan : ScanThrows(a)

(* delivery-queue-recovery.ts:128 - if startup scans keep coming and file  *)
(* operations stop failing, the queue ends empty for good: every entry is  *)
(* sent, quarantined or, deferred by the budget again and again, pruned at *)
(* MAX_RETRIES, also after a late write has brought it back.               *)
EveryEntryLeaves ==
    /\ \A a \in Startup : []<>(pc[a] = "first")
    /\ <>[][~DiskError]_vars
    => <>[](pending = {})

=============================================================================
