--------------------------- MODULE FollowupQueue ----------------------------
(***************************************************************************)
(* The follow-up queue of one session: messages that arrive while a run is *)
(* active wait here and a drain hands them to the agent, one by one or     *)
(* collected into one prompt.  A queue at its cap drops its oldest         *)
(* messages and, under "summarize", tells the agent about them later.      *)
(*                                                                         *)
(* A drain keeps a reference to the queue object it started on.  Clearing  *)
(* the queues of the session takes the object out of the map without       *)
(* stopping its drain, so several objects of one session may be alive.     *)
(* The drain is cut at its awaits: the debounce, the collect step that has *)
(* nothing to do, each follow-up run, and the return of drainNextQueueItem *)
(* after it.  Messages may arrive in each of the gaps.                     *)
(*                                                                         *)
(* Sources: src/brain/src/auto-reply/reply/queue/{drain,enqueue,state,     *)
(* cleanup}.ts, src/brain/src/utils/queue-helpers.ts and, for the callers, *)
(* src/brain/src/auto-reply/reply/agent-runner.ts.                         *)
(***************************************************************************)
EXTENDS Naturals, Sequences, SequencesExt

CONSTANTS
    MaxMsgs,      \* bound: messages that arrive, numbered in that order
    MaxQueues,    \* bound: queue objects of the session alive at a time
    MaxFailures,  \* bound: follow-up runs that throw
    MaxClears,    \* bound: clearSessionQueues calls
    Settings,     \* records of mode, dropPolicy and cap
    RouteOf       \* routing of a message: a key, "none" or "cross"

Msg == 1..MaxMsgs
Queue == 1..MaxQueues
NoQueue == 0

ASSUME BoundsAssumption ==
    MaxMsgs \in Nat /\ MaxQueues \in Nat /\ MaxFailures \in Nat /\ MaxClears \in Nat
ASSUME SettingsAssumption ==
    /\ Settings # {}
    /\ Settings \subseteq [mode : {"followup", "collect"}, dropPolicy : {"summarize", "old", "new"},
                           cap : Nat \ {0}]
ASSUME RouteAssumption == DOMAIN RouteOf = Msg

VARIABLES
    current,     \* FOLLOWUP_QUEUES.get(key)
    callback,    \* FOLLOWUP_RUN_CALLBACKS has the key
    q,           \* the queue objects
    drain,       \* the drain of an object: where it waits, and its prompt
    active,      \* a run of the session outside the drain is active
    failures, clears,
    (* History.                                                            *)
    arrived,     \* messages accepted, refused or found to be duplicates
    accepted,
    ran,         \* messages that were in the prompt of a run that has returned,
                 \* with the agent's answer or its failure, or thrown after an answer
    told,        \* dropped messages named in the prompt of such a run
    gone,        \* cleared with the session, dropped under "old", or pushed
                 \* out of a full summary
    mishaps      \* what has happened that the drain does not allow for

vars == <<current, callback, q, drain, active, failures, clears,
          arrived, accepted, ran, told, gone, mishaps>>

NewQueue(s) ==
    [items |-> <<>>, draining |-> FALSE, mode |-> s.mode, dropPolicy |-> s.dropPolicy,
     cap |-> s.cap, droppedCount |-> 0, summaryLines |-> <<>>, lastRun |-> FALSE]

(* Where a drain waits, and its prompt.  The history field late holds the  *)
(* messages that have come between the check of its collect step and the   *)
(* use of what was checked.                                                *)
NoDrain == [at |-> "none", kind |-> "none", msgs |-> <<>>, lines |-> <<>>, force |-> FALSE,
            late |-> {}]

Mishap == {"overflow in a run", "summary takes the place of a message",
           "cleared in a drain", "summary given up", "summary without a message",
           "answered before it failed"}

(* The states of the queue.                                                *)
TypeOK ==
    /\ current \in Queue \cup {NoQueue}
    /\ callback \in BOOLEAN
    /\ \A o \in Queue :
          /\ q[o].items \in Seq(Msg) /\ Len(q[o].items) <= MaxMsgs
          /\ q[o].draining \in BOOLEAN /\ q[o].lastRun \in BOOLEAN
          /\ [mode |-> q[o].mode, dropPolicy |-> q[o].dropPolicy, cap |-> q[o].cap] \in Settings
          /\ q[o].droppedCount \in 0..MaxMsgs
          /\ q[o].summaryLines \in Seq(Msg)
          /\ drain[o].at \in {"none", "debounce", "collecting", "run", "returned"}
          /\ drain[o].kind \in {"none", "item", "summary", "collect"}
          /\ drain[o].late \subseteq Msg
          /\ q[o].draining <=> drain[o].at # "none"
    /\ active \in BOOLEAN
    /\ failures \in 0..MaxFailures /\ clears \in 0..MaxClears
    /\ arrived \in 0..MaxMsgs
    /\ accepted \subseteq Msg /\ ran \subseteq Msg /\ told \subseteq Msg /\ gone \subseteq Msg
    /\ mishaps \subseteq Mishap

Init ==
    /\ current = NoQueue /\ callback = FALSE
    /\ q = [o \in Queue |-> NewQueue(CHOOSE s \in Settings : TRUE)]
    /\ drain = [o \in Queue |-> NoDrain]
    /\ active = TRUE
    /\ failures = 0 /\ clears = 0 /\ arrived = 0
    /\ accepted = {} /\ ran = {} /\ told = {} /\ gone = {} /\ mishaps = {}

Blame(what, if) == mishaps' = IF if THEN mishaps \cup {what} ELSE mishaps

(* An object nobody refers to any more.                                    *)
Garbage(o) == o # current /\ drain[o].at = "none"
InRun(o) == drain[o].at = "run"
Collecting(o) == drain[o].at = "collecting"

(* What the drain has seen of the queue is yet to be taken off it.         *)
WillConsume(o) == InRun(o) \/ (drain[o].at = "returned" /\ drain[o].kind = "summary")

-----------------------------------------------------------------------------
(* Helpers of the queue.                                                   *)

hasCrossChannelItems(msgs) ==
    LET routes == {RouteOf[m] : m \in msgs}
        keys == routes \ {"none", "cross"}
    IN  \/ "cross" \in routes
        \/ keys # {} /\ "none" \in routes
        \/ \E k, l \in keys : k # l

previewQueueSummaryPrompt(s) == s.dropPolicy = "summarize" /\ s.droppedCount > 0

clearQueueSummaryState(s) == [s EXCEPT !.droppedCount = 0, !.summaryLines = <<>>]

NotEmpty(s) == s.items # <<>> \/ s.droppedCount > 0

Dropped(s) == SubSeq(s.items, 1, Len(s.items) - s.cap + 1)

LastOf(s, n) == SubSeq(s, 1 + (IF Len(s) > n THEN Len(s) - n ELSE 0), Len(s))

(* Messages of which nothing is left: dropped under "old", or named in     *)
(* lines that a full summary no longer holds.                              *)
PushedOut(s) ==
    LET lines == s.summaryLines \o Dropped(s) IN
    IF Len(s.items) < s.cap THEN {}
    ELSE IF s.dropPolicy = "summarize" THEN ToSet(lines) \ ToSet(LastOf(lines, s.cap))
    ELSE ToSet(Dropped(s))

(* Mutant: one message too many is dropped.                                *)
applyQueueDropPolicy_OneMore(s) ==
    IF Len(s.items) < s.cap THEN s
    ELSE [s EXCEPT !.items = SubSeq(@, Len(@) - s.cap + 3, Len(@)),
                   !.droppedCount = IF s.dropPolicy = "summarize" THEN @ + Len(Dropped(s)) ELSE @,
                   !.summaryLines = IF s.dropPolicy = "summarize"
                                    THEN LastOf(@ \o Dropped(s), s.cap) ELSE @]

(* applyQueueDropPolicy for a queue whose policy is not "new".             *)
applyQueueDropPolicy(s) ==
    IF Len(s.items) < s.cap THEN s
    ELSE [s EXCEPT !.items = SubSeq(@, Len(@) - s.cap + 2, Len(@)),
                   !.droppedCount = IF s.dropPolicy = "summarize" THEN @ + Len(Dropped(s)) ELSE @,
                   !.summaryLines = IF s.dropPolicy = "summarize"
                                    THEN LastOf(@ \o Dropped(s), s.cap) ELSE @]

-----------------------------------------------------------------------------
(* Mutant: the queue leaves the map when its drain starts.                 *)
scheduleFollowupDrain_Deletes(st) ==
    LET o == st.cur IN
    IF o = NoQueue \/ st.q[o].draining THEN st
    ELSE IF NotEmpty(st.q[o])
    THEN [st EXCEPT !.q[o].draining = TRUE, !.cb = TRUE, !.cur = NoQueue,
                    !.drain[o] = [NoDrain EXCEPT !.at = "debounce"]]
    ELSE [st EXCEPT !.cur = NoQueue, !.cb = FALSE]

(* scheduleFollowupDrain, as far as its first await, on the map cur, the   *)
(* callback flag cb, the objects qs and the drains ds.                     *)

(* A queue that is empty when its drain starts is deleted at once.         *)
scheduleFollowupDrain(st) ==
    LET o == st.cur IN
    IF o = NoQueue \/ st.q[o].draining THEN st
    ELSE IF NotEmpty(st.q[o])
    THEN [st EXCEPT !.q[o].draining = TRUE, !.cb = TRUE,
                    !.drain[o] = [NoDrain EXCEPT !.at = "debounce"]]
    ELSE [st EXCEPT !.cur = NoQueue, !.cb = FALSE]

State(qs, ds) == [cur |-> current, cb |-> callback, q |-> qs, drain |-> ds]
Becomes(st) == /\ current' = st.cur /\ callback' = st.cb
               /\ q' = st.q /\ drain' = st.drain

(* Mutant: the queue is not drained again when it is not empty.            *)
Finally_NotAgain(o, s) ==
    LET st == State([q EXCEPT ![o] = [s EXCEPT !.draining = FALSE]],
                    [drain EXCEPT ![o] = NoDrain])
    IN  Becomes(IF NotEmpty(s) THEN st ELSE [st EXCEPT !.cur = NoQueue, !.cb = FALSE])

(* The finally block of the drain of o.  It deletes whatever queue is      *)
(* under the key, and what it starts again is that queue too.              *)
Finally(o, s) ==
    LET st == State([q EXCEPT ![o] = [s EXCEPT !.draining = FALSE]],
                    [drain EXCEPT ![o] = NoDrain])
    IN  Becomes(IF NotEmpty(s) THEN scheduleFollowupDrain(st)
                ELSE [st EXCEPT !.cur = NoQueue, !.cb = FALSE])

(* The head of the loop, with the object s of the drain.                   *)
Loop(o, s) ==
    IF NotEmpty(s)
    THEN Becomes(State([q EXCEPT ![o] = s], [drain EXCEPT ![o] = [NoDrain EXCEPT
                                                 !.at = "debounce", !.force = drain[o].force]]))
    ELSE Finally(o, s)

-----------------------------------------------------------------------------
(* Callers.                                                                *)

(* getFollowupQueue: the settings are applied before anything is checked.  *)
Settle(s, set) == [s EXCEPT !.mode = set.mode, !.dropPolicy = set.dropPolicy, !.cap = set.cap]

getFollowupQueue(o) ==
    IF current # NoQueue THEN o = current
    ELSE Garbage(o) /\ \A p \in 1..(o - 1) : ~Garbage(p)

WithSettings(o, set) == IF current # NoQueue THEN Settle(q[o], set) ELSE NewQueue(set)

GivenUp(o, set) == current = o /\ q[o].droppedCount > 0 /\ set.dropPolicy # "summarize"

(* What the caller does after every enqueue: when it sees no active run, it *)
(* starts the drain itself.  A follow-up run is active for only a part of  *)
(* the time its drain awaits it.                                           *)
RecheckLiveness(st) ==
    \E isRunActive \in {active, active \/ \E p \in Queue : InRun(p)} :
        Becomes(IF isRunActive THEN st ELSE scheduleFollowupDrain(st))

Enqueued(o, s, cb, ds) == [cur |-> o, cb |-> cb, q |-> [q EXCEPT ![o] = s], drain |-> ds]

(* A message that was already seen: only the settings are applied.         *)
EnqueueDuplicate(o, set) ==
    /\ accepted # {} /\ arrived < MaxMsgs
    /\ getFollowupQueue(o)
    /\ arrived' = arrived + 1
    /\ RecheckLiveness(Enqueued(o, WithSettings(o, set), callback, drain))
    /\ Blame("summary given up", GivenUp(o, set))
    /\ UNCHANGED <<active, failures, clears, accepted, ran, told, gone>>

(* A full queue refuses the message under "new".                           *)
EnqueueRefused(o, set) ==
    LET s == WithSettings(o, set) IN
    /\ arrived < MaxMsgs
    /\ getFollowupQueue(o)
    /\ Len(s.items) >= s.cap /\ s.dropPolicy = "new"
    /\ arrived' = arrived + 1
    /\ RecheckLiveness(Enqueued(o, [s EXCEPT !.lastRun = TRUE], callback, drain))
    /\ Blame("summary given up", GivenUp(o, set))
    /\ UNCHANGED <<active, failures, clears, accepted, ran, told, gone>>

(* A message that comes between the check and its use.                     *)
Noted(d, m) == [d EXCEPT !.late = IF d.at = "collecting" THEN @ \cup {m} ELSE @]

enqueueFollowupRun(o, set) ==
    LET m == arrived + 1
        s == WithSettings(o, set)
        kept == applyQueueDropPolicy(s)
        added == [kept EXCEPT !.items = Append(@, m), !.lastRun = TRUE]
    IN  /\ arrived < MaxMsgs
        /\ getFollowupQueue(o)
        /\ Len(s.items) >= s.cap => s.dropPolicy # "new"
        /\ RecheckLiveness(Enqueued(o, added, TRUE, [drain EXCEPT ![o] = Noted(@, m)]))
        /\ arrived' = m
        /\ accepted' = accepted \cup {m}
        /\ gone' = gone \cup PushedOut(s)
        /\ mishaps' = mishaps
               \cup (IF WillConsume(o) /\ Len(s.items) >= s.cap THEN {"overflow in a run"} ELSE {})
               \cup (IF GivenUp(o, set) THEN {"summary given up"} ELSE {})
        /\ UNCHANGED <<active, failures, clears, ran, told>>

(* A message that finds no active run gets a run of its own.               *)
runReplyAgent ==
    /\ ~active /\ \A p \in Queue : ~InRun(p)
    /\ active' = TRUE
    /\ UNCHANGED <<current, callback, q, drain, failures, clears, arrived, accepted,
                   ran, told, gone, mishaps>>

(* The run the messages waited for ends; its caller schedules the drain.   *)
finalizeWithFollowup ==
    /\ active
    /\ active' = FALSE
    /\ Becomes(scheduleFollowupDrain(State(q, drain)))
    /\ UNCHANGED <<failures, clears, arrived, accepted, ran, told, gone, mishaps>>

clearFollowupQueue(s) ==
    [clearQueueSummaryState(s) EXCEPT !.items = <<>>, !.lastRun = FALSE]

clearSessionQueues ==
    /\ current # NoQueue /\ clears < MaxClears
    /\ clears' = clears + 1
    /\ q' = [q EXCEPT ![current] = clearFollowupQueue(@)]
    /\ gone' = gone \cup ToSet(q[current].items) \cup ToSet(q[current].summaryLines)
    /\ Blame("cleared in a drain", q[current].draining)
    /\ current' = NoQueue /\ callback' = FALSE
    /\ UNCHANGED <<drain, active, failures, arrived, accepted, ran, told>>

-----------------------------------------------------------------------------
(* The drain, after its debounce.                                          *)

Debounced(o) == drain[o].at = "debounce"

StartRun(o, kind, msgs, lines, force) ==
    /\ drain' = [drain EXCEPT ![o] = [at |-> "run", kind |-> kind, msgs |-> msgs,
                                      lines |-> lines, force |-> force,
                                      late |-> drain[o].late]]
    /\ UNCHANGED <<current, callback, q>>

(* Mutant: messages for several places are collected as well.              *)
Individual_Never(o) == drain[o].force

Individual(o) == drain[o].force \/ hasCrossChannelItems(ToSet(q[o].items))

(* collect: do all messages go to one place?                               *)
DrainChecks(o) ==
    /\ Debounced(o) /\ q[o].mode = "collect" /\ ~Individual(o)
    /\ drain' = [drain EXCEPT ![o] = [NoDrain EXCEPT !.at = "collecting"]]
    /\ UNCHANGED <<current, callback, q, mishaps>>

(* Then everything in one prompt, the summary before the messages.  This   *)
(* is after an await: messages that have come meanwhile are in it too.     *)
DrainCollects(o) ==
    LET s == q[o] IN
    /\ Collecting(o)
    /\ IF s.items # <<>> \/ s.lastRun
       THEN StartRun(o, "collect", s.items,
                     IF previewQueueSummaryPrompt(s) THEN s.summaryLines ELSE <<>>, FALSE)
       ELSE Finally(o, s)
    /\ UNCHANGED mishaps

(* drainNextQueueItem returns, kind being what it has run.                 *)
Return(o, s, kind) ==
    Becomes(State([q EXCEPT ![o] = s], [drain EXCEPT ![o] = [NoDrain EXCEPT
                      !.at = "returned", !.kind = kind, !.force = drain[o].force]]))

(* One message: in collect mode when the messages go to several places.    *)
DrainItem(o) ==
    LET s == q[o] IN
    /\ Debounced(o)
    /\ IF s.mode = "collect" THEN Individual(o) ELSE ~previewQueueSummaryPrompt(s)
    /\ IF s.items # <<>>
       THEN StartRun(o, "item", <<Head(s.items)>>, <<>>, s.mode = "collect" \/ drain[o].force)
       ELSE Return(o, s, "none")
    /\ UNCHANGED mishaps

(* The summary is sent with the routing of the first message, which is     *)
(* then taken off the queue without having been run itself.  Without a     *)
(* message the drain ends and starts again, and so on.                     *)
DrainSummary(o) ==
    LET s == q[o] IN
    /\ Debounced(o) /\ s.mode # "collect" /\ previewQueueSummaryPrompt(s)
    /\ \/ /\ s.lastRun /\ s.items # <<>>
          /\ StartRun(o, "summary", <<>>, s.summaryLines, drain[o].force)
          /\ Blame("summary takes the place of a message", TRUE)
       \/ /\ s.lastRun /\ s.items = <<>>
          /\ Return(o, s, "none")
          /\ Blame("summary without a message", TRUE)
       \/ ~s.lastRun /\ Finally(o, s) /\ UNCHANGED mishaps

(* Its caller goes on: nothing was there to run, or a message or a summary *)
(* has been run.  The summary is cleared only now.                         *)
Returned(o) ==
    /\ drain[o].at = "returned"
    /\ \/ drain[o].kind = "none" /\ Finally(o, q[o])
       \/ drain[o].kind = "item" /\ Loop(o, q[o])
       \/ drain[o].kind = "summary" /\ Loop(o, clearQueueSummaryState(q[o]))
    /\ UNCHANGED mishaps

DrainStep(o) ==
    /\ DrainChecks(o) \/ DrainCollects(o) \/ DrainItem(o) \/ DrainSummary(o) \/ Returned(o)
    /\ UNCHANGED <<active, failures, clears, arrived, accepted, ran, told, gone>>

(* Mutant: the last message of a collected prompt stays in the queue.      *)
Consumed_KeepsFirst(o) ==
    LET s == q[o]
        d == drain[o]
        n == IF d.kind = "collect" THEN Len(d.msgs) - 1 ELSE 1
        rest == [s EXCEPT !.items = SubSeq(@, n + 1, Len(@))]
    IN  IF d.kind = "collect" /\ d.lines # <<>> THEN clearQueueSummaryState(rest) ELSE rest

(* What the drain takes off after the run: as many messages as were in the *)
(* prompt, from whatever the queue holds by then.                          *)
Consumed(o) ==
    LET s == q[o]
        d == drain[o]
        n == IF d.kind = "collect" THEN Len(d.msgs) ELSE 1
        rest == [s EXCEPT !.items = SubSeq(@, n + 1, Len(@))]
    IN  IF d.kind = "collect" /\ d.lines # <<>> THEN clearQueueSummaryState(rest) ELSE rest

RunSucceeds(o) ==
    /\ InRun(o)
    /\ ran' = ran \cup ToSet(drain[o].msgs)
    /\ told' = told \cup ToSet(drain[o].lines)
    /\ IF drain[o].kind = "collect" THEN Loop(o, Consumed(o))
       ELSE Return(o, Consumed(o), drain[o].kind)
    /\ UNCHANGED <<active, failures, clears, arrived, accepted, gone, mishaps>>

(* Nothing is taken off; the drain starts again after the debounce.  What  *)
(* throws may be the bookkeeping after the agent's answer, or its sending. *)
RunThrows(o) ==
    /\ InRun(o) /\ failures < MaxFailures
    /\ failures' = failures + 1
    /\ Finally(o, q[o])
    /\ \/ UNCHANGED <<ran, told, mishaps>>
       \/ /\ ran' = ran \cup ToSet(drain[o].msgs)
          /\ told' = told \cup ToSet(drain[o].lines)
          /\ Blame("answered before it failed", TRUE)
    /\ UNCHANGED <<active, clears, arrived, accepted, gone>>

-----------------------------------------------------------------------------
Next ==
    \/ \E o \in Queue, set \in Settings :
          EnqueueDuplicate(o, set) \/ EnqueueRefused(o, set) \/ enqueueFollowupRun(o, set)
    \/ runReplyAgent \/ finalizeWithFollowup
    \/ clearSessionQueues
    \/ \E o \in Queue : DrainStep(o) \/ RunSucceeds(o) \/ RunThrows(o)

(* The active run ends, debounces run out and follow-up runs end.          *)
Fairness ==
    /\ WF_vars(finalizeWithFollowup)
    /\ \A o \in Queue : WF_vars(DrainStep(o)) /\ WF_vars(RunSucceeds(o) \/ RunThrows(o))

Spec == Init /\ [][Next]_vars
FairSpec == Spec /\ Fairness

-----------------------------------------------------------------------------
(* Correctness.                                                            *)

Settled == ran \cup told \cup gone

(* Waiting where a drain will still find it.                               *)
Waiting == UNION {ToSet(q[o].items) \cup ToSet(q[o].summaryLines) : o \in {p \in Queue : ~Garbage(p)}}

(* "followup: enqueue for the next agent turn after the current run ends", *)
(* "Summarize keeps a short bullet list of dropped messages and injects it *)
(* as a synthetic followup prompt" (docs/concepts/queue.md): a message     *)
(* that was accepted is in the prompt of a run, named in a summary, or     *)
(* still waiting, unless it was cleared or dropped as configured.          *)
NoFollowupLost == accepted \subseteq Settled \cup Waiting

(* A message is lost only after one of the things the drain does not       *)
(* allow for.                                                              *)
LossHasCause == mishaps = {} => NoFollowupLost

(* A session runs two follow-ups at a time only after it was cleared in    *)
(* the middle of a drain.                                                  *)
OneFollowupAtATime ==
    \A o, p \in Queue : InRun(o) /\ InRun(p) /\ o # p => "cleared in a drain" \in mishaps

(* What is in the prompt of a run that is about to start.                  *)
NewPrompt(o) == IF InRun(o)' /\ ~InRun(o) THEN ToSet(drain'[o].msgs) ELSE {}

(* Messages are answered once and in the order they came: a prompt holds   *)
(* only messages later than all those answered before it.                  *)
AnsweredOnceInOrder ==
    [][\A o \in Queue : \A m \in NewPrompt(o) : \A n \in ran :
          n < m \/ mishaps \cap {"overflow in a run", "cleared in a drain",
                                 "answered before it failed"} # {}]_vars

(* drain.ts:100 - messages that span several places are processed one by   *)
(* one "to preserve per-message routing": whatever arrives, is dropped or  *)
(* cleared in the meantime, those of a prompt that were there at the check *)
(* all go to one place.  One that comes between the check and its use is   *)
(* put into the prompt unchecked.                                          *)
OneRoutePerPrompt ==
    \A o \in Queue : InRun(o) /\ Len(drain[o].msgs) > 1 =>
        ~hasCrossChannelItems(ToSet(drain[o].msgs) \ drain[o].late)

(* Once messages stop coming, every accepted message is settled, unless    *)
(* one of the mishaps has happened.                                        *)
EventuallySettled == <>[](accepted \subseteq Settled) \/ <>(mishaps # {})

=============================================================================
