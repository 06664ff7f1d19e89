------------------------ MODULE FollowupQueueProofs -------------------------
(***************************************************************************)
(* Theorems about the follow-up queue, for any number of messages, queue   *)
(* objects, settings and routes: messages that were checked together and   *)
(* go to different places are never in one prompt, one follow-up runs at a *)
(* time, messages are answered once and in order, and none is lost, but    *)
(* for the mishaps the properties name.                                    *)
(***************************************************************************)
EXTENDS FollowupQueue, SequenceTheorems, TLAPS

QueueObject ==
    [items : Seq(Msg), draining : BOOLEAN, mode : {"followup", "collect"},
     dropPolicy : {"summarize", "old", "new"}, cap : Nat \ {0}, droppedCount : Nat,
     summaryLines : Seq(Msg), lastRun : BOOLEAN]

Drain ==
    [at : {"none", "debounce", "collecting", "run", "returned"},
     kind : {"none", "item", "summary", "collect"},
     msgs : Seq(Msg), lines : Seq(Msg), force : BOOLEAN, late : SUBSET Msg]

(* The invariants speak of the map entry c, the objects qs and the drains  *)
(* ds, so that they can be stated of a state in the middle of a step.      *)

(* An object drains when it has a drain, has had no more messages than     *)
(* have arrived, and has no lines of messages it has not counted.          *)
ObjectOK(s, d, n) ==
    /\ [mode |-> s.mode, dropPolicy |-> s.dropPolicy, cap |-> s.cap] \in Settings
    /\ s.draining <=> d.at # "none"
    /\ Len(s.items) + s.droppedCount <= n
    /\ s.droppedCount = 0 => s.summaryLines = <<>>

ShapeOK(c, qs, ds, n) ==
    /\ c \in Queue \cup {NoQueue}
    /\ qs \in [Queue -> QueueObject] /\ ds \in [Queue -> Drain]
    /\ \A o \in Queue : ObjectOK(qs[o], ds[o], n)

(* What was in the queue when the drain checked it has one route, and so   *)
(* has what was then put into a prompt of several messages.                *)
RouteObject(s, d) ==
    /\ d.at = "collecting" => ~hasCrossChannelItems(ToSet(s.items) \ d.late)
    /\ d.at = "run" /\ Len(d.msgs) > 1 => ~hasCrossChannelItems(ToSet(d.msgs) \ d.late)
RouteOK(qs, ds) == \A o \in Queue : RouteObject(qs[o], ds[o])

(* Only the object in the map drains.                                      *)
DrainsOK(c, ds) == \A o \in Queue : ds[o].at # "none" => o = c

(* The queue is in the order of arrival and later than all answers, and    *)
(* the prompt of a run is what it starts with.                             *)
Taken(d) == IF d.kind = "collect" THEN Len(d.msgs) ELSE 1
PromptOK(s, d) ==
    /\ Len(d.msgs) <= Len(s.items) /\ Len(d.msgs) <= Taken(d)
    /\ \A i \in 1..Len(d.msgs) : d.msgs[i] = s.items[i]
OrderObject(s, d, n, done) ==
    /\ \A i \in 1..Len(s.items) : s.items[i] <= n
    /\ \A i, j \in 1..Len(s.items) : i < j => s.items[i] < s.items[j]
    /\ \A i \in 1..Len(s.items) : \A m \in done : m < s.items[i]
    /\ d.at = "run" => PromptOK(s, d)
OrderOK(c, qs, ds, n, done) ==
    done \subseteq 1..n /\ (c \in Queue => OrderObject(qs[c], ds[c], n, done))

(* What was accepted is settled, or waits in the object in the map; a run  *)
(* takes off what it has in its prompt.                                    *)
PromptWhole(s, d) ==
    /\ d.kind # "summary" /\ Len(d.msgs) = Taken(d)
    /\ d.lines # <<>> => d.lines = s.summaryLines
HeldObject(s, d, acc, settled) ==
    /\ acc \subseteq settled \cup ToSet(s.items) \cup ToSet(s.summaryLines)
    /\ d.at = "run" => PromptWhole(s, d)
    /\ d.at = "returned" => d.kind # "summary"
HeldOK(c, qs, ds, acc, settled) ==
    IF c \in Queue THEN HeldObject(qs[c], ds[c], acc, settled) ELSE acc \subseteq settled

Uncleared == "cleared in a drain" \notin mishaps
Ordered == mishaps \cap {"overflow in a run", "cleared in a drain", "answered before it failed"} = {}

RestOK ==
    /\ callback \in BOOLEAN /\ active \in BOOLEAN
    /\ failures \in 0..MaxFailures /\ clears \in 0..MaxClears
    /\ arrived \in 0..MaxMsgs
    /\ accepted \subseteq Msg /\ ran \subseteq Msg /\ told \subseteq Msg /\ gone \subseteq Msg
    /\ mishaps \subseteq Mishap

IInv ==
    /\ RestOK
    /\ ShapeOK(current, q, drain, arrived)
    /\ RouteOK(q, drain)
    /\ Uncleared => DrainsOK(current, drain)
    /\ Ordered => OrderOK(current, q, drain, arrived, ran)
    /\ mishaps = {} => HeldOK(current, q, drain, accepted, Settled)

-----------------------------------------------------------------------------
(* Sequences.                                                              *)

(* What is left of a sequence when its first k members are taken off.      *)
LEMMA RestFacts ==
    ASSUME NEW S, NEW s \in Seq(S), NEW k \in Nat, k <= Len(s)
    PROVE  /\ SubSeq(s, k + 1, Len(s)) \in Seq(S)
           /\ Len(SubSeq(s, k + 1, Len(s))) = Len(s) - k
           /\ \A i \in 1..(Len(s) - k) : SubSeq(s, k + 1, Len(s))[i] = s[i + k]
<1>1. Len(s) \in Nat /\ \A i \in 1..Len(s) : s[i] \in S
  OBVIOUS
<1>2. k + 1 \in Int /\ Len(s) \in Int /\ \A i \in (k + 1)..Len(s) : s[i] \in S
  BY <1>1
<1> DEFINE n == Len(s)
<1>3. /\ SubSeq(s, k + 1, n) \in Seq(S)
      /\ Len(SubSeq(s, k + 1, n)) = IF k + 1 <= n THEN n - (k + 1) + 1 ELSE 0
      /\ \A i \in 1..(n - (k + 1) + 1) : SubSeq(s, k + 1, n)[i] = s[(k + 1) + i - 1]
  <2> HIDE <1>1 DEF n
  <2> QED
    BY <1>2, SubSeqProperties DEF n
<1>4. /\ (IF k + 1 <= n THEN n - (k + 1) + 1 ELSE 0) = n - k
      /\ \A i \in 1..(n - k) : i \in 1..(n - (k + 1) + 1) /\ (k + 1) + i - 1 = i + k
  BY <1>1
<1> QED
  BY <1>3, <1>4, Zenon

(* Its first k members.                                                    *)
LEMMA FirstFacts ==
    ASSUME NEW S, NEW s \in Seq(S), NEW k \in Nat, k <= Len(s)
    PROVE  /\ SubSeq(s, 1, k) \in Seq(S)
           /\ Len(SubSeq(s, 1, k)) = k
           /\ \A i \in 1..k : SubSeq(s, 1, k)[i] = s[i]
<1>1. Len(s) \in Nat /\ \A i \in 1..Len(s) : s[i] \in S
  OBVIOUS
<1>2. 1 \in Int /\ k \in Int /\ \A i \in 1..k : s[i] \in S
  BY <1>1
<1>3. /\ SubSeq(s, 1, k) \in Seq(S)
      /\ Len(SubSeq(s, 1, k)) = IF 1 <= k THEN k - 1 + 1 ELSE 0
      /\ \A i \in 1..(k - 1 + 1) : SubSeq(s, 1, k)[i] = s[1 + i - 1]
  <2> HIDE <1>1
  <2> QED
    BY <1>2, SubSeqProperties
<1>4. /\ (IF 1 <= k THEN k - 1 + 1 ELSE 0) = k
      /\ \A i \in 1..k : i \in 1..(k - 1 + 1) /\ 1 + i - 1 = i
  OBVIOUS
<1>5. Len(SubSeq(s, 1, k)) = k
  <2>1. CASE k = 0
    BY <1>3, <2>1
  <2>2. CASE k # 0
    BY <1>3, <2>2
  <2> QED
    BY <2>1, <2>2
<1>6. \A i \in 1..k : SubSeq(s, 1, k)[i] = s[i]
  BY <1>3, <1>4, SMT
<1> QED
  BY <1>3, <1>5, <1>6

LEMMA AppendFacts ==
    ASSUME NEW S, NEW s \in Seq(S), NEW x \in S
    PROVE  /\ Append(s, x) \in Seq(S)
           /\ Len(Append(s, x)) = Len(s) + 1
           /\ \A i \in 1..Len(s) : Append(s, x)[i] = s[i]
           /\ Append(s, x)[Len(s) + 1] = x
           /\ Len(s) \in Nat
BY SMT

(* The set of a sequence.                                                  *)
LEMMA SetFacts ==
    ASSUME NEW S, NEW s \in Seq(S)
    PROVE  /\ Len(s) \in Nat /\ ToSet(s) \subseteq S
           /\ \A x : x \in ToSet(s) <=> \E i \in 1..Len(s) : s[i] = x
           /\ s = <<>> <=> Len(s) = 0
<1>1. DOMAIN s = 1..Len(s) /\ Len(s) \in Nat /\ \A i \in 1..Len(s) : s[i] \in S
  OBVIOUS
<1>2. s = <<>> <=> Len(s) = 0
  BY EmptySeq
<1> QED
  BY <1>1, <1>2 DEF ToSet

LEMMA SplitSet ==
    ASSUME NEW S, NEW s \in Seq(S), NEW k \in Nat, k <= Len(s)
    PROVE  ToSet(s) = ToSet(SubSeq(s, 1, k)) \cup ToSet(SubSeq(s, k + 1, Len(s)))
<1> DEFINE f == SubSeq(s, 1, k)
           r == SubSeq(s, k + 1, Len(s))
<1>1. Len(s) \in Nat
  OBVIOUS
<1>2. /\ f \in Seq(S) /\ Len(f) = k /\ \A i \in 1..k : f[i] = s[i]
      /\ r \in Seq(S) /\ Len(r) = Len(s) - k /\ \A i \in 1..(Len(s) - k) : r[i] = s[i + k]
  BY FirstFacts, RestFacts
<1> HIDE DEF f, r
<1>3. /\ \A x : x \in ToSet(s) <=> \E i \in 1..Len(s) : s[i] = x
      /\ \A x : x \in ToSet(f) <=> \E i \in 1..k : f[i] = x
      /\ \A x : x \in ToSet(r) <=> \E i \in 1..(Len(s) - k) : r[i] = x
  <2>1. \A x : x \in ToSet(f) <=> \E i \in 1..Len(f) : f[i] = x
    BY <1>2, SetFacts
  <2>2. \A x : x \in ToSet(r) <=> \E i \in 1..Len(r) : r[i] = x
    BY <1>2, SetFacts
  <2> QED
    BY <1>2, <2>1, <2>2, SetFacts
<1>4. ASSUME NEW x \in ToSet(s) PROVE x \in ToSet(f) \cup ToSet(r)
  <2>1. PICK i \in 1..Len(s) : s[i] = x
    BY <1>3
  <2>2. CASE i <= k
    BY <1>1, <1>2, <1>3, <2>1, <2>2
  <2>3. CASE i > k
    <3>1. i - k \in 1..(Len(s) - k) /\ (i - k) + k = i
      BY <1>1, <2>1, <2>3
    <3>2. r[i - k] = x
      BY <1>2, <2>1, <3>1
    <3> QED
      BY <1>3, <3>1, <3>2
  <2> QED
    BY <2>2, <2>3
<1>5. ToSet(f) \subseteq ToSet(s)
  BY <1>1, <1>2, <1>3
<1>6. ToSet(r) \subseteq ToSet(s)
  <2>1. \A i \in 1..(Len(s) - k) : i + k \in 1..Len(s)
    BY <1>1
  <2> QED
    BY <1>2, <1>3, <2>1
<1> QED
  BY <1>4, <1>5, <1>6 DEF f, r

LEMMA AppendSet ==
    ASSUME NEW S, NEW s \in Seq(S), NEW x \in S
    PROVE  ToSet(Append(s, x)) = ToSet(s) \cup {x}
<1> DEFINE t == Append(s, x)
<1>1. /\ t \in Seq(S) /\ Len(t) = Len(s) + 1 /\ Len(s) \in Nat /\ t[Len(s) + 1] = x
      /\ \A i \in 1..Len(s) : t[i] = s[i]
  BY AppendFacts
<1> HIDE DEF t
<1>2. /\ \A y : y \in ToSet(s) <=> \E i \in 1..Len(s) : s[i] = y
      /\ \A y : y \in ToSet(t) <=> \E i \in 1..(Len(s) + 1) : t[i] = y
  <2>1. \A y : y \in ToSet(t) <=> \E i \in 1..Len(t) : t[i] = y
    BY <1>1, SetFacts
  <2> QED
    BY <1>1, <2>1, SetFacts
<1>3. \A i : i \in 1..(Len(s) + 1) <=> i \in 1..Len(s) \/ i = Len(s) + 1
  BY <1>1
<1> QED
  BY <1>1, <1>2, <1>3 DEF t

LEMMA ConcatSet ==
    ASSUME NEW S, NEW s \in Seq(S), NEW t \in Seq(S)
    PROVE  s \o t \in Seq(S) /\ ToSet(s \o t) = ToSet(s) \cup ToSet(t)
<1> DEFINE u == s \o t
<1>1. /\ u \in Seq(S) /\ Len(u) = Len(s) + Len(t)
      /\ \A i \in 1..(Len(s) + Len(t)) : u[i] = IF i <= Len(s) THEN s[i] ELSE t[i - Len(s)]
      /\ Len(s) \in Nat /\ Len(t) \in Nat
  BY ConcatProperties
<1> HIDE DEF u
<1>2. /\ \A y : y \in ToSet(s) <=> \E i \in 1..Len(s) : s[i] = y
      /\ \A y : y \in ToSet(t) <=> \E i \in 1..Len(t) : t[i] = y
      /\ \A y : y \in ToSet(u) <=> \E i \in 1..(Len(s) + Len(t)) : u[i] = y
  <2>1. \A y : y \in ToSet(u) <=> \E i \in 1..Len(u) : u[i] = y
    BY <1>1, SetFacts
  <2> QED
    BY <1>1, <2>1, SetFacts
<1>3. ToSet(u) \subseteq ToSet(s) \cup ToSet(t)
  <2>1. ASSUME NEW i \in 1..(Len(s) + Len(t)) PROVE u[i] \in ToSet(s) \cup ToSet(t)
    <3>1. CASE i <= Len(s)
      BY <1>1, <1>2, <3>1
    <3>2. CASE i > Len(s)
      <4>1. i - Len(s) \in 1..Len(t)
        BY <1>1, <3>2
      <4> QED
        BY <1>1, <1>2, <3>2, <4>1
    <3> QED
      BY <1>1, <3>1, <3>2
  <2> QED
    BY <1>2, <2>1
<1>4. ToSet(s) \subseteq ToSet(u)
  <2>1. \A i \in 1..Len(s) : i \in 1..(Len(s) + Len(t)) /\ u[i] = s[i]
    BY <1>1
  <2> QED
    BY <1>2, <2>1
<1>5. ToSet(t) \subseteq ToSet(u)
  <2>1. \A i \in 1..Len(t) : i + Len(s) \in 1..(Len(s) + Len(t)) /\ u[i + Len(s)] = t[i]
    <3> SUFFICES ASSUME NEW i \in 1..Len(t)
                 PROVE  i + Len(s) \in 1..(Len(s) + Len(t)) /\ u[i + Len(s)] = t[i]
      OBVIOUS
    <3>1. /\ i + Len(s) \in 1..(Len(s) + Len(t)) /\ ~(i + Len(s) <= Len(s))
          /\ (i + Len(s)) - Len(s) = i
      BY <1>1
    <3> QED
      BY <1>1, <3>1
  <2> QED
    BY <1>2, <2>1
<1> QED
  BY <1>1, <1>3, <1>4, <1>5 DEF u

LEMMA LastOfType ==
    ASSUME NEW S, NEW s \in Seq(S), NEW n \in Nat
    PROVE  LastOf(s, n) \in Seq(S)
<1> DEFINE k == IF Len(s) > n THEN Len(s) - n ELSE 0
<1>1. k \in Nat /\ k <= Len(s) /\ LastOf(s, n) = SubSeq(s, 1 + k, Len(s)) /\ 1 + k = k + 1
  BY DEF LastOf
<1> HIDE DEF k
<1>2. SubSeq(s, k + 1, Len(s)) \in Seq(S)
  BY <1>1, RestFacts
<1> QED
  BY <1>1, <1>2

-----------------------------------------------------------------------------
(* The start of a drain, and the end of one.                               *)

(* From c, qs and ds the drain of the object in the map is started or not, *)
(* or the map entry is deleted because object x is empty.                  *)
Outcome(x, c, qs, ds, c1, qs1, ds1) ==
    \/ c1 = c /\ qs1 = qs /\ ds1 = ds
    \/ /\ c \in Queue /\ ~qs[c].draining
       /\ c1 = c /\ qs1 = [qs EXCEPT ![c] = [qs[c] EXCEPT !.draining = TRUE]]
       /\ ds1 = [ds EXCEPT ![c] = [NoDrain EXCEPT !.at = "debounce"]]
    \/ /\ x \in Queue /\ ~qs[x].draining /\ ~NotEmpty(qs[x])
       /\ c1 = NoQueue /\ qs1 = qs /\ ds1 = ds

Now(x, c, qs, ds) == Outcome(x, c, qs, ds, current', q', drain') /\ callback' \in BOOLEAN

LEMMA NoDrainFacts ==
    /\ NoDrain \in Drain /\ NoDrain.at = "none" /\ NoDrain.late = {}
    /\ \A f \in BOOLEAN :
          /\ [NoDrain EXCEPT !.at = "debounce", !.force = f] \in Drain
          /\ [NoDrain EXCEPT !.at = "debounce", !.force = f].at = "debounce"
    /\ [NoDrain EXCEPT !.at = "debounce"] \in Drain
    /\ [NoDrain EXCEPT !.at = "debounce"].at = "debounce"
    /\ [NoDrain EXCEPT !.at = "collecting"] \in Drain
    /\ [NoDrain EXCEPT !.at = "collecting"].at = "collecting"
    /\ [NoDrain EXCEPT !.at = "collecting"].late = {}
<1>1. <<>> \in Seq(Msg)
  BY EmptySeq
<1> QED
  BY <1>1 DEF NoDrain, Drain

LEMMA ReturnFacts ==
    ASSUME NEW f \in BOOLEAN, NEW k, k \in {"none", "item", "summary"}
    PROVE  LET d == [NoDrain EXCEPT !.at = "returned", !.kind = k, !.force = f]
           IN  d \in Drain /\ d.at = "returned" /\ d.kind = k
<1>1. <<>> \in Seq(Msg)
  BY EmptySeq
<1> QED
  BY <1>1 DEF NoDrain, Drain

(* Fewer messages have no more routes.                                     *)
LEMMA FewerRoutes ==
    ASSUME NEW S, NEW T, T \subseteq S, ~hasCrossChannelItems(S)
    PROVE  ~hasCrossChannelItems(T)
BY DEF hasCrossChannelItems

LEMMA QueueFacts == NoQueue \notin Queue
BY DEF NoQueue, Queue

LEMMA ScheduleOutcome ==
    ASSUME NEW c \in Queue \cup {NoQueue}, NEW b \in BOOLEAN, NEW qs \in [Queue -> QueueObject],
           NEW ds \in [Queue -> Drain],
           LET st == [cur |-> c, cb |-> b, q |-> qs, drain |-> ds]
           IN  Becomes(st) \/ Becomes(scheduleFollowupDrain(st))
    PROVE  Now(c, c, qs, ds)
<1> DEFINE st == [cur |-> c, cb |-> b, q |-> qs, drain |-> ds]
           started == [cur |-> c, cb |-> TRUE,
                       q |-> [qs EXCEPT ![c] = [qs[c] EXCEPT !.draining = TRUE]],
                       drain |-> [ds EXCEPT ![c] = [NoDrain EXCEPT !.at = "debounce"]]]
           deleted == [cur |-> NoQueue, cb |-> FALSE, q |-> qs, drain |-> ds]
<1>1. st.cur = c /\ st.cb = b /\ st.q = qs /\ st.drain = ds
  OBVIOUS
<1>2. CASE Becomes(st)
  BY <1>2 DEF Becomes, Now, Outcome
<1>3. CASE Becomes(scheduleFollowupDrain(st))
  <2>1. CASE c = NoQueue \/ st.q[c].draining
    <3>1. scheduleFollowupDrain(st) = st
      BY <2>1 DEF scheduleFollowupDrain
    <3> QED
      BY <1>2, <1>3, <3>1
  <2>2. CASE c \in Queue /\ ~qs[c].draining /\ NotEmpty(qs[c])
    <3>1. scheduleFollowupDrain(st) = started
      BY <2>2, QueueFacts DEF scheduleFollowupDrain
    <3>2. Becomes(started)
      BY <1>3, <3>1, Zenon
    <3>3. /\ current' = c /\ q' = [qs EXCEPT ![c] = [qs[c] EXCEPT !.draining = TRUE]]
          /\ drain' = [ds EXCEPT ![c] = [NoDrain EXCEPT !.at = "debounce"]]
          /\ callback' = TRUE
      BY <3>2 DEF Becomes
    <3> QED
      BY <2>2, <3>3 DEF Now, Outcome
  <2>3. CASE c \in Queue /\ ~qs[c].draining /\ ~NotEmpty(qs[c])
    <3>1. scheduleFollowupDrain(st) = deleted
      BY <2>3, QueueFacts DEF scheduleFollowupDrain
    <3>2. Becomes(deleted)
      BY <1>3, <3>1, Zenon
    <3>3. current' = NoQueue /\ q' = qs /\ drain' = ds /\ callback' = FALSE
      BY <3>2 DEF Becomes
    <3> QED
      BY <2>3, <3>3 DEF Now, Outcome
  <2> QED
    BY <2>1, <2>2, <2>3
<1> QED
  BY <1>2, <1>3

(* The finally block.                                                      *)
LEMMA FinallyOutcome ==
    ASSUME NEW o \in Queue, NEW s \in QueueObject, current \in Queue \cup {NoQueue},
           callback \in BOOLEAN,
           q \in [Queue -> QueueObject], drain \in [Queue -> Drain], Finally(o, s)
    PROVE  \E x \in {o, current} : Now(x, current, [q EXCEPT ![o] = [s EXCEPT !.draining = FALSE]],
                                       [drain EXCEPT ![o] = NoDrain])
<1> DEFINE qs == [q EXCEPT ![o] = [s EXCEPT !.draining = FALSE]]
           ds == [drain EXCEPT ![o] = NoDrain]
           st == [cur |-> current, cb |-> callback, q |-> qs, drain |-> ds]
           deleted == [st EXCEPT !.cur = NoQueue, !.cb = FALSE]
<1>1. [s EXCEPT !.draining = FALSE] \in QueueObject
  BY DEF QueueObject
<1>2. qs \in [Queue -> QueueObject] /\ ds \in [Queue -> Drain]
  BY <1>1, NoDrainFacts
<1>3. State(qs, ds) = st
  BY DEF State
<1>4. deleted.cur = NoQueue /\ deleted.cb = FALSE /\ deleted.q = qs /\ deleted.drain = ds
  <2> HIDE DEF qs, ds
  <2> QED
    OBVIOUS
<1>5. qs[o].draining = FALSE /\ (NotEmpty(s) <=> NotEmpty(qs[o]))
  BY DEF NotEmpty, QueueObject
<1>6. Becomes(IF NotEmpty(s) THEN scheduleFollowupDrain(st) ELSE deleted)
  <2>1. Becomes(IF NotEmpty(s) THEN scheduleFollowupDrain(State(qs, ds))
                ELSE [State(qs, ds) EXCEPT !.cur = NoQueue, !.cb = FALSE])
    BY DEF Finally
  <2> HIDE DEF qs, ds, st
  <2> QED
    BY <1>3, <2>1
<1> HIDE DEF qs, ds, deleted
<1>7. CASE NotEmpty(s)
  <2>1. Becomes(scheduleFollowupDrain(st))
    BY <1>6, <1>7
  <2>2. Now(current, current, qs, ds)
    BY <1>2, <2>1, ScheduleOutcome
  <2> QED
    BY <2>2 DEF qs, ds
<1>8. CASE ~NotEmpty(s)
  <2>1. Becomes(deleted)
    BY <1>6, <1>8
  <2>2. current' = NoQueue /\ q' = qs /\ drain' = ds /\ callback' = FALSE
    BY <1>4, <2>1 DEF Becomes
  <2>3. Now(o, current, qs, ds)
    BY <1>5, <1>8, <2>2 DEF Now, Outcome
  <2> QED
    BY <2>3 DEF qs, ds
<1> QED
  BY <1>7, <1>8

(* The invariants hold after the start or the deletion as before it.       *)
LEMMA OutcomeShape ==
    ASSUME NEW x, NEW c, NEW qs, NEW ds, NEW c1, NEW qs1, NEW ds1, NEW n \in Nat,
           Outcome(x, c, qs, ds, c1, qs1, ds1), ShapeOK(c, qs, ds, n), RouteOK(qs, ds)
    PROVE  ShapeOK(c1, qs1, ds1, n) /\ RouteOK(qs1, ds1)
<1>1. CASE qs1 = qs /\ ds1 = ds /\ c1 \in {c, NoQueue}
  BY <1>1 DEF ShapeOK
<1>2. CASE /\ c \in Queue /\ c1 = c
           /\ qs1 = [qs EXCEPT ![c] = [qs[c] EXCEPT !.draining = TRUE]]
           /\ ds1 = [ds EXCEPT ![c] = [NoDrain EXCEPT !.at = "debounce"]]
  <2> DEFINE s == [qs[c] EXCEPT !.draining = TRUE]
             d == [NoDrain EXCEPT !.at = "debounce"]
  <2>1. qs \in [Queue -> QueueObject] /\ ds \in [Queue -> Drain] /\ ObjectOK(qs[c], ds[c], n)
    BY <1>2 DEF ShapeOK
  <2>2. /\ s \in QueueObject /\ s.draining /\ s.items = qs[c].items
        /\ s.droppedCount = qs[c].droppedCount /\ s.summaryLines = qs[c].summaryLines
        /\ s.mode = qs[c].mode /\ s.dropPolicy = qs[c].dropPolicy /\ s.cap = qs[c].cap
    BY <1>2, <2>1 DEF QueueObject
  <2>3. d \in Drain /\ d.at = "debounce"
    BY NoDrainFacts
  <2>4. ObjectOK(s, d, n)
    BY <2>1, <2>2, <2>3 DEF ObjectOK
  <2> HIDE DEF s, d
  <2>5. /\ qs1 \in [Queue -> QueueObject] /\ ds1 \in [Queue -> Drain]
        /\ qs1[c] = s /\ ds1[c] = d
        /\ \A o \in Queue \ {c} : qs1[o] = qs[o] /\ ds1[o] = ds[o]
    BY <1>2, <2>1, <2>2, <2>3 DEF s, d
  <2>6. ShapeOK(c1, qs1, ds1, n)
    BY <1>2, <2>4, <2>5 DEF ShapeOK
  <2>7. RouteOK(qs1, ds1)
    BY <2>3, <2>5 DEF RouteOK, RouteObject
  <2> QED
    BY <2>6, <2>7
<1> QED
  BY <1>1, <1>2 DEF Outcome

LEMMA OutcomeGated ==
    ASSUME NEW c, NEW qs, NEW ds, NEW c1, NEW qs1, NEW ds1, NEW n \in Nat,
           Outcome(c, c, qs, ds, c1, qs1, ds1), ShapeOK(c, qs, ds, n)
    PROVE  /\ DrainsOK(c, ds) => DrainsOK(c1, ds1)
           /\ \A done : OrderOK(c, qs, ds, n, done) => OrderOK(c1, qs1, ds1, n, done)
           /\ \A acc, settled : HeldOK(c, qs, ds, acc, settled)
                                  => HeldOK(c1, qs1, ds1, acc, settled)
<1>1. CASE qs1 = qs /\ ds1 = ds /\ c1 = c
  BY <1>1
<1>2. CASE /\ c \in Queue /\ c1 = c
           /\ qs1 = [qs EXCEPT ![c] = [qs[c] EXCEPT !.draining = TRUE]]
           /\ ds1 = [ds EXCEPT ![c] = [NoDrain EXCEPT !.at = "debounce"]]
  <2>1. /\ qs1[c].items = qs[c].items /\ qs1[c].summaryLines = qs[c].summaryLines
        /\ ds1[c].at = "debounce"
        /\ \A o \in Queue \ {c} : ds1[o] = ds[o]
    <3>1. qs \in [Queue -> QueueObject] /\ ds \in [Queue -> Drain]
      BY DEF ShapeOK
    <3>2. qs1[c] = [qs[c] EXCEPT !.draining = TRUE]
      BY <1>2, <3>1
    <3>3. qs1[c].items = qs[c].items /\ qs1[c].summaryLines = qs[c].summaryLines
      BY <1>2, <3>1, <3>2 DEF QueueObject
    <3>4. ds1[c].at = "debounce" /\ \A o \in Queue \ {c} : ds1[o] = ds[o]
      BY <1>2, <3>1, NoDrainFacts
    <3> QED
      BY <3>3, <3>4
  <2> QED
    BY <1>2, <2>1 DEF DrainsOK, OrderOK, OrderObject, HeldOK, HeldObject
<1>3. CASE c \in Queue /\ ~qs[c].draining /\ ~NotEmpty(qs[c]) /\ c1 = NoQueue /\ ds1 = ds
  <2>1. ds[c].at = "none" /\ qs[c].items = <<>> /\ qs[c].summaryLines = <<>>
    <3>1. qs[c] \in QueueObject /\ ObjectOK(qs[c], ds[c], n)
      BY <1>3 DEF ShapeOK
    <3>2. qs[c].droppedCount \in Nat
      BY <3>1 DEF QueueObject
    <3> QED
      BY <1>3, <3>1, <3>2 DEF ObjectOK, NotEmpty
  <2>2. ToSet(<<>>) = {}
    BY DEF ToSet
  <2>3. c1 \notin Queue
    BY <1>3, QueueFacts
  <2> QED
    BY <1>3, <2>1, <2>2, <2>3 DEF DrainsOK, OrderOK, HeldOK, HeldObject
<1> QED
  BY <1>1, <1>2, <1>3 DEF Outcome

-----------------------------------------------------------------------------
(* From the middle of a step to its end.                                   *)
LEMMA MiddleToEnd ==
    ASSUME NEW x, NEW c, NEW qs, NEW ds, Now(x, c, qs, ds),
           RestOK', ShapeOK(c, qs, ds, arrived'), RouteOK(qs, ds),
           Uncleared' => x = c /\ DrainsOK(c, ds),
           Ordered' => OrderOK(c, qs, ds, arrived', ran'),
           mishaps' = {} => HeldOK(c, qs, ds, accepted', ran' \cup told' \cup gone')
    PROVE  IInv'
<1>1. Outcome(x, c, qs, ds, current', q', drain') /\ arrived' \in Nat
  BY DEF Now, RestOK
<1>2. ShapeOK(current', q', drain', arrived') /\ RouteOK(q', drain')
  BY <1>1, OutcomeShape
<1>3. Uncleared' => DrainsOK(current', drain')
  BY <1>1, OutcomeGated
<1>4. Ordered' => Uncleared'
  BY DEF Ordered, Uncleared
<1>5. Ordered' => OrderOK(current', q', drain', arrived', ran')
  BY <1>1, <1>4, OutcomeGated
<1>6. mishaps' = {} => Uncleared'
  BY DEF Uncleared
<1>7. mishaps' = {} => HeldOK(current', q', drain', accepted', ran' \cup told' \cup gone')
  BY <1>1, <1>6, OutcomeGated
<1> QED
  BY <1>2, <1>3, <1>5, <1>7 DEF IInv, Settled

(* One object and its drain change, and the object becomes or stays the    *)
(* one in the map.                                                         *)
LEMMA ReplaceObject ==
    ASSUME NEW c, NEW c1 \in Queue \cup {NoQueue}, NEW qs, NEW ds, NEW n \in Nat, NEW n1 \in Nat,
           n <= n1, ShapeOK(c, qs, ds, n), RouteOK(qs, ds),
           NEW o \in Queue, NEW s \in QueueObject, NEW d \in Drain, ObjectOK(s, d, n1),
           RouteObject(s, d)
    PROVE  LET qs1 == [qs EXCEPT ![o] = s]
               ds1 == [ds EXCEPT ![o] = d]
           IN  /\ ShapeOK(c1, qs1, ds1, n1) /\ RouteOK(qs1, ds1)
               /\ DrainsOK(c, ds) /\ c \in {o, NoQueue} => DrainsOK(o, ds1)
               /\ \A done : done \subseteq 1..n1 /\ OrderObject(s, d, n1, done)
                              => OrderOK(o, qs1, ds1, n1, done)
               /\ \A acc, settled : HeldObject(s, d, acc, settled)
                                      => HeldOK(o, qs1, ds1, acc, settled)
<1> DEFINE qs1 == [qs EXCEPT ![o] = s]
           ds1 == [ds EXCEPT ![o] = d]
<1>1. qs \in [Queue -> QueueObject] /\ ds \in [Queue -> Drain]
      /\ \A p \in Queue : ObjectOK(qs[p], ds[p], n)
  BY DEF ShapeOK
<1>2. /\ qs1 \in [Queue -> QueueObject] /\ ds1 \in [Queue -> Drain]
      /\ qs1[o] = s /\ ds1[o] = d
      /\ \A p \in Queue \ {o} : qs1[p] = qs[p] /\ ds1[p] = ds[p]
  BY <1>1
<1> HIDE DEF qs1, ds1
<1>3. \A p \in Queue \ {o} : ObjectOK(qs[p], ds[p], n1)
  <2> SUFFICES ASSUME NEW p \in Queue \ {o} PROVE ObjectOK(qs[p], ds[p], n1)
    OBVIOUS
  <2>1. qs[p] \in QueueObject /\ ObjectOK(qs[p], ds[p], n)
    BY <1>1
  <2>2. Len(qs[p].items) \in Nat /\ qs[p].droppedCount \in Nat
    BY <2>1 DEF QueueObject
  <2> QED
    BY <2>1, <2>2 DEF ObjectOK
<1>4. ShapeOK(c1, qs1, ds1, n1)
  BY <1>2, <1>3 DEF ShapeOK
<1>5. RouteOK(qs1, ds1)
  BY <1>2 DEF RouteOK
<1>6. DrainsOK(c, ds) /\ c \in {o, NoQueue} => DrainsOK(o, ds1)
  BY <1>2, QueueFacts DEF DrainsOK
<1>7. /\ \A done : done \subseteq 1..n1 /\ OrderObject(s, d, n1, done)
                     => OrderOK(o, qs1, ds1, n1, done)
      /\ \A acc, settled : HeldObject(s, d, acc, settled)
                             => HeldOK(o, qs1, ds1, acc, settled)
  BY <1>2 DEF OrderOK, HeldOK
<1> QED
  BY <1>4, <1>5, <1>6, <1>7 DEF qs1, ds1

(* A step of the drain of o.                                               *)
LEMMA DrainMoves ==
    ASSUME IInv, RestOK', arrived' = arrived, mishaps \subseteq mishaps',
           NEW o \in Queue, drain[o].at # "none",
           NEW s \in QueueObject, NEW d \in Drain, NEW x \in {o, current},
           Now(x, current, [q EXCEPT ![o] = s], [drain EXCEPT ![o] = d]),
           ObjectOK(s, d, arrived), RouteObject(s, d),
           o = current /\ Ordered' => ran' \subseteq 1..arrived /\ OrderObject(s, d, arrived, ran'),
           o = current /\ mishaps' = {} => HeldObject(s, d, accepted', ran' \cup told' \cup gone')
    PROVE  IInv'
<1> DEFINE qs1 == [q EXCEPT ![o] = s]
           ds1 == [drain EXCEPT ![o] = d]
<1>1. /\ ShapeOK(current, q, drain, arrived) /\ RouteOK(q, drain)
      /\ current \in Queue \cup {NoQueue} /\ arrived \in Nat /\ arrived <= arrived
  BY DEF IInv, ShapeOK, RestOK
<1>2. /\ ShapeOK(current, qs1, ds1, arrived) /\ RouteOK(qs1, ds1)
      /\ DrainsOK(current, drain) /\ current \in {o, NoQueue} => DrainsOK(o, ds1)
      /\ \A done : done \subseteq 1..arrived /\ OrderObject(s, d, arrived, done)
                     => OrderOK(o, qs1, ds1, arrived, done)
      /\ \A acc, settled : HeldObject(s, d, acc, settled) => HeldOK(o, qs1, ds1, acc, settled)
  BY <1>1, ReplaceObject
<1> HIDE DEF qs1, ds1
<1>3. Uncleared' => DrainsOK(current, drain) /\ o = current
  BY DEF IInv, Uncleared, DrainsOK
<1>4. Uncleared' => x = current /\ DrainsOK(current, ds1)
  BY <1>2, <1>3
<1>5. Ordered' => OrderOK(current, qs1, ds1, arrived', ran')
  BY <1>2, <1>3 DEF Ordered, Uncleared
<1>6. mishaps' = {} => HeldOK(current, qs1, ds1, accepted', ran' \cup told' \cup gone')
  BY <1>2, <1>3 DEF Uncleared
<1>7. Now(x, current, qs1, ds1) /\ ShapeOK(current, qs1, ds1, arrived')
  BY <1>2 DEF qs1, ds1
<1> QED
  BY <1>2, <1>4, <1>5, <1>6, <1>7, MiddleToEnd

(* A message arrives for object o, and its drain may take note of it.      *)
LEMMA EnqueueMoves ==
    ASSUME IInv, RestOK', arrived' \in Nat, arrived <= arrived', mishaps \subseteq mishaps',
           ran' = ran, NEW o \in Queue, getFollowupQueue(o), NEW s \in QueueObject,
           NEW d \in Drain, Now(o, o, [q EXCEPT ![o] = s], [drain EXCEPT ![o] = d]),
           ObjectOK(s, d, arrived'), RouteObject(s, d),
           Ordered' => OrderObject(s, d, arrived', ran),
           mishaps' = {} => HeldObject(s, d, accepted', ran' \cup told' \cup gone')
    PROVE  IInv'
<1> DEFINE qs1 == [q EXCEPT ![o] = s]
           ds1 == [drain EXCEPT ![o] = d]
<1>1. /\ ShapeOK(current, q, drain, arrived) /\ RouteOK(q, drain)
      /\ arrived \in Nat /\ o \in Queue \cup {NoQueue}
  BY DEF IInv, ShapeOK, RestOK
<1>2. /\ ShapeOK(o, qs1, ds1, arrived') /\ RouteOK(qs1, ds1)
      /\ DrainsOK(current, drain) /\ current \in {o, NoQueue} => DrainsOK(o, ds1)
      /\ \A done : done \subseteq 1..arrived' /\ OrderObject(s, d, arrived', done)
                     => OrderOK(o, qs1, ds1, arrived', done)
      /\ \A acc, settled : HeldObject(s, d, acc, settled) => HeldOK(o, qs1, ds1, acc, settled)
  BY <1>1, ReplaceObject
<1>3. Now(o, o, qs1, ds1)
  OBVIOUS
<1> HIDE DEF qs1, ds1
<1>4. current \in {o, NoQueue}
  BY DEF getFollowupQueue
<1>5. Uncleared' => DrainsOK(current, drain)
  BY DEF IInv, Uncleared
<1>6. Ordered' => ran \subseteq 1..arrived'
  <2>1. Ordered' => OrderOK(current, q, drain, arrived, ran)
    BY DEF IInv, Ordered
  <2>2. 1..arrived \subseteq 1..arrived'
    BY <1>1
  <2> QED
    BY <2>1, <2>2 DEF OrderOK
<1>7. Ordered' => OrderOK(o, qs1, ds1, arrived', ran')
  BY <1>2, <1>6
<1>8. mishaps' = {} => HeldOK(o, qs1, ds1, accepted', ran' \cup told' \cup gone')
  BY <1>2
<1> QED
  BY <1>2, <1>3, <1>4, <1>5, <1>7, <1>8, MiddleToEnd

-----------------------------------------------------------------------------
(* What arrives.                                                           *)
LEMMA RecheckOutcome ==
    ASSUME NEW o \in Queue, NEW s \in QueueObject, NEW b \in BOOLEAN, NEW ds \in [Queue -> Drain],
           q \in [Queue -> QueueObject], RecheckLiveness(Enqueued(o, s, b, ds))
    PROVE  Now(o, o, [q EXCEPT ![o] = s], ds)
<1> DEFINE qs == [q EXCEPT ![o] = s]
           st == [cur |-> o, cb |-> b, q |-> qs, drain |-> ds]
<1>1. qs \in [Queue -> QueueObject]
  OBVIOUS
<1>2. RecheckLiveness(st)
  BY DEF Enqueued
<1> HIDE DEF qs
<1>3. Becomes(st) \/ Becomes(scheduleFollowupDrain(st))
  <2> HIDE DEF st
  <2> QED
    BY <1>2 DEF RecheckLiveness
<1>4. Now(o, o, qs, ds)
  BY <1>1, <1>3, ScheduleOutcome
<1> QED
  BY <1>4 DEF qs

(* The drain takes note of a message only when it is collecting.           *)
LEMMA NotedFacts ==
    ASSUME NEW d \in Drain, NEW m \in Msg
    PROVE  LET e == Noted(d, m) IN
           /\ e \in Drain /\ e.at = d.at /\ e.kind = d.kind /\ e.msgs = d.msgs /\ e.lines = d.lines
           /\ e.late = IF d.at = "collecting" THEN d.late \cup {m} ELSE d.late
           /\ \A s, n : ObjectOK(s, d, n) => ObjectOK(s, e, n)
           /\ \A s, n, done : OrderObject(s, d, n, done) => OrderObject(s, e, n, done)
           /\ \A s, acc, settled : HeldObject(s, d, acc, settled) => HeldObject(s, e, acc, settled)
<1> DEFINE e == Noted(d, m)
<1>1. /\ e \in Drain /\ e.at = d.at /\ e.kind = d.kind /\ e.msgs = d.msgs /\ e.lines = d.lines
      /\ e.late = IF d.at = "collecting" THEN d.late \cup {m} ELSE d.late
  BY DEF Noted, Drain
<1> HIDE DEF e
<1>2. \A s, n : ObjectOK(s, d, n) => ObjectOK(s, e, n)
  BY <1>1 DEF ObjectOK
<1>3. \A s, n, done : OrderObject(s, d, n, done) => OrderObject(s, e, n, done)
  BY <1>1 DEF OrderObject, PromptOK, Taken
<1>4. \A s, acc, settled : HeldObject(s, d, acc, settled) => HeldObject(s, e, acc, settled)
  BY <1>1 DEF HeldObject, PromptWhole, Taken
<1> QED
  BY <1>1, <1>2, <1>3, <1>4 DEF e

(* Objects with the same messages.                                         *)
Same(s, w) ==
    /\ s.items = w.items /\ s.summaryLines = w.summaryLines /\ s.droppedCount = w.droppedCount
    /\ s.draining = w.draining

LEMMA SameFacts ==
    ASSUME NEW w \in QueueObject, NEW s \in QueueObject, Same(s, w), NEW d,
           NEW n \in Nat, NEW n1 \in Nat, n <= n1
    PROVE  /\ ObjectOK(w, d, n) /\ [mode |-> s.mode, dropPolicy |-> s.dropPolicy, cap |-> s.cap] \in Settings
                => ObjectOK(s, d, n1)
           /\ RouteObject(w, d) => RouteObject(s, d)
           /\ \A done : OrderObject(w, d, n, done) => OrderObject(s, d, n1, done)
           /\ \A acc, settled : HeldObject(w, d, acc, settled) => HeldObject(s, d, acc, settled)
<1>0. /\ w.items \in Seq(Msg) /\ Len(w.items) \in Nat /\ w.droppedCount \in Nat
      /\ \A i \in 1..Len(w.items) : w.items[i] \in Nat
  <2>1. w.items \in Seq(Msg) /\ w.droppedCount \in Nat
    BY DEF QueueObject
  <2>2. Len(w.items) \in Nat /\ \A i \in 1..Len(w.items) : w.items[i] \in Msg
    BY <2>1
  <2>3. Msg \subseteq Nat
    BY BoundsAssumption DEF Msg
  <2> QED
    BY <2>1, <2>2, <2>3
<1>1. /\ ObjectOK(w, d, n) /\ [mode |-> s.mode, dropPolicy |-> s.dropPolicy, cap |-> s.cap] \in Settings
           => ObjectOK(s, d, n1)
  BY <1>0 DEF ObjectOK, Same
<1>2. \A done : OrderObject(w, d, n, done) => OrderObject(s, d, n1, done)
  BY <1>0 DEF OrderObject, PromptOK, Same
<1>3. \A acc, settled : HeldObject(w, d, acc, settled) => HeldObject(s, d, acc, settled)
  BY DEF HeldObject, PromptWhole, Same
<1>4. RouteObject(w, d) => RouteObject(s, d)
  BY DEF RouteObject, Same
<1> QED
  BY <1>1, <1>2, <1>3, <1>4

LEMMA SettingFacts ==
    ASSUME NEW set \in Settings
    PROVE  /\ set.mode \in {"followup", "collect"} /\ set.dropPolicy \in {"summarize", "old", "new"}
           /\ set.cap \in Nat \ {0}
           /\ [mode |-> set.mode, dropPolicy |-> set.dropPolicy, cap |-> set.cap] = set
BY SettingsAssumption

LEMMA SettledFacts ==
    ASSUME IInv, NEW o \in Queue, NEW set \in Settings, getFollowupQueue(o)
    PROVE  LET w == WithSettings(o, set) IN
           /\ w \in QueueObject /\ ObjectOK(w, drain[o], arrived) /\ RouteObject(w, drain[o])
           /\ w.mode = set.mode /\ w.dropPolicy = set.dropPolicy /\ w.cap = set.cap
           /\ Ordered => OrderObject(w, drain[o], arrived, ran)
           /\ mishaps = {} => HeldObject(w, drain[o], accepted, Settled)
<1> DEFINE w == WithSettings(o, set)
<1>0. /\ q[o] \in QueueObject /\ ObjectOK(q[o], drain[o], arrived) /\ arrived \in Nat
      /\ RouteObject(q[o], drain[o])
      /\ Ordered => OrderOK(current, q, drain, arrived, ran)
      /\ mishaps = {} => HeldOK(current, q, drain, accepted, Settled)
  BY DEF IInv, ShapeOK, RestOK, RouteOK
<1>1. /\ set.mode \in {"followup", "collect"} /\ set.dropPolicy \in {"summarize", "old", "new"}
      /\ set.cap \in Nat \ {0}
      /\ [mode |-> set.mode, dropPolicy |-> set.dropPolicy, cap |-> set.cap] = set
  BY SettingFacts
<1>2. CASE current # NoQueue
  <2>1. o = current /\ w = Settle(q[o], set)
    BY <1>2 DEF getFollowupQueue, WithSettings
  <2>2. /\ w \in QueueObject /\ Same(w, q[o])
        /\ w.mode = set.mode /\ w.dropPolicy = set.dropPolicy /\ w.cap = set.cap
    BY <1>0, <1>1, <2>1 DEF Settle, QueueObject, Same
  <2> HIDE DEF w
  <2>3. [mode |-> w.mode, dropPolicy |-> w.dropPolicy, cap |-> w.cap] \in Settings
    BY <1>1, <2>2
  <2>4. arrived <= arrived
    BY <1>0
  <2>5. ObjectOK(w, drain[o], arrived) /\ RouteObject(w, drain[o])
    BY <1>0, <2>2, <2>3, <2>4, SameFacts
  <2>6. /\ Ordered => OrderObject(w, drain[o], arrived, ran)
        /\ mishaps = {} => HeldObject(w, drain[o], accepted, Settled)
    BY <1>0, <2>1, <2>2, <2>4, SameFacts DEF OrderOK, HeldOK
  <2> QED
    BY <2>2, <2>5, <2>6 DEF w
<1>3. CASE current = NoQueue
  <2>1. drain[o].at = "none" /\ w = NewQueue(set)
    BY <1>3 DEF getFollowupQueue, WithSettings, Garbage
  <2>2. <<>> \in Seq(Msg) /\ Len(<<>>) = 0 /\ ToSet(<<>>) = {}
    BY EmptySeq DEF ToSet
  <2>3. /\ w \in QueueObject /\ w.items = <<>> /\ w.summaryLines = <<>>
        /\ w.droppedCount = 0 /\ w.draining = FALSE
        /\ w.mode = set.mode /\ w.dropPolicy = set.dropPolicy /\ w.cap = set.cap
    BY <1>1, <2>1, <2>2 DEF NewQueue, QueueObject
  <2> HIDE DEF w
  <2>4. ObjectOK(w, drain[o], arrived)
    <3>1. Len(w.items) + w.droppedCount <= arrived
      BY <1>0, <2>2, <2>3
    <3> QED
      BY <1>1, <2>1, <2>3, <3>1 DEF ObjectOK
  <2>5. OrderObject(w, drain[o], arrived, ran) /\ RouteObject(w, drain[o])
    BY <2>1, <2>2, <2>3 DEF OrderObject, RouteObject
  <2>6. mishaps = {} => HeldObject(w, drain[o], accepted, Settled)
    BY <1>0, <1>3, <2>1, <2>3, QueueFacts DEF HeldObject, HeldOK
  <2> QED
    BY <2>3, <2>4, <2>5, <2>6 DEF w
<1> QED
  BY <1>2, <1>3

(* The drop policy keeps the latest messages, and nothing goes without     *)
(* being named.                                                            *)
LEMMA DropFacts ==
    ASSUME NEW w \in QueueObject
    PROVE  LET k == applyQueueDropPolicy(w) IN
           /\ k \in QueueObject /\ k.draining = w.draining
           /\ k.mode = w.mode /\ k.dropPolicy = w.dropPolicy /\ k.cap = w.cap
           /\ \E j \in 0..Len(w.items) : k.items = SubSeq(w.items, j + 1, Len(w.items))
           /\ Len(w.items) < w.cap => k = w
           /\ Len(k.items) + k.droppedCount <= Len(w.items) + w.droppedCount
           /\ (w.droppedCount = 0 => w.summaryLines = <<>>)
                => (k.droppedCount = 0 => k.summaryLines = <<>>)
           /\ ToSet(w.items) \cup ToSet(w.summaryLines)
                  \subseteq PushedOut(w) \cup ToSet(k.items) \cup ToSet(k.summaryLines)
           /\ PushedOut(w) \subseteq Msg
<1> DEFINE k == applyQueueDropPolicy(w)
           l == Len(w.items)
           j == l - w.cap + 1
           dropped == SubSeq(w.items, 1, j)
           rest == SubSeq(w.items, j + 1, l)
           lines == w.summaryLines \o dropped
           last == LastOf(lines, w.cap)
           sum == w.dropPolicy = "summarize"
<1>0. /\ w.items \in Seq(Msg) /\ l \in Nat /\ w.cap \in Nat \ {0} /\ w.droppedCount \in Nat
      /\ w.summaryLines \in Seq(Msg)
  BY DEF QueueObject
<1>1. CASE l < w.cap
  <2>1. k = w /\ PushedOut(w) = {}
    BY <1>1 DEF applyQueueDropPolicy, PushedOut
  <2>2. w.items = SubSeq(w.items, 0 + 1, l) /\ 0 \in 0..l
    <3>1. SubSeq(w.items, 1, l) = w.items
      BY <1>0, SubSeqFull
    <3> QED
      BY <1>0, <3>1
  <2>3. \E i \in 0..l : k.items = SubSeq(w.items, i + 1, l)
    BY <2>1, <2>2
  <2> HIDE DEF k, l
  <2> QED
    BY <1>0, <2>1, <2>3 DEF k, l
<1>2. CASE ~(l < w.cap)
  <2>1. j \in 1..l /\ j \in Nat /\ j <= l /\ l - w.cap + 2 = j + 1
    BY <1>0, <1>2
  <2>2. /\ dropped \in Seq(Msg) /\ Len(dropped) = j
        /\ rest \in Seq(Msg) /\ Len(rest) = l - j
    <3> HIDE DEF j, l
    <3> QED
      BY <1>0, <2>1, FirstFacts, RestFacts DEF l
  <2>3. ToSet(w.items) = ToSet(dropped) \cup ToSet(rest)
    <3> HIDE DEF j, l
    <3> QED
      BY <1>0, <2>1, SplitSet DEF l
  <2>4. k = [w EXCEPT !.items = rest,
                      !.droppedCount = IF sum THEN w.droppedCount + Len(dropped) ELSE w.droppedCount,
                      !.summaryLines = IF sum THEN last ELSE w.summaryLines]
    BY <1>2, <2>1 DEF applyQueueDropPolicy, Dropped
  <2>5. PushedOut(w) = IF sum THEN ToSet(lines) \ ToSet(last) ELSE ToSet(dropped)
    BY <1>2 DEF PushedOut, Dropped
  <2> HIDE DEF k, j, dropped, rest
  <2>6. lines \in Seq(Msg) /\ ToSet(lines) = ToSet(w.summaryLines) \cup ToSet(dropped)
    BY <1>0, <2>2, ConcatSet
  <2> HIDE DEF lines
  <2>7. last \in Seq(Msg)
    BY <1>0, <2>6, LastOfType
  <2> HIDE DEF last, l
  <2> DEFINE count == IF sum THEN w.droppedCount + Len(dropped) ELSE w.droppedCount
             named == IF sum THEN last ELSE w.summaryLines
  <2>14. count \in Nat /\ named \in Seq(Msg)
    BY <1>0, <2>1, <2>2, <2>7
  <2>15. k = [w EXCEPT !.items = rest, !.droppedCount = count, !.summaryLines = named]
    BY <2>4, Zenon
  <2> HIDE DEF count, named
  <2>16. /\ k \in QueueObject /\ k.draining = w.draining
         /\ k.mode = w.mode /\ k.dropPolicy = w.dropPolicy /\ k.cap = w.cap
         /\ k.items = rest /\ k.droppedCount = count /\ k.summaryLines = named
    BY <2>2, <2>14, <2>15 DEF QueueObject
  <2>8. /\ k \in QueueObject /\ k.draining = w.draining
        /\ k.mode = w.mode /\ k.dropPolicy = w.dropPolicy /\ k.cap = w.cap
        /\ k.items = rest
        /\ k.droppedCount = IF sum THEN w.droppedCount + j ELSE w.droppedCount
        /\ k.summaryLines = IF sum THEN last ELSE w.summaryLines
    BY <2>2, <2>16 DEF count, named
  <2>9. Len(k.items) + k.droppedCount <= l + w.droppedCount
    BY <1>0, <2>1, <2>2, <2>8
  <2>10. (w.droppedCount = 0 => w.summaryLines = <<>>)
            => (k.droppedCount = 0 => k.summaryLines = <<>>)
    BY <1>0, <2>1, <2>8
  <2>11. /\ ToSet(w.items) \cup ToSet(w.summaryLines)
                \subseteq PushedOut(w) \cup ToSet(k.items) \cup ToSet(k.summaryLines)
    BY <2>3, <2>5, <2>6, <2>8
  <2>12. PushedOut(w) \subseteq Msg
    BY <2>2, <2>5, <2>6, SetFacts
  <2>13. \E i \in 0..l : k.items = SubSeq(w.items, i + 1, l)
    BY <1>0, <2>1, <2>8 DEF rest
  <2> QED
    BY <1>2, <2>8, <2>9, <2>10, <2>11, <2>12, <2>13 DEF k, l
<1> QED
  BY <1>1, <1>2

(* A message is added.                                                     *)
Added(k, m) == [k EXCEPT !.items = Append(@, m), !.lastRun = TRUE]

LEMMA AddedFacts ==
    ASSUME NEW k \in QueueObject, NEW m \in Msg, NEW n \in Nat, m = n + 1, NEW d \in Drain
    PROVE  LET a == Added(k, m) IN
           /\ a \in QueueObject
           /\ ObjectOK(k, d, n) => ObjectOK(a, d, m)
           /\ \A done : done \subseteq 1..n /\ OrderObject(k, d, n, done) => OrderObject(a, d, m, done)
           /\ ToSet(a.items) = ToSet(k.items) \cup {m} /\ a.summaryLines = k.summaryLines
<1>0. k.items \in Seq(Msg) /\ k.droppedCount \in Nat
  BY DEF QueueObject
<1> DEFINE a == Added(k, m)
           l == Len(k.items)
           t == Append(k.items, m)
<1>1. /\ t \in Seq(Msg) /\ Len(t) = l + 1 /\ l \in Nat
      /\ \A i \in 1..l : t[i] = k.items[i]
      /\ t[l + 1] = m
      /\ \A i \in 1..(l + 1) : i \in 1..l \/ i = l + 1
  BY <1>0, AppendFacts
<1>2. ToSet(t) = ToSet(k.items) \cup {m}
  BY <1>0, AppendSet
<1> HIDE DEF t
<1>3. /\ a \in QueueObject /\ a.items = t /\ a.summaryLines = k.summaryLines
      /\ a.droppedCount = k.droppedCount /\ a.draining = k.draining
      /\ a.mode = k.mode /\ a.dropPolicy = k.dropPolicy /\ a.cap = k.cap
  BY <1>1 DEF QueueObject, Added, t
<1>4. ObjectOK(k, d, n) => ObjectOK(a, d, m)
  BY <1>0, <1>1, <1>3 DEF ObjectOK
<1>5. \A i \in 1..l : k.items[i] \in Nat
  <2>1. \A i \in 1..l : k.items[i] \in Msg
    BY <1>0
  <2> QED
    BY <2>1, BoundsAssumption DEF Msg
<1>6. ASSUME NEW done, done \subseteq 1..n, OrderObject(k, d, n, done)
      PROVE  OrderObject(a, d, m, done)
  <2>1. /\ \A i \in 1..l : k.items[i] <= n
        /\ \A i, j \in 1..l : i < j => k.items[i] < k.items[j]
        /\ \A i \in 1..l : \A x \in done : x < k.items[i]
        /\ d.at = "run" => PromptOK(k, d)
    BY <1>6 DEF OrderObject
  <2>2. \A i \in 1..(l + 1) : t[i] <= m
    BY <1>1, <1>5, <2>1
  <2>3. \A i, j \in 1..(l + 1) : i < j => t[i] < t[j]
    <3> SUFFICES ASSUME NEW i \in 1..(l + 1), NEW j \in 1..(l + 1), i < j PROVE t[i] < t[j]
      OBVIOUS
    <3>1. i \in 1..l
      BY <1>1
    <3>2. CASE j \in 1..l
      BY <1>1, <2>1, <3>1, <3>2
    <3>3. CASE j = l + 1
      BY <1>1, <1>5, <2>1, <3>1, <3>3
    <3> QED
      BY <1>1, <3>2, <3>3
  <2>4. \A i \in 1..(l + 1) : \A x \in done : x < t[i]
    <3> SUFFICES ASSUME NEW i \in 1..(l + 1), NEW x \in done PROVE x < t[i]
      OBVIOUS
    <3>1. CASE i \in 1..l
      BY <1>1, <2>1, <3>1
    <3>2. CASE i = l + 1
      BY <1>1, <1>6, <3>2
    <3> QED
      BY <1>1, <3>1, <3>2
  <2>5. d.at = "run" => PromptOK(a, d)
    <3>1. Len(d.msgs) \in Nat
      BY DEF Drain
    <3> QED
      BY <1>1, <1>3, <2>1, <3>1 DEF PromptOK
  <2> QED
    BY <1>1, <1>3, <2>2, <2>3, <2>4, <2>5 DEF OrderObject
<1> QED
  BY <1>2, <1>3, <1>4, <1>6

-----------------------------------------------------------------------------
(* The drain goes on.                                                      *)

(* Taking members off a sequence leaves the end of it.                     *)
LEMMA RestIsSuffix ==
    ASSUME NEW S, NEW s \in Seq(S), NEW n \in Nat
    PROVE  LET j == IF n <= Len(s) THEN n ELSE Len(s) IN
           j \in 0..Len(s) /\ SubSeq(s, n + 1, Len(s)) = SubSeq(s, j + 1, Len(s))
<1>1. Len(s) \in Nat
  OBVIOUS
<1>2. CASE n <= Len(s)
  BY <1>1, <1>2
<1>3. CASE ~(n <= Len(s))
  <2>1. /\ n + 1 \in Int /\ Len(s) + 1 \in Int /\ Len(s) \in Int
        /\ \A i \in (n + 1)..Len(s) : s[i] \in S
        /\ \A i \in (Len(s) + 1)..Len(s) : s[i] \in S
    BY <1>1, <1>3
  <2>2. /\ SubSeq(s, n + 1, Len(s)) \in Seq(S)
        /\ Len(SubSeq(s, n + 1, Len(s))) = IF n + 1 <= Len(s) THEN Len(s) - (n + 1) + 1 ELSE 0
    BY <2>1, SubSeqProperties
  <2>3. /\ SubSeq(s, Len(s) + 1, Len(s)) \in Seq(S)
        /\ Len(SubSeq(s, Len(s) + 1, Len(s)))
             = IF Len(s) + 1 <= Len(s) THEN Len(s) - (Len(s) + 1) + 1 ELSE 0
    BY <2>1, SubSeqProperties
  <2>4. ~(n + 1 <= Len(s)) /\ ~(Len(s) + 1 <= Len(s))
    BY <1>1, <1>3
  <2>5. SubSeq(s, n + 1, Len(s)) = <<>> /\ SubSeq(s, Len(s) + 1, Len(s)) = <<>>
    BY <2>2, <2>3, <2>4, EmptySeq
  <2> QED
    BY <1>1, <1>3, <2>5
<1> QED
  BY <1>2, <1>3

(* The end of a queue is in order; what was before it may be answered.     *)
AddsFirst(done, more, s, j) == \A m \in more : m \in done \/ \E i \in 1..j : m = s[i]

LEMMA SuffixOrder ==
    ASSUME NEW w \in QueueObject, NEW k, NEW j \in 0..Len(w.items),
           k.items = SubSeq(w.items, j + 1, Len(w.items)),
           NEW d, NEW e, e.at # "run", NEW n \in Nat, NEW done, NEW more,
           OrderObject(w, d, n, done), AddsFirst(done, more, w.items, j)
    PROVE  OrderObject(k, e, n, more)
<1> DEFINE l == Len(w.items)
           rest == SubSeq(w.items, j + 1, l)
<1>1. w.items \in Seq(Msg) /\ l \in Nat /\ j \in Nat /\ j <= l
  BY DEF QueueObject
<1>2. Len(rest) = l - j /\ \A i \in 1..(l - j) : rest[i] = w.items[i + j]
  BY <1>1, RestFacts
<1>3. \A i \in 1..(l - j) : i + j \in 1..l
  BY <1>1
<1>4. /\ \A i \in 1..l : w.items[i] <= n
      /\ \A i, h \in 1..l : i < h => w.items[i] < w.items[h]
      /\ \A i \in 1..l : \A m \in done : m < w.items[i]
  BY DEF OrderObject
<1> HIDE DEF rest, l
<1>5. \A i \in 1..(l - j) : rest[i] <= n
  BY <1>2, <1>3, <1>4
<1>6. \A i, h \in 1..(l - j) : i < h => rest[i] < rest[h]
  <2> SUFFICES ASSUME NEW i \in 1..(l - j), NEW h \in 1..(l - j), i < h PROVE rest[i] < rest[h]
    OBVIOUS
  <2>1. i + j \in 1..l /\ h + j \in 1..l /\ i + j < h + j
    BY <1>1, <1>3
  <2> QED
    BY <1>2, <1>4, <2>1
<1>7. \A i \in 1..(l - j) : \A m \in more : m < rest[i]
  <2> SUFFICES ASSUME NEW i \in 1..(l - j), NEW m \in more PROVE m < w.items[i + j]
    BY <1>2
  <2>1. CASE m \in done
    BY <1>3, <1>4, <2>1
  <2>2. CASE m \notin done
    <3>1. PICK h \in 1..j : m = w.items[h]
      BY <2>2 DEF AddsFirst
    <3>2. h \in 1..l /\ h < i + j
      BY <1>1
    <3> QED
      BY <1>3, <1>4, <3>1, <3>2
  <2> QED
    BY <2>1, <2>2
<1>8. k.items = rest
  BY DEF rest, l
<1> QED
  BY <1>2, <1>5, <1>6, <1>7, <1>8 DEF OrderObject

(* What Loop, Finally and Return leave of the drain of o: it waits again,  *)
(* ends, or its caller has yet to go on.                                   *)
GoesOn(o, s, kind) == Finally(o, s) \/ Loop(o, s) \/ Return(o, s, kind)

LetGo(o, s, kind) ==
    \E x \in {o, current}, d \in Drain, b \in BOOLEAN :
       /\ d.at \notin {"run", "collecting"} /\ (b <=> d.at # "none")
       /\ d.at = "returned" => d.kind = kind
       /\ Now(x, current, [q EXCEPT ![o] = [s EXCEPT !.draining = b]], [drain EXCEPT ![o] = d])

LEMMA LoopOutcome ==
    ASSUME NEW o \in Queue, NEW s \in QueueObject, s.draining = TRUE,
           current \in Queue \cup {NoQueue}, callback \in BOOLEAN,
           q \in [Queue -> QueueObject], drain \in [Queue -> Drain],
           NEW kind, kind \in {"none", "item", "summary"}, GoesOn(o, s, kind)
    PROVE  LetGo(o, s, kind)
<1>1. CASE Finally(o, s)
  <2>1. PICK x \in {o, current} : Now(x, current, [q EXCEPT ![o] = [s EXCEPT !.draining = FALSE]],
                                      [drain EXCEPT ![o] = NoDrain])
    BY <1>1, FinallyOutcome
  <2>2. /\ NoDrain \in Drain /\ NoDrain.at = "none" /\ FALSE \in BOOLEAN
        /\ NoDrain.at \notin {"run", "collecting"} /\ NoDrain.at # "returned"
    BY NoDrainFacts
  <2> QED
    BY <2>1, <2>2, Zenon DEF LetGo
<1>2. ASSUME NEW d \in Drain, d.at \notin {"none", "run", "collecting"},
             d.at = "returned" => d.kind = kind,
             Becomes(State([q EXCEPT ![o] = s], [drain EXCEPT ![o] = d]))
      PROVE  LetGo(o, s, kind)
  <2> DEFINE qs == [q EXCEPT ![o] = s]
             ds == [drain EXCEPT ![o] = d]
             st == [cur |-> current, cb |-> callback, q |-> qs, drain |-> ds]
  <2>3. Becomes(st)
    BY <1>2 DEF State
  <2>4. qs \in [Queue -> QueueObject] /\ ds \in [Queue -> Drain]
    BY <1>2
  <2>5. Now(current, current, qs, ds)
    <3> HIDE DEF qs, ds
    <3> QED
      BY <2>3, <2>4, ScheduleOutcome
  <2>6. [s EXCEPT !.draining = TRUE] = s
    <3>1. \A b : s.draining = b => [s EXCEPT !.draining = b] = s
      BY DEF QueueObject
    <3> QED
      BY <3>1
  <2>7. Now(current, current, [q EXCEPT ![o] = [s EXCEPT !.draining = TRUE]], ds)
    BY <2>5, <2>6
  <2> QED
    BY <1>2, <2>7 DEF LetGo
<1>3. drain[o].force \in BOOLEAN
  BY DEF Drain
<1>4. CASE Loop(o, s) /\ ~Finally(o, s)
  <2> DEFINE d == [NoDrain EXCEPT !.at = "debounce", !.force = drain[o].force]
  <2>1. d \in Drain /\ d.at = "debounce"
    BY <1>3, NoDrainFacts
  <2>2. Becomes(State([q EXCEPT ![o] = s], [drain EXCEPT ![o] = d]))
    BY <1>4 DEF Loop
  <2> HIDE DEF d
  <2> QED
    BY <1>2, <2>1, <2>2
<1>5. CASE Return(o, s, kind)
  <2> DEFINE d == [NoDrain EXCEPT !.at = "returned", !.kind = kind, !.force = drain[o].force]
  <2>1. d \in Drain /\ d.at = "returned" /\ d.kind = kind
    BY <1>3, ReturnFacts
  <2>2. Becomes(State([q EXCEPT ![o] = s], [drain EXCEPT ![o] = d]))
    BY <1>5 DEF Return
  <2> HIDE DEF d
  <2> QED
    BY <1>2, <2>1, <2>2
<1> QED
  BY <1>1, <1>4, <1>5 DEF GoesOn

(* It starts no run.                                                       *)
LEMMA NoNewRun ==
    ASSUME NEW x, NEW c, NEW qs, NEW ds \in [Queue -> Drain], Now(x, c, qs, ds)
    PROVE  \A p \in Queue : drain'[p].at = "run" => ds[p].at = "run"
<1>1. CASE drain' = ds
  BY <1>1
<1>2. CASE c \in Queue /\ drain' = [ds EXCEPT ![c] = [NoDrain EXCEPT !.at = "debounce"]]
  <2> DEFINE d == [NoDrain EXCEPT !.at = "debounce"]
  <2>1. d.at = "debounce"
    BY NoDrainFacts
  <2> HIDE DEF d
  <2>2. \A p \in Queue : drain'[p] = IF p = c THEN d ELSE ds[p]
    BY <1>2 DEF d
  <2> QED
    BY <2>1, <2>2
<1> QED
  BY <1>1, <1>2 DEF Now, Outcome

LEMMA CallbackType ==
    ASSUME IInv, NEW o \in Queue, NEW s \in QueueObject, ObjectOK(s, drain[o], arrived),
           drain[o].at # "none", NEW kind \in {"none", "item", "summary"}, GoesOn(o, s, kind)
    PROVE  callback' \in BOOLEAN
<1>1. /\ current \in Queue \cup {NoQueue} /\ callback \in BOOLEAN
      /\ q \in [Queue -> QueueObject] /\ drain \in [Queue -> Drain]
  BY DEF IInv, ShapeOK, RestOK
<1>2. s.draining = TRUE
  BY DEF ObjectOK, QueueObject
<1>3. LetGo(o, s, kind)
  BY <1>1, <1>2, LoopOutcome
<1>4. PICK x \in {o, current}, d \in Drain, b \in BOOLEAN :
         Now(x, current, [q EXCEPT ![o] = [s EXCEPT !.draining = b]], [drain EXCEPT ![o] = d])
  BY <1>3, Zenon DEF LetGo
<1> QED
  BY <1>4 DEF Now

(* A step after which the drain of o is neither in a run nor collecting.   *)
LEMMA DrainLetsGo ==
    ASSUME IInv, RestOK', arrived' = arrived, mishaps \subseteq mishaps',
           NEW o \in Queue, drain[o].at # "none",
           NEW s \in QueueObject, ObjectOK(s, drain[o], arrived),
           NEW kind \in {"none", "item", "summary"}, GoesOn(o, s, kind),
           o = current /\ Ordered' => ran' \subseteq 1..arrived /\ OrderObject(s, NoDrain, arrived, ran'),
           o = current /\ mishaps' = {} =>
               kind # "summary" /\ HeldObject(s, NoDrain, accepted', ran' \cup told' \cup gone')
    PROVE  IInv'
<1>1. /\ current \in Queue \cup {NoQueue} /\ callback \in BOOLEAN
      /\ q \in [Queue -> QueueObject] /\ drain \in [Queue -> Drain]
  BY DEF IInv, ShapeOK, RestOK
<1>2. s.draining = TRUE
  BY DEF ObjectOK, QueueObject
<1>3. LetGo(o, s, kind)
  BY <1>1, <1>2, LoopOutcome
<1>4. PICK x \in {o, current}, d \in Drain, b \in BOOLEAN :
         /\ d.at \notin {"run", "collecting"} /\ (b <=> d.at # "none")
         /\ d.at = "returned" => d.kind = kind
         /\ Now(x, current, [q EXCEPT ![o] = [s EXCEPT !.draining = b]], [drain EXCEPT ![o] = d])
  BY <1>3, Zenon DEF LetGo
<1> DEFINE t == [s EXCEPT !.draining = b]
<1>5. /\ t \in QueueObject /\ t.draining = b /\ t.items = s.items /\ t.summaryLines = s.summaryLines
      /\ t.droppedCount = s.droppedCount /\ t.mode = s.mode /\ t.dropPolicy = s.dropPolicy
      /\ t.cap = s.cap
  BY DEF QueueObject
<1>6. Now(x, current, [q EXCEPT ![o] = t], [drain EXCEPT ![o] = d])
  BY <1>4
<1> HIDE DEF t
<1>7. ObjectOK(t, d, arrived) /\ RouteObject(t, d)
  BY <1>4, <1>5 DEF ObjectOK, RouteObject
<1>8. o = current /\ Ordered' => ran' \subseteq 1..arrived /\ OrderObject(t, d, arrived, ran')
  BY <1>4, <1>5 DEF OrderObject
<1>9. o = current /\ mishaps' = {} => HeldObject(t, d, accepted', ran' \cup told' \cup gone')
  BY <1>4, <1>5 DEF HeldObject
<1> QED
  BY <1>4, <1>5, <1>6, <1>7, <1>8, <1>9, DrainMoves

(* A step after which the drain of o is in a run.                          *)
Prompt(o, kind, msgs, lines, force) ==
    [at |-> "run", kind |-> kind, msgs |-> msgs, lines |-> lines, force |-> force,
     late |-> drain[o].late]

LEMMA DrainStarts ==
    ASSUME IInv, RestOK', arrived' = arrived, accepted' = accepted, ran' = ran, told' = told,
           gone' = gone, mishaps \subseteq mishaps', NEW o \in Queue, drain[o].at # "none",
           NEW kind \in {"item", "summary", "collect"}, NEW msgs \in Seq(Msg),
           NEW lines \in Seq(Msg), NEW force \in BOOLEAN, StartRun(o, kind, msgs, lines, force),
           Len(msgs) > 1 => ~hasCrossChannelItems(ToSet(msgs) \ drain[o].late),
           PromptOK(q[o], Prompt(o, kind, msgs, lines, force)),
           mishaps' = {} => PromptWhole(q[o], Prompt(o, kind, msgs, lines, force))
    PROVE  IInv'
<1> DEFINE d == Prompt(o, kind, msgs, lines, force)
<1>1. /\ current \in Queue \cup {NoQueue} /\ callback \in BOOLEAN
      /\ q \in [Queue -> QueueObject] /\ drain \in [Queue -> Drain]
      /\ ObjectOK(q[o], drain[o], arrived) /\ q[o] \in QueueObject
  BY DEF IInv, ShapeOK, RestOK
<1>2. d \in Drain /\ d.at = "run" /\ d.msgs = msgs /\ d.late = drain[o].late
  BY <1>1 DEF Drain, Prompt
<1>3. Now(current, current, [q EXCEPT ![o] = q[o]], [drain EXCEPT ![o] = d])
  <2>1. current' = current /\ q' = q /\ drain' = [drain EXCEPT ![o] = d] /\ callback' = callback
    BY DEF StartRun, Prompt
  <2>2. [q EXCEPT ![o] = q[o]] = q
    BY <1>1
  <2> QED
    BY <1>1, <2>1, <2>2 DEF Now, Outcome
<1>4. PromptOK(q[o], d) /\ (mishaps' = {} => PromptWhole(q[o], d))
  OBVIOUS
<1> HIDE DEF d
<1>5. ObjectOK(q[o], d, arrived) /\ RouteObject(q[o], d)
  BY <1>1, <1>2 DEF ObjectOK, RouteObject
<1>6. o = current /\ Ordered' => ran' \subseteq 1..arrived /\ OrderObject(q[o], d, arrived, ran')
  <2> SUFFICES ASSUME o = current, Ordered' PROVE ran \subseteq 1..arrived /\ OrderObject(q[o], d, arrived, ran)
    OBVIOUS
  <2>1. OrderOK(current, q, drain, arrived, ran)
    BY DEF IInv, Ordered
  <2> QED
    BY <1>4, <2>1 DEF OrderOK, OrderObject
<1>7. o = current /\ mishaps' = {} => HeldObject(q[o], d, accepted', ran' \cup told' \cup gone')
  <2> SUFFICES ASSUME o = current, mishaps' = {}
               PROVE  HeldObject(q[o], d, accepted, ran \cup told \cup gone)
    OBVIOUS
  <2>1. HeldOK(current, q, drain, accepted, ran \cup told \cup gone)
    BY DEF IInv, Settled
  <2> QED
    BY <1>2, <1>4, <2>1 DEF HeldOK, HeldObject
<1>8. current \in {o, current}
  OBVIOUS
<1> QED
  BY <1>1, <1>2, <1>3, <1>5, <1>6, <1>7, <1>8, DrainMoves

(* The same when the object is as it was.                                  *)
LEMMA DrainStops ==
    ASSUME IInv, RestOK', arrived' = arrived, accepted' = accepted, ran' = ran, told' = told,
           gone' = gone, mishaps \subseteq mishaps', NEW o \in Queue, drain[o].at # "none",
           NEW kind \in {"none", "item"}, GoesOn(o, q[o], kind)
    PROVE  IInv'
<1>1. /\ ObjectOK(q[o], drain[o], arrived) /\ q[o] \in QueueObject
      /\ NoDrain.at \notin {"run", "returned"} /\ kind \in {"none", "item", "summary"}
  BY NoDrainFacts DEF IInv, ShapeOK, RestOK
<1>2. o = current /\ Ordered' => ran' \subseteq 1..arrived /\ OrderObject(q[o], NoDrain, arrived, ran')
  <2> SUFFICES ASSUME o = current, Ordered'
               PROVE  ran \subseteq 1..arrived /\ OrderObject(q[o], NoDrain, arrived, ran)
    OBVIOUS
  <2>1. OrderOK(current, q, drain, arrived, ran)
    BY DEF IInv, Ordered
  <2> QED
    BY <1>1, <2>1 DEF OrderOK, OrderObject
<1>3. o = current /\ mishaps' = {} =>
         kind # "summary" /\ HeldObject(q[o], NoDrain, accepted', ran' \cup told' \cup gone')
  <2> SUFFICES ASSUME o = current, mishaps' = {}
               PROVE  HeldObject(q[o], NoDrain, accepted, ran \cup told \cup gone)
    OBVIOUS
  <2>1. HeldOK(current, q, drain, accepted, ran \cup told \cup gone)
    BY DEF IInv, Settled
  <2> QED
    BY <1>1, <2>1 DEF HeldOK, HeldObject
<1> QED
  BY <1>1, <1>2, <1>3, DrainLetsGo

(* The head of the loop: a run, or the end of the drain.                   *)
LEMMA DrainStepKeeps == ASSUME IInv, NEW o \in Queue, DrainStep(o) PROVE IInv'
<1>1. /\ RestOK /\ ShapeOK(current, q, drain, arrived)
      /\ q[o] \in QueueObject /\ drain[o] \in Drain
  BY DEF IInv, ShapeOK
<1>2. /\ q[o].items \in Seq(Msg) /\ q[o].summaryLines \in Seq(Msg) /\ drain[o].force \in BOOLEAN
      /\ <<>> \in Seq(Msg) /\ Len(q[o].items) \in Nat /\ Len(<<>>) = 0
  BY <1>1, EmptySeq DEF QueueObject, Drain
<1>3. /\ arrived' = arrived /\ accepted' = accepted /\ ran' = ran /\ told' = told /\ gone' = gone
      /\ active' = active /\ failures' = failures /\ clears' = clears
  BY DEF DrainStep
<1>4. \A b \in BOOLEAN : callback' = b /\ mishaps' \subseteq Mishap => RestOK'
  BY <1>1, <1>3 DEF RestOK
<1>5. ASSUME mishaps' \subseteq Mishap, mishaps \subseteq mishaps', drain[o].at # "none",
             NEW kind \in {"none", "item"}, GoesOn(o, q[o], kind)
      PROVE  IInv'
  <2>1. ObjectOK(q[o], drain[o], arrived) /\ kind \in {"none", "item", "summary"}
    BY <1>1, <1>5 DEF ShapeOK
  <2>2. callback' \in BOOLEAN
    BY <1>1, <1>5, <2>1, CallbackType
  <2> QED
    BY <1>3, <1>4, <1>5, <2>2, DrainStops
<1>6. ASSUME mishaps' \subseteq Mishap, mishaps \subseteq mishaps', drain[o].at # "none",
             NEW kind \in {"item", "summary", "collect"}, NEW msgs \in Seq(Msg),
             NEW lines \in Seq(Msg), NEW force \in BOOLEAN, StartRun(o, kind, msgs, lines, force),
             Len(msgs) > 1 => ~hasCrossChannelItems(ToSet(msgs) \ drain[o].late),
             PromptOK(q[o], Prompt(o, kind, msgs, lines, force)),
             mishaps' = {} => PromptWhole(q[o], Prompt(o, kind, msgs, lines, force))
      PROVE  IInv'
  <2>1. callback' = callback /\ callback \in BOOLEAN
    BY <1>1, <1>6 DEF StartRun, RestOK
  <2> QED
    BY <1>3, <1>4, <1>6, <2>1, DrainStarts
<1>7. CASE DrainChecks(o)
  <2> DEFINE d == [NoDrain EXCEPT !.at = "collecting"]
  <2>1. /\ drain[o].at = "debounce" /\ ~hasCrossChannelItems(ToSet(q[o].items))
        /\ drain' = [drain EXCEPT ![o] = d] /\ current' = current /\ callback' = callback
        /\ q' = q /\ mishaps' = mishaps
    BY <1>7 DEF DrainChecks, Debounced, Individual
  <2>2. d \in Drain /\ d.at = "collecting" /\ d.late = {}
    BY NoDrainFacts
  <2> HIDE DEF d
  <2>3. /\ q \in [Queue -> QueueObject] /\ drain \in [Queue -> Drain]
        /\ ObjectOK(q[o], drain[o], arrived)
    BY <1>1 DEF ShapeOK
  <2>4. [q EXCEPT ![o] = q[o]] = q /\ callback' \in BOOLEAN
    BY <1>1, <2>1, <2>3 DEF RestOK
  <2>5. Now(current, current, [q EXCEPT ![o] = q[o]], [drain EXCEPT ![o] = d])
    BY <2>1, <2>4 DEF Now, Outcome
  <2>6. ObjectOK(q[o], d, arrived) /\ RouteObject(q[o], d)
    <3>1. ToSet(q[o].items) \ {} = ToSet(q[o].items)
      OBVIOUS
    <3> QED
      BY <2>1, <2>2, <2>3, <3>1 DEF ObjectOK, RouteObject
  <2>7. o = current /\ Ordered' => ran' \subseteq 1..arrived /\ OrderObject(q[o], d, arrived, ran')
    BY <1>3, <2>1, <2>2 DEF IInv, Ordered, OrderOK, OrderObject
  <2>8. o = current /\ mishaps' = {} => HeldObject(q[o], d, accepted', ran' \cup told' \cup gone')
    BY <1>3, <2>1, <2>2 DEF IInv, HeldOK, HeldObject, Settled
  <2>9. RestOK' /\ mishaps \subseteq mishaps' /\ drain[o].at # "none"
    BY <1>1, <1>4, <2>1, <2>4 DEF RestOK
  <2> QED
    BY <1>1, <1>3, <2>2, <2>5, <2>6, <2>7, <2>8, <2>9, DrainMoves
<1>8. CASE DrainCollects(o)
  <2>1. mishaps' \subseteq Mishap /\ mishaps \subseteq mishaps' /\ drain[o].at = "collecting"
    BY <1>1, <1>8 DEF DrainCollects, Collecting, RestOK
  <2>2. CASE q[o].items # <<>> \/ q[o].lastRun
    <3> DEFINE lines == IF previewQueueSummaryPrompt(q[o]) THEN q[o].summaryLines ELSE <<>>
    <3>1. /\ StartRun(o, "collect", q[o].items, lines, FALSE)
          /\ ~hasCrossChannelItems(ToSet(q[o].items) \ drain[o].late)
      BY <1>8, <2>1, <2>2 DEF DrainCollects, IInv, RouteOK, RouteObject
    <3>2. lines \in Seq(Msg) /\ (lines # <<>> => lines = q[o].summaryLines)
      BY <1>2
    <3> HIDE DEF lines
    <3>3. /\ PromptOK(q[o], Prompt(o, "collect", q[o].items, lines, FALSE))
          /\ PromptWhole(q[o], Prompt(o, "collect", q[o].items, lines, FALSE))
      BY <1>2, <3>2 DEF Prompt, PromptOK, PromptWhole, Taken
    <3> QED
      BY <1>2, <1>6, <2>1, <3>1, <3>2, <3>3
  <2>3. CASE ~(q[o].items # <<>> \/ q[o].lastRun)
    BY <1>5, <1>8, <2>1, <2>3 DEF DrainCollects, GoesOn
  <2> QED
    BY <2>2, <2>3
<1>9. CASE DrainItem(o)
  <2>1. mishaps' \subseteq Mishap /\ mishaps \subseteq mishaps' /\ drain[o].at # "none"
    BY <1>1, <1>9 DEF DrainItem, Debounced, RestOK
  <2>2. CASE q[o].items # <<>>
    <3> DEFINE msgs == <<Head(q[o].items)>>
               force == q[o].mode = "collect" \/ drain[o].force
    <3>1. StartRun(o, "item", msgs, <<>>, force) /\ force \in BOOLEAN
      BY <1>9, <2>2 DEF DrainItem
    <3>2. /\ msgs \in Seq(Msg) /\ Len(msgs) = 1 /\ msgs[1] = q[o].items[1]
          /\ Len(q[o].items) >= 1
      BY <1>2, <2>2
    <3> HIDE DEF msgs, force
    <3>3. /\ PromptOK(q[o], Prompt(o, "item", msgs, <<>>, force))
          /\ PromptWhole(q[o], Prompt(o, "item", msgs, <<>>, force))
      <4> DEFINE d == Prompt(o, "item", msgs, <<>>, force)
      <4>1. d.kind = "item" /\ d.msgs = msgs /\ d.lines = <<>>
        BY DEF Prompt
      <4> HIDE DEF d
      <4>2. Taken(d) = 1
        BY <4>1 DEF Taken
      <4>3. \A i \in 1..1 : d.msgs[i] = q[o].items[i]
        BY <3>2, <4>1
      <4>4. PromptOK(q[o], d)
        <5>1. Len(d.msgs) = 1 /\ 1 <= 1 /\ 1 <= Len(q[o].items)
          BY <1>2, <3>2, <4>1
        <5> QED
          BY <4>2, <4>3, <5>1, Zenon DEF PromptOK
      <4>5. PromptWhole(q[o], d)
        BY <3>2, <4>1, <4>2 DEF PromptWhole
      <4> QED
        BY <4>4, <4>5 DEF d
    <3>4. ~(Len(msgs) > 1)
      BY <3>2
    <3> QED
      BY <1>2, <1>6, <2>1, <3>1, <3>2, <3>3, <3>4
  <2>3. CASE ~(q[o].items # <<>>)
    BY <1>5, <1>9, <2>1, <2>3 DEF DrainItem, GoesOn
  <2> QED
    BY <2>2, <2>3
<1>10. CASE DrainSummary(o)
  <2>1. drain[o].at # "none"
    BY <1>10 DEF DrainSummary, Debounced
  <2>2. CASE q[o].lastRun /\ q[o].items # <<>>
    <3>1. /\ StartRun(o, "summary", <<>>, q[o].summaryLines, drain[o].force)
          /\ mishaps' = mishaps \cup {"summary takes the place of a message"}
      BY <1>10, <2>2 DEF DrainSummary, Blame
    <3>2. mishaps' \subseteq Mishap /\ mishaps \subseteq mishaps' /\ mishaps' # {}
      BY <1>1, <3>1 DEF RestOK, Mishap
    <3>3. PromptOK(q[o], Prompt(o, "summary", <<>>, q[o].summaryLines, drain[o].force))
      BY <1>2 DEF Prompt, PromptOK, Taken
    <3>4. ~(Len(<<>>) > 1)
      BY <1>2
    <3> QED
      BY <1>2, <1>6, <2>1, <3>1, <3>2, <3>3, <3>4
  <2>3. CASE ~(q[o].lastRun /\ q[o].items # <<>>)
    <3>1. /\ GoesOn(o, q[o], "none")
          /\ mishaps' \in {mishaps, mishaps \cup {"summary without a message"}}
      BY <1>10, <2>3 DEF DrainSummary, Blame, GoesOn
    <3>2. mishaps' \subseteq Mishap /\ mishaps \subseteq mishaps'
      BY <1>1, <3>1 DEF RestOK, Mishap
    <3> QED
      BY <1>5, <2>1, <3>1, <3>2
  <2> QED
    BY <2>2, <2>3
<1>11. CASE Returned(o)
  <2>1. /\ drain[o].at = "returned" /\ mishaps' = mishaps
        /\ \/ drain[o].kind = "none" /\ Finally(o, q[o])
           \/ drain[o].kind = "item" /\ Loop(o, q[o])
           \/ drain[o].kind = "summary" /\ Loop(o, clearQueueSummaryState(q[o]))
    BY <1>11 DEF Returned
  <2>2. mishaps' \subseteq Mishap /\ mishaps \subseteq mishaps' /\ drain[o].at # "none"
    BY <1>1, <2>1 DEF RestOK
  <2>3. CASE drain[o].kind # "summary"
    BY <1>5, <2>1, <2>2, <2>3 DEF GoesOn
  <2>4. CASE drain[o].kind = "summary"
    <3> DEFINE s == clearQueueSummaryState(q[o])
    <3>1. Loop(o, s)
      BY <2>1, <2>4
    <3>2. ObjectOK(q[o], drain[o], arrived) /\ q[o].droppedCount \in Nat /\ arrived \in Nat
      BY <1>1 DEF ShapeOK, QueueObject, RestOK
    <3>3. /\ s \in QueueObject /\ s.draining = q[o].draining /\ s.items = q[o].items
          /\ s.mode = q[o].mode /\ s.dropPolicy = q[o].dropPolicy /\ s.cap = q[o].cap
          /\ s.droppedCount = 0 /\ s.summaryLines = <<>>
      BY <1>1, <1>2 DEF QueueObject, clearQueueSummaryState
    <3> HIDE DEF s
    <3>4. ObjectOK(s, drain[o], arrived)
      BY <1>2, <3>2, <3>3 DEF ObjectOK
    <3>5. o = current /\ Ordered' => ran' \subseteq 1..arrived /\ OrderObject(s, NoDrain, arrived, ran')
      <4> SUFFICES ASSUME o = current, Ordered'
                   PROVE  ran \subseteq 1..arrived /\ OrderObject(s, NoDrain, arrived, ran)
        BY <1>3
      <4>1. OrderOK(current, q, drain, arrived, ran)
        BY <2>1 DEF IInv, Ordered
      <4>2. NoDrain.at # "run"
        BY NoDrainFacts
      <4> QED
        BY <3>3, <4>1, <4>2 DEF OrderOK, OrderObject
    <3>6. ~(o = current /\ mishaps' = {})
      BY <2>1, <2>4 DEF IInv, HeldOK, HeldObject
    <3>8. GoesOn(o, s, "summary")
      BY <3>1 DEF GoesOn
    <3>9. RestOK'
      BY <1>4, <2>2, <3>3, <3>4, <3>8, CallbackType
    <3> QED
      BY <1>3, <2>2, <3>3, <3>4, <3>5, <3>6, <3>8, <3>9, DrainLetsGo
  <2> QED
    BY <2>3, <2>4
<1> QED
  BY <1>8, <1>9, <1>10, <1>7, <1>11 DEF DrainStep

(* What is left of an object after a run.                                  *)
LEMMA ConsumedFacts ==
    ASSUME NEW o \in Queue, q[o] \in QueueObject, drain[o] \in Drain
    PROVE  LET w == q[o]
               s == Consumed(o)
               n == Taken(drain[o])
               j == IF n <= Len(w.items) THEN n ELSE Len(w.items)
           IN  /\ s \in QueueObject /\ s.draining = w.draining
               /\ s.mode = w.mode /\ s.dropPolicy = w.dropPolicy /\ s.cap = w.cap
               /\ n \in Nat /\ j \in 0..Len(w.items)
               /\ s.items = SubSeq(w.items, j + 1, Len(w.items))
               /\ IF drain[o].kind = "collect" /\ drain[o].lines # <<>>
                  THEN s.droppedCount = 0 /\ s.summaryLines = <<>>
                  ELSE s.droppedCount = w.droppedCount /\ s.summaryLines = w.summaryLines
<1> DEFINE w == q[o]
           s == Consumed(o)
           n == Taken(drain[o])
           j == IF n <= Len(w.items) THEN n ELSE Len(w.items)
           tail == SubSeq(w.items, n + 1, Len(w.items))
           rest == [w EXCEPT !.items = tail]
           sum == drain[o].kind = "collect" /\ drain[o].lines # <<>>
<1>1. w.items \in Seq(Msg) /\ n \in Nat /\ Len(w.items) \in Nat
  <2>1. w.items \in Seq(Msg) /\ drain[o].msgs \in Seq(Msg)
    BY DEF QueueObject, Drain
  <2> QED
    BY <2>1 DEF Taken
<1>2. s = IF sum THEN clearQueueSummaryState(rest) ELSE rest
  BY DEF Consumed, Taken
<1>3. j \in 0..Len(w.items) /\ tail = SubSeq(w.items, j + 1, Len(w.items))
  <2> HIDE DEF w, n
  <2> QED
    BY <1>1, RestIsSuffix
<1>4. tail \in Seq(Msg)
  <2> HIDE DEF w, n, j
  <2>1. j \in Nat /\ j <= Len(w.items)
    BY <1>1, <1>3
  <2>2. SubSeq(w.items, j + 1, Len(w.items)) \in Seq(Msg)
    BY <1>1, <2>1, RestFacts
  <2> QED
    BY <1>3, <2>2
<1> HIDE DEF tail
<1>5. /\ rest \in QueueObject /\ rest.draining = w.draining
      /\ rest.mode = w.mode /\ rest.dropPolicy = w.dropPolicy /\ rest.cap = w.cap
      /\ rest.items = tail
      /\ rest.droppedCount = w.droppedCount /\ rest.summaryLines = w.summaryLines
  BY <1>4 DEF QueueObject
<1> HIDE DEF rest, s
<1>6. <<>> \in Seq(Msg)
  BY EmptySeq
<1>7. CASE sum
  <2>1. s = [rest EXCEPT !.droppedCount = 0, !.summaryLines = <<>>]
    BY <1>2, <1>7 DEF clearQueueSummaryState
  <2>2. /\ s \in QueueObject /\ s.draining = rest.draining
        /\ s.mode = rest.mode /\ s.dropPolicy = rest.dropPolicy /\ s.cap = rest.cap
        /\ s.items = rest.items /\ s.droppedCount = 0 /\ s.summaryLines = <<>>
    BY <1>5, <1>6, <2>1 DEF QueueObject
  <2> QED
    BY <1>1, <1>3, <1>5, <1>7, <2>2 DEF s
<1>8. CASE ~sum
  BY <1>1, <1>2, <1>3, <1>5, <1>8 DEF s
<1> QED
  BY <1>7, <1>8

LEMMA RunSucceedsKeeps == ASSUME IInv, NEW o \in Queue, RunSucceeds(o) PROVE IInv'
<1> DEFINE w == q[o]
           d == drain[o]
           s == Consumed(o)
           n == Taken(d)
           l == Len(w.items)
           j == IF n <= l THEN n ELSE l
           sum == d.kind = "collect" /\ d.lines # <<>>
           kind == IF d.kind \in {"item", "summary"} THEN d.kind ELSE "none"
<1>1. /\ RestOK /\ ShapeOK(current, q, drain, arrived)
      /\ w \in QueueObject /\ d \in Drain /\ ObjectOK(w, d, arrived) /\ arrived \in Nat
      /\ d.at = "run" /\ w.items \in Seq(Msg) /\ l \in Nat /\ w.summaryLines \in Seq(Msg)
      /\ w.droppedCount \in Nat
      /\ d.msgs \in Seq(Msg) /\ d.lines \in Seq(Msg) /\ Len(d.msgs) \in Nat
  <2>1. w \in QueueObject /\ d \in Drain
    BY DEF IInv, ShapeOK
  <2>2. /\ w.items \in Seq(Msg) /\ w.summaryLines \in Seq(Msg) /\ w.droppedCount \in Nat
        /\ d.msgs \in Seq(Msg) /\ d.lines \in Seq(Msg)
    BY <2>1 DEF QueueObject, Drain
  <2> QED
    BY <2>1, <2>2 DEF IInv, ShapeOK, RestOK, RunSucceeds, InRun
<1>2. /\ arrived' = arrived /\ accepted' = accepted /\ gone' = gone /\ mishaps' = mishaps
      /\ active' = active /\ failures' = failures /\ clears' = clears
      /\ ran' = ran \cup ToSet(d.msgs) /\ told' = told \cup ToSet(d.lines)
      /\ GoesOn(o, s, kind) /\ kind \in {"none", "item", "summary"}
  <2>1. d.kind \in {"none", "item", "summary", "collect"}
    BY <1>1 DEF Drain
  <2>2. Loop(o, s) \/ (d.kind # "collect" /\ Return(o, s, d.kind))
    BY DEF RunSucceeds
  <2>3. d.kind # "collect" => d.kind = kind
    BY <2>1
  <2> HIDE DEF s
  <2>4. GoesOn(o, s, kind)
    BY <2>2, <2>3 DEF GoesOn
  <2> USE DEF s
  <2> QED
    BY <2>1, <2>4 DEF RunSucceeds
<1>3. /\ s \in QueueObject /\ s.draining = w.draining
      /\ s.mode = w.mode /\ s.dropPolicy = w.dropPolicy /\ s.cap = w.cap
      /\ n \in Nat /\ j \in 0..l /\ s.items = SubSeq(w.items, j + 1, l)
      /\ IF sum THEN s.droppedCount = 0 /\ s.summaryLines = <<>>
         ELSE s.droppedCount = w.droppedCount /\ s.summaryLines = w.summaryLines
  BY <1>1, ConsumedFacts
<1> HIDE DEF s
<1>4. ToSet(d.msgs) \subseteq Msg /\ ToSet(d.lines) \subseteq Msg
  BY <1>1, SetFacts
<1>5. \A i \in DOMAIN d.msgs : i \in 1..Len(d.msgs)
  BY <1>1
<1>6. ObjectOK(s, d, arrived)
  <2>1. Len(s.items) \in Nat /\ Len(s.items) <= l
    <3> HIDE DEF j, l
    <3>1. j \in Nat /\ j <= l /\ Len(s.items) = l - j
      <4>1. j \in Nat /\ j <= l
        BY <1>1, <1>3
      <4> QED
        BY <1>1, <1>3, <4>1, RestFacts DEF l
    <3> QED
      BY <1>1, <3>1
  <2> HIDE DEF w, d, j, l
  <2>2. /\ [mode |-> w.mode, dropPolicy |-> w.dropPolicy, cap |-> w.cap] \in Settings
        /\ w.draining <=> d.at # "none"
        /\ l + w.droppedCount <= arrived
        /\ w.droppedCount = 0 => w.summaryLines = <<>>
    BY <1>1 DEF ObjectOK, l
  <2>3. s.droppedCount \in Nat /\ s.droppedCount <= w.droppedCount
    BY <1>1, <1>3
  <2>4. Len(s.items) + s.droppedCount <= arrived
    BY <1>1, <2>1, <2>2, <2>3
  <2>5. s.droppedCount = 0 => s.summaryLines = <<>>
    BY <1>3, <2>2
  <2> QED
    BY <1>3, <2>2, <2>4, <2>5 DEF ObjectOK
<1>7. RestOK'
  <2>1. callback' \in BOOLEAN
    BY <1>1, <1>2, <1>3, <1>6, CallbackType
  <2> QED
    BY <1>1, <1>2, <1>4, <2>1 DEF RestOK
<1>8. ASSUME o = current, Ordered'
      PROVE  ran' \subseteq 1..arrived /\ OrderObject(s, NoDrain, arrived, ran')
  <2>1. OrderObject(w, d, arrived, ran) /\ ran \subseteq 1..arrived
    BY <1>2, <1>8 DEF IInv, Ordered, OrderOK
  <2>2. PromptOK(w, d) /\ \A i \in 1..l : w.items[i] <= arrived
    BY <1>1, <2>1 DEF OrderObject
  <2>3. ASSUME NEW m \in ToSet(d.msgs) PROVE \E i \in 1..j : m = w.items[i]
    <3>1. PICK i \in 1..Len(d.msgs) : d.msgs[i] = m
      BY <1>1, SetFacts
    <3>2. i \in 1..j
      BY <1>1, <1>3, <2>2 DEF PromptOK
    <3> QED
      BY <2>2, <3>1, <3>2 DEF PromptOK
  <2>4. ran' \subseteq 1..arrived
    <3>1. \A i \in 1..j : i \in 1..l
      BY <1>1, <1>3
    <3>2. \A i \in 1..l : w.items[i] \in Msg
      BY <1>1
    <3> HIDE DEF j, l, w, d
    <3>3. \A i \in 1..l : w.items[i] \in 1..arrived
      <4> SUFFICES ASSUME NEW i \in 1..l PROVE w.items[i] \in 1..arrived
        OBVIOUS
      <4>1. w.items[i] \in Nat /\ 1 <= w.items[i]
        BY <3>2, BoundsAssumption DEF Msg
      <4> QED
        BY <1>1, <2>2, <4>1
    <3> HIDE DEF j, l, w, d
    <3> QED
      BY <1>2, <2>1, <2>3, <3>1, <3>3, Zenon
  <2>5. AddsFirst(ran, ran', w.items, j)
    BY <1>2, <2>3 DEF AddsFirst
  <2>6. NoDrain.at # "run"
    BY NoDrainFacts
  <2>7. OrderObject(s, NoDrain, arrived, ran')
    <3> HIDE DEF j, w, d
    <3>1. /\ w \in QueueObject /\ j \in 0..Len(w.items)
          /\ s.items = SubSeq(w.items, j + 1, Len(w.items))
      BY <1>1, <1>3
    <3> HIDE DEF s
    <3> QED
      BY <1>1, <2>1, <2>5, <2>6, <3>1, SuffixOrder
  <2> QED
    BY <2>4, <2>7
<1>9. ASSUME o = current, mishaps' = {}
      PROVE  kind # "summary" /\ HeldObject(s, NoDrain, accepted', ran' \cup told' \cup gone')
  <2>1. HeldObject(w, d, accepted, ran \cup told \cup gone)
    BY <1>2, <1>9 DEF IInv, HeldOK, Settled
  <2>2. OrderObject(w, d, arrived, ran)
    BY <1>2, <1>9 DEF IInv, Ordered, OrderOK
  <2>3. /\ accepted \subseteq ran \cup told \cup gone \cup ToSet(w.items) \cup ToSet(w.summaryLines)
        /\ PromptWhole(w, d) /\ PromptOK(w, d)
    BY <1>1, <2>1, <2>2 DEF HeldObject, OrderObject
  <2>4. Len(d.msgs) = n /\ n <= l /\ j = n
    BY <2>3 DEF PromptWhole, PromptOK
  <2>5. ToSet(w.items) = ToSet(SubSeq(w.items, 1, n)) \cup ToSet(s.items)
    <3> HIDE DEF j, w, n
    <3> QED
      BY <1>1, <1>3, <2>4, SplitSet
  <2>6. SubSeq(w.items, 1, n) = d.msgs
    <3> DEFINE f == SubSeq(w.items, 1, n)
    <3>1. f \in Seq(Msg) /\ Len(f) = n /\ \A i \in 1..n : f[i] = w.items[i]
      <4> HIDE DEF w, n
      <4> QED
        BY <1>1, <1>3, <2>4, FirstFacts
    <3> HIDE DEF f, w, d, n
    <3>2. \A i \in 1..n : f[i] = d.msgs[i]
      BY <2>3, <2>4, <3>1 DEF PromptOK
    <3>3. f = d.msgs
      BY <1>1, <2>4, <3>1, <3>2, SeqEqual
    <3> QED
      BY <3>3 DEF f
  <2>7. ToSet(w.summaryLines) \subseteq ToSet(d.lines) \cup ToSet(s.summaryLines)
    <3>1. d.kind # "summary" /\ (d.lines # <<>> => d.lines = w.summaryLines)
      BY <2>3 DEF PromptWhole
    <3> QED
      BY <1>3, <3>1
  <2>8. NoDrain.at \notin {"run", "returned"}
    BY NoDrainFacts
  <2>9. kind # "summary"
    BY <2>3 DEF PromptWhole
  <2> QED
    BY <1>2, <2>3, <2>5, <2>6, <2>7, <2>8, <2>9 DEF HeldObject
<1>10. mishaps \subseteq mishaps' /\ d.at # "none"
  BY <1>1, <1>2
<1> HIDE DEF d, kind
<1> QED
  BY <1>2, <1>3, <1>7, <1>6, <1>8, <1>9, <1>10, DrainLetsGo DEF d

LEMMA RunThrowsKeeps ==
    ASSUME IInv, NEW o \in Queue, RunThrows(o)
    PROVE  IInv' /\ \A p \in Queue : InRun(p)' => InRun(p)
<1>1. /\ RestOK /\ ShapeOK(current, q, drain, arrived) /\ q[o] \in QueueObject
      /\ drain[o] \in Drain /\ drain[o].at = "run" /\ Finally(o, q[o])
      /\ drain \in [Queue -> Drain]
  BY DEF IInv, ShapeOK, RunThrows, InRun
<1>2. /\ arrived' = arrived /\ accepted' = accepted /\ gone' = gone
      /\ active' = active /\ clears' = clears
      /\ failures' = failures + 1 /\ failures < MaxFailures
  BY DEF RunThrows
<1>3. PICK x : Now(x, current, [q EXCEPT ![o] = [q[o] EXCEPT !.draining = FALSE]],
                   [drain EXCEPT ![o] = NoDrain])
  BY <1>1, FinallyOutcome DEF RestOK, ShapeOK
<1>4. callback' \in BOOLEAN
  BY <1>3 DEF Now
<1>5. failures' \in 0..MaxFailures
  BY <1>1, <1>2, BoundsAssumption DEF RestOK
<1>6. GoesOn(o, q[o], "none") /\ drain[o].at # "none"
  BY <1>1 DEF GoesOn
<1>7. ASSUME ran' = ran, told' = told, mishaps' = mishaps PROVE IInv'
  <2>1. RestOK'
    BY <1>1, <1>2, <1>4, <1>5, <1>7 DEF RestOK
  <2> QED
    BY <1>2, <1>6, <1>7, <2>1, DrainStops
<1>8. ASSUME ran' = ran \cup ToSet(drain[o].msgs), told' = told \cup ToSet(drain[o].lines),
             mishaps' = mishaps \cup {"answered before it failed"}
      PROVE  IInv'
  <2>1. drain[o].msgs \in Seq(Msg) /\ drain[o].lines \in Seq(Msg)
    BY <1>1 DEF Drain
  <2>2. ToSet(drain[o].msgs) \subseteq Msg /\ ToSet(drain[o].lines) \subseteq Msg
    BY <2>1, SetFacts
  <2>3. RestOK' /\ mishaps \subseteq mishaps' /\ ~Ordered' /\ mishaps' # {}
    BY <1>1, <1>2, <1>4, <1>5, <1>8, <2>2 DEF RestOK, Mishap, Ordered
  <2>4. ObjectOK(q[o], drain[o], arrived)
    BY <1>1 DEF ShapeOK
  <2> QED
    BY <1>1, <1>2, <1>6, <2>3, <2>4, DrainLetsGo
<1>9. \A p \in Queue : drain'[p].at = "run" => drain[p].at = "run"
  <2>1. \A p \in Queue : [drain EXCEPT ![o] = NoDrain][p].at = "run" => drain[p].at = "run"
    BY <1>1, NoDrainFacts
  <2>2. [drain EXCEPT ![o] = NoDrain] \in [Queue -> Drain]
    BY <1>1, NoDrainFacts
  <2> DEFINE ds == [drain EXCEPT ![o] = NoDrain]
  <2> HIDE DEF ds
  <2>3. Now(x, current, [q EXCEPT ![o] = [q[o] EXCEPT !.draining = FALSE]], ds)
    BY <1>3 DEF ds
  <2>4. \A p \in Queue : drain'[p].at = "run" => ds[p].at = "run"
    BY <2>2, <2>3, NoNewRun DEF ds
  <2> QED
    BY <2>1, <2>4 DEF ds
<1> QED
  BY <1>7, <1>8, <1>9 DEF RunThrows, Blame, InRun

-----------------------------------------------------------------------------
(* The callers.                                                            *)

(* The number of a message that arrives.                                   *)
LEMMA ArrivalFacts ==
    ASSUME IInv, arrived < MaxMsgs
    PROVE  /\ arrived \in Nat /\ arrived + 1 \in Nat /\ arrived <= arrived + 1
           /\ arrived + 1 \in Msg /\ arrived + 1 \in 0..MaxMsgs
<1>1. arrived \in 0..MaxMsgs /\ MaxMsgs \in Nat
  BY BoundsAssumption DEF IInv, RestOK
<1> QED
  BY <1>1 DEF Msg

(* A message that is not added leaves the messages of the queue as they    *)
(* are.                                                                    *)
LEMMA NotAddedKeeps ==
    ASSUME IInv, NEW o \in Queue, NEW set \in Settings, getFollowupQueue(o),
           arrived < MaxMsgs, arrived' = arrived + 1, Blame("summary given up", GivenUp(o, set)),
           UNCHANGED <<active, failures, clears, accepted, ran, told, gone>>,
           NEW s \in QueueObject, Same(s, WithSettings(o, set)),
           s.mode = set.mode, s.dropPolicy = set.dropPolicy, s.cap = set.cap,
           RecheckLiveness(Enqueued(o, s, callback, drain))
    PROVE  IInv'
<1> DEFINE w == WithSettings(o, set)
           d == drain[o]
           n == arrived + 1
<1>1. /\ RestOK /\ arrived \in Nat /\ n \in Nat /\ arrived <= n
      /\ callback \in BOOLEAN /\ q \in [Queue -> QueueObject] /\ drain \in [Queue -> Drain]
  <2>1. arrived \in Nat /\ n \in Nat /\ arrived <= n
    BY ArrivalFacts
  <2> QED
    BY <2>1 DEF IInv, ShapeOK, RestOK
<1>2. /\ w \in QueueObject /\ ObjectOK(w, d, arrived) /\ RouteObject(w, d)
      /\ Ordered => OrderObject(w, d, arrived, ran)
      /\ mishaps = {} => HeldObject(w, d, accepted, Settled)
  BY SettledFacts
<1>3. [mode |-> s.mode, dropPolicy |-> s.dropPolicy, cap |-> s.cap] \in Settings
  BY SettingFacts
<1>4. Same(s, w)
  OBVIOUS
<1> HIDE DEF w, d, n
<1>5. ObjectOK(s, d, n) /\ RouteObject(s, d)
  BY <1>1, <1>2, <1>3, <1>4, SameFacts
<1>6. Ordered => OrderObject(s, d, n, ran)
  BY <1>1, <1>2, <1>4, SameFacts
<1>7. mishaps = {} => HeldObject(s, d, accepted, Settled)
  BY <1>1, <1>2, <1>4, SameFacts
<1>8. Now(o, o, [q EXCEPT ![o] = s], [drain EXCEPT ![o] = d])
  <2>2. Now(o, o, [q EXCEPT ![o] = s], drain)
    BY <1>1, RecheckOutcome
  <2>3. [drain EXCEPT ![o] = d] = drain
    BY <1>1 DEF d
  <2> QED
    BY <2>2, <2>3
<1>9. d \in Drain
  BY <1>1 DEF d
<1>10. mishaps \subseteq mishaps' /\ mishaps' \subseteq Mishap
  BY <1>1 DEF Blame, Mishap, RestOK
<1>11. arrived' \in 0..MaxMsgs
  BY ArrivalFacts
<1>12. RestOK'
  BY <1>1, <1>8, <1>10, <1>11 DEF RestOK, Now
<1>13. Ordered' => Ordered
  BY <1>10 DEF Ordered
<1>14. mishaps' = {} => mishaps = {}
  BY <1>10
<1>15. arrived' = n
  BY DEF n
<1>16. ran' \cup told' \cup gone' = Settled /\ accepted' = accepted /\ ran' = ran
  BY DEF Settled
<1> QED
  BY <1>1, <1>5, <1>6, <1>7, <1>8, <1>10, <1>12, <1>13, <1>14, <1>15, <1>16, <1>9, EnqueueMoves

LEMMA EnqueueDuplicateKeeps ==
    ASSUME IInv, NEW o \in Queue, NEW set \in Settings, EnqueueDuplicate(o, set) PROVE IInv'
<1>1. getFollowupQueue(o)
  BY DEF EnqueueDuplicate
<1> DEFINE w == WithSettings(o, set)
<1>2. /\ w \in QueueObject /\ w.mode = set.mode /\ w.dropPolicy = set.dropPolicy /\ w.cap = set.cap
  BY <1>1, SettledFacts
<1>3. Same(w, w)
  BY DEF Same
<1>4. RecheckLiveness(Enqueued(o, w, callback, drain))
  BY DEF EnqueueDuplicate
<1> HIDE DEF w
<1>5. Same(w, WithSettings(o, set))
  BY <1>3 DEF w
<1> QED
  BY <1>1, <1>2, <1>4, <1>5, NotAddedKeeps DEF EnqueueDuplicate

LEMMA EnqueueRefusedKeeps ==
    ASSUME IInv, NEW o \in Queue, NEW set \in Settings, EnqueueRefused(o, set) PROVE IInv'
<1>1. getFollowupQueue(o)
  BY DEF EnqueueRefused
<1> DEFINE w == WithSettings(o, set)
           s == [w EXCEPT !.lastRun = TRUE]
<1>2. /\ w \in QueueObject /\ w.mode = set.mode /\ w.dropPolicy = set.dropPolicy /\ w.cap = set.cap
  BY <1>1, SettledFacts
<1>3. RecheckLiveness(Enqueued(o, s, callback, drain))
  BY DEF EnqueueRefused
<1> HIDE DEF w
<1>4. /\ s \in QueueObject /\ Same(s, w)
      /\ s.mode = set.mode /\ s.dropPolicy = set.dropPolicy /\ s.cap = set.cap
  BY <1>2 DEF QueueObject, Same
<1> HIDE DEF s
<1>5. Same(s, WithSettings(o, set))
  BY <1>4 DEF w
<1> QED
  BY <1>1, <1>3, <1>4, <1>5, NotAddedKeeps DEF EnqueueRefused

LEMMA enqueueKeeps ==
    ASSUME IInv, NEW o \in Queue, NEW set \in Settings, enqueueFollowupRun(o, set)
    PROVE  IInv' /\ \A p \in Queue : InRun(p)' => InRun(p)
<1> DEFINE n == arrived
           m == n + 1
           d == drain[o]
           w == WithSettings(o, set)
           k == applyQueueDropPolicy(w)
           a == Added(k, m)
           e == Noted(d, m)
           full == Len(w.items) >= w.cap
<1>1. /\ getFollowupQueue(o) /\ arrived < MaxMsgs /\ arrived' = m
      /\ accepted' = accepted \cup {m} /\ gone' = gone \cup PushedOut(w)
      /\ active' = active /\ failures' = failures /\ clears' = clears
      /\ ran' = ran /\ told' = told
      /\ RecheckLiveness(Enqueued(o, a, TRUE, [drain EXCEPT ![o] = e]))
      /\ mishaps' = mishaps \cup (IF WillConsume(o) /\ full THEN {"overflow in a run"} ELSE {})
                            \cup (IF GivenUp(o, set) THEN {"summary given up"} ELSE {})
  BY DEF enqueueFollowupRun, Added
<1>2. /\ RestOK /\ callback \in BOOLEAN /\ q \in [Queue -> QueueObject]
      /\ drain \in [Queue -> Drain] /\ d \in Drain
  BY DEF IInv, ShapeOK, RestOK
<1>3. /\ n \in Nat /\ m \in Nat /\ n <= m /\ m \in Msg /\ m \in 0..MaxMsgs
  BY <1>1, ArrivalFacts
<1>4. /\ w \in QueueObject /\ ObjectOK(w, d, n) /\ RouteObject(w, d)
      /\ w.mode = set.mode /\ w.dropPolicy = set.dropPolicy /\ w.cap = set.cap
      /\ Ordered => OrderObject(w, d, n, ran)
      /\ mishaps = {} => HeldObject(w, d, accepted, Settled)
  BY <1>1, SettledFacts
<1> HIDE DEF w
<1>5. /\ k \in QueueObject /\ k.draining = w.draining
      /\ k.mode = w.mode /\ k.dropPolicy = w.dropPolicy /\ k.cap = w.cap
      /\ \E j \in 0..Len(w.items) : k.items = SubSeq(w.items, j + 1, Len(w.items))
      /\ Len(w.items) < w.cap => k = w
      /\ Len(k.items) + k.droppedCount <= Len(w.items) + w.droppedCount
      /\ (w.droppedCount = 0 => w.summaryLines = <<>>)
           => (k.droppedCount = 0 => k.summaryLines = <<>>)
      /\ ToSet(w.items) \cup ToSet(w.summaryLines)
             \subseteq PushedOut(w) \cup ToSet(k.items) \cup ToSet(k.summaryLines)
      /\ PushedOut(w) \subseteq Msg
  BY <1>4, DropFacts
<1> HIDE DEF k
<1>6. ~full => k = w
  <2>1. Len(w.items) \in Nat /\ w.cap \in Nat
    BY <1>4 DEF QueueObject
  <2> QED
    BY <1>5, <2>1
<1>7. /\ e \in Drain /\ e.at = d.at
      /\ e.late = IF d.at = "collecting" THEN d.late \cup {m} ELSE d.late
      /\ e.msgs = d.msgs
      /\ \A s, x : ObjectOK(s, d, x) => ObjectOK(s, e, x)
      /\ \A s, x, done : OrderObject(s, d, x, done) => OrderObject(s, e, x, done)
      /\ \A s, acc, settled : HeldObject(s, d, acc, settled) => HeldObject(s, e, acc, settled)
  BY <1>2, <1>3, NotedFacts
<1> HIDE DEF e
<1> HIDE DEF m, n, d
<1>8. /\ a \in QueueObject
      /\ ObjectOK(k, d, n) => ObjectOK(a, d, m)
      /\ \A done : done \subseteq 1..n /\ OrderObject(k, d, n, done) => OrderObject(a, d, m, done)
      /\ ToSet(a.items) = ToSet(k.items) \cup {m} /\ a.summaryLines = k.summaryLines
  <2>1. m = n + 1
    BY DEF m
  <2> QED
    BY <1>2, <1>3, <1>5, <2>1, AddedFacts
<1> HIDE DEF a
<1>9. ObjectOK(a, d, m)
  <2>1. Len(w.items) + w.droppedCount <= n
    BY <1>4 DEF ObjectOK
  <2>2. Len(k.items) + k.droppedCount <= n
    <3>1. /\ w.items \in Seq(Msg) /\ w.droppedCount \in Nat
          /\ k.items \in Seq(Msg) /\ k.droppedCount \in Nat
      BY <1>4, <1>5 DEF QueueObject
    <3>2. Len(w.items) \in Nat /\ Len(k.items) \in Nat
      BY <3>1
    <3>3. Len(k.items) + k.droppedCount <= Len(w.items) + w.droppedCount
      BY <1>5
    <3>4. \A b, c, f, g, x \in Nat : b + c <= f + g /\ f + g <= x => b + c <= x
      OBVIOUS
    <3> QED
      BY <1>3, <2>1, <3>1, <3>2, <3>3, <3>4, Zenon
  <2>3. ObjectOK(k, d, n)
    BY <1>4, <1>5, <2>2 DEF ObjectOK
  <2> QED
    BY <1>8, <2>3
<1>10. mishaps \subseteq mishaps' /\ mishaps' \subseteq Mishap
  BY <1>1, <1>2 DEF Mishap, RestOK
<1>11. Ordered' => Ordered /\ ~(d.at = "run" /\ full)
  BY <1>1 DEF Ordered, WillConsume, InRun, d
<1>12. mishaps' = {} => mishaps = {} /\ Ordered'
  BY <1>10 DEF Ordered
<1>13. Ordered' => OrderObject(a, d, m, ran)
  <2> SUFFICES ASSUME Ordered' PROVE OrderObject(a, d, m, ran)
    OBVIOUS
  <2>1. OrderObject(w, d, n, ran) /\ ran \subseteq 1..n
    BY <1>4, <1>11 DEF IInv, OrderOK, n
  <2>2. CASE ~full
    BY <1>6, <1>8, <2>1, <2>2
  <2>3. CASE full
    <3>1. d.at # "run"
      BY <1>11, <2>3
    <3>2. PICK j \in 0..Len(w.items) : k.items = SubSeq(w.items, j + 1, Len(w.items))
      BY <1>5
    <3>3. AddsFirst(ran, ran, w.items, j)
      BY DEF AddsFirst
    <3>4. OrderObject(k, d, n, ran)
      BY <1>3, <1>4, <2>1, <3>1, <3>2, <3>3, SuffixOrder
    <3> QED
      BY <1>8, <2>1, <3>4
  <2> QED
    BY <2>2, <2>3
<1>14. mishaps' = {} => HeldObject(a, d, accepted', ran' \cup told' \cup gone')
  <2> SUFFICES ASSUME mishaps' = {} PROVE HeldObject(a, d, accepted', ran' \cup told' \cup gone')
    OBVIOUS
  <2>1. HeldObject(w, d, accepted, Settled) /\ ~(d.at = "run" /\ full)
    BY <1>4, <1>11, <1>12
  <2>2. accepted \subseteq Settled \cup ToSet(w.items) \cup ToSet(w.summaryLines)
    BY <2>1 DEF HeldObject
  <2>3. accepted' \subseteq ran' \cup told' \cup gone' \cup ToSet(a.items) \cup ToSet(a.summaryLines)
    BY <1>1, <1>5, <1>8, <2>2 DEF Settled
  <2>4. (d.at = "run" => PromptWhole(a, d)) /\ (d.at = "returned" => d.kind # "summary")
    BY <1>6, <1>8, <2>1 DEF HeldObject, PromptWhole
  <2> QED
    BY <2>3, <2>4 DEF HeldObject
<1>15. Now(o, o, [q EXCEPT ![o] = a], [drain EXCEPT ![o] = e])
  <2>1. [drain EXCEPT ![o] = e] \in [Queue -> Drain]
    BY <1>2, <1>7
  <2> QED
    BY <1>2, <1>1, <1>8, <2>1, RecheckOutcome
<1>16. RouteObject(a, e)
  <2>1. PICK j \in 0..Len(w.items) : k.items = SubSeq(w.items, j + 1, Len(w.items))
    BY <1>5
  <2>2. w.items \in Seq(Msg) /\ j \in Nat /\ j <= Len(w.items)
    BY <1>4 DEF QueueObject
  <2>3. ToSet(k.items) \subseteq ToSet(w.items)
    BY <2>1, <2>2, SplitSet
  <2>4. e.at = "collecting" => ToSet(a.items) \ e.late \subseteq ToSet(w.items) \ d.late
    BY <1>8, <1>7, <2>3
  <2>5. e.at = "collecting" => ~hasCrossChannelItems(ToSet(a.items) \ e.late)
    BY <1>4, <1>7, <2>4, FewerRoutes DEF RouteObject
  <2> QED
    BY <1>4, <1>7, <2>5 DEF RouteObject
<1>17. RestOK'
  BY <1>1, <1>2, <1>3, <1>5, <1>10, <1>15 DEF RestOK, Now
<1>18. IInv'
  <2>1. ObjectOK(a, e, m) /\ (Ordered' => OrderObject(a, e, m, ran))
        /\ (mishaps' = {} => HeldObject(a, e, accepted', ran' \cup told' \cup gone'))
    BY <1>9, <1>13, <1>14, <1>7
  <2> QED
    BY <1>1, <1>3, <1>8, <1>10, <1>15, <1>17, <1>7, <1>16, <2>1, EnqueueMoves DEF n
<1>19. \A p \in Queue : drain'[p].at = "run" => drain[p].at = "run"
  <2> DEFINE ds == [drain EXCEPT ![o] = e]
  <2>1. ds \in [Queue -> Drain] /\ \A p \in Queue : ds[p].at = "run" => drain[p].at = "run"
    BY <1>2, <1>7 DEF d
  <2>2. Now(o, o, [q EXCEPT ![o] = a], ds)
    BY <1>15
  <2> HIDE DEF ds
  <2> QED
    BY <2>1, <2>2, NoNewRun
<1> QED
  BY <1>18, <1>19 DEF InRun

(* The end of the run outside the drain starts the drain.                  *)
LEMMA finalizeKeeps == ASSUME IInv, finalizeWithFollowup PROVE IInv'
<1>1. /\ RestOK /\ ShapeOK(current, q, drain, arrived) /\ RouteOK(q, drain)
      /\ current \in Queue \cup {NoQueue} /\ callback \in BOOLEAN
      /\ q \in [Queue -> QueueObject] /\ drain \in [Queue -> Drain]
  BY DEF IInv, ShapeOK, RestOK
<1>2. /\ active' = FALSE /\ failures' = failures /\ clears' = clears /\ arrived' = arrived
      /\ accepted' = accepted /\ ran' = ran /\ told' = told /\ gone' = gone /\ mishaps' = mishaps
      /\ Becomes(scheduleFollowupDrain(State(q, drain)))
  BY DEF finalizeWithFollowup
<1>3. Now(current, current, q, drain)
  <2>1. Becomes(scheduleFollowupDrain([cur |-> current, cb |-> callback, q |-> q, drain |-> drain]))
    BY <1>2 DEF State
  <2> QED
    BY <1>1, <2>1, ScheduleOutcome
<1>4. RestOK'
  BY <1>1, <1>2, <1>3 DEF RestOK, Now
<1>5. Uncleared' => DrainsOK(current, drain)
  BY <1>2 DEF IInv, Uncleared
<1>6. Ordered' => OrderOK(current, q, drain, arrived', ran')
  BY <1>2 DEF IInv, Ordered
<1>7. mishaps' = {} => HeldOK(current, q, drain, accepted', ran' \cup told' \cup gone')
  BY <1>2 DEF IInv, Settled
<1>8. ShapeOK(current, q, drain, arrived')
  BY <1>1, <1>2
<1> QED
  BY <1>1, <1>3, <1>4, <1>5, <1>6, <1>7, <1>8, MiddleToEnd

(* The cleared object leaves the map with what it held.                    *)
LEMMA clearKeeps == ASSUME IInv, clearSessionQueues PROVE IInv'
<1> DEFINE w == q[current]
           s == clearFollowupQueue(w)
           d == drain[current]
           qs1 == [q EXCEPT ![current] = s]
           ds1 == [drain EXCEPT ![current] = d]
<1>1. /\ RestOK /\ ShapeOK(current, q, drain, arrived) /\ RouteOK(q, drain)
      /\ current \in Queue /\ callback \in BOOLEAN /\ arrived \in Nat /\ arrived <= arrived
      /\ q \in [Queue -> QueueObject] /\ drain \in [Queue -> Drain]
      /\ w \in QueueObject /\ d \in Drain /\ ObjectOK(w, d, arrived)
  <2>1. current \in Queue
    BY DEF IInv, ShapeOK, clearSessionQueues
  <2> QED
    BY <2>1 DEF IInv, ShapeOK, RestOK
<1>2. /\ clears < MaxClears /\ clears' = clears + 1 /\ q' = qs1
      /\ gone' = gone \cup ToSet(w.items) \cup ToSet(w.summaryLines)
      /\ Blame("cleared in a drain", w.draining)
      /\ current' = NoQueue /\ callback' = FALSE
      /\ drain' = drain /\ active' = active /\ failures' = failures /\ arrived' = arrived
      /\ accepted' = accepted /\ ran' = ran /\ told' = told
  BY DEF clearSessionQueues
<1>3. <<>> \in Seq(Msg) /\ Len(<<>>) = 0
  BY EmptySeq
<1>4. /\ w.items \in Seq(Msg) /\ w.summaryLines \in Seq(Msg) /\ w.droppedCount \in Nat
      /\ Len(w.items) \in Nat
  <2>1. w.items \in Seq(Msg) /\ w.summaryLines \in Seq(Msg) /\ w.droppedCount \in Nat
    BY <1>1 DEF QueueObject
  <2> QED
    BY <2>1
<1>5. /\ s \in QueueObject /\ s.draining = w.draining
      /\ s.mode = w.mode /\ s.dropPolicy = w.dropPolicy /\ s.cap = w.cap
      /\ s.items = <<>> /\ s.droppedCount = 0 /\ s.summaryLines = <<>>
  BY <1>1, <1>3 DEF QueueObject, clearFollowupQueue, clearQueueSummaryState
<1> HIDE DEF s
<1>6. ObjectOK(s, d, arrived)
  <2>1. Len(s.items) + s.droppedCount <= arrived
    BY <1>1, <1>3, <1>5
  <2> QED
    BY <1>1, <1>5, <2>1 DEF ObjectOK
<1>7. RouteObject(s, d)
  <2>1. RouteObject(w, d)
    BY <1>1 DEF RouteOK
  <2>2. ToSet(<<>>) \ d.late \subseteq ToSet(w.items) \ d.late
    BY DEF ToSet
  <2> QED
    BY <1>5, <2>1, <2>2, FewerRoutes DEF RouteObject
<1>8. ds1 = drain
  BY <1>1
<1>9. ShapeOK(NoQueue, qs1, ds1, arrived) /\ RouteOK(qs1, ds1)
  <2>1. NoQueue \in Queue \cup {NoQueue}
    OBVIOUS
  <2> HIDE DEF d
  <2> QED
    BY <1>1, <1>6, <1>7, <1>5, <2>1, ReplaceObject
<1> HIDE DEF ds1, qs1
<1>10. ShapeOK(current', q', drain', arrived') /\ RouteOK(q', drain')
  BY <1>1, <1>2, <1>8, <1>9
<1>11. mishaps \subseteq mishaps' /\ mishaps' \subseteq Mishap
       /\ (w.draining => "cleared in a drain" \in mishaps')
  BY <1>1, <1>2 DEF Blame, Mishap, RestOK
<1>12. gone' \subseteq Msg
  <2>1. ToSet(w.items) \subseteq Msg /\ ToSet(w.summaryLines) \subseteq Msg
    BY <1>4, SetFacts
  <2>2. gone \subseteq Msg
    BY <1>1 DEF RestOK
  <2> QED
    BY <1>2, <2>1, <2>2
<1>13. clears' \in 0..MaxClears
  <2>1. clears \in 0..MaxClears
    BY <1>1 DEF RestOK
  <2>2. clears < MaxClears /\ clears' = clears + 1
    BY <1>2
  <2> QED
    BY <2>1, <2>2, BoundsAssumption
<1>14. RestOK'
  BY <1>1, <1>2, <1>11, <1>12, <1>13 DEF RestOK
<1>15. Uncleared' => DrainsOK(current', drain')
  <2>1. Uncleared' => DrainsOK(current, drain) /\ d.at = "none"
    BY <1>1, <1>11 DEF IInv, Uncleared, ObjectOK
  <2> QED
    BY <1>2, <2>1 DEF DrainsOK
<1>16. Ordered' => OrderOK(current', q', drain', arrived', ran')
  <2>1. Ordered' => OrderOK(current, q, drain, arrived, ran)
    BY <1>11 DEF IInv, Ordered
  <2> QED
    BY <1>2, <2>1, QueueFacts DEF OrderOK
<1>17. mishaps' = {} => HeldOK(current', q', drain', accepted', Settled')
  <2>1. mishaps' = {} => HeldOK(current, q, drain, accepted, Settled)
    BY <1>11 DEF IInv
  <2> QED
    BY <1>1, <1>2, <2>1, QueueFacts DEF HeldOK, HeldObject, Settled
<1> QED
  BY <1>10, <1>14, <1>15, <1>16, <1>17 DEF IInv

LEMMA replyKeeps == ASSUME IInv, runReplyAgent PROVE IInv'
<1>1. /\ active' = TRUE /\ current' = current /\ callback' = callback /\ q' = q /\ drain' = drain
      /\ failures' = failures /\ clears' = clears /\ arrived' = arrived
      /\ accepted' = accepted /\ ran' = ran /\ told' = told /\ gone' = gone /\ mishaps' = mishaps
  BY DEF runReplyAgent
<1>2. RestOK'
  BY <1>1 DEF IInv, RestOK
<1> QED
  BY <1>1, <1>2 DEF IInv, Uncleared, Ordered, Settled

-----------------------------------------------------------------------------
LEMMA Initial == Init => IInv
<1> SUFFICES ASSUME Init PROVE IInv
  OBVIOUS
<1>1. /\ current = NoQueue /\ callback = FALSE /\ active = TRUE /\ failures = 0 /\ clears = 0
      /\ arrived = 0 /\ accepted = {} /\ ran = {} /\ told = {} /\ gone = {} /\ mishaps = {}
      /\ drain = [o \in Queue |-> NoDrain]
  BY DEF Init
<1>2. PICK set \in Settings : q = [o \in Queue |-> NewQueue(set)]
  <2>1. (CHOOSE s \in Settings : TRUE) \in Settings
    BY SettingsAssumption
  <2> QED
    BY <2>1, Zenon DEF Init
<1> DEFINE w == NewQueue(set)
<1>3. /\ set.mode \in {"followup", "collect"} /\ set.dropPolicy \in {"summarize", "old", "new"}
      /\ set.cap \in Nat \ {0}
      /\ [mode |-> set.mode, dropPolicy |-> set.dropPolicy, cap |-> set.cap] = set
  BY SettingFacts
<1>4. <<>> \in Seq(Msg) /\ Len(<<>>) = 0
  BY EmptySeq
<1>5. /\ w \in QueueObject /\ w.items = <<>> /\ w.summaryLines = <<>>
      /\ w.droppedCount = 0 /\ w.draining = FALSE
      /\ w.mode = set.mode /\ w.dropPolicy = set.dropPolicy /\ w.cap = set.cap
  BY <1>3, <1>4 DEF NewQueue, QueueObject
<1>6. \A o \in Queue : q[o] = w /\ drain[o] = NoDrain
  BY <1>1, <1>2
<1>7. q \in [Queue -> QueueObject] /\ drain \in [Queue -> Drain]
  BY <1>1, <1>2, <1>5, NoDrainFacts
<1> HIDE DEF w
<1>8. ObjectOK(w, NoDrain, 0)
  <2>1. Len(w.items) + w.droppedCount <= 0
    BY <1>4, <1>5
  <2> QED
    BY <1>3, <1>5, <2>1, NoDrainFacts DEF ObjectOK
<1>9. ShapeOK(current, q, drain, arrived)
  BY <1>1, <1>6, <1>7, <1>8 DEF ShapeOK
<1>10. RouteOK(q, drain) /\ DrainsOK(current, drain)
  BY <1>6, NoDrainFacts DEF RouteOK, RouteObject, DrainsOK
<1>11. OrderOK(current, q, drain, arrived, ran) /\ HeldOK(current, q, drain, accepted, Settled)
  BY <1>1, QueueFacts DEF OrderOK, HeldOK
<1>12. RestOK
  <2>1. 0 \in 0..MaxFailures /\ 0 \in 0..MaxClears /\ 0 \in 0..MaxMsgs
    BY BoundsAssumption
  <2> QED
    BY <1>1, <2>1 DEF RestOK
<1> QED
  BY <1>9, <1>10, <1>11, <1>12 DEF IInv

LEMMA Inductive == IInv /\ [Next]_vars => IInv'
<1> SUFFICES ASSUME IInv, [Next]_vars PROVE IInv'
  OBVIOUS
<1>1. ASSUME NEW o \in Queue, NEW set \in Settings,
             EnqueueDuplicate(o, set) \/ EnqueueRefused(o, set) \/ enqueueFollowupRun(o, set)
      PROVE  IInv'
  BY <1>1, EnqueueDuplicateKeeps, EnqueueRefusedKeeps, enqueueKeeps
<1>2. CASE runReplyAgent \/ finalizeWithFollowup
  BY <1>2, replyKeeps, finalizeKeeps
<1>3. CASE clearSessionQueues
  BY <1>3, clearKeeps
<1>4. ASSUME NEW o \in Queue, DrainStep(o) \/ RunSucceeds(o) \/ RunThrows(o) PROVE IInv'
  BY <1>4, DrainStepKeeps, RunSucceedsKeeps, RunThrowsKeeps
<1>5. CASE UNCHANGED vars
  BY <1>5 DEF vars, IInv, RestOK, Uncleared, Ordered, Settled
<1> QED
  BY <1>1, <1>2, <1>3, <1>4, <1>5 DEF Next

LEMMA Invariance == Spec => []IInv
BY Initial, Inductive, PTL DEF Spec

(* The steps after which messages may be out of order start no run.        *)
LEMMA OrderedAtStart ==
    ASSUME IInv, [Next]_vars, Ordered, NEW o \in Queue, InRun(o)', ~InRun(o)
    PROVE  Ordered' /\ ran \subseteq ran'
<1>1. ASSUME NEW p \in Queue, NEW set \in Settings,
             EnqueueDuplicate(p, set) \/ EnqueueRefused(p, set)
      PROVE  Ordered' /\ ran' = ran
  BY <1>1 DEF EnqueueDuplicate, EnqueueRefused, Blame, Ordered
<1>2. ASSUME NEW p \in Queue, NEW set \in Settings, enqueueFollowupRun(p, set) PROVE FALSE
  BY <1>2, enqueueKeeps
<1>3. CASE runReplyAgent \/ finalizeWithFollowup
  BY <1>3 DEF runReplyAgent, finalizeWithFollowup, Ordered
<1>4. CASE clearSessionQueues
  BY <1>4 DEF clearSessionQueues, InRun
<1>5. ASSUME NEW p \in Queue, DrainStep(p) PROVE Ordered' /\ ran' = ran
  <2>1. ran' = ran
    BY <1>5 DEF DrainStep
  <2>2. CASE DrainSummary(p)
    <3>1. mishaps' \in {mishaps, mishaps \cup {"summary takes the place of a message"},
                         mishaps \cup {"summary without a message"}}
      BY <2>2 DEF DrainSummary, Blame
    <3> QED
      BY <2>1, <3>1 DEF Ordered
  <2>3. CASE ~DrainSummary(p)
    BY <1>5, <2>1, <2>3 DEF DrainStep, DrainChecks, DrainCollects, DrainItem, Returned, Ordered
  <2> QED
    BY <2>2, <2>3
<1>6. ASSUME NEW p \in Queue, RunSucceeds(p) \/ RunThrows(p) PROVE Ordered' /\ ran \subseteq ran'
  <2>1. ~RunThrows(p)
    BY RunThrowsKeeps
  <2> QED
    BY <1>6, <2>1 DEF RunSucceeds, Ordered
<1>7. CASE UNCHANGED vars
  BY <1>7 DEF vars, Ordered
<1> QED
  BY <1>1, <1>2, <1>3, <1>4, <1>5, <1>6, <1>7 DEF Next

-----------------------------------------------------------------------------
(* The objects are of the shape the code gives them, and one that drains   *)
(* has exactly one drain (FollowupQueueState and its draining flag).       *)
THEOREM TypeCorrect == Spec => []TypeOK
<1>1. ASSUME IInv PROVE TypeOK
  <2>1. RestOK /\ ShapeOK(current, q, drain, arrived)
    BY <1>1 DEF IInv
  <2>2. ASSUME NEW o \in Queue
        PROVE  /\ q[o].items \in Seq(Msg) /\ Len(q[o].items) <= MaxMsgs
               /\ q[o].draining \in BOOLEAN /\ q[o].lastRun \in BOOLEAN
               /\ [mode |-> q[o].mode, dropPolicy |-> q[o].dropPolicy, cap |-> q[o].cap] \in Settings
               /\ q[o].droppedCount \in 0..MaxMsgs
               /\ q[o].summaryLines \in Seq(Msg)
               /\ drain[o].at \in {"none", "debounce", "collecting", "run", "returned"}
               /\ drain[o].late \subseteq Msg
               /\ drain[o].kind \in {"none", "item", "summary", "collect"}
               /\ q[o].draining <=> drain[o].at # "none"
    <3>1. q[o] \in QueueObject /\ drain[o] \in Drain /\ ObjectOK(q[o], drain[o], arrived)
      BY <2>1 DEF ShapeOK
    <3>2. /\ q[o].items \in Seq(Msg) /\ q[o].summaryLines \in Seq(Msg)
          /\ q[o].draining \in BOOLEAN /\ q[o].lastRun \in BOOLEAN /\ q[o].droppedCount \in Nat
          /\ drain[o].at \in {"none", "debounce", "collecting", "run", "returned"}
          /\ drain[o].late \subseteq Msg
          /\ drain[o].kind \in {"none", "item", "summary", "collect"}
      BY <3>1 DEF QueueObject, Drain
    <3>3. Len(q[o].items) <= MaxMsgs /\ q[o].droppedCount \in 0..MaxMsgs
      <4>1. /\ Len(q[o].items) \in Nat /\ arrived \in Nat /\ arrived <= MaxMsgs
            /\ MaxMsgs \in Nat
        BY <2>1, <3>2, BoundsAssumption DEF RestOK
      <4>2. Len(q[o].items) + q[o].droppedCount <= arrived /\ q[o].droppedCount \in Nat
        BY <3>1, <3>2 DEF ObjectOK
      <4>3. \A l, c, a, b \in Nat : l + c <= a /\ a <= b => l <= b /\ c \in 0..b
        OBVIOUS
      <4> QED
        BY <4>1, <4>2, <4>3
    <3> QED
      BY <3>1, <3>2, <3>3 DEF ObjectOK
  <2> QED
    BY <2>1, <2>2 DEF TypeOK, RestOK, ShapeOK
<1> QED
  BY <1>1, Invariance, PTL

(* The messages of a prompt that were there when the drain checked them    *)
(* (hasCrossChannelItems) all go to one place, whatever arrived, was       *)
(* dropped or was cleared before it took them.                             *)
THEOREM OneRoutePerPromptHolds == Spec => []OneRoutePerPrompt
<1>1. IInv => OneRoutePerPrompt
  BY DEF IInv, RouteOK, RouteObject, OneRoutePerPrompt, InRun
<1> QED
  BY <1>1, Invariance, PTL

(* A session runs two follow-ups at a time only after it was cleared in    *)
(* the middle of a drain (scheduleFollowupDrain looks at the object in the *)
(* map only, and clearSessionQueues takes it out).                         *)
THEOREM OneFollowupAtATimeHolds == Spec => []OneFollowupAtATime
<1>1. IInv => OneFollowupAtATime
  BY DEF IInv, Uncleared, DrainsOK, OneFollowupAtATime, InRun
<1> QED
  BY <1>1, Invariance, PTL

(* Messages are answered once and in the order they came, unless a full    *)
(* queue dropped messages during a run, or was cleared in a drain, or a    *)
(* run threw after its answer: the drain takes off as many messages as its *)
(* prompt had.                                                             *)
THEOREM AnsweredOnceInOrderHolds == Spec => AnsweredOnceInOrder
<1> DEFINE Later == \A o \in Queue : \A m \in NewPrompt(o) : \A n \in ran :
              n < m \/ mishaps \cap {"overflow in a run", "cleared in a drain",
                                     "answered before it failed"} # {}
<1>1. ASSUME IInv, [Next]_vars PROVE Later
  <2> SUFFICES ASSUME NEW o \in Queue, NEW m \in NewPrompt(o), NEW n \in ran, Ordered
               PROVE  n < m
    BY DEF Ordered
  <2>1. InRun(o)' /\ ~InRun(o) /\ m \in ToSet(drain'[o].msgs)
    BY DEF NewPrompt
  <2>2. IInv'
    BY <1>1, Inductive
  <2>3. Ordered' /\ n \in ran'
    BY <1>1, <2>1, OrderedAtStart
  <2>4. /\ ShapeOK(current', q', drain', arrived') /\ DrainsOK(current', drain')
        /\ OrderOK(current', q', drain', arrived', ran')
    BY <2>2, <2>3 DEF IInv, Ordered, Uncleared
  <2>5. drain'[o].at = "run" /\ drain'[o] \in Drain
    BY <2>1, <2>4 DEF InRun, ShapeOK
  <2>6. o = current'
    BY <2>4, <2>5 DEF DrainsOK
  <2>7. OrderObject(q'[o], drain'[o], arrived', ran')
    BY <2>4, <2>6 DEF OrderOK
  <2>8. /\ PromptOK(q'[o], drain'[o])
        /\ \A i \in 1..Len(q'[o].items) : n < q'[o].items[i]
    BY <2>3, <2>5, <2>7 DEF OrderObject
  <2>9. drain'[o].msgs \in Seq(Msg) /\ q'[o].items \in Seq(Msg)
    BY <2>4, <2>5 DEF ShapeOK, QueueObject, Drain
  <2>10. PICK i \in 1..Len(drain'[o].msgs) : drain'[o].msgs[i] = m
    BY <2>1, <2>9, SetFacts
  <2>11. i \in 1..Len(q'[o].items)
    BY <2>8, <2>9 DEF PromptOK
  <2>12. m = q'[o].items[i]
    BY <2>8, <2>10 DEF PromptOK
  <2> QED
    BY <2>8, <2>11, <2>12
<1>2. Spec => [][Later]_vars
  <2>1. IInv /\ [Next]_vars => [Later]_vars
    BY <1>1
  <2> QED
    BY <2>1, Invariance, PTL DEF Spec
<1> QED
  BY <1>2 DEF AnsweredOnceInOrder

(* A message that was accepted is answered, named in a summary, cleared or *)
(* dropped as configured, or still in a queue a drain will find, unless    *)
(* one of the things happened that the drain does not allow for.           *)
THEOREM LossHasCauseHolds == Spec => []LossHasCause
<1>1. ASSUME IInv, mishaps = {} PROVE NoFollowupLost
  <2>1. HeldOK(current, q, drain, accepted, Settled)
    BY <1>1 DEF IInv
  <2>2. CASE current \in Queue
    <3>1. ~Garbage(current)
      BY DEF Garbage
    <3>2. ToSet(q[current].items) \cup ToSet(q[current].summaryLines) \subseteq Waiting
      BY <2>2, <3>1 DEF Waiting
    <3> QED
      BY <2>1, <2>2, <3>2 DEF HeldOK, HeldObject, NoFollowupLost
  <2>3. CASE current \notin Queue
    BY <2>1, <2>3 DEF HeldOK, NoFollowupLost
  <2> QED
    BY <2>2, <2>3
<1>2. IInv => LossHasCause
  BY <1>1 DEF LossHasCause
<1> QED
  BY <1>2, Invariance, PTL

=============================================================================
