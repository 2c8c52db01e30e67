-------------------------- MODULE FollowUps_proofs --------------------------
(***************************************************************************)
(* Proofs about a turn's surroundings: the follow-ups it arms for later,   *)
(* for any chats, caps and numbers of failed rewrites and restarts; below, *)
(* the delegates it waits for, for any roster and any limits; and last,    *)
(* the conversation it comes from and leaves, compacted or not, for any    *)
(* window and batches of any size.                                         *)
(*                                                                         *)
(* RunsOnce and CancelHolds are not inductive: that a follow-up has not    *)
(* run yet is known only through where it is, so the invariant says of     *)
(* each place (pending, in the poll's batch, being delivered) how often    *)
(* what is there has run, and that the places do not overlap.  What a      *)
(* failed rewrite or a restart lost is excepted throughout.                *)
(***************************************************************************)
EXTENDS FollowUps, Delegates, ContextJournal, SequenceTheorems, FiniteSetTheorems, WellFoundedInduction, TLAPS

Task == [to : Bindings, text : Texts, status : Statuses, depth : 1..MaxDepth]

\* No follow-up is claimed twice in one batch.
BatchIsDistinct == \A j, k \in 1..Len(batch) : batch[j] = batch[k] => j = k

\* What is not claimed, or was cancelled, has not run.
UnclaimedUnrun ==
    \A i \in Ids \ lost : tasks[i].status \in {"pending", "cancelled"} => ran[i] = 0

\* What waits in the batch is held as running and has not run.
BatchUnrun ==
    \A i \in ToSet(batch) :
        i # cur /\ (i \notin lost => tasks[i].status = "running" /\ ran[i] = 0)

\* What is being delivered is held as running and has run once.
CurrentRanOnce ==
    cur \in Ids \ lost => tasks[cur].status = "running" /\ ran[cur] = 1

Places == BatchIsDistinct /\ UnclaimedUnrun /\ BatchUnrun /\ CurrentRanOnce
FollowInv == TypeOK /\ Places /\ RunsOnce /\ NothingHeldForNobody

(***************************************************************************)
(* Sequences.                                                              *)
(***************************************************************************)

\* Taking the first of a batch leaves the others.
LEMMA TakeFirst ==
    ASSUME NEW S, NEW q \in Seq(S), q # <<>>,
           \A j, k \in 1..Len(q) : q[j] = q[k] => j = k
    PROVE  /\ Head(q) \in ToSet(q) /\ Head(q) \in S
           /\ Tail(q) \in Seq(S)
           /\ ToSet(Tail(q)) = ToSet(q) \ {Head(q)}
           /\ \A j, k \in 1..Len(Tail(q)) : Tail(q)[j] = Tail(q)[k] => j = k
<1>1. Len(q) \in Nat /\ Len(q) > 0 /\ DOMAIN q = 1..Len(q)
  BY EmptySeq, LenProperties
<1>2. /\ Tail(q) \in Seq(S) /\ Len(Tail(q)) = Len(q) - 1
      /\ \A j \in 1..Len(Tail(q)) : Tail(q)[j] = q[j + 1]
  BY HeadTailProperties
<1>3. Head(q) = q[1] /\ 1 \in 1..Len(q)
  BY <1>1
<1>4. DOMAIN Tail(q) = 1..Len(Tail(q))
  BY <1>2, LenProperties
<1>5. ToSet(Tail(q)) = ToSet(q) \ {Head(q)}
  <2>1. ASSUME NEW x \in ToSet(Tail(q))
        PROVE  x \in ToSet(q) \ {Head(q)}
    <3>1. PICK j \in 1..Len(Tail(q)) : x = Tail(q)[j]
      BY <1>4 DEF ToSet
    <3>2. j + 1 \in 1..Len(q) /\ x = q[j + 1] /\ j + 1 # 1
      BY <1>1, <1>2, <3>1
    <3> QED
      BY <1>1, <1>3, <3>2 DEF ToSet
  <2>2. ASSUME NEW x \in ToSet(q) \ {Head(q)}
        PROVE  x \in ToSet(Tail(q))
    <3>1. PICK j \in 1..Len(q) : x = q[j]
      BY <1>1 DEF ToSet
    <3>2. j # 1 /\ j - 1 \in 1..Len(Tail(q))
      BY <1>1, <1>2, <1>3, <3>1
    <3>3. x = Tail(q)[j - 1]
      BY <1>1, <1>2, <3>1, <3>2
    <3> QED
      BY <1>4, <3>2, <3>3 DEF ToSet
  <2> QED
    BY <2>1, <2>2
<1>6. ASSUME NEW j \in 1..Len(Tail(q)), NEW k \in 1..Len(Tail(q)), Tail(q)[j] = Tail(q)[k]
      PROVE  j = k
  <2>1. q[j + 1] = q[k + 1] /\ j + 1 \in 1..Len(q) /\ k + 1 \in 1..Len(q)
    BY <1>1, <1>2, <1>6
  <2>2. j + 1 = k + 1
    BY <2>1
  <2> QED
    BY <2>2
<1>7. Head(q) \in ToSet(q) /\ Head(q) \in S
  BY <1>1, <1>3 DEF ToSet
<1> QED
  BY <1>2, <1>5, <1>6, <1>7

\* A batch in the order of the file holds what was due, once each.
LEMMA ClaimedInOrder ==
    ASSUME NEW S \in SUBSET Nat, Cardinality(S) \in Nat, NEW q \in OldestFirst(S)
    PROVE  /\ q \in Seq(S) /\ ToSet(q) = S
           /\ \A j, k \in 1..Len(q) : q[j] = q[k] => j = k
<1>1. q \in [1..Cardinality(S) -> S] /\ ToSet(q) = S
  BY DEF OldestFirst
<1>2. q \in Seq(S)
  BY <1>1, SeqDef
<1>4. DOMAIN q = 1..Len(q) /\ Len(q) \in Nat /\ q \in [1..Len(q) -> S]
  BY <1>2, LenProperties
<1>3. ASSUME NEW j \in 1..Len(q), NEW k \in 1..Len(q), q[j] = q[k]
      PROVE  j = k
  <2>1. q[j] \in Nat /\ q[k] \in Nat
    BY <1>4
  <2>2. ~(j < k) /\ ~(k < j)
    BY <1>4, <1>3, <2>1 DEF OldestFirst
  <2> QED
    BY <1>4, <2>2
<1> QED
  BY <1>1, <1>2, <1>3

Marked(i, st) == [tasks EXCEPT ![i].status = st]

\* Marking one follow-up changes its status and nothing else.
LEMMA MarkedFile ==
    ASSUME tasks \in Seq(Task), NEW i \in Ids, NEW st \in Statuses
    PROVE  /\ Marked(i, st) \in Seq(Task) /\ Len(Marked(i, st)) = Len(tasks)
           /\ \A j \in Ids : Marked(i, st)[j].to = tasks[j].to
           /\ \A j \in Ids : Marked(i, st)[j].status = IF j = i THEN st ELSE tasks[j].status
<1>1. tasks \in [Ids -> Task] /\ Len(tasks) \in Nat
  BY LenProperties DEF Ids
<1>2. \A j \in Ids : Marked(i, st)[j] = IF j = i THEN [tasks[j] EXCEPT !.status = st] ELSE tasks[j]
  BY <1>1 DEF Marked
<1>3. \A j \in Ids : [tasks[j] EXCEPT !.status = st] \in Task
  BY <1>1 DEF Task
<1>4. Marked(i, st) \in [1..Len(tasks) -> Task]
  BY <1>1, <1>2, <1>3 DEF Ids, Marked
<1>5. Marked(i, st) \in Seq(Task)
  BY <1>1, <1>4, SeqDef
<1>6. Len(Marked(i, st)) = Len(tasks)
  BY <1>1, <1>4, <1>5, LenProperties
<1> QED
  BY <1>1, <1>2, <1>5, <1>6 DEF Task

\* Claiming changes the statuses of what is due and nothing else.
LEMMA ClaimedFile ==
    ASSUME tasks \in Seq(Task), NEW due \in SUBSET Ids
    PROVE  /\ Claimed(due) \in Seq(Task) /\ Len(Claimed(due)) = Len(tasks)
           /\ \A j \in Ids : Claimed(due)[j].to = tasks[j].to
           /\ \A j \in Ids : Claimed(due)[j].status =
                                IF j \in due THEN "running" ELSE tasks[j].status
<1>1. Len(tasks) \in Nat /\ \A j \in Ids : tasks[j] \in Task
  BY DEF Ids
<1>2. \A j \in Ids : Claimed(due)[j] \in Task
  BY <1>1 DEF Claimed, Task, Statuses
<1>3. Claimed(due) \in [1..Len(tasks) -> Task]
  BY <1>2 DEF Claimed, Ids
<1>4. Claimed(due) \in Seq(Task)
  BY <1>1, <1>3, SeqDef
<1>5. Len(Claimed(due)) = Len(tasks)
  BY <1>1, <1>3, <1>4, LenProperties
<1> QED
  BY <1>1, <1>4, <1>5 DEF Claimed, Task

\* Arming adds one, pending and not run, and touches no other.
LEMMA Armed ==
    ASSUME TypeOK, NEW c \in Bindings, NEW text \in Texts, NEW depth \in Nat \ {0},
           NEW links \in Nat, Add(c, text, depth, links)
    PROVE  /\ tasks' \in Seq(Task) /\ ran' \in Seq(Nat) /\ chain' \in Seq(Nat)
           /\ Len(tasks') = Len(tasks) + 1
           /\ Len(ran') = Len(tasks') /\ Len(chain') = Len(tasks')
           /\ \A i \in Ids : tasks'[i] = tasks[i] /\ ran'[i] = ran[i]
           /\ tasks'[Len(tasks')].status = "pending" /\ ran'[Len(tasks')] = 0
<1> DEFINE t == [to |-> c, text |-> text, status |-> "pending", depth |-> depth]
<1>1. t \in Task
  BY BoundsAreNat DEF Add, Admits, Task, Statuses
<1>2. tasks \in Seq(Task) /\ ran \in Seq(Nat) /\ chain \in Seq(Nat)
  BY DEF TypeOK, Task
<1>3. tasks' = Append(tasks, t) /\ ran' = Append(ran, 0) /\ chain' = Append(chain, links)
  BY DEF Add
<1> QED
  BY <1>1, <1>2, <1>3 DEF TypeOK, Ids

(***************************************************************************)
(* The invariant, step by step.                                            *)
(***************************************************************************)

LEMMA InitInv == Init => FollowInv
<1> SUFFICES ASSUME Init PROVE FollowInv
  OBVIOUS
<1>1. Ids = {} /\ ToSet(batch) = {} /\ Len(batch) = 0
  BY DEF Init, Ids, ToSet
<1>2. TypeOK
  BY <1>1, BoundsAreNat DEF Init, TypeOK, Ids, NoTask
<1>3. Places /\ RunsOnce
  BY <1>1 DEF Init, Places, RunsOnce, BatchIsDistinct, UnclaimedUnrun, BatchUnrun,
              CurrentRanOnce, NoTask
<1>4. NothingHeldForNobody
  BY <1>1 DEF Init, NothingHeldForNobody, RunningIsInHand, ChatFreed, With, NoTask
<1> QED
  BY <1>2, <1>3, <1>4 DEF FollowInv

\* Arming leaves everything there is where it is.
LEMMA ArmKeeps ==
    ASSUME FollowInv, NEW c \in Bindings, NEW text \in Texts, NEW depth \in Nat \ {0},
           NEW links \in Nat, Add(c, text, depth, links),
           UNCHANGED <<chats, busy, poll, lost, faults, crashes>>, turns' \in Nat
    PROVE  FollowInv'
<1> USE DEF FollowInv, poll
<1>1. /\ tasks' \in Seq(Task) /\ ran' \in Seq(Nat) /\ chain' \in Seq(Nat)
      /\ Len(tasks') = Len(tasks) + 1
      /\ Len(ran') = Len(tasks') /\ Len(chain') = Len(tasks')
      /\ \A i \in Ids : tasks'[i] = tasks[i] /\ ran'[i] = ran[i]
      /\ tasks'[Len(tasks')].status = "pending" /\ ran'[Len(tasks')] = 0
  BY Armed
<1>2. tasks \in Seq(Task) /\ Len(tasks) \in Nat
  BY LenProperties DEF TypeOK, Task
<1>3. Ids' = Ids \cup {Len(tasks')} /\ Len(tasks') \notin Ids /\ Ids \subseteq Nat \ {0}
  BY <1>1, <1>2 DEF Ids
<1>4. batch \in Seq(Ids) /\ ToSet(batch) \subseteq Ids /\ batch \in Seq(Ids')
  <2>1. batch \in Seq(Ids) /\ batch \in [1..Len(batch) -> Ids] /\ Len(batch) \in Nat
    BY LenProperties DEF TypeOK
  <2>2. batch \in [1..Len(batch) -> Ids']
    BY <2>1, <1>3
  <2>3. batch \in Seq(Ids')
    BY <2>1, <2>2, SeqDef
  <2> QED
    BY <2>1, <2>3 DEF ToSet
<1>5. TypeOK'
  BY <1>1, <1>3, <1>4 DEF TypeOK, Task, NoTask, Statuses
<1>6. Places'
  <2>1. UnclaimedUnrun'
    BY <1>1, <1>3 DEF Places, UnclaimedUnrun
  <2>2. BatchUnrun' /\ BatchIsDistinct'
    BY <1>1, <1>4 DEF Places, BatchUnrun, BatchIsDistinct
  <2>3. CurrentRanOnce'
    <3>1. cur' = cur /\ lost' = lost /\ cur # Len(tasks')
      BY <1>1, <1>2, <1>3 DEF TypeOK, NoTask
    <3> QED
      BY <1>1, <1>3, <3>1 DEF Places, CurrentRanOnce
  <2> QED
    BY <2>1, <2>2, <2>3 DEF Places
<1>7. RunsOnce'
  BY <1>1, <1>3 DEF RunsOnce
<1>8. RunningIsInHand'
  BY <1>1, <1>3 DEF NothingHeldForNobody, RunningIsInHand, With
<1>9. ChatFreed'
  BY <1>1, <1>3 DEF NothingHeldForNobody, ChatFreed, TypeOK, NoTask
<1> QED
  BY <1>5, <1>6, <1>7, <1>8, <1>9 DEF NothingHeldForNobody

\* The file marked, or not: then what was marked is lost.
LEMMA MarkOrLost ==
    ASSUME TypeOK, NEW i \in Ids, NEW st \in Statuses, Mark(i, st)
    PROVE  /\ tasks' \in Seq(Task) /\ Len(tasks') = Len(tasks) /\ Ids' = Ids
           /\ \A j \in Ids : tasks'[j].to = tasks[j].to
           /\ \A j \in Ids \ {i} : tasks'[j].status = tasks[j].status
           /\ lost' \subseteq Ids /\ lost \subseteq lost' /\ lost' \subseteq lost \cup {i}
           /\ faults' \in Nat
           /\ i \in lost' \/ tasks'[i].status = st
<1>1. tasks \in Seq(Task)
  BY DEF TypeOK, Task
<1>2. /\ Marked(i, st) \in Seq(Task) /\ Len(Marked(i, st)) = Len(tasks)
      /\ \A j \in Ids : Marked(i, st)[j].to = tasks[j].to
      /\ \A j \in Ids : Marked(i, st)[j].status = IF j = i THEN st ELSE tasks[j].status
  BY <1>1, MarkedFile
<1>3. CASE tasks' = Marked(i, st) /\ UNCHANGED <<lost, faults>>
  BY <1>2, <1>3 DEF TypeOK, Ids
<1>4. CASE faults < MaxFaults /\ faults' = faults + 1 /\ lost' = lost \cup {i} /\ UNCHANGED tasks
  BY <1>1, <1>4 DEF TypeOK, Ids
<1> QED
  BY <1>3, <1>4 DEF Mark, Rewrite, Marked

\* Claiming: what was due is running, or lost.
LEMMA ClaimKeeps == FollowInv /\ ClaimDue => FollowInv'
<1> SUFFICES ASSUME FollowInv, ClaimDue PROVE FollowInv'
  OBVIOUS
<1> USE DEF FollowInv
<1>1. PICK due \in SUBSET With("pending") \ {{}} :
          batch' \in OldestFirst(due) /\ Rewrite(due, Claimed(due))
  BY DEF ClaimDue
<1>2. /\ batch = <<>> /\ phase = "idle" /\ cur = NoTask
      /\ UNCHANGED <<chats, busy, cur, phase, ran, chain, turns, crashes>>
  BY DEF ClaimDue, TypeOK
<1>3. tasks \in Seq(Task) /\ Len(tasks) \in Nat /\ Ids \subseteq Nat \ {0}
  BY LenProperties DEF TypeOK, Task, Ids
<1>4. due \subseteq Ids /\ due \in SUBSET Nat /\ NoTask \notin due
  BY <1>3 DEF With, NoTask
<1>5. Cardinality(due) \in Nat
  <2>1. IsFiniteSet(1..Len(tasks))
    BY <1>3, FS_Interval
  <2>2. IsFiniteSet(due)
    BY <1>4, <2>1, FS_Subset DEF Ids
  <2> QED
    BY <2>2, FS_CardinalityType
<1>6. /\ batch' \in Seq(due) /\ ToSet(batch') = due
      /\ \A j, k \in 1..Len(batch') : batch'[j] = batch'[k] => j = k
  BY <1>1, <1>4, <1>5, ClaimedInOrder
<1>7. /\ tasks' \in Seq(Task) /\ Ids' = Ids /\ Len(tasks') = Len(tasks)
      /\ \A j \in Ids \ due : tasks'[j].status = tasks[j].status
      /\ lost' \subseteq Ids /\ lost \subseteq lost' /\ lost' \subseteq lost \cup due
      /\ faults' \in Nat
      /\ due \subseteq lost' \/ \A j \in due : tasks'[j].status = "running"
  <2>1. /\ Claimed(due) \in Seq(Task) /\ Len(Claimed(due)) = Len(tasks)
        /\ \A j \in Ids : Claimed(due)[j].to = tasks[j].to
        /\ \A j \in Ids : Claimed(due)[j].status =
                             IF j \in due THEN "running" ELSE tasks[j].status
    BY <1>3, <1>4, ClaimedFile
  <2>2. CASE tasks' = Claimed(due) /\ UNCHANGED <<lost, faults>>
    BY <1>4, <2>1, <2>2 DEF TypeOK, Ids
  <2>3. CASE faults' = faults + 1 /\ lost' = lost \cup due /\ UNCHANGED tasks
    BY <1>3, <1>4, <2>3 DEF TypeOK, Ids
  <2> QED
    BY <1>1, <2>2, <2>3 DEF Rewrite
<1>8. \A i \in due : tasks[i].status = "pending"
  BY DEF With
<1>9. batch' \in Seq(Ids')
  <2>1. batch' \in [1..Len(batch') -> due] /\ Len(batch') \in Nat
    BY <1>6, LenProperties
  <2>2. batch' \in [1..Len(batch') -> Ids']
    BY <1>4, <1>7, <2>1
  <2> QED
    BY <2>1, <2>2, SeqDef
<1>10. TypeOK'
  BY <1>2, <1>7, <1>9 DEF TypeOK, Task, NoTask
<1>11. Places'
  <2>1. BatchIsDistinct'
    BY <1>6 DEF BatchIsDistinct
  <2>2. UnclaimedUnrun'
    BY <1>2, <1>7 DEF Places, UnclaimedUnrun
  <2>3. BatchUnrun'
    BY <1>2, <1>4, <1>6, <1>7, <1>8 DEF Places, UnclaimedUnrun, BatchUnrun
  <2>4. CurrentRanOnce'
    BY <1>2, <1>3, <1>7 DEF CurrentRanOnce, NoTask
  <2> QED
    BY <2>1, <2>2, <2>3, <2>4 DEF Places
<1>12. RunsOnce'
  BY <1>2, <1>7 DEF RunsOnce
<1>13. RunningIsInHand'
  BY <1>2, <1>6, <1>7 DEF NothingHeldForNobody, RunningIsInHand, With, ToSet
<1>14. ChatFreed'
  BY <1>2 DEF NothingHeldForNobody, ChatFreed
<1> QED
  BY <1>10, <1>11, <1>12, <1>13, <1>14 DEF NothingHeldForNobody

\* The first of the batch is taken out of it.
LEMMA Taken ==
    ASSUME FollowInv, Taking
    PROVE  /\ Next1 \in Ids /\ Next1 \in ToSet(batch) /\ cur = NoTask /\ NoTask \notin Ids
           /\ batch' \in Seq(Ids) /\ ToSet(batch') = ToSet(batch) \ {Next1}
           /\ BatchIsDistinct'
           /\ Next1 \notin lost => tasks[Next1].status = "running" /\ ran[Next1] = 0
           /\ \A c \in Chats : busy[c] # "followup"
<1>1. /\ batch \in Seq(Ids) /\ batch # <<>> /\ batch' = Tail(batch)
      /\ \A j, k \in 1..Len(batch) : batch[j] = batch[k] => j = k
      /\ phase = "idle" /\ cur = NoTask
  BY DEF FollowInv, TypeOK, Taking, Places, BatchIsDistinct
<1>2. /\ Head(batch) \in ToSet(batch) /\ Head(batch) \in Ids
      /\ Tail(batch) \in Seq(Ids)
      /\ ToSet(Tail(batch)) = ToSet(batch) \ {Head(batch)}
      /\ \A j, k \in 1..Len(Tail(batch)) : Tail(batch)[j] = Tail(batch)[k] => j = k
  BY <1>1, TakeFirst
<1>3. NoTask \notin Ids
  BY DEF Ids, NoTask
<1>4. BatchIsDistinct'
  BY <1>1, <1>2 DEF BatchIsDistinct
<1>5. Next1 \notin lost => tasks[Next1].status = "running" /\ ran[Next1] = 0
  BY <1>2 DEF FollowInv, Places, BatchUnrun, Next1
<1>6. \A c \in Chats : busy[c] # "followup"
  BY <1>1 DEF FollowInv, NothingHeldForNobody, ChatFreed
<1> QED
  BY <1>1, <1>2, <1>3, <1>4, <1>5, <1>6 DEF Next1

\* One that is not run is marked failed, or pending again.
LEMMA NotRunKeeps ==
    ASSUME FollowInv, Taking, NEW st \in {"failed", "pending"}, Mark(Next1, st),
           UNCHANGED <<chats, busy, cur, phase, ran, chain, turns, crashes>>
    PROVE  FollowInv'
<1> USE DEF FollowInv
<1>1. /\ Next1 \in Ids /\ Next1 \in ToSet(batch) /\ cur = NoTask /\ NoTask \notin Ids
      /\ batch' \in Seq(Ids) /\ ToSet(batch') = ToSet(batch) \ {Next1}
      /\ BatchIsDistinct'
      /\ Next1 \notin lost => tasks[Next1].status = "running" /\ ran[Next1] = 0
      /\ \A c \in Chats : busy[c] # "followup"
  BY Taken
<1>2. /\ tasks' \in Seq(Task) /\ Len(tasks') = Len(tasks) /\ Ids' = Ids
      /\ \A j \in Ids : tasks'[j].to = tasks[j].to
      /\ \A j \in Ids \ {Next1} : tasks'[j].status = tasks[j].status
      /\ lost' \subseteq Ids /\ lost \subseteq lost' /\ lost' \subseteq lost \cup {Next1}
      /\ faults' \in Nat
      /\ Next1 \in lost' \/ tasks'[Next1].status = st
  BY <1>1, MarkOrLost DEF Statuses
<1>3. ToSet(batch) \subseteq Ids
  BY LenProperties DEF TypeOK, ToSet
<1>4. TypeOK'
  BY <1>1, <1>2 DEF TypeOK, Task
<1>5. Places'
  <2>1. UnclaimedUnrun'
    BY <1>1, <1>2 DEF Places, UnclaimedUnrun
  <2>2. BatchUnrun'
    BY <1>1, <1>2, <1>3 DEF Places, BatchUnrun
  <2>3. CurrentRanOnce'
    BY <1>1, <1>2 DEF CurrentRanOnce
  <2> QED
    BY <1>1, <2>1, <2>2, <2>3 DEF Places
<1>6. RunsOnce'
  BY <1>2 DEF RunsOnce
<1>7. RunningIsInHand'
  BY <1>1, <1>2 DEF NothingHeldForNobody, RunningIsInHand, With
<1>8. ChatFreed'
  BY <1>1, <1>2 DEF NothingHeldForNobody, ChatFreed, Taking
<1> QED
  BY <1>4, <1>5, <1>6, <1>7, <1>8 DEF NothingHeldForNobody

LEMMA RunKeeps == FollowInv /\ RunFollowUp => FollowInv'
<1> SUFFICES ASSUME FollowInv, RunFollowUp PROVE FollowInv'
  OBVIOUS
<1> USE DEF FollowInv
<1>1. /\ Next1 \in Ids /\ Next1 \in ToSet(batch) /\ cur = NoTask /\ NoTask \notin Ids
      /\ batch' \in Seq(Ids) /\ ToSet(batch') = ToSet(batch) \ {Next1}
      /\ BatchIsDistinct'
      /\ Next1 \notin lost => tasks[Next1].status = "running" /\ ran[Next1] = 0
      /\ \A c \in Chats : busy[c] # "followup"
  BY Taken DEF RunFollowUp
<1>2. /\ cur' = Next1 /\ phase' = "running" /\ phase = "idle"
      /\ ran' = [ran EXCEPT ![Next1] = @ + 1] /\ Ids' = Ids
      /\ UNCHANGED <<tasks, chats, chain, lost, turns, faults, crashes>>
  BY DEF RunFollowUp, bounds, Taking, Ids
<1>3. /\ ran \in [Ids -> Nat] /\ Len(ran) \in Nat /\ Len(ran) = Len(tasks)
      /\ ToSet(batch) \subseteq Ids
  <2>1. ran \in Seq(Nat) /\ Len(ran) = Len(tasks) /\ batch \in Seq(Ids)
    BY DEF TypeOK
  <2>2. ran \in [1..Len(ran) -> Nat] /\ Len(ran) \in Nat
    BY <2>1, LenProperties
  <2>3. ToSet(batch) \subseteq Ids
    BY <2>1, LenProperties DEF ToSet
  <2> QED
    BY <2>1, <2>2, <2>3 DEF Ids
<1>4. /\ ran' \in [Ids -> Nat] /\ ran'[Next1] = ran[Next1] + 1
      /\ \A j \in Ids \ {Next1} : ran'[j] = ran[j]
  BY <1>1, <1>2, <1>3
<1>5. ran' \in Seq(Nat) /\ Len(ran') = Len(tasks)
  <2>1. ran' \in [1..Len(tasks) -> Nat] /\ Len(tasks) \in Nat
    BY <1>3, <1>4 DEF Ids
  <2>2. ran' \in Seq(Nat)
    BY <2>1, SeqDef
  <2> QED
    BY <2>1, <2>2, LenProperties
<1>6. /\ busy' \in [Chats -> {"no", "user", "followup"}]
      /\ \A c \in Chats : busy'[c] = "followup" <=> tasks[Next1].to = c
  <2>1. CASE /\ tasks[Next1].to \in chats
             /\ busy' = [busy EXCEPT ![tasks[Next1].to] = "followup"]
    BY <1>1, <2>1 DEF TypeOK
  <2>2. CASE tasks[Next1].to = Unbound /\ UNCHANGED busy
    BY <1>1, <2>2, UnboundIsNoChat DEF TypeOK
  <2> QED
    BY <2>1, <2>2 DEF RunFollowUp
<1>7. TypeOK'
  BY <1>1, <1>2, <1>5, <1>6 DEF TypeOK
<1>8. Places'
  <2>1. UnclaimedUnrun'
    BY <1>1, <1>2, <1>4 DEF Places, UnclaimedUnrun
  <2>2. BatchUnrun'
    BY <1>1, <1>2, <1>3, <1>4 DEF Places, BatchUnrun
  <2>3. CurrentRanOnce'
    BY <1>1, <1>2, <1>4 DEF CurrentRanOnce
  <2> QED
    BY <1>1, <2>1, <2>2, <2>3 DEF Places
<1>9. RunsOnce'
  BY <1>1, <1>2, <1>3, <1>4 DEF RunsOnce
<1>10. RunningIsInHand'
  BY <1>1, <1>2 DEF NothingHeldForNobody, RunningIsInHand, With
<1>11. ChatFreed'
  BY <1>2, <1>6 DEF ChatFreed
<1> QED
  BY <1>7, <1>8, <1>9, <1>10, <1>11 DEF NothingHeldForNobody

LEMMA EndKeeps == FollowInv /\ EndFollowUp => FollowInv'
<1> SUFFICES ASSUME FollowInv, EndFollowUp PROVE FollowInv'
  OBVIOUS
<1> USE DEF FollowInv
<1>1. /\ phase = "running" /\ phase' = "ran" /\ busy' = Freed /\ Ids' = Ids
      /\ UNCHANGED <<tasks, chats, batch, cur, ran, chain, lost, turns, faults, crashes>>
  BY DEF EndFollowUp, bounds, Ids
<1>2. /\ busy' \in [Chats -> {"no", "user", "followup"}]
      /\ \A c \in Chats : busy'[c] # "followup"
  BY <1>1 DEF Freed, NothingHeldForNobody, ChatFreed, TypeOK
<1>3. TypeOK'
  BY <1>1, <1>2 DEF TypeOK
<1>4. Places'
  BY <1>1 DEF Places, BatchIsDistinct, UnclaimedUnrun, BatchUnrun, CurrentRanOnce
<1>5. RunsOnce'
  BY <1>1 DEF RunsOnce
<1>6. NothingHeldForNobody'
  BY <1>1, <1>2 DEF NothingHeldForNobody, RunningIsInHand, ChatFreed, With
<1> QED
  BY <1>3, <1>4, <1>5, <1>6

LEMMA MarkKeeps == FollowInv /\ MarkFollowUp => FollowInv'
<1> SUFFICES ASSUME FollowInv, MarkFollowUp PROVE FollowInv'
  OBVIOUS
<1> USE DEF FollowInv
<1>1. /\ phase = "ran" /\ phase' = "idle" /\ cur' = NoTask /\ cur \in Ids /\ NoTask \notin Ids
      /\ UNCHANGED <<chats, busy, batch, ran, chain, turns, crashes>>
  BY DEF MarkFollowUp, TypeOK, Ids, NoTask
<1>2. PICK st \in {"done", "failed"} : Mark(cur, st)
  BY DEF MarkFollowUp
<1>3. /\ tasks' \in Seq(Task) /\ Len(tasks') = Len(tasks) /\ Ids' = Ids
      /\ \A j \in Ids : tasks'[j].to = tasks[j].to
      /\ \A j \in Ids \ {cur} : tasks'[j].status = tasks[j].status
      /\ lost' \subseteq Ids /\ lost \subseteq lost' /\ lost' \subseteq lost \cup {cur}
      /\ faults' \in Nat
      /\ cur \in lost' \/ tasks'[cur].status = st
  BY <1>1, <1>2, MarkOrLost DEF Statuses
<1>4. ToSet(batch) \subseteq Ids
  BY LenProperties DEF TypeOK, ToSet
<1>5. TypeOK'
  BY <1>1, <1>3 DEF TypeOK, Task
<1>6. Places'
  <2>1. BatchIsDistinct' /\ CurrentRanOnce'
    BY <1>1, <1>3 DEF Places, BatchIsDistinct, CurrentRanOnce
  <2>2. UnclaimedUnrun'
    BY <1>1, <1>2, <1>3 DEF Places, UnclaimedUnrun
  <2>3. BatchUnrun'
    BY <1>1, <1>3, <1>4 DEF Places, BatchUnrun
  <2> QED
    BY <2>1, <2>2, <2>3 DEF Places
<1>7. RunsOnce'
  BY <1>1, <1>3 DEF RunsOnce
<1>8. RunningIsInHand'
  BY <1>1, <1>2, <1>3 DEF NothingHeldForNobody, RunningIsInHand, With
<1>9. ChatFreed'
  BY <1>1 DEF NothingHeldForNobody, ChatFreed
<1> QED
  BY <1>5, <1>6, <1>7, <1>8, <1>9 DEF NothingHeldForNobody

\* Nothing but a chat or a turn of a person changes.
LEMMA ChatSideKeeps ==
    ASSUME FollowInv,
           UNCHANGED <<tasks, batch, cur, phase, ran, chain, lost, faults, crashes>>,
           chats' \subseteq Chats, busy' \in [Chats -> {"no", "user", "followup"}],
           \A c \in Chats : busy'[c] = "followup" <=> busy[c] = "followup", turns' \in Nat
    PROVE  FollowInv'
<1> USE DEF FollowInv
<1>1. Ids' = Ids
  BY DEF Ids
<1>2. TypeOK'
  BY <1>1 DEF TypeOK
<1>3. Places'
  BY <1>1 DEF Places, BatchIsDistinct, UnclaimedUnrun, BatchUnrun, CurrentRanOnce
<1>4. RunsOnce' /\ NothingHeldForNobody'
  BY <1>1 DEF RunsOnce, NothingHeldForNobody, RunningIsInHand, ChatFreed, With
<1> QED
  BY <1>2, <1>3, <1>4

\* What was not claimed is cancelled for good.
LEMMA CancelKeeps ==
    ASSUME FollowInv, NEW i \in Ids, Cancel(i)
    PROVE  FollowInv'
<1> USE DEF FollowInv
<1>1. /\ tasks[i].status = "pending" /\ tasks' = Marked(i, "cancelled")
      /\ UNCHANGED <<chats, busy, batch, cur, phase, ran, chain, lost, turns, faults, crashes>>
  BY DEF Cancel, Cancellable, Marked, poll, bounds
<1>2. tasks \in Seq(Task)
  BY DEF TypeOK, Task
<1>3. /\ tasks' \in Seq(Task) /\ Len(tasks') = Len(tasks) /\ Ids' = Ids
      /\ \A j \in Ids : tasks'[j].to = tasks[j].to
      /\ \A j \in Ids : tasks'[j].status = IF j = i THEN "cancelled" ELSE tasks[j].status
  <2>1. PICK st, file : st = "cancelled" /\ file = Marked(i, st)
    OBVIOUS
  <2>2. st \in Statuses
    BY <2>1 DEF Statuses
  <2>3. /\ file \in Seq(Task) /\ Len(file) = Len(tasks)
        /\ \A j \in Ids : file[j].to = tasks[j].to
        /\ \A j \in Ids : file[j].status = IF j = i THEN st ELSE tasks[j].status
    BY <1>2, <2>1, <2>2, MarkedFile
  <2>4. tasks' = file
    BY <1>1, <2>1
  <2>5. Ids' = Ids
    BY <2>3, <2>4 DEF Ids
  <2> QED
    BY <2>1, <2>3, <2>4, <2>5
<1>4. ToSet(batch) \subseteq Ids
  BY LenProperties DEF TypeOK, ToSet
<1>5. TypeOK'
  BY <1>1, <1>3 DEF TypeOK, Task
<1>6. i \notin lost => ran[i] = 0 /\ i # cur /\ i \notin ToSet(batch)
  BY <1>1 DEF Places, UnclaimedUnrun, BatchUnrun, CurrentRanOnce
<1>7. Places'
  <2>1. BatchIsDistinct' /\ CurrentRanOnce'
    BY <1>1, <1>3, <1>6 DEF Places, BatchIsDistinct, CurrentRanOnce
  <2>2. UnclaimedUnrun' /\ BatchUnrun'
    BY <1>1, <1>3, <1>4, <1>6 DEF Places, UnclaimedUnrun, BatchUnrun
  <2> QED
    BY <2>1, <2>2 DEF Places
<1>8. RunsOnce'
  BY <1>1, <1>3 DEF RunsOnce
<1>9. RunningIsInHand'
  BY <1>1, <1>3 DEF NothingHeldForNobody, RunningIsInHand, With
<1>10. ChatFreed'
  BY <1>1, <1>3 DEF NothingHeldForNobody, ChatFreed, TypeOK
<1> QED
  BY <1>5, <1>7, <1>8, <1>9, <1>10 DEF NothingHeldForNobody

\* What a restart finds held as running is lost; the rest is as it was.
LEMMA CrashKeeps == FollowInv /\ Crash => FollowInv'
<1> SUFFICES ASSUME FollowInv, Crash PROVE FollowInv'
  OBVIOUS
<1> USE DEF FollowInv
<1>1. /\ crashes' = crashes + 1 /\ busy' = [c \in Chats |-> "no"]
      /\ batch' = <<>> /\ cur' = NoTask /\ phase' = "idle"
      /\ lost' = lost \cup With("running") /\ Ids' = Ids
      /\ UNCHANGED <<tasks, chats, ran, chain, turns, faults>>
  BY DEF Crash, Ids
<1>2. ToSet(batch') = {} /\ Len(batch') = 0 /\ NoTask \notin Ids
  BY <1>1 DEF ToSet, Ids, NoTask
<1>3. TypeOK'
  BY <1>1 DEF TypeOK, With
<1>4. Places'
  BY <1>1, <1>2 DEF Places, BatchIsDistinct, UnclaimedUnrun, BatchUnrun, CurrentRanOnce
<1>5. RunsOnce'
  BY <1>1 DEF RunsOnce
<1>6. NothingHeldForNobody'
  BY <1>1 DEF NothingHeldForNobody, RunningIsInHand, ChatFreed, With
<1> QED
  BY <1>3, <1>4, <1>5, <1>6

LEMMA StepInv == FollowInv /\ [Next]_vars => FollowInv'
<1> SUFFICES ASSUME FollowInv, [Next]_vars PROVE FollowInv'
  OBVIOUS
<1> USE DEF FollowInv
<1>1. CASE UNCHANGED vars
  BY <1>1, ChatSideKeeps DEF vars, TypeOK
<1>2. ASSUME NEW c \in Chats, StartTurn(c) \/ EndTurn(c) \/ DeleteChat(c)
      PROVE  FollowInv'
  <2>1. /\ UNCHANGED <<tasks, batch, cur, phase, ran, chain, lost, faults, crashes>>
        /\ chats' \subseteq Chats /\ turns' \in Nat
    BY <1>2 DEF StartTurn, EndTurn, DeleteChat, TypeOK, poll, bounds
  <2>2. /\ busy' \in [Chats -> {"no", "user", "followup"}]
        /\ \A d \in Chats : busy'[d] = "followup" <=> busy[d] = "followup"
    BY <1>2 DEF StartTurn, EndTurn, DeleteChat, TypeOK
  <2> QED
    BY <2>1, <2>2, ChatSideKeeps
<1>3. ASSUME NEW c \in Chats, NEW t \in Texts, ArmInTurn(c, t)
      PROVE  FollowInv'
  <2>1. Add(c, t, 1, 1) /\ c \in Bindings /\ turns' \in Nat
    BY <1>3 DEF ArmInTurn, Bindings, bounds, TypeOK
  <2>2. UNCHANGED <<chats, busy, poll, lost, faults, crashes>>
    BY <1>3 DEF ArmInTurn, bounds
  <2> QED
    BY <2>1, <2>2, ArmKeeps
<1>4. ASSUME NEW t \in Texts, ArmInFollowUp(t)
      PROVE  FollowInv'
  <2>1. phase = "running" /\ cur \in Ids
    BY <1>4 DEF ArmInFollowUp, TypeOK
  <2>2. tasks[cur].to \in Bindings
    <3>1. tasks \in [Ids -> Task]
      BY LenProperties DEF TypeOK, Task, Ids
    <3> QED
      BY <2>1, <3>1 DEF Task
  <2>3. chain[cur] + 1 \in Nat
    <3>1. chain \in Seq(Nat) /\ Len(chain) = Len(tasks)
      BY DEF TypeOK
    <3>2. chain \in [Ids -> Nat]
      BY <3>1, LenProperties DEF Ids
    <3> QED
      BY <2>1, <3>2
  <2>4. Add(tasks[cur].to, t, 1, chain[cur] + 1)
    BY <1>4 DEF ArmInFollowUp, DepthOfTurn
  <2>5. UNCHANGED <<chats, busy, poll, lost, faults, crashes>> /\ turns' \in Nat
    BY <1>4 DEF ArmInFollowUp, bounds, TypeOK
  <2> QED
    BY <2>2, <2>3, <2>4, <2>5, ArmKeeps
<1>5. ASSUME NEW t \in Texts, ArmUnbound(t)
      PROVE  FollowInv'
  <2>1. Add(Unbound, t, 1, 1) /\ Unbound \in Bindings /\ turns' \in Nat
    BY <1>5 DEF ArmUnbound, Bindings, TypeOK
  <2>2. UNCHANGED <<chats, busy, poll, lost, faults, crashes>>
    BY <1>5 DEF ArmUnbound
  <2> QED
    BY <2>1, <2>2, ArmKeeps
<1>6. CASE \E i \in Ids : Cancel(i)
  BY <1>6, CancelKeeps
<1>7. CASE DropForMissingChat
  BY <1>7, NotRunKeeps DEF DropForMissingChat
<1>8. CASE RequeueForBusyChat
  BY <1>8, NotRunKeeps DEF RequeueForBusyChat, Requeued
<1>9. CASE ClaimDue \/ RunFollowUp \/ EndFollowUp \/ MarkFollowUp \/ Crash
  BY <1>9, ClaimKeeps, RunKeeps, EndKeeps, MarkKeeps, CrashKeeps
<1> QED
  BY <1>1, <1>2, <1>3, <1>4, <1>5, <1>6, <1>7, <1>8, <1>9 DEF Next, Poll

THEOREM FollowUpInvariant == Spec => []FollowInv
<1>1. Init => FollowInv
  BY InitInv
<1>2. FollowInv /\ [Next]_vars => FollowInv'
  BY StepInv
<1> QED
  BY <1>1, <1>2, PTL DEF Spec

(***************************************************************************)
(* The properties.                                                         *)
(***************************************************************************)

\* Every follow-up is of its kind, and the poll knows what it delivers.
THEOREM FollowUpTypes == Spec => []TypeOK
<1>1. FollowInv => TypeOK
  BY DEF FollowInv
<1> QED
  BY <1>1, FollowUpInvariant, PTL

\* No follow-up is run twice, however often it was requeued behind a busy
\* chat, but for those a failed rewrite of the file lost.
THEOREM FollowUpsRunOnce == Spec => []RunsOnce
<1>1. FollowInv => RunsOnce
  BY DEF FollowInv
<1> QED
  BY <1>1, FollowUpInvariant, PTL

\* A cancel that was granted is not followed by a run, also when the poll
\* was working through a claim.
THEOREM GrantedCancelHolds == Spec => []CancelHolds
<1>1. FollowInv => CancelHolds
  <2> SUFFICES ASSUME FollowInv, NEW i \in Ids, tasks[i].status = "cancelled", i \notin lost
               PROVE  ran[i] = 0 /\ i # cur /\ ~Contains(batch, i)
    BY DEF CancelHolds
  <2>1. ran[i] = 0
    BY DEF FollowInv, Places, UnclaimedUnrun
  <2>2. i # cur /\ i \notin ToSet(batch)
    BY DEF FollowInv, Places, BatchUnrun, CurrentRanOnce
  <2>3. DOMAIN batch = 1..Len(batch)
    BY LenProperties DEF FollowInv, TypeOK
  <2> QED
    BY <2>1, <2>2, <2>3 DEF Contains, ToSet
<1> QED
  BY <1>1, FollowUpInvariant, PTL

\* What is held as running is in the poll's hands or was lost, and a chat is
\* held for a follow-up exactly while its turn runs there.
THEOREM NothingIsHeldForNobody == Spec => []NothingHeldForNobody
<1>1. FollowInv => NothingHeldForNobody
  BY DEF FollowInv
<1> QED
  BY <1>1, FollowUpInvariant, PTL


\* A non-empty set of numbers has a least one.
LEMMA LeastNumber ==
    ASSUME NEW S, S \subseteq Nat, S # {}
    PROVE  \E n \in S : \A m \in S : n <= m
<1> DEFINE less == OpToRel(<, Nat)
<1>1. PICK n \in S : \A m \in S : <<m, n>> \notin less
  <2>1. IsWellFoundedOn(less, Nat)
    BY NatLessThanWellFounded
  <2> QED BY <2>1, WFMin
<1>2. \A m, k \in Nat : m < k => <<m, k>> \in less
  BY DEF OpToRel
<1>3. ASSUME NEW m \in S
      PROVE  n <= m
  <2>1. m \in Nat /\ n \in Nat
    OBVIOUS
  <2>2. ~(m < n)
    BY <1>1, <1>2, <2>1
  <2> QED BY <2>1, <2>2
<1> QED BY <1>3

(***************************************************************************)
(* The runs a turn waits for, its delegates: the module Delegates.         *)
(*                                                                         *)
(* RunsAreTracked is not inductive: that no record is taken from a run     *)
(* needs that each run has another record, that a record which says        *)
(* running is that of one run only, and that there is a free id for each   *)
(* new one, so that records are no more than runs.  What a delegate is     *)
(* revived with is the end of its transcript only if it was so when the    *)
(* run took it out; and a reply is known to have been held back often      *)
(* enough while the plan counts what this very turn was refused.           *)
(***************************************************************************)
\* s is what t ends with.
Ends(s, t) == Len(s) <= Len(t) /\ \A k \in 1..Len(s) : s[k] = t[Len(t) - Len(s) + k]

RecordSet == [state : States, seq : Numbers, run : Numbers,
              hist : Seq(Numbers), log : Seq(Numbers)]
RunSet == [turn : Turns, parent : 0..MaxRuns, id : IdSet, persona : Personas,
           depth : 1..MaxNesting, tries : 1..MaxAttempts, base : Seq(Numbers)]

(***************************************************************************)
(* The inductive invariant of the directory, of any directory d, runs q,   *)
(* runs ever started n and runs dropped gone: a batch goes through several *)
(* in one step.                                                            *)
(***************************************************************************)
Typed(d, q, n, gone) ==
    /\ n \in 0..MaxRuns
    /\ DOMAIN d \subseteq IdSet
    /\ \A i \in DOMAIN d : d[i] \in RecordSet /\ d[i].seq <= n /\ d[i].run <= n
    /\ DOMAIN q \subseteq 1..n /\ gone \subseteq (1..n) \ DOMAIN q
    /\ \A r \in DOMAIN q : q[r] \in RunSet

\* No two records were opened by one run, so there are no more than runs.
Numbered(d) ==
    /\ IsFiniteSet(DOMAIN d)
    /\ \A i, j \in DOMAIN d : d[i].seq = d[j].seq => i = j

\* A run in flight has its record, and goes on from where that one ends.
Linked(d, q) ==
    \A r \in DOMAIN q :
        /\ q[r].id \in DOMAIN d
        /\ d[q[r].id].state = "running" /\ d[q[r].id].run = r
        /\ Ends(q[r].base, d[q[r].id].log)

\* A record that says running has its run, and that run has no other.
Owned(d, q, gone) ==
    \A i \in DOMAIN d : d[i].state = "running" =>
        d[i].run \in gone \/ (d[i].run \in DOMAIN q /\ q[d[i].run].id = i)

\* What a record holds of its transcript.
Holds(rec) ==
    IF rec.state = "idle" THEN rec.hist # <<>> /\ Ends(rec.hist, rec.log) ELSE rec.hist = <<>>

Verbatim(d) == \A i \in DOMAIN d : Holds(d[i])

Filed(d, q, n, gone) ==
    Typed(d, q, n, gone) /\ Numbered(d) /\ Linked(d, q) /\ Owned(d, q, gone) /\ Verbatim(d)

DirInv == Filed(dir, runs, started, dropped)

\* The library's suffixes are these.
LEMMA EndsIsSuffix ==
    ASSUME NEW S, NEW s \in Seq(S), NEW t \in Seq(S)
    PROVE  IsSuffix(s, t) <=> Ends(s, t)
<1> DEFINE rs == [i \in 1..Len(s) |-> s[(Len(s) - i) + 1]]
           rt == [i \in 1..Len(t) |-> t[(Len(t) - i) + 1]]
<1>1. Len(s) \in Nat /\ Len(t) \in Nat
  BY LenProperties
<1>2. IsSuffix(s, t) <=>
        Len(rs) <= Len(rt) /\ SubSeq(rs, 1, Len(rs)) = SubSeq(rt, 1, Len(rs))
  BY DEF IsSuffix, IsPrefix, Reverse
<1>3. rs \in Seq(S) /\ rt \in Seq(S) /\ Len(rs) = Len(s) /\ Len(rt) = Len(t)
  <2>1. (\A i \in 1..Len(s) : s[i] \in S) /\ (\A i \in 1..Len(t) : t[i] \in S)
    BY ElementOfSeq
  <2>2. (\A i \in 1..Len(s) : rs[i] \in S) /\ (\A i \in 1..Len(t) : rt[i] \in S)
    BY <1>1, <2>1
  <2>3. rs \in [1..Len(s) -> S] /\ rt \in [1..Len(t) -> S]
    BY <2>2
  <2>4. rs \in Seq(S) /\ rt \in Seq(S)
    BY <1>1, <2>3
  <2> QED BY <1>1, <2>3, <2>4, LenProperties
<1>4. ASSUME Len(s) <= Len(t)
      PROVE  SubSeq(rs, 1, Len(rs)) = SubSeq(rt, 1, Len(rs)) <=> \A i \in 1..Len(s) : rs[i] = rt[i]
  <2>1. SubSeq(rs, 1, Len(rs)) = [i \in 1..Len(s) |-> rs[i]]
    BY <1>1, <1>3
  <2> HIDE DEF rs, rt
  <2>2. SubSeq(rt, 1, Len(rs)) = [i \in 1..Len(s) |-> rt[i]]
    BY <1>1, <1>3, <1>4
  <2> QED BY <2>1, <2>2
<1>5. ASSUME Len(s) <= Len(t)
      PROVE  (\A i \in 1..Len(s) : rs[i] = rt[i])
             <=> \A k \in 1..Len(s) : s[k] = t[Len(t) - Len(s) + k]
  <2>1. ASSUME \A i \in 1..Len(s) : rs[i] = rt[i], NEW k \in 1..Len(s)
        PROVE  s[k] = t[Len(t) - Len(s) + k]
    <3>1. Len(s) - k + 1 \in 1..Len(s) /\ Len(s) - k + 1 \in 1..Len(t)
      BY <1>1, <1>5
    <3>2. rs[Len(s) - k + 1] = s[k]
      BY <1>1, <3>1
    <3>3. rt[Len(s) - k + 1] = t[Len(t) - Len(s) + k]
      BY <1>1, <3>1
    <3> QED BY <2>1, <3>1, <3>2, <3>3
  <2>2. ASSUME \A k \in 1..Len(s) : s[k] = t[Len(t) - Len(s) + k], NEW i \in 1..Len(s)
        PROVE  rs[i] = rt[i]
    <3>1. Len(s) - i + 1 \in 1..Len(s) /\ i \in 1..Len(t)
      BY <1>1, <1>5
    <3>2. rt[i] = t[Len(t) - Len(s) + (Len(s) - i + 1)]
      BY <1>1, <3>1
    <3> QED BY <2>2, <3>1, <3>2
  <2> QED BY <2>1, <2>2
<1> HIDE DEF rs, rt
<1> QED BY <1>1, <1>2, <1>3, <1>4, <1>5 DEF Ends

\* One more element goes to the end of both.
LEMMA EndsGrow ==
    ASSUME NEW S, NEW s \in Seq(S), NEW t \in Seq(S), NEW x \in S, Ends(s, t)
    PROVE  Ends(Append(s, x), Append(t, x)) /\ Append(s, x) # <<>>
<1>1. Len(s) \in Nat /\ Len(t) \in Nat /\ Len(s) <= Len(t)
  BY LenProperties DEF Ends
<1>2. /\ Len(Append(s, x)) = Len(s) + 1 /\ Len(Append(t, x)) = Len(t) + 1
      /\ \A k \in 1..Len(s) : Append(s, x)[k] = s[k]
      /\ \A k \in 1..Len(t) : Append(t, x)[k] = t[k]
      /\ Append(s, x)[Len(s) + 1] = x /\ Append(t, x)[Len(t) + 1] = x
  BY AppendProperties
<1>3. ASSUME NEW k \in 1..Len(s) + 1
      PROVE  Append(s, x)[k] = Append(t, x)[Len(t) - Len(s) + k]
  <2>1. CASE k = Len(s) + 1
    BY <1>1, <1>2, <2>1
  <2>2. CASE k # Len(s) + 1
    <3>1. k \in 1..Len(s) /\ Len(t) - Len(s) + k \in 1..Len(t)
      BY <1>1, <2>2
    <3> QED BY <1>2, <3>1 DEF Ends
  <2> QED BY <2>1, <2>2
<1>4. Append(s, x) # <<>>
  BY <1>1, <1>2
<1> DEFINE u == Append(s, x)
           w == Append(t, x)
<1>5. Len(u) = Len(s) + 1 /\ Len(w) = Len(t) + 1
  BY <1>2
<1>6. \A k \in 1..Len(s) + 1 : u[k] = w[Len(t) - Len(s) + k]
  BY <1>3
<1> HIDE DEF u, w
<1>7. Ends(u, w)
  <2>1. Len(w) - Len(u) = Len(t) - Len(s) /\ Len(u) <= Len(w)
    BY <1>1, <1>5
  <2> QED BY <1>5, <1>6, <2>1 DEF Ends
<1> QED BY <1>4, <1>7 DEF u, w

\* Nothing is at the end of everything.
LEMMA EndsEmpty ==
    ASSUME NEW S, NEW t \in Seq(S)
    PROVE  Ends(<<>>, t)
BY LenProperties DEF Ends

\* The library's counts are the theorems'.
LEMMA SameCount ==
    ASSUME NEW S
    PROVE  Cardinality(S) = Cardinality(S)
BY DEF Cardinality, Cardinality

\* No more records than runs.
LEMMA FewRecords ==
    ASSUME NEW d, NEW q, NEW n, NEW gone, DelegatesSizes, Typed(d, q, n, gone), Numbered(d)
    PROVE  Cardinality(DOMAIN d) \in Nat /\ Cardinality(DOMAIN d) <= n
<1>1. n \in Nat /\ MaxRuns \in Nat /\ Cardinality(DOMAIN d) \in Nat
  BY FS_CardinalityType DEF Typed, Numbered, DelegatesSizes
<1> DEFINE f == [i \in DOMAIN d |-> d[i].seq]
<1>2. f \in [DOMAIN d -> 1..n]
  BY <1>1 DEF Typed, RecordSet, Numbers
<1>3. IsFiniteSet(1..n) /\ Cardinality(1..n) = n
  BY <1>1, FS_Interval
<1>4. ASSUME n < Cardinality(DOMAIN d)
      PROVE  FALSE
  <2>1. \E i, j \in DOMAIN d : i # j /\ f[i] = f[j]
    <3> DEFINE S == DOMAIN d
               T == 1..n
    <3>1. IsFiniteSet(S) /\ IsFiniteSet(T) /\ Cardinality(T) < Cardinality(S) /\ f \in [S -> T]
      BY <1>2, <1>3, <1>4 DEF Numbered
    <3> HIDE DEF f, S, T
    <3>2. \E i, j \in S : i # j /\ f[i] = f[j]
      BY <3>1, FS_PigeonHole
    <3> QED BY <3>2 DEF S
  <2> QED BY <2>1 DEF Numbered
<1> QED BY <1>1, <1>4

\* There is a free id, and the one that is taken is free.
LEMMA FreeId ==
    ASSUME NEW d, NEW q, NEW n, NEW gone, DelegatesSizes, Typed(d, q, n, gone), Numbered(d),
           NEW name \in Personas
    PROVE  LET id == NextFreeId(d, name)
           IN  id \in IdSet /\ id \notin DOMAIN d /\ id[1] = name
<1> DEFINE C == Cardinality(DOMAIN d)
           free == {k \in 1..C + 1 : <<name, k>> \notin DOMAIN d}
<1>1. C \in Nat /\ C <= n /\ n \in 0..MaxRuns /\ MaxRuns \in Nat
  BY FewRecords DEF Typed, DelegatesSizes
<1> HIDE DEF C
<1>2. free # {}
  <2> SUFFICES ASSUME free = {} PROVE FALSE
    OBVIOUS
  <2> DEFINE f == [k \in 1..C + 1 |-> <<name, k>>]
  <2>1. f \in [1..C + 1 -> DOMAIN d]
    OBVIOUS
  <2>2. IsFiniteSet(1..C + 1) /\ Cardinality(1..C + 1) = C + 1 /\ C < C + 1
    BY <1>1, FS_Interval
  <2>3. \E x, y \in 1..C + 1 : x # y /\ f[x] = f[y]
    <3> DEFINE S == 1..C + 1
               T == DOMAIN d
    <3>1. IsFiniteSet(S) /\ IsFiniteSet(T) /\ Cardinality(T) < Cardinality(S) /\ f \in [S -> T]
      BY <2>1, <2>2 DEF Numbered, C
    <3> HIDE DEF f, S, T
    <3>2. \E x, y \in S : x # y /\ f[x] = f[y]
      BY <3>1, FS_PigeonHole
    <3> QED BY <3>2 DEF S
  <2> QED BY <2>3
<1>3. PICK k \in free : \A m \in free : k <= m
  <2>1. free \subseteq Nat
    BY <1>1
  <2> HIDE DEF free
  <2> QED BY <1>2, <2>1, LeastNumber
<1>4. ASSUME NEW m \in 1..(k - 1)
      PROVE  <<name, m>> \in DOMAIN d
  <2>1. m \in 1..C + 1 /\ ~(k <= m)
    BY <1>1, <1>3
  <2> QED BY <1>3, <2>1
<1> DEFINE P(x) == <<name, x>> \notin DOMAIN d /\ \A m \in 1..(x - 1) : <<name, m>> \in DOMAIN d
           c == CHOOSE x \in 1..C + 1 : P(x)
<1>5. c \in 1..C + 1 /\ P(c)
  <2>1. k \in 1..C + 1 /\ P(k)
    BY <1>3, <1>4
  <2> HIDE DEF P
  <2> QED BY <2>1
<1>6. NextFreeId(d, name) = <<name, c>>
  BY SameCount DEF NextFreeId, C
<1>7. c \in 1..MaxRuns + 1
  BY <1>1, <1>5
<1> HIDE DEF c
<1>8. <<name, c>> \in IdSet /\ <<name, c>> \notin DOMAIN d /\ <<name, c>>[1] = name
  BY <1>5, <1>7 DEF IdSet
<1> QED BY <1>6, <1>8

\* Records that do not run may change to others that do not, or go.
LEMMA OthersChange ==
    ASSUME NEW d, NEW q, NEW n, NEW gone, NEW d2, Filed(d, q, n, gone),
           DOMAIN d2 \subseteq DOMAIN d,
           \A i \in DOMAIN d : d[i].state = "running" => i \in DOMAIN d2 /\ d2[i] = d[i],
           \A i \in DOMAIN d2 :
              \/ d2[i] = d[i]
              \/ /\ d2[i] \in RecordSet /\ d2[i].state # "running" /\ Holds(d2[i])
                 /\ d2[i].seq = d[i].seq /\ d2[i].run = d[i].run
    PROVE  Filed(d2, q, n, gone)
<1>1. Typed(d2, q, n, gone)
  BY DEF Filed, Typed
<1>2. Numbered(d2)
  <2>1. IsFiniteSet(DOMAIN d2)
    BY FS_Subset DEF Filed, Numbered
  <2> QED BY <2>1 DEF Filed, Numbered
<1>3. Linked(d2, q)
  BY DEF Filed, Linked
<1>4. Owned(d2, q, gone)
  BY DEF Filed, Owned
<1>5. Verbatim(d2)
  BY DEF Filed, Verbatim
<1> QED BY <1>1, <1>2, <1>3, <1>4, <1>5 DEF Filed

\* What is put to rest holds nothing.
LEMMA Rests ==
    ASSUME NEW rec \in RecordSet, NEW says \in Seq(Numbers)
    PROVE  LET p == Parked(rec, says)
           IN  p \in RecordSet /\ p.state = "parked" /\ Holds(p) /\ p.seq = rec.seq /\ p.run = rec.run
<1>1. rec.log \o says \in Seq(Numbers)
  BY ConcatProperties DEF RecordSet
<1>2. <<>> \in Seq(Numbers)
  BY EmptySeq
<1> QED BY <1>1, <1>2 DEF Parked, RecordSet, States, Holds

\* A sweep leaves the directory in order ...
LEMMA SweepFiles ==
    ASSUME DirInv, NEW past \in SUBSET Idle
    PROVE  Filed(Sweep(past), runs, started, dropped)
<1> DEFINE d2 == Sweep(past)
<1>1. DOMAIN d2 = DOMAIN dir
  BY DEF Sweep
<1>2. \A i \in past : dir[i].state = "idle"
  BY DEF Idle
<1>3. ASSUME NEW i \in DOMAIN dir
      PROVE  d2[i] = IF i \in past THEN [dir[i] EXCEPT !.state = "parked", !.hist = <<>>] ELSE dir[i]
  BY DEF Sweep
<1>4. ASSUME NEW i \in past
      PROVE  LET p == [dir[i] EXCEPT !.state = "parked", !.hist = <<>>]
             IN  /\ p \in RecordSet /\ p.state # "running" /\ Holds(p)
                 /\ p.seq = dir[i].seq /\ p.run = dir[i].run
  <2>1. dir[i] \in RecordSet
    BY DEF DirInv, Filed, Typed, Idle
  <2>2. <<>> \in Seq(Numbers)
    BY EmptySeq
  <2> QED BY <2>1, <2>2 DEF RecordSet, States, Holds
<1> HIDE DEF d2
<1>5. Filed(d2, runs, started, dropped)
  BY <1>1, <1>2, <1>3, <1>4, OthersChange DEF DirInv
<1> QED BY <1>5 DEF d2

\* ... and so does an eviction.
LEMMA EvictFiles ==
    ASSUME NEW d, NEW q, NEW n, NEW gone, Filed(d, q, n, gone)
    PROVE  Filed(Evict(d), q, n, gone)
<1> DEFINE d2 == Evict(d)
<1>1. Victims(d) \subseteq Evictable(d)
  BY DEF Victims
<1>2. DOMAIN d2 = DOMAIN d \ Victims(d) /\ \A i \in DOMAIN d2 : d2[i] = d[i]
  BY DEF Evict
<1>3. \A i \in Evictable(d) : d[i].state # "running"
  BY DEF Evictable
<1> HIDE DEF d2
<1>4. Filed(d2, q, n, gone)
  BY <1>1, <1>2, <1>3, OthersChange
<1> QED BY <1>4 DEF d2

\* A run begins, on a record of its own or on one that rested.
Begins(d, q, n, id, rec, run, d2, q2) ==
    /\ n < MaxRuns /\ id \in IdSet /\ rec \in RecordSet /\ run \in RunSet
    /\ rec.state = "running" /\ rec.run = n + 1 /\ rec.hist = <<>>
    /\ run.id = id /\ Ends(run.base, rec.log)
    /\ \/ id \notin DOMAIN d /\ rec.seq = n + 1
       \/ id \in DOMAIN d /\ d[id].state # "running" /\ rec.seq = d[id].seq
    /\ d2 = [i \in DOMAIN d \cup {id} |-> IF i = id THEN rec ELSE d[i]]
    /\ q2 = [r \in DOMAIN q \cup {n + 1} |-> IF r = n + 1 THEN run ELSE q[r]]

LEMMA RunStarts ==
    ASSUME NEW d, NEW q, NEW n, NEW gone, DelegatesSizes, Filed(d, q, n, gone),
           NEW id, NEW rec, NEW run, NEW d2, NEW q2, Begins(d, q, n, id, rec, run, d2, q2)
    PROVE  Filed(d2, q2, n + 1, gone)
<1> USE DEF Begins
<1>1. n \in Nat /\ MaxRuns \in Nat
  BY DEF Filed, Typed, DelegatesSizes
<1>2. n + 1 \notin DOMAIN q /\ n + 1 \notin gone /\ (\A i \in DOMAIN d : d[i].run # n + 1)
  BY <1>1 DEF Filed, Typed
<1>3. /\ DOMAIN d2 = DOMAIN d \cup {id} /\ d2[id] = rec
      /\ \A i \in DOMAIN d : i # id => d2[i] = d[i]
      /\ DOMAIN q2 = DOMAIN q \cup {n + 1} /\ q2[n + 1] = run
      /\ \A r \in DOMAIN q : q2[r] = q[r]
  BY <1>2
<1>4. \A r \in DOMAIN q : q[r].id \in DOMAIN d /\ q[r].id # id
  BY <1>3 DEF Filed, Linked
<1>5. Typed(d2, q2, n + 1, gone)
  <2>1. n + 1 \in 0..MaxRuns /\ (\A r \in 1..n : r \in 1..n + 1) /\ n + 1 \in 1..n + 1
    BY <1>1
  <2>2. \A i \in DOMAIN d : d[i].seq <= n + 1 /\ d[i].run <= n + 1
    BY <1>1 DEF Filed, Typed, RecordSet, Numbers
  <2>3. rec.seq <= n + 1
    BY <1>1, <2>2
  <2>4. \A i \in DOMAIN d2 : d2[i] \in RecordSet /\ d2[i].seq <= n + 1 /\ d2[i].run <= n + 1
    BY <1>1, <1>3, <2>2, <2>3 DEF Filed, Typed
  <2>5. DOMAIN q2 \subseteq 1..n + 1 /\ gone \subseteq (1..n + 1) \ DOMAIN q2
    BY <1>2, <1>3, <2>1 DEF Filed, Typed
  <2>6. DOMAIN d2 \subseteq IdSet /\ \A r \in DOMAIN q2 : q2[r] \in RunSet
    BY <1>3 DEF Filed, Typed
  <2> QED BY <2>1, <2>4, <2>5, <2>6 DEF Typed
<1>6. Numbered(d2)
  <2>1. IsFiniteSet(DOMAIN d2)
    BY <1>3, FS_AddElement DEF Filed, Numbered
  <2>2. \A i \in DOMAIN d : d[i].seq # n + 1
    BY <1>1 DEF Filed, Typed, RecordSet, Numbers
  <2>3. ASSUME NEW i \in DOMAIN d, i # id
        PROVE  d[i].seq # rec.seq
    BY <2>2, <2>3 DEF Filed, Numbered
  <2> QED BY <1>3, <2>1, <2>3 DEF Filed, Numbered
<1>7. Linked(d2, q2)
  BY <1>3, <1>4 DEF Filed, Linked
<1>8. Owned(d2, q2, gone)
  BY <1>2, <1>3 DEF Filed, Owned
<1>9. Verbatim(d2)
  BY <1>3 DEF Filed, Verbatim, Holds
<1> QED BY <1>5, <1>6, <1>7, <1>8, <1>9 DEF Filed

\* A run is over: its record rests, and what ran below it is dropped.
Closes(d, q, r, below, rec, d2, q2) ==
    /\ r \in DOMAIN q /\ below \subseteq DOMAIN q /\ rec \in RecordSet
    /\ rec.state # "running" /\ Holds(rec)
    /\ rec.seq = d[q[r].id].seq /\ rec.run = d[q[r].id].run
    /\ d2 = [d EXCEPT ![q[r].id] = rec]
    /\ q2 = [p \in DOMAIN q \ ({r} \cup below) |-> q[p]]

LEMMA RunOver ==
    ASSUME NEW d, NEW q, NEW n, NEW gone, Filed(d, q, n, gone),
           NEW r, NEW below, NEW rec, NEW d2, NEW q2, Closes(d, q, r, below, rec, d2, q2)
    PROVE  Filed(d2, q2, n, gone \cup below)
<1> USE DEF Closes
<1> DEFINE id == q[r].id
<1>1. id \in DOMAIN d /\ d[id].run = r
  BY DEF Filed, Linked
<1>2. /\ DOMAIN d2 = DOMAIN d /\ d2[id] = rec /\ \A i \in DOMAIN d : i # id => d2[i] = d[i]
      /\ DOMAIN q2 = DOMAIN q \ ({r} \cup below) /\ \A p \in DOMAIN q2 : q2[p] = q[p]
  BY <1>1
<1>3. Typed(d2, q2, n, gone \cup below)
  BY <1>1, <1>2 DEF Filed, Typed
<1>4. Numbered(d2)
  BY <1>1, <1>2 DEF Filed, Numbered
<1>5. Linked(d2, q2)
  <2>1. \A p \in DOMAIN q2 : q[p].id # id
    BY <1>1, <1>2 DEF Filed, Linked
  <2> QED BY <1>2, <2>1 DEF Filed, Linked
<1>6. Owned(d2, q2, gone \cup below)
  <2> SUFFICES ASSUME NEW i \in DOMAIN d2, d2[i].state = "running"
               PROVE  d2[i].run \in gone \cup below
                      \/ (d2[i].run \in DOMAIN q2 /\ q2[d2[i].run].id = i)
    BY DEF Owned
  <2>1. i # id /\ d2[i] = d[i] /\ i \in DOMAIN d
    BY <1>2
  <2>2. d[i].run \in gone \/ (d[i].run \in DOMAIN q /\ q[d[i].run].id = i)
    BY <2>1 DEF Filed, Owned
  <2> QED BY <1>2, <2>1, <2>2
<1>7. Verbatim(d2)
  BY <1>2 DEF Filed, Verbatim
<1> QED BY <1>3, <1>4, <1>5, <1>6, <1>7 DEF Filed

(***************************************************************************)
(* Delegations.                                                            *)
(***************************************************************************)

\* What a caller that is not refused may start.
LEMMA NewRunType ==
    ASSUME DelegatesSizes, DirInv, NEW t \in Turns, NEW p \in Live \cup {Root}, ~Refuses(t, p),
           NEW id \in IdSet, NEW base \in Seq(Numbers)
    PROVE  LET run == NewRun(t, p, id, base)
           IN  run \in RunSet /\ run.id = id /\ run.base = base
<1>1. p \in 0..MaxRuns
  BY DEF DelegatesSizes, DirInv, Filed, Typed, Live, Root
<1>2. DepthOf(p) \in Nat /\ MaxNesting \in Nat /\ MaxAttempts \in Nat \ {0}
  BY DEF DelegatesSizes, DirInv, Filed, Typed, Live, RunSet, DepthOf
<1>3. DepthOf(p) + 1 \in 1..MaxNesting /\ 1 \in 1..MaxAttempts
  BY <1>2 DEF Refuses
<1>4. id[1] \in Personas
  BY DEF IdSet
<1> QED BY <1>1, <1>3, <1>4 DEF NewRun, RunSet

\* One delegate is opened.
LEMMA OpenFiles ==
    ASSUME DelegatesSizes, DirInv, NEW t \in Turns, NEW p \in Live \cup {Root}, ~Refuses(t, p),
           NEW s, Filed(s.dir, s.runs, s.started, dropped), s.started < MaxRuns,
           NEW name \in Personas
    PROVE  LET o == OpenOne(t, p, s, name)
           IN  Filed(o.dir, o.runs, o.started, dropped) /\ o.started = s.started + 1
<1>1. PICK d, q, n, id, base : /\ d = s.dir /\ q = s.runs /\ n = s.started
                               /\ id = NextFreeId(d, name) /\ base = <<>>
  OBVIOUS
<1>2. Filed(d, q, n, dropped) /\ n < MaxRuns /\ Typed(d, q, n, dropped) /\ Numbered(d)
  BY <1>1 DEF Filed
<1>3. id \in IdSet /\ id \notin DOMAIN d
  BY <1>1, <1>2, FreeId
<1>4. base \in Seq(Numbers) /\ n + 1 \in Numbers
  BY <1>1, <1>2, EmptySeq DEF Typed, Numbers, DelegatesSizes
<1>5. PICK rec : rec = [state |-> "running", seq |-> n + 1, run |-> n + 1,
                        hist |-> <<>>, log |-> <<>>]
  OBVIOUS
<1>6. /\ rec \in RecordSet /\ rec.state = "running" /\ rec.run = n + 1
      /\ rec.hist = <<>> /\ rec.log = <<>> /\ rec.seq = n + 1
  BY <1>1, <1>4, <1>5 DEF RecordSet, States
<1>7. PICK run : run = NewRun(t, p, id, base)
  OBVIOUS
<1>8. run \in RunSet /\ run.id = id /\ run.base = base
  BY <1>3, <1>4, <1>7, NewRunType
<1>9. Ends(run.base, rec.log)
  BY <1>1, <1>4, <1>6, <1>8, EndsEmpty
<1>10. PICK d2, q2 : /\ d2 = [i \in DOMAIN d \cup {id} |-> IF i = id THEN rec ELSE d[i]]
                     /\ q2 = [r \in DOMAIN q \cup {n + 1} |-> IF r = n + 1 THEN run ELSE q[r]]
  OBVIOUS
<1>11. Filed(d2, q2, n + 1, dropped)
  <2>1. Begins(d, q, n, id, rec, run, d2, q2)
    BY <1>2, <1>3, <1>6, <1>8, <1>9, <1>10 DEF Begins
  <2> QED BY <1>2, <2>1, RunStarts
<1>12. Filed(Evict(d2), q2, n + 1, dropped)
  BY <1>11, EvictFiles
<1>13. OpenOne(t, p, s, name) = [dir |-> Evict(d2), runs |-> q2, started |-> n + 1]
  BY <1>1, <1>5, <1>7, <1>10 DEF OpenOne, Opened
<1> QED BY <1>1, <1>12, <1>13

\* A batch, after each of its delegates.
Opening(t, p, s, names, n, f) ==
    f = [k \in 0..n |-> IF k = 0 THEN s ELSE OpenOne(t, p, f[k - 1], names[k])]

\* There is a function that does so, by the least length without one.
LEMMA OpeningExists ==
    ASSUME NEW t, NEW p, NEW s, NEW names, NEW n \in Nat
    PROVE  \E f : Opening(t, p, s, names, n, f)
<1> DEFINE bad == {k \in Nat : \A f : ~Opening(t, p, s, names, k, f)}
<1> SUFFICES ASSUME n \in bad PROVE FALSE
  OBVIOUS
<1>1. PICK k \in bad : \A m \in bad : k <= m
  <2>1. bad \subseteq Nat /\ bad # {}
    OBVIOUS
  <2> HIDE DEF bad
  <2> QED BY <2>1, LeastNumber
<1>2. CASE k = 0
  <2> DEFINE f == [i \in 0..0 |-> s]
  <2>1. Opening(t, p, s, names, 0, f)
    BY DEF Opening
  <2> QED BY <1>1, <1>2, <2>1
<1>3. CASE k # 0
  <2>1. k - 1 \in Nat /\ k \in Nat /\ k - 1 \notin bad
    BY <1>1, <1>3
  <2>2. PICK g : Opening(t, p, s, names, k - 1, g)
    BY <2>1
  <2> DEFINE After(x, i) == OpenOne(t, p, x, names[i])
             f == [i \in 0..k |-> IF i = k THEN After(g[k - 1], k) ELSE g[i]]
  <2>3. \A i \in 0..(k - 1) : g[i] = IF i = 0 THEN s ELSE After(g[i - 1], i)
    BY <2>2 DEF Opening
  <2> HIDE DEF After
  <2>4. \A i \in 0..(k - 1) : f[i] = g[i]
    BY <2>1
  <2>5. f[k] = After(g[k - 1], k)
    BY <2>1
  <2>6. \A i \in 0..k : f[i] = IF i = 0 THEN s ELSE After(f[i - 1], i)
    <3> SUFFICES ASSUME NEW i \in 0..k
                 PROVE  f[i] = IF i = 0 THEN s ELSE After(f[i - 1], i)
      OBVIOUS
    <3>1. CASE i = k
      <4>1. f[k - 1] = g[k - 1]
        BY <2>1, <2>4
      <4> HIDE DEF f
      <4> QED BY <1>3, <2>5, <3>1, <4>1
    <3>2. CASE i # k
      <4>1. i \in 0..(k - 1) /\ (i # 0 => i - 1 \in 0..(k - 1))
        BY <2>1, <3>2
      <4> HIDE DEF f
      <4> QED BY <2>3, <2>4, <4>1
    <3> QED BY <3>1, <3>2
  <2>7. f = [i \in 0..k |-> f[i]]
    OBVIOUS
  <2> HIDE DEF f
  <2>8. Opening(t, p, s, names, k, f)
    <3>1. f = [i \in 0..k |-> IF i = 0 THEN s ELSE After(f[i - 1], i)]
      BY <2>6, <2>7
    <3> QED BY <3>1 DEF Opening, After
  <2> QED BY <1>1, <2>8
<1> QED BY <1>2, <1>3

\* A batch is opened.
LEMMA BatchFiles ==
    ASSUME DelegatesSizes, DirInv, NEW t \in Turns, NEW p \in Live \cup {Root}, ~Refuses(t, p),
           NEW s, Filed(s.dir, s.runs, s.started, dropped),
           NEW names \in Seq(Personas), s.started + Len(names) <= MaxRuns
    PROVE  LET o == OpenAll(t, p, s, names)
           IN  Filed(o.dir, o.runs, o.started, dropped)
<1> DEFINE n == Len(names)
<1>1. n \in Nat /\ \A k \in 1..n : names[k] \in Personas
  BY LenProperties, ElementOfSeq
<1>2. s.started \in Nat /\ MaxRuns \in Nat
  BY DEF Filed, Typed, DelegatesSizes
<1>3. PICK f : /\ Opening(t, p, s, names, n, f)
               /\ OpenAll(t, p, s, names) = f[n]
  <2> DEFINE c == CHOOSE f : Opening(t, p, s, names, n, f)
  <2>1. Opening(t, p, s, names, n, c)
    BY <1>1, OpeningExists
  <2>2. OpenAll(t, p, s, names) = c[n]
    BY DEF OpenAll, Opening
  <2> QED BY <2>1, <2>2
<1> HIDE DEF n
<1> DEFINE P(k) == Filed(f[k].dir, f[k].runs, f[k].started, dropped) /\ f[k].started = s.started + k
           bad == {k \in 0..n : ~P(k)}
<1>4. P(0)
  <2>1. f[0] = s
    BY <1>1, <1>3 DEF Opening
  <2> QED BY <1>2, <2>1
<1>5. ASSUME NEW k \in 1..n, P(k - 1)
      PROVE  P(k)
  <2>1. f[k] = OpenOne(t, p, f[k - 1], names[k])
    BY <1>1, <1>3 DEF Opening
  <2>2. f[k - 1].started = s.started + k - 1 /\ f[k - 1].started < MaxRuns
    BY <1>1, <1>2, <1>5 DEF n
  <2>3. names[k] \in Personas
    BY <1>1
  <2>4. /\ Filed(f[k].dir, f[k].runs, f[k].started, dropped)
        /\ f[k].started = f[k - 1].started + 1
    BY <1>5, <2>1, <2>2, <2>3, OpenFiles
  <2>5. f[k].started = s.started + k
    BY <1>1, <1>2, <2>2, <2>4
  <2> QED BY <2>4, <2>5
<1>6. bad = {}
  <2> SUFFICES ASSUME bad # {} PROVE FALSE
    OBVIOUS
  <2>1. PICK k \in bad : \A m \in bad : k <= m
    <3>1. bad \subseteq Nat
      BY <1>1
    <3> HIDE DEF bad
    <3> QED BY <3>1, LeastNumber
  <2> HIDE DEF P
  <2>2. k \in 1..n /\ k - 1 \in 0..n /\ ~(k <= k - 1)
    BY <1>1, <1>4, <2>1
  <2>3. P(k - 1)
    BY <2>1, <2>2
  <2> QED BY <1>5, <2>1, <2>2, <2>3
<1>7. P(n)
  BY <1>1, <1>6
<1> QED BY <1>3, <1>7

\* A delegation, alone or in a batch.
LEMMA DelegateFiles ==
    ASSUME DelegatesSizes, DirInv, NEW t \in Turns, NEW p \in Live \cup {Root}, Delegate(t, p)
    PROVE  DirInv'
<1>1. PICK names \in Batches, past \in SUBSET Idle :
        LET s == OpenAll(t, p, [dir |-> Sweep(past), runs |-> runs, started |-> started], names)
        IN  /\ started + Len(names) <= MaxRuns
            /\ dir' = s.dir /\ runs' = s.runs /\ started' = s.started
  BY DEF Delegate
<1>2. ~Refuses(t, p) /\ dropped' = dropped
  BY DEF Delegate, turnVars
<1>3. names \in Seq(Personas)
  BY DEF Batches
<1> DEFINE s == [dir |-> Sweep(past), runs |-> runs, started |-> started]
<1>4. Filed(s.dir, s.runs, s.started, dropped) /\ s.started = started
  BY SweepFiles
<1> HIDE DEF s
<1>5. LET o == OpenAll(t, p, s, names) IN Filed(o.dir, o.runs, o.started, dropped)
  BY <1>1, <1>2, <1>3, <1>4, BatchFiles
<1> QED BY <1>1, <1>2, <1>5 DEF DirInv, s

\* A follow-up revives a delegate, or parks it again.
LEMMA SendFiles ==
    ASSUME DelegatesSizes, DirInv, NEW t \in Turns, NEW p \in Live \cup {Root}, Send(t, p)
    PROVE  DirInv'
<1>1. ~Refuses(t, p) /\ dropped' = dropped
  BY DEF Send, turnVars
<1>2. PICK past \in SUBSET Idle : LET d == Sweep(past) IN
       \E id \in Revivable(d) :
        \/ /\ started < MaxRuns /\ started' = started + 1
           /\ dir' = [d EXCEPT ![id].state = "running", ![id].run = started', ![id].hist = <<>>]
           /\ runs' = [q \in Live \cup {started'} |->
                        IF q = started' THEN NewRun(t, p, id, d[id].hist) ELSE runs[q]]
        \/ /\ dir' = [d EXCEPT ![id] = Parked(@, <<>>)]
           /\ UNCHANGED <<runs, started>>
  BY DEF Send
<1>3. PICK d : d = Sweep(past)
  OBVIOUS
<1>4. Filed(d, runs, started, dropped)
  BY <1>3, SweepFiles
<1>5. PICK id \in Revivable(d) :
        \/ /\ started < MaxRuns /\ started' = started + 1
           /\ dir' = [d EXCEPT ![id].state = "running", ![id].run = started', ![id].hist = <<>>]
           /\ runs' = [q \in Live \cup {started'} |->
                        IF q = started' THEN NewRun(t, p, id, d[id].hist) ELSE runs[q]]
        \/ /\ dir' = [d EXCEPT ![id] = Parked(@, <<>>)]
           /\ UNCHANGED <<runs, started>>
  BY <1>2, <1>3
<1>6. id \in DOMAIN d /\ d[id].state # "running" /\ d[id] \in RecordSet /\ id \in IdSet
  BY <1>4 DEF Revivable, Filed, Typed
<1>7. <<>> \in Seq(Numbers) /\ started \in Nat /\ MaxRuns \in Nat
  BY <1>4, EmptySeq DEF Filed, Typed, DelegatesSizes
<1>8. CASE /\ started < MaxRuns /\ started' = started + 1
           /\ dir' = [d EXCEPT ![id].state = "running", ![id].run = started', ![id].hist = <<>>]
           /\ runs' = [q \in Live \cup {started'} |->
                        IF q = started' THEN NewRun(t, p, id, d[id].hist) ELSE runs[q]]
  <2>1. PICK base, n, run : /\ base = d[id].hist /\ n = started
                            /\ run = NewRun(t, p, id, base)
    OBVIOUS
  <2>2. base \in Seq(Numbers) /\ d[id].log \in Seq(Numbers)
    BY <1>6, <2>1 DEF RecordSet
  <2>3. Ends(base, d[id].log)
    <3>1. Holds(d[id])
      BY <1>4, <1>6 DEF Filed, Verbatim
    <3>2. d[id].hist = <<>> => Ends(d[id].hist, d[id].log)
      BY <1>7, <2>2, EndsEmpty
    <3> QED BY <2>1, <3>1, <3>2 DEF Holds
  <2>4. run \in RunSet /\ run.id = id /\ run.base = base
    BY <1>1, <1>6, <2>1, <2>2, NewRunType
  <2>5. PICK rec : rec = [d[id] EXCEPT !.state = "running", !.run = n + 1, !.hist = <<>>]
    OBVIOUS
  <2>6. n + 1 \in Numbers
    BY <1>7, <1>8, <2>1 DEF Numbers
  <2>7. /\ rec \in RecordSet /\ rec.state = "running" /\ rec.run = n + 1 /\ rec.hist = <<>>
        /\ rec.seq = d[id].seq /\ rec.log = d[id].log
    BY <1>6, <1>7, <2>5, <2>6 DEF RecordSet, States
  <2>8. dir' = [i \in DOMAIN d \cup {id} |-> IF i = id THEN rec ELSE d[i]]
    <3>1. DOMAIN d \cup {id} = DOMAIN d
      BY <1>6
    <3>2. dir' = [d EXCEPT ![id] = rec]
      BY <1>8, <2>1, <2>5
    <3> QED BY <3>1, <3>2
  <2>9. runs' = [r \in DOMAIN runs \cup {n + 1} |-> IF r = n + 1 THEN run ELSE runs[r]]
    BY <1>8, <2>1 DEF Live
  <2>10. PICK d2, q2 : d2 = dir' /\ q2 = runs'
    OBVIOUS
  <2>11. Begins(d, runs, n, id, rec, run, d2, q2)
    BY <1>6, <1>8, <2>1, <2>3, <2>4, <2>7, <2>8, <2>9, <2>10 DEF Begins
  <2>12. Filed(d2, q2, n + 1, dropped)
    BY <1>4, <2>1, <2>11, RunStarts
  <2> QED BY <1>1, <1>8, <2>1, <2>10, <2>12 DEF DirInv
<1>9. CASE dir' = [d EXCEPT ![id] = Parked(@, <<>>)] /\ UNCHANGED <<runs, started>>
  <2>1. PICK rec, d2 : rec = Parked(d[id], <<>>) /\ d2 = dir'
    OBVIOUS
  <2>2. rec \in RecordSet /\ rec.state = "parked" /\ Holds(rec)
        /\ rec.seq = d[id].seq /\ rec.run = d[id].run
    BY <1>6, <1>7, <2>1, Rests
  <2>3. DOMAIN d2 = DOMAIN d /\ d2[id] = rec /\ \A i \in DOMAIN d : i # id => d2[i] = d[i]
    BY <1>6, <1>9, <2>1
  <2>4. Filed(d2, runs, started, dropped)
    BY <1>4, <1>6, <2>2, <2>3, OthersChange
  <2> QED BY <1>1, <1>9, <2>1, <2>4 DEF DirInv
<1> QED BY <1>5, <1>8, <1>9

\* A run is asked again.
LEMMA RemindFiles ==
    ASSUME DelegatesSizes, DirInv, NEW r \in Live, Remind(r)
    PROVE  DirInv'
<1>1. /\ dir' = dir /\ started' = started /\ dropped' = dropped
      /\ runs' = [runs EXCEPT ![r].tries = @ + 1] /\ runs[r].tries < MaxAttempts
  BY DEF Remind, turnVars
<1>2. r \in DOMAIN runs /\ runs[r] \in RunSet /\ MaxAttempts \in Nat
  BY DEF Live, DirInv, Filed, Typed, DelegatesSizes
<1>3. PICK run : run = [runs[r] EXCEPT !.tries = @ + 1]
  OBVIOUS
<1>4. run \in RunSet /\ run.id = runs[r].id /\ run.base = runs[r].base
  BY <1>1, <1>2, <1>3 DEF RunSet
<1>5. /\ DOMAIN runs' = DOMAIN runs /\ runs'[r] = run
      /\ \A q \in DOMAIN runs : q # r => runs'[q] = runs[q]
  BY <1>1, <1>2, <1>3
<1>6. Typed(dir, runs, started, dropped)'
  BY <1>1, <1>4, <1>5 DEF DirInv, Filed, Typed, IdSet, RecordSet, RunSet, Numbers, States
<1>7. Linked(dir, runs)' /\ Owned(dir, runs, dropped)'
  BY <1>1, <1>4, <1>5 DEF DirInv, Filed, Linked, Owned
<1>8. Numbered(dir)' /\ Verbatim(dir)'
  BY <1>1 DEF DirInv, Filed
<1> QED BY <1>6, <1>7, <1>8 DEF DirInv, Filed

\* A run ends, with those below it or alone: what it leaves on its record.
LEMMA CloseFiles ==
    ASSUME DirInv, NEW r \in Live, NEW below \in SUBSET Live, NEW rec \in RecordSet,
           rec.state # "running", Holds(rec),
           rec.seq = dir[runs[r].id].seq, rec.run = dir[runs[r].id].run,
           dir' = OnRecord(runs[r].id, rec), runs' = RunsWithout({r} \cup below),
           started' = started, dropped' = dropped \cup below
    PROVE  DirInv'
<1>1. runs[r].id \in DOMAIN dir
  BY DEF Live, DirInv, Filed, Linked
<1>2. PICK d2, q2 : d2 = dir' /\ q2 = runs'
  OBVIOUS
<1>3. Closes(dir, runs, r, below, rec, d2, q2)
  BY <1>1, <1>2 DEF OnRecord, RunsWithout, Live, Closes
<1>4. Filed(d2, q2, started, dropped \cup below)
  BY <1>3, RunOver DEF DirInv
<1> QED BY <1>2, <1>4 DEF DirInv

LEMMA RunEndsFiles ==
    ASSUME DelegatesSizes, DirInv, NEW r \in Live, RunEnds(r)
    PROVE  DirInv'
<1> DEFINE id == runs[r].id
           old == dir[id]
<1>1. /\ id \in DOMAIN dir /\ old \in RecordSet /\ r \in Numbers
      /\ runs[r].base \in Seq(Numbers) /\ Ends(runs[r].base, old.log)
  BY DEF Live, DirInv, Filed, Linked, Typed, RunSet, Numbers, DelegatesSizes
<1>2. /\ old.log \in Seq(Numbers) /\ <<>> \in Seq(Numbers) /\ <<r>> \in Seq(Numbers)
      /\ Append(old.log, r) \in Seq(Numbers) /\ Append(runs[r].base, r) \in Seq(Numbers)
  BY <1>1, EmptySeq, AppendProperties DEF RecordSet
<1>3. dropped = dropped \cup {} /\ {r} = {r} \cup {} /\ {} \subseteq Live
  OBVIOUS
<1>4. ASSUME NEW complete \in BOOLEAN, Finish(r, complete)
      PROVE  DirInv'
  <2>1. PICK rec : rec = [old EXCEPT !.state = "idle", !.hist = Append(runs[r].base, r),
                                     !.log = Append(@, r)]
    OBVIOUS
  <2>2. /\ rec \in RecordSet /\ rec.state = "idle" /\ rec.seq = old.seq /\ rec.run = old.run
        /\ rec.hist = Append(runs[r].base, r) /\ rec.log = Append(old.log, r)
    BY <1>1, <1>2, <2>1 DEF RecordSet, States
  <2>3. Holds(rec)
    BY <1>1, <1>2, <2>2, EndsGrow DEF Holds
  <2>4. /\ dir' = OnRecord(id, rec) /\ runs' = RunsWithout({r})
        /\ started' = started /\ dropped' = dropped
    BY <1>4, <2>1 DEF Finish, Settle
  <2> QED BY <1>3, <2>2, <2>3, <2>4, CloseFiles
<1>5. CASE Suspend(r)
  <2>1. PICK rec : rec = Parked(old, <<r>>)
    OBVIOUS
  <2>2. /\ rec \in RecordSet /\ rec.state = "parked" /\ Holds(rec)
        /\ rec.seq = old.seq /\ rec.run = old.run
    BY <1>1, <1>2, <2>1, Rests
  <2>3. /\ dir' = OnRecord(id, rec) /\ runs' = RunsWithout({r})
        /\ started' = started /\ dropped' = dropped
    BY <1>5, <2>1 DEF Suspend, Park, turnVars
  <2> QED BY <1>3, <2>2, <2>3, CloseFiles
<1>6. PICK rec : rec = [old EXCEPT !.state = "aborted", !.hist = <<>>]
  OBVIOUS
<1>7. /\ rec \in RecordSet /\ rec.state # "running" /\ Holds(rec)
      /\ rec.seq = old.seq /\ rec.run = old.run
  BY <1>1, <1>2, <1>6 DEF RecordSet, States, Holds
<1>8. CASE KillStopped(r)
  <2>1. /\ dir' = OnRecord(id, rec) /\ runs' = RunsWithout({r})
        /\ started' = started /\ dropped' = dropped
    BY <1>6, <1>8 DEF KillStopped, Abort, turnVars
  <2> QED BY <1>3, <1>7, <2>1, CloseFiles
<1>9. CASE TimeOut(r)
  <2>1. PICK below : below = Below(r)
    OBVIOUS
  <2>2. below \subseteq Live
    BY <2>1 DEF Below
  <2>3. /\ dir' = OnRecord(id, rec) /\ runs' = RunsWithout({r} \cup below)
        /\ started' = started /\ dropped' = dropped \cup below
    BY <1>6, <1>9, <2>1 DEF TimeOut, Abort
  <2> QED BY <1>7, <2>2, <2>3, CloseFiles
<1> QED BY <1>4, <1>5, <1>8, <1>9 DEF RunEnds

(***************************************************************************)
(* The turns, and the gate on their replies.                               *)
(***************************************************************************)
PlanSet == [open : BOOLEAN, handoffs : SUBSET IdSet, refusals : 0..MaxRefusals]

\* While a turn goes on its plan counts what was held back in it, and nothing
\* of it has gone out; once it is over, what went out over work that is owed
\* had been held back to the limit.
GateInv ==
    /\ on \in [Turns -> BOOLEAN] /\ stop \in [Turns -> BOOLEAN] /\ owing \in [Turns -> BOOLEAN]
    /\ plan \in [Turns -> PlanSet] /\ refused \in [Turns -> 0..MaxRefusals]
    /\ begun \in 0..MaxOpened
    /\ \A t \in Turns : on[t] => plan[t].refusals = refused[t] /\ ~owing[t]
    /\ GateHolds

DelegateInv == DirInv /\ GateInv

\* Before anything happened.
LEMMA DelegatesBegin ==
    ASSUME DelegatesSizes, DelegatesInit
    PROVE  DelegateInv
<1>1. IsFiniteSet({})
  BY FS_EmptySet
<1>2. DirInv
  BY <1>1 DEF DelegatesInit, Empty, DelegatesSizes, DirInv, Filed, Typed, Numbered, Linked, Owned, Verbatim
<1>3. GateInv
  BY DEF DelegatesInit, DelegatesSizes, NoPlan, GateInv, PlanSet, GateHolds
<1> QED BY <1>2, <1>3 DEF DelegateInv

\* What touches no turn leaves the gate as it is.
LEMMA GateKept ==
    ASSUME GateInv, UNCHANGED <<on, stop, plan, refused, owing, begun>>
    PROVE  GateInv'
BY DEF GateInv, PlanSet, IdSet, GateHolds

\* What a delegate left undone is in the plan until the plan is next written.
LEMMA FinishGate ==
    ASSUME DelegatesSizes, DelegateInv, NEW r \in Live, NEW complete \in BOOLEAN,
           Finish(r, complete)
    PROVE  GateInv'
<1>1. UNCHANGED <<on, stop, refused, owing, begun>>
  BY DEF Finish
<1>2. PICK t \in Turns, id \in IdSet : t = runs[r].turn /\ id = runs[r].id
  BY DEF DelegateInv, DirInv, Filed, Typed, Live, RunSet
<1>3. plan' = plan \/ plan' = [plan EXCEPT ![t].handoffs = @ \cup {id}]
  BY <1>2 DEF Finish
<1>4. CASE plan' = plan
  BY <1>1, <1>4, GateKept DEF DelegateInv
<1>5. CASE plan' = [plan EXCEPT ![t].handoffs = @ \cup {id}]
  <2>1. plan[t] \in PlanSet
    BY DEF DelegateInv, GateInv
  <2>2. PICK p : p = [plan[t] EXCEPT !.handoffs = @ \cup {id}]
    OBVIOUS
  <2>3. p \in PlanSet /\ p.refusals = plan[t].refusals
    BY <2>1, <2>2 DEF PlanSet
  <2>4. plan' = [plan EXCEPT ![t] = p]
    BY <1>5, <2>2
  <2>5. /\ plan' \in [Turns -> PlanSet]
        /\ \A u \in Turns : plan'[u].refusals = plan[u].refusals
    BY <2>3, <2>4 DEF DelegateInv, GateInv
  <2>6. PlanSet' = PlanSet /\ GateHolds'
    BY <1>1 DEF PlanSet, IdSet, DelegateInv, GateInv, GateHolds
  <2> QED BY <1>1, <2>5, <2>6 DEF DelegateInv, GateInv
<1> QED BY <1>3, <1>4, <1>5

\* A turn's own steps.
LEMMA TurnGate ==
    ASSUME DelegatesSizes, GateInv, NEW t \in Turns,
           \/ BeginTurn(t) \/ PressStop(t) \/ UpdatePlan(t) \/ Reply(t) \/ LeaveTurn(t)
    PROVE  GateInv' /\ UNCHANGED <<dir, runs, started, dropped>>
<1>0. PlanSet' = PlanSet /\ MaxOpened \in Nat /\ MaxRefusals \in Nat
  BY DEF PlanSet, IdSet, DelegatesSizes
<1>1. CASE BeginTurn(t)
  <2>1. NoPlan \in PlanSet /\ NoPlan.refusals = 0 /\ 0 \in 0..MaxRefusals
    BY <1>0 DEF NoPlan, PlanSet
  <2>2. plan' = [plan EXCEPT ![t] = NoPlan] /\ begun' \in 0..MaxOpened
    BY <1>0, <1>1 DEF BeginTurn, StartedPlan, GateInv
  <2>3. GateHolds'
    BY <1>1 DEF BeginTurn, GateInv, GateHolds
  <2> HIDE DEF NoPlan
  <2> QED BY <1>0, <1>1, <2>1, <2>2, <2>3 DEF BeginTurn, GateInv
<1>2. CASE PressStop(t)
  BY <1>0, <1>2 DEF PressStop, GateInv, GateHolds
<1>3. CASE UpdatePlan(t)
  <2>1. PICK open \in BOOLEAN : plan' = [plan EXCEPT ![t].open = open, ![t].handoffs = {}]
    BY <1>3 DEF UpdatePlan
  <2>2. PICK p : p = [plan[t] EXCEPT !.open = open, !.handoffs = {}]
    OBVIOUS
  <2>3. p \in PlanSet /\ p.refusals = plan[t].refusals
    BY <2>2 DEF PlanSet, GateInv
  <2>4. plan' = [plan EXCEPT ![t] = p]
    BY <2>1, <2>2
  <2>5. GateHolds'
    BY <1>3 DEF UpdatePlan, GateInv, GateHolds
  <2> QED BY <1>0, <1>3, <2>3, <2>4, <2>5 DEF UpdatePlan, GateInv
<1>4. CASE Reply(t)
  <2>1. CASE /\ HeldBack(t)
             /\ plan' = [plan EXCEPT ![t].refusals = IF @ < MaxRefusals THEN @ + 1 ELSE @]
             /\ refused' = [refused EXCEPT ![t] = IF @ < MaxRefusals THEN @ + 1 ELSE @]
             /\ UNCHANGED <<on, stop, owing>>
    <3>1. PICK p : p = [plan[t] EXCEPT !.refusals = IF @ < MaxRefusals THEN @ + 1 ELSE @]
      OBVIOUS
    <3>2. /\ plan[t] \in PlanSet /\ refused[t] \in 0..MaxRefusals /\ on[t]
          /\ plan[t].refusals = refused[t] /\ ~owing[t]
      BY <1>4 DEF Reply, GateInv
    <3>3. /\ p \in PlanSet
          /\ p.refusals = IF refused[t] < MaxRefusals THEN refused[t] + 1 ELSE refused[t]
      BY <1>0, <3>1, <3>2 DEF PlanSet
    <3>4. plan' = [plan EXCEPT ![t] = p]
      BY <2>1, <3>1
    <3>5. /\ refused' \in [Turns -> 0..MaxRefusals] /\ refused'[t] = p.refusals
          /\ \A u \in Turns : u # t => refused'[u] = refused[u]
      BY <1>0, <2>1, <3>2, <3>3 DEF GateInv
    <3>6. GateHolds'
      BY <2>1, <3>2, <3>5 DEF GateInv, GateHolds
    <3> QED BY <1>0, <1>4, <2>1, <3>2, <3>3, <3>4, <3>5, <3>6 DEF Reply, GateInv
  <2>2. CASE /\ ~HeldBack(t)
             /\ Over(t)
             /\ owing' = [owing EXCEPT ![t] = Owes(t)]
             /\ UNCHANGED <<plan, refused>>
    <3>1. on[t] /\ plan[t] \in PlanSet /\ plan[t].refusals = refused[t]
      BY <1>4 DEF Reply, GateInv
    <3>2. Owes(t) \in BOOLEAN
      BY <3>1 DEF Owes, PlanSet
    <3>3. Owes(t) => refused[t] = MaxRefusals
      BY <1>0, <2>2, <3>1 DEF HeldBack, PlanSet
    <3>4. /\ on' = [on EXCEPT ![t] = FALSE] /\ stop' = [stop EXCEPT ![t] = FALSE]
      BY <2>2 DEF Over
    <3>5. owing' \in [Turns -> BOOLEAN] /\ GateHolds'
      BY <2>2, <3>2, <3>3 DEF GateInv, GateHolds
    <3> QED BY <1>0, <1>4, <2>2, <3>4, <3>5 DEF Reply, GateInv
  <2> QED BY <1>4, <2>1, <2>2 DEF Reply
<1>5. CASE LeaveTurn(t)
  BY <1>0, <1>5 DEF LeaveTurn, Over, GateInv, GateHolds
<1> QED BY <1>1, <1>2, <1>3, <1>4, <1>5

\* Every step keeps it all.
LEMMA DelegatesStep ==
    ASSUME DelegatesSizes, DelegateInv, [DelegatesNext]_delegatesVars
    PROVE  DelegateInv'
<1> USE DEF DelegateInv
<1>1. ASSUME UNCHANGED <<dir, runs, started, dropped>>
      PROVE  DirInv'
  BY <1>1 DEF DirInv, Filed, Typed, Numbered, Linked, Owned, Verbatim, RecordSet, RunSet,
              IdSet, Numbers, States
<1>2. ASSUME NEW t \in Turns,
             \/ BeginTurn(t) \/ PressStop(t) \/ UpdatePlan(t) \/ Reply(t) \/ LeaveTurn(t)
      PROVE  DelegateInv'
  BY <1>1, <1>2, TurnGate
<1>3. ASSUME NEW t \in Turns, NEW p \in Live \cup {Root},
             Delegate(t, p) \/ Send(t, p) \/ List(t, p)
      PROVE  DelegateInv'
  <2>1. GateInv'
    BY <1>3, GateKept DEF Delegate, Send, List, turnVars
  <2>2. CASE Delegate(t, p)
    BY <2>1, <2>2, DelegateFiles
  <2>3. CASE Send(t, p)
    BY <2>1, <2>3, SendFiles
  <2>4. CASE List(t, p)
    <3>1. PICK past \in SUBSET Idle : dir' = Sweep(past)
      BY <2>4 DEF List
    <3>2. Filed(dir', runs, started, dropped)
      BY <3>1, SweepFiles
    <3>3. runs' = runs /\ started' = started /\ dropped' = dropped
      BY <2>4 DEF List, turnVars
    <3> QED BY <2>1, <3>2, <3>3 DEF DirInv
  <2> QED BY <1>3, <2>2, <2>3, <2>4
<1>4. ASSUME NEW r \in Live, Remind(r)
      PROVE  DelegateInv'
  <2>1. GateInv'
    BY <1>4, GateKept DEF Remind, turnVars
  <2> QED BY <1>4, <2>1, RemindFiles
<1>5. ASSUME NEW r \in Live, RunEnds(r)
      PROVE  DelegateInv'
  <2>1. DirInv'
    BY <1>5, RunEndsFiles
  <2>2. ASSUME NEW complete \in BOOLEAN, Finish(r, complete)
        PROVE  GateInv'
    BY <2>2, FinishGate
  <2>3. CASE Suspend(r) \/ KillStopped(r) \/ TimeOut(r)
    BY <2>1, <2>3, GateKept DEF Suspend, KillStopped, TimeOut, turnVars
  <2> QED BY <1>5, <2>1, <2>2, <2>3 DEF RunEnds
<1>6. CASE UNCHANGED delegatesVars
  BY <1>1, <1>6, GateKept DEF delegatesVars
<1> QED BY <1>2, <1>3, <1>4, <1>5, <1>6 DEF DelegatesNext

\* The invariant of the delegates and the gate.
LEMMA DelegateInvariant == DelegatesSpec => []DelegateInv
<1>1. DelegatesInit => DelegateInv
  BY DelegatesBegin, Limits
<1>2. DelegateInv /\ [DelegatesNext]_delegatesVars => DelegateInv'
  BY DelegatesStep, Limits
<1> QED BY <1>1, <1>2, PTL DEF DelegatesSpec

\* Types: a delegate's id has a number within the bound, a run is as deep as
\* a run may be and no more often asked, a plan counts no more than the limit.
THEOREM DelegateTypes == DelegatesSpec => []DelegatesTypeOK
<1>1. DelegateInv => DelegatesTypeOK
  <2> SUFFICES ASSUME DelegateInv PROVE DelegatesTypeOK
    OBVIOUS
  <2>1. started \in 0..MaxRuns /\ MaxRuns \in Nat
    BY Limits DEF DelegateInv, DirInv, Filed, Typed, DelegatesSizes
  <2>2. dropped \subseteq Numbers \ Live /\ Live \subseteq 1..started
    BY <2>1 DEF DelegateInv, DirInv, Filed, Typed, Numbers, Live
  <2> QED BY <2>1, <2>2 DEF DelegateInv, DirInv, Filed, Typed, RecordSet, RunSet, GateInv,
                            PlanSet, DelegatesTypeOK, Live
<1> QED BY <1>1, DelegateInvariant, PTL

\* No run loses its record: not to the eviction that makes room for another,
\* not to a follow-up of another turn (sub_agent_registry.rs:386-402), and not
\* to a new delegate, whose id is free.  A record says running for its run.
THEOREM NoRunLosesItsRecord == DelegatesSpec => []RunsAreTracked
<1>1. DelegateInv => RunsAreTracked
  BY DEF DelegateInv, DirInv, Filed, Linked, Owned, RunsAreTracked, Live
<1> QED BY <1>1, DelegateInvariant, PTL

\* What an idle delegate is revived with is word for word what it said last
\* (sub_agent_registry.rs:301-323); in any other state it holds nothing.
THEOREM HistoryIsKept == DelegatesSpec => []HistoryIsVerbatim
<1>1. DelegateInv => HistoryIsVerbatim
  <2> SUFFICES ASSUME DelegateInv, NEW i \in DOMAIN dir
               PROVE  IF dir[i].state = "idle"
                      THEN dir[i].hist # <<>> /\ IsSuffix(dir[i].hist, dir[i].log)
                      ELSE dir[i].hist = <<>>
    BY DEF HistoryIsVerbatim
  <2>1. /\ Holds(dir[i])
        /\ dir[i].hist \in Seq(Numbers) /\ dir[i].log \in Seq(Numbers)
    BY DEF DelegateInv, DirInv, Filed, Verbatim, Typed, RecordSet
  <2>2. IsSuffix(dir[i].hist, dir[i].log) <=> Ends(dir[i].hist, dir[i].log)
    BY <2>1, EndsIsSuffix
  <2> QED BY <2>1, <2>2 DEF Holds
<1> QED BY <1>1, DelegateInvariant, PTL

\* No reply leaves over work that is owed before the gate has held it back
\* MaxRefusals times in that turn (turn_plan.rs:258-269, say_to_user.rs).
THEOREM RepliesAreHeldBack == DelegatesSpec => []GateHolds
<1>1. DelegateInv => GateHolds
  BY DEF DelegateInv, GateInv
<1> QED BY <1>1, DelegateInvariant, PTL

(***************************************************************************)
(* What a turn leaves of a conversation: the module ContextJournal.        *)
(*                                                                         *)
(* JournalIsWhole speaks of a chat at rest.  While a turn runs, what it    *)
(* added is at the end of the context and of what was said, behind what    *)
(* the context was derived as and behind the journal held aside.  And a    *)
(* window is legal because of the messages at its own first place, which   *)
(* no later message changes: Cut.                                          *)
(***************************************************************************)
\* Messages of a conversation: no summary and no recalled block.
Plain == [kind : {"user", "text", "think", "call", "result"}, n : Nat]
CompactionSet == [first_kept_index : Nat \ {0}, covers : SUBSET (1..MaxMessages)]

\* No window that begins at b begins inside a batch that has its reasoning.
Cut(j, b) ==
    b < Len(j) =>
        /\ j[b + 1].kind # "result"
        /\ j[b + 1].kind = "call" => j[BlockStart(j, b) + 1].kind # "think"

\* Records that keep from n on at the latest, each accounting for what is before.
Accounted(j, rs, n) ==
    \A k \in 1..Len(rs) :
        /\ rs[k].first_kept_index <= n
        /\ 1..rs[k].first_kept_index \subseteq rs[k].covers
        /\ Cut(j, rs[k].first_kept_index)

\* What a turn begins with: the context as derived, with the block or without.
Begun(ctx, recalls) == IF recalls THEN InsertAt(ctx, Len(ctx), Recalled) ELSE ctx

JournalTypes ==
    /\ journal \in Seq(Plain) /\ said \in Seq(Plain) /\ Len(said) <= MaxMessages
    /\ records \in Seq(CompactionSet)
    /\ context \in Seq(Messages)
    /\ stage \in {"idle", "compacting", "running"} /\ injected \in BOOLEAN
    /\ held \in Nat /\ turnStart \in Nat /\ known \in 0..Len(records) /\ opened \in Nat
    /\ captured \in [got : Seq(Messages), ought : Seq(Messages)]

AtRest == journal = said /\ known = 0 /\ Accounted(journal, records, Len(journal))

\* A turn has its message, and no record folds that.
TurnOpen ==
    /\ Len(journal) = opened + 1
    /\ Accounted(journal, records, Len(journal) - 1)

UnderWay ==
    LET eff == Effective(journal, records) IN
    /\ TurnOpen
    /\ turnStart = Len(eff) - 1
    /\ held = IF records = <<>> THEN 0 ELSE Len(eff)
    /\ \E new \in Seq(Plain) :
        said = journal \o new /\ context = Begun(eff, injected) \o new

JournalInv ==
    /\ JournalTypes
    /\ stage = "idle" => AtRest
    /\ stage = "compacting" => TurnOpen /\ journal = said /\ said[Len(said)].kind = "user"
    /\ stage = "running" => UnderWay
    /\ captured.got = captured.ought

(***************************************************************************)
(* Numbers and sequences.                                                  *)
(***************************************************************************)

\* The greatest of some numbers.
LEMMA Greatest ==
    ASSUME NEW n \in Nat, NEW S \in SUBSET (0..n), S # {}
    PROVE  Max(S) \in S /\ \A x \in S : x <= Max(S)
<1> DEFINE back == {k \in 0..n : n - k \in S}
<1>1. back \subseteq Nat /\ back # {}
  <2>1. PICK x \in S : x \in 0..n
    OBVIOUS
  <2>2. n - x \in 0..n /\ n - (n - x) = x
    BY <2>1
  <2>3. n - x \in back
    BY <2>1, <2>2
  <2>4. back \subseteq Nat
    OBVIOUS
  <2> HIDE DEF back
  <2> QED BY <2>3, <2>4
<1>2. PICK k \in back : \A m \in back : k <= m
  <2> HIDE DEF back
  <2> QED BY <1>1, LeastNumber
<1>3. n - k \in S /\ \A x \in S : x <= n - k
  <2>1. ASSUME NEW x \in S
        PROVE  x <= n - k
    <3>1. x \in 0..n /\ k \in 0..n
      BY <1>2
    <3>2. n - x \in 0..n /\ n - (n - x) = x
      BY <3>1
    <3>3. n - x \in back
      BY <3>2
    <3>4. k <= n - x
      BY <1>2, <3>3
    <3> QED BY <3>1, <3>4
  <2> QED BY <1>2, <2>1
<1>4. \E x \in S : \A y \in S : x >= y
  BY <1>3
<1>5. Max(S) \in S /\ \A y \in S : Max(S) >= y
  BY <1>4 DEF Max
<1> QED BY <1>5

\* The lesser of two.
LEMMA Lesser ==
    ASSUME NEW a \in Nat, NEW b \in Nat
    PROVE  Min({a, b}) = IF a <= b THEN a ELSE b
<1>1. PICK m \in {a, b} : \A y \in {a, b} : m <= y
  OBVIOUS
<1>2. Min({a, b}) \in {a, b} /\ \A y \in {a, b} : Min({a, b}) <= y
  BY <1>1 DEF Min
<1> QED BY <1>2

\* What was appended, and what was appended with the last before it.
LEMMA Appended ==
    ASSUME NEW S, NEW s \in Seq(S), NEW new \in Seq(S), Len(s) >= 1
    PROVE  /\ SubSeq(s \o new, Len(s) + 1, Len(s \o new)) = new
           /\ SubSeq(s \o new, Len(s), Len(s \o new)) = <<s[Len(s)]>> \o new
<1>1. Len(s) \in Nat /\ Len(new) \in Nat /\ Len(s \o new) = Len(s) + Len(new)
  BY LenProperties, ConcatProperties
<1> DEFINE t == s \o new
           a == SubSeq(t, Len(s) + 1, Len(t))
           b == SubSeq(t, Len(s), Len(t))
<1>2. t \in Seq(S) /\ (\A i \in 1..Len(t) : t[i] = IF i <= Len(s) THEN s[i] ELSE new[i - Len(s)])
  BY ConcatProperties
<1>3. Len(t) = Len(s) + Len(new)
  BY <1>1
<1> HIDE DEF t
<1>4. /\ a \in Seq(S) /\ Len(a) = Len(new)
      /\ \A i \in 1..Len(new) : a[i] = new[i]
  <2>1. Len(a) = Len(new) /\ a \in Seq(S)
    BY <1>1, <1>2, <1>3, SubSeqProperties
  <2>2. \A i \in 1..Len(new) : a[i] = t[Len(s) + i]
    BY <1>1, <1>2, <1>3, SubSeqProperties
  <2> HIDE DEF a
  <2>3. ASSUME NEW i \in 1..Len(new)
        PROVE  a[i] = new[i]
    <3>1. Len(s) + i \in 1..Len(t) /\ ~(Len(s) + i <= Len(s)) /\ Len(s) + i - Len(s) = i
      BY <1>1, <1>3
    <3> QED BY <1>2, <2>2, <3>1
  <2> QED BY <2>1, <2>3
<1>5. a = new
  <2> HIDE DEF a
  <2> QED BY <1>4, SeqEqual
<1> DEFINE c == <<s[Len(s)]>> \o new
<1>6. /\ c \in Seq(S) /\ Len(c) = Len(new) + 1
      /\ c[1] = s[Len(s)] /\ \A i \in 1..Len(new) : c[i + 1] = new[i]
  <2>1. s[Len(s)] \in S
    BY <1>1, ElementOfSeq
  <2>2. <<s[Len(s)]>> \in Seq(S) /\ Len(<<s[Len(s)]>>) = 1
    BY <2>1
  <2> QED BY <1>1, <2>2, ConcatProperties
<1>7. b \in Seq(S) /\ Len(b) = Len(new) + 1 /\ \A i \in 1..Len(new) + 1 : b[i] = t[Len(s) + i - 1]
  BY <1>1, <1>2, <1>3, SubSeqProperties
<1>8. b = c
  <2> HIDE DEF b, c
  <2>1. ASSUME NEW i \in 1..Len(new) + 1
        PROVE  b[i] = c[i]
    <3>1. CASE i = 1
      BY <1>1, <1>2, <1>3, <1>6, <1>7, <3>1
    <3>2. CASE i # 1
      <4>1. i - 1 \in 1..Len(new) /\ Len(s) + i - 1 \in 1..Len(t) /\ ~(Len(s) + i - 1 <= Len(s))
        BY <1>1, <1>3, <3>2
      <4>2. c[(i - 1) + 1] = new[i - 1]
        BY <1>6, <4>1
      <4>3. t[Len(s) + i - 1] = new[i - 1]
        BY <1>1, <1>2, <4>1
      <4> QED BY <1>1, <1>7, <4>2, <4>3
    <3> QED BY <3>1, <3>2
  <2> QED BY <1>6, <1>7, <2>1, SeqEqual
<1> QED BY <1>5, <1>8 DEF t

(***************************************************************************)
(* The recalled block comes out as it went in.                             *)
(***************************************************************************)

\* What is left after each message.
Leaving(ms, kinds, n, f) ==
    f = [i \in 0..n |-> IF i = 0 THEN <<>>
                        ELSE IF ms[i].kind \in kinds THEN f[i - 1] ELSE Append(f[i - 1], ms[i])]

\* There is a function that does so, by the least length without one.
LEMMA LeavingExists ==
    ASSUME NEW ms, NEW kinds, NEW n \in Nat
    PROVE  \E f : Leaving(ms, kinds, n, f)
<1> DEFINE bad == {k \in Nat : \A f : ~Leaving(ms, kinds, k, f)}
<1> SUFFICES ASSUME n \in bad PROVE FALSE
  OBVIOUS
<1>1. PICK k \in bad : \A m \in bad : k <= m
  <2>1. bad \subseteq Nat /\ bad # {}
    OBVIOUS
  <2> HIDE DEF bad
  <2> QED BY <2>1, LeastNumber
<1>2. CASE k = 0
  <2> DEFINE f == [i \in 0..0 |-> <<>>]
  <2>1. Leaving(ms, kinds, 0, f)
    BY DEF Leaving
  <2> QED BY <1>1, <1>2, <2>1
<1>3. CASE k # 0
  <2>1. k - 1 \in Nat /\ k \in Nat /\ k - 1 \notin bad
    BY <1>1, <1>3
  <2>2. PICK g : Leaving(ms, kinds, k - 1, g)
    BY <2>1
  <2> DEFINE Leaves(x, i) == IF ms[i].kind \in kinds THEN x ELSE Append(x, ms[i])
             f == [i \in 0..k |-> IF i = k THEN Leaves(g[k - 1], k) ELSE g[i]]
  <2>3. \A i \in 0..(k - 1) : g[i] = IF i = 0 THEN <<>> ELSE Leaves(g[i - 1], i)
    BY <2>2 DEF Leaving
  <2> HIDE DEF Leaves
  <2>4. \A i \in 0..(k - 1) : f[i] = g[i]
    BY <2>1
  <2>5. f[k] = Leaves(g[k - 1], k)
    BY <2>1
  <2>6. \A i \in 0..k : f[i] = IF i = 0 THEN <<>> ELSE Leaves(f[i - 1], i)
    <3> SUFFICES ASSUME NEW i \in 0..k
                 PROVE  f[i] = IF i = 0 THEN <<>> ELSE Leaves(f[i - 1], i)
      OBVIOUS
    <3>1. CASE i = k
      <4>1. f[k - 1] = g[k - 1]
        BY <2>1, <2>4
      <4> HIDE DEF f
      <4> QED BY <1>3, <2>5, <3>1, <4>1
    <3>2. CASE i # k
      <4>1. i \in 0..(k - 1) /\ (i # 0 => i - 1 \in 0..(k - 1))
        BY <2>1, <3>2
      <4> HIDE DEF f
      <4> QED BY <2>3, <2>4, <4>1
    <3> QED BY <3>1, <3>2
  <2>7. f = [i \in 0..k |-> f[i]]
    OBVIOUS
  <2> HIDE DEF f
  <2>8. Leaving(ms, kinds, k, f)
    <3>1. f = [i \in 0..k |-> IF i = 0 THEN <<>> ELSE Leaves(f[i - 1], i)]
      BY <2>6, <2>7
    <3> QED BY <3>1 DEF Leaving, Leaves
  <2> QED BY <1>1, <2>8
<1> QED BY <1>2, <1>3

\* What is left, message by message.
LEMMA WithoutSteps ==
    ASSUME NEW S, NEW ms \in Seq(S), NEW kinds
    PROVE  \E f : /\ WithoutKinds(ms, kinds) = f[Len(ms)] /\ f[0] = <<>>
                  /\ \A i \in 1..Len(ms) :
                        f[i] = IF ms[i].kind \in kinds THEN f[i - 1] ELSE Append(f[i - 1], ms[i])
<1> DEFINE n == Len(ms)
<1>1. n \in Nat
  BY LenProperties
<1>2. PICK f : Leaving(ms, kinds, n, f) /\ WithoutKinds(ms, kinds) = f[n]
  <2> DEFINE c == CHOOSE f : Leaving(ms, kinds, n, f)
  <2>1. Leaving(ms, kinds, n, c)
    BY <1>1, LeavingExists
  <2>2. WithoutKinds(ms, kinds) = c[n]
    BY DEF WithoutKinds, Leaving
  <2> QED BY <2>1, <2>2
<1>3. /\ f[0] = <<>>
      /\ \A i \in 1..n : f[i] = IF ms[i].kind \in kinds THEN f[i - 1] ELSE Append(f[i - 1], ms[i])
  <2> DEFINE Leaves(x, i) == IF ms[i].kind \in kinds THEN x ELSE Append(x, ms[i])
  <2>1. f = [i \in 0..n |-> IF i = 0 THEN <<>> ELSE Leaves(f[i - 1], i)]
    BY <1>2 DEF Leaving
  <2> HIDE DEF Leaves, n
  <2>2. \A i \in 0..n : f[i] = IF i = 0 THEN <<>> ELSE Leaves(f[i - 1], i)
    BY <2>1
  <2>3. 0 \in 0..n /\ \A i \in 1..n : i \in 0..n /\ i # 0
    BY <1>1
  <2>4. f[0] = <<>> /\ \A i \in 1..n : f[i] = Leaves(f[i - 1], i)
    BY <2>2, <2>3
  <2> QED BY <2>4 DEF Leaves
<1> QED BY <1>2, <1>3

\* And it is a sequence of those messages.
LEMMA WithoutTyped ==
    ASSUME NEW S, NEW ms \in Seq(S), NEW kinds
    PROVE  WithoutKinds(ms, kinds) \in Seq(S)
<1>1. PICK f : /\ WithoutKinds(ms, kinds) = f[Len(ms)] /\ f[0] = <<>>
               /\ \A i \in 1..Len(ms) :
                     f[i] = IF ms[i].kind \in kinds THEN f[i - 1] ELSE Append(f[i - 1], ms[i])
  BY WithoutSteps
<1>2. PICK n : n = Len(ms)
  OBVIOUS
<1>3. n \in Nat /\ \A i \in 1..n : ms[i] \in S
  BY <1>2, LenProperties, ElementOfSeq
<1> DEFINE bad == {i \in 0..n : f[i] \notin Seq(S)}
<1>4. bad = {}
  <2> SUFFICES ASSUME bad # {} PROVE FALSE
    OBVIOUS
  <2>1. PICK k \in bad : \A m \in bad : k <= m
    <3>1. bad \subseteq Nat
      BY <1>3
    <3> HIDE DEF bad
    <3> QED BY <3>1, LeastNumber
  <2>2. k # 0
    BY <1>1, <2>1, EmptySeq
  <2>3. k \in 1..n /\ k - 1 \in 0..n /\ ~(k <= k - 1)
    BY <1>3, <2>1, <2>2
  <2>4. f[k - 1] \in Seq(S) /\ ms[k] \in S
    BY <1>3, <2>1, <2>3
  <2>5. f[k] = f[k - 1] \/ f[k] = Append(f[k - 1], ms[k])
    BY <1>1, <1>2, <2>3
  <2>6. f[k] \in Seq(S)
    <3>1. PICK g, x : g = f[k - 1] /\ x = ms[k]
      OBVIOUS
    <3>2. g \in Seq(S) /\ Append(g, x) \in Seq(S)
      BY <2>4, <3>1, AppendProperties
    <3> QED BY <2>5, <3>1, <3>2
  <2> QED BY <2>1, <2>6
<1>5. n \in 0..n
  BY <1>3
<1> QED BY <1>1, <1>2, <1>4, <1>5

\* When one message only is of those kinds, the others are left as they were.
LEMMA WithoutOne ==
    ASSUME NEW S, NEW ms \in Seq(S), NEW kinds, NEW p \in 1..Len(ms), ms[p].kind \in kinds,
           \A k \in 1..Len(ms) : k # p => ms[k].kind \notin kinds,
           NEW rest \in Seq(S), Len(rest) = Len(ms) - 1,
           \A k \in 1..Len(rest) : rest[k] = IF k < p THEN ms[k] ELSE ms[k + 1]
    PROVE  WithoutKinds(ms, kinds) = rest
<1> DEFINE n == Len(ms)
<1>1. n \in Nat /\ (\A k \in 1..n : ms[k] \in S) /\ p \in Nat
  BY LenProperties, ElementOfSeq
<1>2. PICK f : /\ WithoutKinds(ms, kinds) = f[n] /\ f[0] = <<>>
               /\ \A i \in 1..n : f[i] = IF ms[i].kind \in kinds THEN f[i - 1] ELSE Append(f[i - 1], ms[i])
  BY WithoutSteps
<1> HIDE DEF n
<1> DEFINE P(i) == /\ f[i] \in Seq(S) /\ Len(f[i]) = IF i < p THEN i ELSE i - 1
                   /\ \A k \in 1..Len(f[i]) : f[i][k] = IF k < p THEN ms[k] ELSE ms[k + 1]
           bad == {i \in 0..n : ~P(i)}
<1>4. P(0)
  <2>1. f[0] \in Seq(S) /\ Len(f[0]) = 0 /\ 0 < p
    BY <1>2, EmptySeq DEF n
  <2> QED BY <2>1
<1>5. ASSUME NEW i \in 1..n, P(i - 1)
      PROVE  P(i)
  <2>1. i \in Nat /\ i - 1 \in Nat /\ ms[i] \in S
    BY <1>1
  <2>2. CASE i = p
    <3>1. f[i] = f[i - 1] /\ i - 1 < p /\ ~(i < p)
      BY <1>1, <1>2, <2>1, <2>2
    <3> QED BY <1>5, <3>1
  <2>3. CASE i # p
    <3>1. f[i] = Append(f[i - 1], ms[i])
      BY <1>2, <2>3 DEF n
    <3>0. PICK g, x : g = f[i - 1] /\ x = ms[i]
      OBVIOUS
    <3>2. x \in S /\ g \in Seq(S) /\ Len(g) = (IF i - 1 < p THEN i - 1 ELSE i - 2)
          /\ \A k \in 1..Len(g) : g[k] = IF k < p THEN ms[k] ELSE ms[k + 1]
      BY <1>5, <2>1, <3>0
    <3>3. Len(g) = IF i < p THEN i - 1 ELSE i - 2
      BY <1>1, <2>1, <2>3, <3>2
    <3>4. /\ Append(g, x) \in Seq(S) /\ Len(Append(g, x)) = Len(g) + 1
          /\ \A k \in 1..Len(g) : Append(g, x)[k] = g[k]
          /\ Append(g, x)[Len(g) + 1] = x
      BY <3>2, AppendProperties
    <3>5. f[i] = Append(g, x)
      BY <3>0, <3>1
    <3>6. Len(f[i]) = IF i < p THEN i ELSE i - 1
      BY <2>1, <3>3, <3>4, <3>5
    <3>7. ASSUME NEW k \in 1..Len(f[i])
          PROVE  f[i][k] = IF k < p THEN ms[k] ELSE ms[k + 1]
      <4>1. CASE k = Len(g) + 1
        <5>1. f[i][k] = ms[i] /\ (IF i < p THEN k = i ELSE k = i - 1)
          BY <2>1, <3>0, <3>3, <3>4, <3>5, <4>1
        <5>2. i < p \/ (p < i /\ ~(k < p) /\ k + 1 = i)
          BY <1>1, <2>1, <2>3, <5>1
        <5> QED BY <5>1, <5>2
      <4>2. CASE k # Len(g) + 1
        <5>1. k \in 1..Len(g)
          BY <2>1, <3>3, <3>6, <4>2
        <5> QED BY <3>2, <3>4, <3>5, <5>1
      <4> QED BY <4>1, <4>2
    <3> QED BY <3>4, <3>5, <3>6, <3>7
  <2> QED BY <2>2, <2>3
<1>6. bad = {}
  <2> SUFFICES ASSUME bad # {} PROVE FALSE
    OBVIOUS
  <2>1. PICK k \in bad : \A m \in bad : k <= m
    <3>1. bad \subseteq Nat
      BY <1>1
    <3> HIDE DEF bad
    <3> QED BY <3>1, LeastNumber
  <2> HIDE DEF P
  <2>2. k \in 1..n /\ k - 1 \in 0..n /\ ~(k <= k - 1)
    BY <1>1, <1>4, <2>1
  <2>3. P(k - 1)
    BY <2>1, <2>2
  <2> QED BY <1>5, <2>1, <2>2, <2>3
<1>7. P(n)
  BY <1>1, <1>6
<1>8. Len(f[n]) = n - 1
  BY <1>1, <1>7 DEF n
<1>9. f[n] = rest
  BY <1>7, <1>8, SeqEqual DEF n
<1> QED BY <1>2, <1>9

(***************************************************************************)
(* Where a window may begin.                                               *)
(***************************************************************************)

\* The two places a boundary moves back to.
LEMMA SplitPlaces ==
    ASSUME NEW ms, NEW from \in Nat
    PROVE  /\ NoResultAt(ms, from) \in 0..from
           /\ NoResultAt(ms, from) # 0 => ms[NoResultAt(ms, from) + 1].kind # "result"
           /\ \A x \in 0..from : x = 0 \/ ms[x + 1].kind # "result" => x <= NoResultAt(ms, from)
           /\ BlockStart(ms, from) \in 0..from
           /\ BlockStart(ms, from) # 0 => ms[BlockStart(ms, from) + 1].kind # "call"
           /\ \A x \in 0..from : x = 0 \/ ms[x + 1].kind # "call" => x <= BlockStart(ms, from)
<1> DEFINE S(kind) == {i \in 0..from : i = 0 \/ ms[i + 1].kind # kind}
<1>1. ASSUME NEW kind
      PROVE  Max(S(kind)) \in S(kind) /\ \A x \in S(kind) : x <= Max(S(kind))
  <2>1. S(kind) \in SUBSET (0..from) /\ 0 \in S(kind)
    OBVIOUS
  <2> HIDE DEF S
  <2> QED BY <2>1, Greatest
<1>2. NoResultAt(ms, from) = Max(S("result")) /\ BlockStart(ms, from) = Max(S("call"))
  BY DEF NoResultAt, BlockStart, Is
<1>3. PICK r, c : r = Max(S("result")) /\ c = Max(S("call"))
  OBVIOUS
<1>4. /\ r \in S("result") /\ \A x \in S("result") : x <= r
      /\ c \in S("call") /\ \A x \in S("call") : x <= c
  BY <1>1, <1>3
<1> QED BY <1>2, <1>3, <1>4

\* A place from which only calls follow is where their block starts.
LEMMA StartsAt ==
    ASSUME NEW ms, NEW from \in Nat, NEW s \in 0..from, s = 0 \/ ms[s + 1].kind # "call",
           \A x \in (s + 1)..from : ms[x + 1].kind = "call"
    PROVE  BlockStart(ms, from) = s
<1>1. PICK c : c = BlockStart(ms, from)
  OBVIOUS
<1>2. c \in 0..from /\ (c # 0 => ms[c + 1].kind # "call") /\ s <= c
  BY <1>1, SplitPlaces
<1>3. c \notin (s + 1)..from
  BY <1>2
<1> QED BY <1>1, <1>2, <1>3

\* What comes behind a window's first message does not change where it may begin.
LEMMA CutKept ==
    ASSUME NEW j, NEW j2, NEW b \in Nat, b < Len(j), \A k \in 1..(b + 1) : j2[k] = j[k], Cut(j, b)
    PROVE  Cut(j2, b)
<1>1. PICK s : s = BlockStart(j, b)
  OBVIOUS
<1>2. /\ s \in 0..b /\ (s # 0 => j[s + 1].kind # "call")
      /\ \A x \in 0..b : x = 0 \/ j[x + 1].kind # "call" => x <= s
  BY <1>1, SplitPlaces
<1>3. \A x \in 0..b : j2[x + 1] = j[x + 1]
  OBVIOUS
<1>4. BlockStart(j2, b) = s
  <2>1. \A x \in (s + 1)..b : x \in 0..b /\ x # 0 /\ ~(x <= s)
    BY <1>2
  <2> QED BY <1>2, <1>3, <2>1, StartsAt
<1> QED BY <1>1, <1>2, <1>3, <1>4 DEF Cut

\* Where the code splits a journal behind a boundary, a window may begin.
LEMMA SplitIsCut ==
    ASSUME JournalSizes, NEW j \in Seq(Plain), NEW b \in 0..Len(j), b = 0 \/ Cut(j, b),
           SafeSplit(SubSeq(j, b + 1, Len(j))) > 0
    PROVE  LET f == b + SafeSplit(SubSeq(j, b + 1, Len(j)))
           IN f \in 1..(Len(j) - 1) /\ b < f /\ Cut(j, f)
<1>1. Len(j) \in Nat /\ KeepRecent \in Nat /\ KeepRecent # 0
  BY LenProperties DEF JournalSizes
<1>2. PICK ms : ms = SubSeq(j, b + 1, Len(j))
  OBVIOUS
<1>3. Len(ms) = Len(j) - b /\ \A k \in 1..(Len(j) - b) : ms[k] = j[b + k]
  BY <1>1, <1>2, SubSeqProperties
<1>4. PICK n : n = Len(ms)
  OBVIOUS
<1>5. n > KeepRecent /\ n \in Nat
  BY <1>1, <1>2, <1>3, <1>4 DEF SafeSplit
<1>6. PICK from : from = n - KeepRecent
  OBVIOUS
<1>7. from \in 1..(n - 1)
  BY <1>1, <1>5, <1>6
<1>8. PICK sp : sp = NoResultAt(ms, from)
  OBVIOUS
<1>9. sp \in 0..from /\ (sp # 0 => ms[sp + 1].kind # "result")
  BY <1>7, <1>8, SplitPlaces
<1>10. PICK st : st = BlockStart(ms, sp)
  OBVIOUS
<1>11. /\ st \in 0..sp /\ (st # 0 => ms[st + 1].kind # "call")
       /\ \A x \in 0..sp : x = 0 \/ ms[x + 1].kind # "call" => x <= st
  BY <1>7, <1>9, <1>10, SplitPlaces
<1>12. SafeSplit(ms) =
          IF sp > 0 /\ ms[sp + 1].kind = "call" /\ ms[st + 1].kind = "think" THEN st ELSE sp
  BY <1>1, <1>4, <1>5, <1>6, <1>8, <1>10 DEF SafeSplit, Is
<1>13. \A x \in 0..(n - 1) : j[(b + x) + 1] = ms[x + 1]
  <2>1. \A x \in 0..(n - 1) : x + 1 \in 1..(Len(j) - b) /\ b + (x + 1) = (b + x) + 1
    BY <1>1, <1>3, <1>4
  <2> QED BY <1>3, <2>1
<1>14. \A x \in 0..sp : x \in 0..(n - 1)
  BY <1>5, <1>7, <1>9
<1>15. b \in Nat /\ n = Len(j) - b /\ n \in Nat /\ sp \in Nat /\ st \in Nat /\ st <= sp /\ sp < n
  BY <1>1, <1>3, <1>4, <1>5, <1>7, <1>9, <1>11
<1>16. CASE sp > 0 /\ ms[sp + 1].kind = "call" /\ ms[st + 1].kind = "think"
  <2>1. SafeSplit(ms) = st /\ st > 0 /\ st \in 0..(n - 1)
    BY <1>2, <1>11, <1>12, <1>14, <1>16
  <2>2. j[(b + st) + 1].kind = "think"
    BY <1>13, <1>16, <2>1
  <2>3. Cut(j, b + st)
    BY <2>2 DEF Cut
  <2> QED BY <1>1, <1>2, <1>15, <2>1, <2>3
<1>17. CASE ~(sp > 0 /\ ms[sp + 1].kind = "call" /\ ms[st + 1].kind = "think")
  <2>1. SafeSplit(ms) = sp /\ sp > 0 /\ sp \in 0..(n - 1) /\ st \in 0..(n - 1)
    BY <1>2, <1>12, <1>15, <1>17
  <2>2. PICK f : f = b + sp
    OBVIOUS
  <2>3. f \in Nat /\ j[f + 1] = ms[sp + 1] /\ b + st \in 0..f
    <3>1. f \in Nat /\ b + st \in 0..f
      BY <1>15, <2>2
    <3>2. j[(b + sp) + 1] = ms[sp + 1]
      BY <1>13, <2>1
    <3> QED BY <2>2, <3>1, <3>2
  <2>4. \A x \in (b + st + 1)..f : j[x + 1].kind = "call"
    <3> SUFFICES ASSUME NEW x \in (b + st + 1)..f
                 PROVE  j[x + 1].kind = "call"
      OBVIOUS
    <3>1. PICK y : y = x - b
      OBVIOUS
    <3>2. y \in 0..sp /\ y # 0 /\ ~(y <= st) /\ b + y = x
      BY <1>15, <2>2, <3>1
    <3>3. ms[y + 1].kind = "call"
      BY <1>11, <3>2
    <3>4. j[(b + y) + 1] = ms[y + 1]
      BY <1>13, <1>14, <3>2
    <3> QED BY <3>2, <3>3, <3>4
  <2>5. ASSUME ms[sp + 1].kind = "call"
        PROVE  j[BlockStart(j, f) + 1].kind # "think"
    <3>1. ms[st + 1].kind # "think" /\ j[(b + st) + 1] = ms[st + 1]
      BY <1>13, <1>17, <2>1, <2>5
    <3>2. CASE b + st = 0 \/ ms[st + 1].kind # "call"
      <4>1. BlockStart(j, f) = b + st
        BY <2>3, <2>4, <3>1, <3>2, StartsAt
      <4> QED BY <3>1, <4>1
    <3>3. CASE b + st # 0 /\ ms[st + 1].kind = "call"
      <4>1. st = 0 /\ b # 0 /\ j[b + 1].kind = "call"
        BY <1>11, <1>15, <3>1, <3>3
      <4>2. PICK s : s = BlockStart(j, b)
        OBVIOUS
      <4>3. /\ s \in 0..b /\ (s # 0 => j[s + 1].kind # "call")
            /\ \A x \in 0..b : x = 0 \/ j[x + 1].kind # "call" => x <= s
        BY <1>15, <4>2, SplitPlaces
      <4>4. j[s + 1].kind # "think"
        BY <1>15, <2>1, <4>1, <4>2 DEF Cut
      <4>5. \A x \in (s + 1)..f : j[x + 1].kind = "call"
        <5>1. \A x \in (s + 1)..f : x \in (b + st + 1)..f \/ (x \in 0..b /\ x # 0 /\ ~(x <= s))
          BY <1>15, <2>3, <4>1, <4>3
        <5> QED BY <2>4, <4>3, <5>1
      <4>6. s \in 0..f
        BY <1>15, <2>3, <4>1, <4>3
      <4>7. BlockStart(j, f) = s
        BY <2>3, <4>3, <4>5, <4>6, StartsAt
      <4> QED BY <4>4, <4>7
    <3> QED BY <3>2, <3>3
  <2>6. Cut(j, f)
    BY <1>9, <2>1, <2>3, <2>5 DEF Cut
  <2>7. f \in 1..(Len(j) - 1) /\ b < f
    BY <1>1, <1>15, <2>1, <2>2
  <2> QED BY <1>2, <2>1, <2>2, <2>6, <2>7
<1> QED BY <1>16, <1>17

(***************************************************************************)
(* Records: what they account for, and the context derived from them.      *)
(***************************************************************************)

\* Messages of a conversation are messages, and none is a recalled block.
LEMMA PlainMessages ==
    /\ Seq(Plain) \subseteq Seq(Messages)
    /\ \A m \in Plain : m \in Messages /\ m.kind # "recalled" /\ m.kind # "summary"
    /\ Summary \in Messages /\ Recalled \in Messages
    /\ Summary.kind = "summary" /\ Recalled.kind = "recalled"
<1>1. \A m \in Plain : m \in Messages /\ m.kind # "recalled" /\ m.kind # "summary"
  BY DEF Plain, Messages, Kinds
<1>2. Seq(Plain) \subseteq Seq(Messages)
  <2>1. ASSUME NEW s \in Seq(Plain)
        PROVE  s \in Seq(Messages)
    <3>1. Len(s) \in Nat /\ s \in [1..Len(s) -> Plain]
      BY LenProperties
    <3>2. s \in [1..Len(s) -> Messages]
      BY <1>1, <3>1
    <3> QED BY <3>1, <3>2, SeqDef
  <2> QED BY <2>1
<1>3. /\ Summary \in Messages /\ Recalled \in Messages
      /\ Summary.kind = "summary" /\ Recalled.kind = "recalled"
  BY DEF Summary, Recalled, Messages, Kinds, Msg
<1> QED BY <1>1, <1>2, <1>3

\* The boundary of the last record is where it says.
LEMMA BoundaryIs ==
    ASSUME NEW j \in Seq(Plain), NEW rs \in Seq(CompactionSet), NEW n \in 0..Len(j), Accounted(j, rs, n)
    PROVE  /\ rs = <<>> => Boundary(j, rs) = 0
           /\ rs # <<>> => /\ Len(rs) \in 1..Len(rs)
                           /\ Boundary(j, rs) = rs[Len(rs)].first_kept_index
                           /\ Last(rs) = rs[Len(rs)]
           /\ Boundary(j, rs) \in 0..n
           /\ Boundary(j, rs) = 0 \/ Cut(j, Boundary(j, rs))
<1>1. CASE rs = <<>>
  <2>1. Boundary(j, rs) = 0
    BY <1>1 DEF Boundary
  <2> QED BY <1>1, <2>1
<1>2. CASE rs # <<>>
  <2>1. Len(rs) \in Nat /\ Len(rs) # 0 /\ Len(j) \in Nat
    BY <1>2, EmptySeq, LenProperties
  <2>2. Len(rs) \in 1..Len(rs)
    BY <2>1
  <2>3. rs[Len(rs)] \in CompactionSet
    BY <2>2, ElementOfSeq
  <2>4. PICK f : f = rs[Len(rs)].first_kept_index
    OBVIOUS
  <2>5. f \in Nat /\ f <= n /\ Cut(j, f)
    BY <2>2, <2>3, <2>4 DEF Accounted, CompactionSet
  <2>6. Last(rs) = rs[Len(rs)]
    BY DEF Last
  <2>7. Boundary(j, rs) = Min({f, Len(j)})
    BY <1>2, <2>4, <2>6 DEF Boundary
  <2>8. Boundary(j, rs) = f
    BY <2>1, <2>5, <2>7, Lesser
  <2> QED BY <1>2, <2>2, <2>4, <2>5, <2>6, <2>8
<1> QED BY <1>1, <1>2

\* What is appended to a conversation leaves its records as good.
LEMMA AccountedKept ==
    ASSUME NEW j \in Seq(Plain), NEW j2 \in Seq(Plain), NEW rs \in Seq(CompactionSet),
           NEW n \in Nat, NEW m \in Nat, n <= m, Accounted(j, rs, n),
           \A b \in 0..n : b < Len(j2) => b < Len(j) \/ j2[b + 1].kind = "user",
           \A k \in 1..Len(j) : k <= Len(j2) => j2[k] = j[k]
    PROVE  Accounted(j2, rs, m)
<1>1. Len(j) \in Nat /\ Len(j2) \in Nat
  BY LenProperties
<1>2. SUFFICES ASSUME NEW k \in 1..Len(rs)
               PROVE  /\ rs[k].first_kept_index <= m
                      /\ 1..rs[k].first_kept_index \subseteq rs[k].covers
                      /\ Cut(j2, rs[k].first_kept_index)
  BY DEF Accounted
<1>3. rs[k] \in CompactionSet
  BY ElementOfSeq
<1>4. PICK f : f = rs[k].first_kept_index
  OBVIOUS
<1>5. f \in Nat /\ f <= n /\ 1..f \subseteq rs[k].covers /\ Cut(j, f)
  BY <1>3, <1>4 DEF Accounted, CompactionSet
<1>6. CASE ~(f < Len(j2))
  BY <1>4, <1>5, <1>6 DEF Cut
<1>7. CASE f < Len(j2) /\ j2[f + 1].kind = "user"
  BY <1>4, <1>5, <1>7 DEF Cut
<1>8. CASE f < Len(j2) /\ j2[f + 1].kind # "user"
  <2>1. f < Len(j)
    BY <1>5, <1>8
  <2>2. \A x \in 1..(f + 1) : x \in 1..Len(j) /\ x <= Len(j2)
    BY <1>1, <1>5, <1>8, <2>1
  <2>3. Cut(j2, f)
    BY <1>5, <2>1, <2>2, CutKept
  <2> QED BY <1>4, <1>5, <2>3
<1> QED BY <1>6, <1>7, <1>8

\* A summary written by Fold accounts for all it hides, and keeps the last message.
LEMMA FoldAccounts ==
    ASSUME JournalSizes, JournalTypes, NEW n \in Nat, n <= Len(journal), Len(journal) - 1 <= n,
           Len(journal) <= MaxMessages,
           Accounted(journal, records, n), Foldable(journal), Fold
    PROVE  /\ records' \in Seq(CompactionSet) /\ Len(records') = Len(records) + 1 /\ records' # <<>>
           /\ Accounted(journal, records', n)
<1> USE DEF JournalTypes
<1>1. PICK b : b = Boundary(journal, records)
  OBVIOUS
<1>2. Len(journal) \in Nat /\ Len(records) \in Nat /\ MaxMessages \in Nat /\ n \in 0..Len(journal)
  BY LenProperties DEF JournalSizes
<1>3. b \in 0..n /\ (b = 0 \/ Cut(journal, b))
  BY <1>1, <1>2, BoundaryIs
<1>4. PICK sp : sp = SafeSplit(SubSeq(journal, b + 1, Len(journal)))
  OBVIOUS
<1>5. b + sp > b /\ FirstKept(journal) = b + sp
  BY <1>1, <1>4 DEF Foldable, FirstKept
<1>6. sp > 0
  <2>1. sp \in Nat
    <3>1. PICK ms : ms = SubSeq(journal, b + 1, Len(journal))
      OBVIOUS
    <3>2. Len(ms) \in Nat /\ KeepRecent \in Nat
      BY <1>2, <1>3, <3>1, SubSeqProperties DEF JournalSizes
    <3>3. CASE Len(ms) <= KeepRecent
      BY <1>4, <3>1, <3>3 DEF SafeSplit
    <3>4. CASE ~(Len(ms) <= KeepRecent)
      <4>1. Len(ms) - KeepRecent \in Nat
        BY <3>2, <3>4
      <4>2. PICK from : from = Len(ms) - KeepRecent
        OBVIOUS
      <4>3. PICK sp1 : sp1 = NoResultAt(ms, from)
        OBVIOUS
      <4>4. sp1 \in Nat
        BY <4>1, <4>2, <4>3, SplitPlaces
      <4>5. BlockStart(ms, sp1) \in Nat
        BY <4>4, SplitPlaces
      <4> QED BY <1>4, <3>1, <3>4, <4>2, <4>3, <4>4, <4>5 DEF SafeSplit
    <3> QED BY <3>3, <3>4
  <2> QED BY <1>3, <1>5, <2>1
<1>7. PICK f : f = b + sp
  OBVIOUS
<1>8. f \in 1..(Len(journal) - 1) /\ b < f /\ Cut(journal, f)
  <2>1. b \in 0..Len(journal)
    BY <1>2, <1>3
  <2> QED BY <1>3, <1>4, <1>6, <1>7, <2>1, SplitIsCut
<1>9. PICK c : c = Covered
  OBVIOUS
<1>10. 1..b \subseteq c /\ c \subseteq 1..MaxMessages
  <2>1. CASE records = <<>>
    <3>1. b = 0 /\ c = {}
      BY <1>1, <1>2, <1>9, <2>1, BoundaryIs DEF Covered
    <3> QED BY <3>1
  <2>2. CASE records # <<>>
    <3>1. /\ Len(records) \in 1..Len(records) /\ b = records[Len(records)].first_kept_index
          /\ c = records[Len(records)].covers
      BY <1>1, <1>2, <1>9, <2>2, BoundaryIs DEF Covered
    <3>2. records[Len(records)] \in CompactionSet
      BY <3>1, ElementOfSeq
    <3> QED BY <3>1, <3>2 DEF Accounted, CompactionSet
  <2> QED BY <2>1, <2>2
<1>11. PICK r : r = [first_kept_index |-> f, covers |-> c \cup (b + 1)..f]
  OBVIOUS
<1>12. records' = Append(records, r)
  BY <1>1, <1>5, <1>7, <1>9, <1>11 DEF Fold, SummarizeFrom
<1>13. r \in CompactionSet /\ r.first_kept_index = f /\ 1..f \subseteq r.covers
  <2>1. (b + 1)..f \subseteq 1..MaxMessages /\ f \in Nat \ {0}
    BY <1>2, <1>3, <1>8
  <2>2. 1..f \subseteq 1..b \cup (b + 1)..f
    BY <1>3, <1>8
  <2> QED BY <1>10, <1>11, <2>1, <2>2 DEF CompactionSet
<1>14. /\ records' \in Seq(CompactionSet) /\ Len(records') = Len(records) + 1
       /\ \A k \in 1..Len(records) : records'[k] = records[k]
       /\ records'[Len(records) + 1] = r
  BY <1>12, <1>13, AppendProperties
<1>15. f <= n
  BY <1>2, <1>8
<1>16. Accounted(journal, records', n)
  <2>1. ASSUME NEW k \in 1..Len(records')
        PROVE  /\ records'[k].first_kept_index <= n
               /\ 1..records'[k].first_kept_index \subseteq records'[k].covers
               /\ Cut(journal, records'[k].first_kept_index)
    <3>1. CASE k \in 1..Len(records)
      BY <1>14, <3>1 DEF Accounted
    <3>2. CASE k \notin 1..Len(records)
      <4>1. k = Len(records) + 1
        BY <1>2, <1>14, <3>2
      <4> QED BY <1>8, <1>13, <1>14, <1>15, <4>1
    <3> QED BY <3>1, <3>2
  <2> QED BY <2>1 DEF Accounted
<1>17. records' # <<>>
  BY <1>2, <1>14, EmptySeq
<1> QED BY <1>14, <1>16, <1>17

\* Two sequences of known lengths, one behind the other.
Joins(S, s, n, t, m, u) == s \in Seq(S) /\ n = Len(s) /\ t \in Seq(S) /\ m = Len(t) /\ u = s \o t
LEMMA Joined ==
    ASSUME NEW S, NEW s, NEW n, NEW t, NEW m, NEW u, Joins(S, s, n, t, m, u)
    PROVE  /\ u \in Seq(S) /\ Len(u) = n + m
           /\ \A i \in 1..(n + m) : u[i] = IF i <= n THEN s[i] ELSE t[i - n]
BY ConcatProperties DEF Joins

\* The context derived from a journal whose last message no record folds.
LEMMA DerivedContext ==
    ASSUME NEW j \in Seq(Plain), Len(j) >= 1, NEW rs \in Seq(CompactionSet), Accounted(j, rs, Len(j) - 1)
    PROVE  LET eff == Effective(j, rs) IN
           /\ eff \in Seq(Messages) /\ Len(eff) \in Nat \ {0}
           /\ eff[Len(eff)] = j[Len(j)]
           /\ \A k \in 1..Len(eff) : eff[k].kind # "recalled"
           /\ rs = <<>> => eff = j
<1>1. Len(j) \in Nat /\ Len(j) - 1 \in 0..Len(j) /\ j \in Seq(Messages)
  BY LenProperties, PlainMessages
<1>2. \A k \in 1..Len(j) : j[k] \in Plain /\ j[k] \in Messages /\ j[k].kind # "recalled"
  BY ElementOfSeq, PlainMessages
<1>3. PICK eff : eff = Effective(j, rs)
  OBVIOUS
<1>4. CASE rs = <<>>
  <2>1. eff = j
    BY <1>3, <1>4 DEF Effective
  <2> QED BY <1>1, <1>2, <1>3, <2>1
<1>5. CASE rs # <<>>
  <2>1. PICK b : b = Boundary(j, rs)
    OBVIOUS
  <2>2. b \in 0..(Len(j) - 1) /\ b \in Nat
    BY <1>1, <2>1, BoundaryIs
  <2>3. PICK w : w = SubSeq(j, b + 1, Len(j))
    OBVIOUS
  <2>4. /\ w \in Seq(Messages) /\ Len(w) = Len(j) - b
        /\ \A k \in 1..(Len(j) - b) : w[k] = j[b + k]
    BY <1>1, <1>2, <2>2, <2>3, SubSeqProperties
  <2>5. PICK top : top = <<Summary>>
    OBVIOUS
  <2>6. top \in Seq(Messages) /\ Len(top) = 1 /\ top[1] = Summary
    BY <2>5, PlainMessages
  <2>7. eff = top \o w
    BY <1>3, <1>5, <2>1, <2>3, <2>5 DEF Effective
  <2>8. /\ eff \in Seq(Messages) /\ Len(eff) = Len(j) - b + 1
        /\ \A k \in 1..(Len(j) - b + 1) : eff[k] = IF k <= 1 THEN top[k] ELSE w[k - 1]
    <3>1. PICK m : m = Len(j) - b
      OBVIOUS
    <3>2. /\ eff \in Seq(Messages) /\ Len(eff) = 1 + m
          /\ \A k \in 1..(1 + m) : eff[k] = IF k <= 1 THEN top[k] ELSE w[k - 1]
      <4>1. Joins(Messages, top, 1, w, m, eff)
        BY <2>4, <2>6, <2>7, <3>1 DEF Joins
      <4> QED BY <4>1, Joined
    <3>3. 1 + m = Len(j) - b + 1
      BY <1>1, <2>2, <3>1
    <3> QED BY <3>2, <3>3
  <2>9. eff[Len(eff)] = j[Len(j)]
    <3>1. /\ Len(eff) \in 1..(Len(j) - b + 1) /\ ~(Len(eff) <= 1) /\ Len(eff) - 1 \in 1..(Len(j) - b)
          /\ b + (Len(eff) - 1) = Len(j)
      BY <1>1, <2>2, <2>8
    <3> QED BY <2>4, <2>8, <3>1
  <2>10. ASSUME NEW k \in 1..Len(eff)
         PROVE  eff[k].kind # "recalled"
    <3>1. CASE k <= 1
      <4>1. k = 1 /\ k \in 1..(Len(j) - b + 1)
        BY <2>8, <3>1
      <4> QED BY <2>6, <2>8, <3>1, <4>1, PlainMessages
    <3>2. CASE ~(k <= 1)
      <4>1. k \in 1..(Len(j) - b + 1) /\ k - 1 \in 1..(Len(j) - b) /\ b + (k - 1) \in 1..Len(j)
        BY <1>1, <2>2, <2>8, <3>2
      <4> QED BY <1>2, <2>4, <2>8, <3>2, <4>1
    <3> QED BY <3>1, <3>2
  <2>11. Len(eff) \in Nat \ {0}
    BY <1>1, <2>2, <2>8
  <2> QED BY <1>3, <1>5, <2>8, <2>9, <2>10, <2>11
<1> QED BY <1>4, <1>5

\* The block before the last message, and what the turn added: taking it out
\* leaves the context as it would have been without.
LEMMA BlockComesOut ==
    ASSUME NEW eff \in Seq(Messages), Len(eff) \in Nat \ {0}, NEW new \in Seq(Plain),
           \A k \in 1..Len(eff) : eff[k].kind # "recalled"
    PROVE  /\ Begun(eff, TRUE) \in Seq(Messages)
           /\ WithoutKinds(Begun(eff, TRUE) \o new, {"recalled"}) = eff \o new
<1>1. PICK p : p = Len(eff)
  OBVIOUS
<1>2. p \in Nat /\ p >= 1 /\ p - 1 \in Nat
  BY <1>1
<1>3. \A k \in 1..p : eff[k] \in Messages
  BY <1>1, ElementOfSeq
<1>4. PICK front, block, last :
          front = SubSeq(eff, 1, p - 1) /\ block = <<Recalled>> /\ last = SubSeq(eff, p, p)
  OBVIOUS
<1>5. /\ front \in Seq(Messages) /\ Len(front) = p - 1
      /\ \A k \in 1..(p - 1) : front[k] = eff[k]
  <2>1. \A k \in 1..(p - 1) : eff[k] \in Messages
    BY <1>2, <1>3
  <2>2. front \in Seq(Messages)
    BY <1>2, <1>4, <2>1, SubSeqProperties
  <2>3. Len(front) = p - 1 /\ \A k \in 1..(p - 1) : front[k] = eff[1 + k - 1]
    BY <1>2, <1>4, <2>1, SubSeqProperties
  <2> QED BY <1>2, <2>2, <2>3
<1>6. last \in Seq(Messages) /\ Len(last) = 1 /\ last[1] = eff[p]
  <2>1. \A k \in p..p : eff[k] \in Messages
    BY <1>2, <1>3
  <2> QED BY <1>2, <1>4, <2>1, SubSeqProperties
<1>7. block \in Seq(Messages) /\ Len(block) = 1 /\ block[1] = Recalled
  BY <1>4, PlainMessages
<1>8. PICK two, ctx : two = front \o block /\ ctx = two \o last
  OBVIOUS
<1>9. ctx = Begun(eff, TRUE)
  BY <1>1, <1>4, <1>8 DEF Begun, InsertAt
<1>10. /\ two \in Seq(Messages) /\ Len(two) = p
       /\ \A k \in 1..p : two[k] = IF k <= p - 1 THEN front[k] ELSE block[k - (p - 1)]
  <2>1. PICK q : q = p - 1
    OBVIOUS
  <2>2. /\ two \in Seq(Messages) /\ Len(two) = q + 1
        /\ \A k \in 1..(q + 1) : two[k] = IF k <= q THEN front[k] ELSE block[k - q]
    <3>1. Joins(Messages, front, q, block, 1, two)
      BY <1>5, <1>7, <1>8, <2>1 DEF Joins
    <3> QED BY <3>1, Joined
  <2>3. q + 1 = p
    BY <1>2, <2>1
  <2> QED BY <2>1, <2>2, <2>3
<1>11. /\ ctx \in Seq(Messages) /\ Len(ctx) = p + 1
       /\ \A k \in 1..(p + 1) : ctx[k] = IF k <= p THEN two[k] ELSE last[k - p]
  <2>1. Joins(Messages, two, p, last, 1, ctx)
    BY <1>6, <1>8, <1>10 DEF Joins
  <2> QED BY <2>1, Joined
<1>12. ctx[p] = Recalled /\ ctx[p + 1] = eff[p] /\ \A k \in 1..(p - 1) : ctx[k] = eff[k]
  <2>1. ctx[p] = two[p] /\ two[p] = block[1]
    <3>1. p \in 1..p /\ p \in 1..(p + 1) /\ p <= p /\ ~(p <= p - 1) /\ p - (p - 1) = 1
      BY <1>2
    <3> QED BY <1>10, <1>11, <3>1
  <2>2. ctx[p + 1] = last[1]
    <3>1. p + 1 \in 1..(p + 1) /\ ~(p + 1 <= p) /\ (p + 1) - p = 1
      BY <1>2
    <3> QED BY <1>11, <3>1
  <2>3. ASSUME NEW k \in 1..(p - 1)
        PROVE  ctx[k] = eff[k]
    <3>1. k \in 1..p /\ k \in 1..(p + 1) /\ k <= p /\ k <= p - 1
      BY <1>2
    <3> QED BY <1>5, <1>10, <1>11, <3>1
  <2> QED BY <1>6, <1>7, <2>1, <2>2, <2>3
<1>13. PICK ms, rest, n : ms = ctx \o new /\ rest = eff \o new /\ n = Len(new)
  OBVIOUS
<1>14. n \in Nat /\ new \in Seq(Messages) /\ \A k \in 1..n : new[k].kind # "recalled"
  BY <1>13, LenProperties, ElementOfSeq, PlainMessages
<1>15. /\ ms \in Seq(Messages) /\ Len(ms) = p + 1 + n
       /\ \A k \in 1..(p + 1 + n) : ms[k] = IF k <= p + 1 THEN ctx[k] ELSE new[k - (p + 1)]
  <2>1. Joins(Messages, ctx, p + 1, new, n, ms)
    BY <1>11, <1>13, <1>14 DEF Joins
  <2> QED BY <2>1, Joined
<1>16. /\ rest \in Seq(Messages) /\ Len(rest) = p + n
       /\ \A k \in 1..(p + n) : rest[k] = IF k <= p THEN eff[k] ELSE new[k - p]
  <2>1. Joins(Messages, eff, p, new, n, rest)
    BY <1>1, <1>13, <1>14 DEF Joins
  <2> QED BY <2>1, Joined
<1>17. p \in 1..Len(ms) /\ ms[p].kind \in {"recalled"}
  <2>1. p \in 1..(p + 1 + n) /\ p <= p + 1
    BY <1>2, <1>14
  <2> QED BY <1>12, <1>15, <2>1, PlainMessages
<1>18. ASSUME NEW k \in 1..Len(ms), k # p
       PROVE  ms[k].kind \notin {"recalled"}
  <2>1. k \in 1..(p + 1 + n)
    BY <1>15
  <2>2. CASE k <= p - 1
    <3>1. k <= p + 1 /\ k \in 1..(p - 1) /\ k \in 1..Len(eff)
      BY <1>1, <1>2, <2>1, <2>2
    <3>2. ms[k] = eff[k]
      BY <1>12, <1>15, <2>1, <3>1
    <3> QED BY <3>1, <3>2
  <2>3. CASE k = p + 1
    <3>1. k <= p + 1 /\ p \in 1..Len(eff)
      BY <1>1, <1>2, <2>1, <2>3
    <3>2. ms[k] = eff[p]
      BY <1>12, <1>15, <2>1, <2>3, <3>1
    <3> QED BY <3>1, <3>2
  <2>4. CASE k > p + 1
    <3>1. k - (p + 1) \in 1..n /\ ~(k <= p + 1)
      BY <1>2, <1>14, <2>1, <2>4
    <3> QED BY <1>14, <1>15, <2>1, <3>1
  <2> QED BY <1>2, <1>18, <2>1, <2>2, <2>3, <2>4
<1>19. ASSUME NEW k \in 1..Len(rest)
       PROVE  rest[k] = IF k < p THEN ms[k] ELSE ms[k + 1]
  <2>1. k \in 1..(p + n) /\ k \in 1..(p + 1 + n) /\ k + 1 \in 1..(p + 1 + n)
    BY <1>2, <1>14, <1>16
  <2>2. CASE k < p
    <3>1. k <= p + 1 /\ k <= p /\ k \in 1..(p - 1)
      BY <1>2, <2>1, <2>2
    <3>2. ms[k] = ctx[k] /\ rest[k] = eff[k]
      BY <1>15, <1>16, <2>1, <3>1
    <3> QED BY <1>12, <2>2, <3>1, <3>2
  <2>3. CASE k = p
    <3>1. k + 1 <= p + 1 /\ k <= p /\ ~(k < p)
      BY <1>2, <2>1, <2>3
    <3>2. ms[k + 1] = ctx[k + 1] /\ rest[k] = eff[k]
      BY <1>15, <1>16, <2>1, <3>1
    <3> QED BY <1>12, <2>3, <3>1, <3>2
  <2>4. CASE k > p
    <3>1. ~(k <= p) /\ ~(k + 1 <= p + 1) /\ (k + 1) - (p + 1) = k - p /\ ~(k < p)
      BY <1>2, <2>1, <2>4
    <3> QED BY <1>15, <1>16, <2>1, <3>1
  <2> QED BY <1>2, <2>1, <2>2, <2>3, <2>4
<1>20. Len(rest) = Len(ms) - 1
  BY <1>2, <1>14, <1>15, <1>16
<1>21. WithoutKinds(ms, {"recalled"}) = rest
  <2>1. \A k \in 1..Len(ms) : k # p => ms[k].kind \notin {"recalled"}
    BY <1>18
  <2>2. \A k \in 1..Len(rest) : rest[k] = IF k < p THEN ms[k] ELSE ms[k + 1]
    BY <1>19
  <2>3. ms \in Seq(Messages) /\ rest \in Seq(Messages)
    BY <1>15, <1>16
  <2> QED BY <1>17, <1>20, <2>1, <2>2, <2>3, WithoutOne
<1> QED BY <1>9, <1>11, <1>13, <1>21

(***************************************************************************)
(* The invariant, operation by operation.                                  *)
(***************************************************************************)

LEMMA JournalStarts == ASSUME JournalSizes, JournalInit PROVE JournalInv
<1>1. Len(records) = 0 /\ Len(journal) = 0 /\ Len(said) = 0 /\ Len(context) = 0
  BY EmptySeq DEF JournalInit
<1>2. /\ <<>> \in Seq(Plain) /\ <<>> \in Seq(CompactionSet) /\ <<>> \in Seq(Messages)
  BY EmptySeq
<1>3. JournalTypes
  <2>1. MaxMessages \in Nat
    BY DEF JournalSizes
  <2>2. captured \in [got : Seq(Messages), ought : Seq(Messages)]
    BY <1>2 DEF JournalInit, NoCapture
  <2>3. /\ journal \in Seq(Plain) /\ said \in Seq(Plain) /\ records \in Seq(CompactionSet)
        /\ context \in Seq(Messages) /\ known \in 0..Len(records)
    <3>1. known = 0 /\ 0 \in 0..0
      BY DEF JournalInit
    <3> QED BY <1>1, <1>2, <3>1 DEF JournalInit
  <2>4. /\ stage \in {"idle", "compacting", "running"} /\ injected \in BOOLEAN
        /\ held \in Nat /\ turnStart \in Nat /\ opened \in Nat
    BY DEF JournalInit, None
  <2> QED BY <1>1, <2>1, <2>2, <2>3, <2>4 DEF JournalTypes
<1>4. AtRest
  <2>1. 1..Len(records) = {}
    BY <1>1
  <2> QED BY <2>1 DEF AtRest, Accounted, JournalInit
<1> QED BY <1>3, <1>4 DEF JournalInv, JournalInit, NoCapture

LEMMA JournalStartTurn == ASSUME JournalSizes, JournalInv, OpenTurn PROVE JournalInv'
<1> USE DEF JournalTypes
<1>1. PICK u : u = Msg("user", Len(said) + 1)
  OBVIOUS
<1>2. /\ JournalTypes /\ AtRest /\ Len(said) \in Nat /\ MaxMessages \in Nat
      /\ Len(said) + 1 <= MaxMessages /\ stage' = "compacting"
      /\ journal' = Append(journal, u) /\ said' = Append(said, u)
      /\ opened' = Len(said) /\ known' = Len(records) /\ captured' = NoCapture
      /\ UNCHANGED <<records, context, held, injected, turnStart>>
  BY <1>1, LenProperties DEF JournalInv, OpenTurn, Room, JournalSizes, runVars
<1>3. u \in Plain /\ u.kind = "user"
  BY <1>1, <1>2 DEF Plain, Msg
<1>4. journal = said /\ Accounted(journal, records, Len(journal))
  BY <1>2 DEF AtRest
<1>5. /\ journal' \in Seq(Plain) /\ Len(journal') = Len(journal) + 1
      /\ (\A k \in 1..Len(journal) : journal'[k] = journal[k]) /\ journal'[Len(journal) + 1] = u
      /\ said' = journal'
  BY <1>2, <1>3, <1>4, AppendProperties
<1>6. Accounted(journal', records, Len(journal))
  <2>1. PICK n, j2 : n = Len(journal) /\ j2 = journal'
    OBVIOUS
  <2>2. n \in Nat /\ n <= n
    BY <1>2, <1>4, <2>1
  <2>3. \A b \in 0..n : b < Len(j2) => b < Len(journal) \/ j2[b + 1].kind = "user"
    <3>1. \A b \in 0..n : b < n \/ b = n
      BY <2>2
    <3> QED BY <1>3, <1>5, <2>1, <3>1
  <2>4. \A k \in 1..Len(journal) : k <= Len(j2) => j2[k] = journal[k]
    BY <1>5, <2>1
  <2>5. Accounted(j2, records, n)
    <3>1. Accounted(journal, records, n) /\ j2 \in Seq(Plain)
      BY <1>4, <1>5, <2>1
    <3> QED BY <1>2, <2>2, <2>3, <2>4, <3>1, AccountedKept
  <2> QED BY <2>1, <2>5
<1>7. TurnOpen'
  <2>1. Len(journal') - 1 = Len(journal)
    BY <1>2, <1>4, <1>5
  <2> QED BY <1>2, <1>4, <1>5, <1>6, <2>1 DEF TurnOpen
<1>8. JournalTypes'
  <2>1. NoCapture \in [got : Seq(Messages), ought : Seq(Messages)]
    BY EmptySeq DEF NoCapture
  <2>2. Len(records) \in Nat /\ Len(said') <= MaxMessages /\ Len(records) \in 0..Len(records)
    BY <1>2, <1>4, <1>5, LenProperties
  <2> QED BY <1>2, <1>5, <2>1, <2>2
<1>9. said'[Len(said')].kind = "user"
  BY <1>3, <1>4, <1>5
<1> QED BY <1>2, <1>5, <1>7, <1>8, <1>9 DEF JournalInv, NoCapture

LEMMA JournalEnterTurn == ASSUME JournalSizes, JournalInv, EnterTurn PROVE JournalInv'
<1> USE DEF JournalTypes
<1>1. /\ JournalTypes /\ TurnOpen /\ journal = said /\ said[Len(said)].kind = "user"
      /\ stage' = "running" /\ UNCHANGED <<journal, known, said, opened, captured>>
      /\ captured.got = captured.ought
  BY DEF JournalInv, EnterTurn
<1>2. Len(journal) \in Nat /\ Len(journal) >= 1 /\ Len(journal) - 1 \in Nat /\ opened = Len(journal) - 1
      /\ Len(records) \in Nat /\ MaxMessages \in Nat
  BY <1>1, LenProperties DEF TurnOpen, JournalSizes
<1>3. Accounted(journal, records, Len(journal) - 1)
  BY <1>1 DEF TurnOpen
<1>4. /\ records' \in Seq(CompactionSet) /\ Len(records') \in Nat /\ Len(records) <= Len(records')
      /\ Accounted(journal, records', Len(journal) - 1)
  <2>1. CASE Foldable(journal) /\ Fold
    <3>1. PICK n : n = Len(journal) - 1
      OBVIOUS
    <3>2. n \in Nat /\ n <= Len(journal) /\ Len(journal) - 1 <= n /\ Len(journal) <= MaxMessages
      BY <1>1, <1>2, <3>1
    <3>3. /\ records' \in Seq(CompactionSet) /\ Len(records') = Len(records) + 1
          /\ Accounted(journal, records', n)
      BY <1>1, <1>3, <2>1, <3>1, <3>2, FoldAccounts
    <3> QED BY <1>2, <3>1, <3>3
  <2>2. CASE UNCHANGED records
    BY <1>1, <1>2, <1>3, <2>2
  <2> QED BY <2>1, <2>2 DEF EnterTurn
<1>5. PICK eff : eff = Effective(journal, records')
  OBVIOUS
<1>6. /\ eff \in Seq(Messages) /\ Len(eff) \in Nat \ {0}
      /\ eff[Len(eff)] = journal[Len(journal)]
      /\ \A k \in 1..Len(eff) : eff[k].kind # "recalled"
  BY <1>1, <1>2, <1>4, <1>5, DerivedContext
<1>7. LastUser(eff) = Len(eff)
  <2> DEFINE S == {i \in 1..Len(eff) : eff[i].kind = "user"}
  <2>1. S \in SUBSET (0..Len(eff)) /\ Len(eff) \in S /\ Len(eff) \in Nat /\ \A x \in S : x <= Len(eff)
    BY <1>1, <1>6
  <2>2. LastUser(eff) = Max(S)
    BY DEF LastUser, Is
  <2> HIDE DEF S
  <2>3. Max(S) \in S /\ \A x \in S : x <= Max(S)
    BY <2>1, Greatest
  <2>4. PICK m : m = Max(S)
    OBVIOUS
  <2>5. m \in 0..Len(eff) /\ Len(eff) <= m
    BY <2>1, <2>3, <2>4
  <2> QED BY <2>1, <2>2, <2>4, <2>5
<1>8. /\ injected' \in BOOLEAN /\ turnStart' = Len(eff) - 1
      /\ held' = (IF records' = <<>> THEN 0 ELSE Len(eff))
      /\ context' = Begun(eff, injected')
  BY <1>1, <1>5, <1>7 DEF EnterTurn, TurnStart, HeldLen, None, Begun
<1>9. Begun(eff, injected') \in Seq(Messages)
  <2>1. Begun(eff, TRUE) \in Seq(Messages)
    <3>1. <<>> \in Seq(Plain)
      BY EmptySeq
    <3> QED BY <1>6, <3>1, BlockComesOut
  <2>2. Begun(eff, FALSE) \in Seq(Messages)
    BY <1>6 DEF Begun
  <2> QED BY <1>8, <2>1, <2>2
<1>10. JournalTypes'
  <2>1. known \in 0..Len(records')
    BY <1>1, <1>2, <1>4
  <2>2. held' \in Nat /\ turnStart' \in Nat
    BY <1>6, <1>8
  <2> QED BY <1>1, <1>4, <1>8, <1>9, <2>1, <2>2
<1>11. UnderWay'
  <2>1. TurnOpen'
    BY <1>1, <1>2, <1>4 DEF TurnOpen
  <2>2. Effective(journal', records') = eff
    BY <1>1, <1>5
  <2>3. said = journal \o <<>> /\ Begun(eff, injected') = Begun(eff, injected') \o <<>> /\ <<>> \in Seq(Plain)
    BY <1>1, <1>9, ConcatEmptySeq, EmptySeq
  <2>4. \E new \in Seq(Plain) : said' = journal' \o new /\ context' = Begun(eff, injected') \o new
    BY <1>1, <1>8, <2>3
  <2>5. (Effective(journal, records))' = eff
    BY <2>2
  <2> QED BY <1>8, <2>1, <2>4, <2>5 DEF UnderWay
<1> QED BY <1>1, <1>10, <1>11 DEF JournalInv

LEMMA JournalSays ==
    ASSUME JournalInv, NEW ms \in Seq(Plain), Says(ms)
    PROVE  JournalInv'
<1> USE DEF JournalTypes
<1>1. /\ JournalTypes /\ stage = "running" /\ UnderWay
      /\ context' = context \o ms /\ said' = said \o ms /\ Len(said) + Len(ms) <= MaxMessages
      /\ UNCHANGED <<journal, records, stage, held, injected, turnStart, known, opened, captured>>
      /\ captured.got = captured.ought
  BY DEF JournalInv, Says, Room
<1>2. said' \in Seq(Plain) /\ Len(said') <= MaxMessages
  BY <1>1, ConcatProperties
<1>3. context' \in Seq(Messages)
  BY <1>1, ConcatProperties, PlainMessages
<1>4. JournalTypes'
  BY <1>1, <1>2, <1>3
<1>5. PICK eff : eff = Effective(journal, records)
  OBVIOUS
<1>6. PICK new \in Seq(Plain) : said = journal \o new /\ context = Begun(eff, injected) \o new
  BY <1>1, <1>5 DEF UnderWay
<1>7. new \o ms \in Seq(Plain)
  BY ConcatProperties
<1>8. said' = journal \o (new \o ms)
  <2>1. (journal \o new) \o ms = journal \o (new \o ms)
    <3>1. PICK j : j = journal
      OBVIOUS
    <3>2. j \in Seq(Plain)
      BY <1>1, <3>1
    <3>3. (j \o new) \o ms = j \o (new \o ms)
      BY <3>2, ConcatAssociative
    <3> QED BY <3>1, <3>3
  <2> QED BY <1>1, <1>6, <2>1
<1>9. context' = Begun(eff, injected) \o (new \o ms)
  <2>1. Begun(eff, injected) \in Seq(Messages)
    <3>1. Len(journal) >= 1 /\ Accounted(journal, records, Len(journal) - 1)
      <4>1. Len(journal) = opened + 1 /\ opened \in Nat
        BY <1>1 DEF UnderWay, TurnOpen
      <4> QED BY <1>1, <4>1 DEF UnderWay, TurnOpen
    <3>2. /\ eff \in Seq(Messages) /\ Len(eff) \in Nat \ {0}
          /\ \A k \in 1..Len(eff) : eff[k].kind # "recalled"
      BY <1>1, <1>5, <3>1, DerivedContext
    <3>3. Begun(eff, TRUE) \in Seq(Messages)
      BY <3>2, BlockComesOut
    <3>4. Begun(eff, FALSE) \in Seq(Messages)
      BY <3>2 DEF Begun
    <3> QED BY <1>1, <3>3, <3>4
  <2>2. PICK ctx : ctx = Begun(eff, injected)
    OBVIOUS
  <2>3. (ctx \o new) \o ms = ctx \o (new \o ms)
    <3>1. ctx \in Seq(Messages) /\ new \in Seq(Messages) /\ ms \in Seq(Messages)
      BY <2>1, <2>2, PlainMessages
    <3> QED BY <3>1, ConcatAssociative
  <2> QED BY <1>1, <1>6, <2>2, <2>3
<1>10. (Effective(journal, records))' = eff
  BY <1>1, <1>5
<1>11. UnderWay'
  <2>1. TurnOpen'
    BY <1>1 DEF UnderWay, TurnOpen
  <2>2. turnStart = Len(eff) - 1 /\ held = IF records = <<>> THEN 0 ELSE Len(eff)
    BY <1>1, <1>5 DEF UnderWay
  <2>3. \E more \in Seq(Plain) : said' = journal' \o more /\ context' = Begun(eff, injected') \o more
    BY <1>1, <1>7, <1>8, <1>9
  <2> QED BY <1>1, <1>10, <2>1, <2>2, <2>3 DEF UnderWay
<1> QED BY <1>1, <1>4, <1>11 DEF JournalInv

LEMMA JournalModelStep ==
    ASSUME JournalSizes, JournalInv, SayText \/ CallTools \/ TakeMailbox
    PROVE  JournalInv'
<1>1. PICK m : m = Len(said) + 1
  OBVIOUS
<1>2. Len(said) \in Nat /\ m \in Nat
  BY <1>1, LenProperties DEF JournalInv, JournalTypes
<1>3. ASSUME NEW kind \in {"user", "text", "think"}
      PROVE  <<Msg(kind, m)>> \in Seq(Plain)
  <2>1. Msg(kind, m) \in Plain
    BY <1>2 DEF Msg, Plain
  <2> QED BY <2>1
<1>4. CASE SayText
  BY <1>1, <1>3, <1>4, JournalSays DEF SayText
<1>5. CASE TakeMailbox
  BY <1>1, <1>3, <1>5, JournalSays DEF TakeMailbox
<1>6. CASE CallTools
  <2> DEFINE calls(n, kind) == [k \in 1..n |-> Msg(kind, Len(said) + k)]
             front(thinks) == IF thinks THEN <<Msg("think", Len(said) + 1)>> ELSE <<>>
  <2>1. PICK n \in 1..MaxBatch, thinks \in Reasons :
          Says(front(thinks) \o calls(n, "call") \o calls(n, "result"))
    BY <1>6 DEF CallTools
  <2>2. front(thinks) \in Seq(Plain)
    BY <1>1, <1>3, EmptySeq
  <2>3. ASSUME NEW kind \in {"call", "result"}
        PROVE  calls(n, kind) \in Seq(Plain)
    <3>1. n \in Nat
      BY DEF JournalSizes
    <3>2. \A k \in 1..n : Msg(kind, Len(said) + k) \in Plain
      BY <1>2, <3>1 DEF Msg, Plain
    <3>3. calls(n, kind) \in [1..n -> Plain]
      BY <3>2
    <3> QED BY <3>1, <3>3, SeqDef
  <2>4. PICK a, b, c : a = front(thinks) /\ b = calls(n, "call") /\ c = calls(n, "result")
    OBVIOUS
  <2>5. a \in Seq(Plain) /\ b \in Seq(Plain) /\ c \in Seq(Plain) /\ Says(a \o b \o c)
    BY <2>1, <2>2, <2>3, <2>4
  <2>6. a \o b \o c \in Seq(Plain)
    BY <2>5, ConcatProperties
  <2> QED BY <2>5, <2>6, JournalSays
<1> QED BY <1>4, <1>5, <1>6

LEMMA JournalEndTurn == ASSUME JournalSizes, JournalInv, CloseTurn PROVE JournalInv'
<1> USE DEF JournalTypes
<1>1. /\ JournalTypes /\ UnderWay /\ TurnOpen /\ stage' = "idle"
      /\ context' = <<>> /\ held' = 0 /\ injected' = FALSE /\ turnStart' = 0 /\ known' = 0
      /\ UNCHANGED <<records, said, opened>>
  BY DEF JournalInv, CloseTurn, UnderWay, None
<1>2. PICK eff : eff = Effective(journal, records)
  OBVIOUS
<1>3. PICK new \in Seq(Plain) : said = journal \o new /\ context = Begun(eff, injected) \o new
  BY <1>1, <1>2 DEF UnderWay
<1>4. Len(journal) \in Nat /\ Len(journal) >= 1 /\ opened + 1 = Len(journal)
      /\ Accounted(journal, records, Len(journal) - 1)
  BY <1>1, LenProperties DEF TurnOpen
<1>5. /\ eff \in Seq(Messages) /\ Len(eff) \in Nat \ {0}
      /\ eff[Len(eff)] = journal[Len(journal)]
      /\ (\A k \in 1..Len(eff) : eff[k].kind # "recalled")
      /\ records = <<>> => eff = journal
  BY <1>1, <1>2, <1>4, DerivedContext
<1>6. turnStart + 1 = Len(eff) /\ held = IF records = <<>> THEN 0 ELSE Len(eff)
  BY <1>1, <1>2, <1>5 DEF UnderWay
<1>7. Stripped(context) = eff \o new
  <2>1. CASE injected
    <3>1. context = Begun(eff, TRUE) \o new
      BY <1>1, <1>3, <2>1
    <3>2. WithoutKinds(Begun(eff, TRUE) \o new, {"recalled"}) = eff \o new
      BY <1>5, BlockComesOut
    <3> QED BY <2>1, <3>1, <3>2 DEF Stripped
  <2>2. CASE ~injected
    BY <1>3, <2>2 DEF Stripped, Begun
  <2> QED BY <2>1, <2>2
<1>8. PICK ctx : ctx = eff \o new
  OBVIOUS
<1>9. /\ SubSeq(ctx, Len(eff) + 1, Len(ctx)) = new
      /\ SubSeq(ctx, Len(eff), Len(ctx)) = <<eff[Len(eff)]>> \o new
  <2>1. new \in Seq(Messages) /\ Len(eff) >= 1
    BY <1>5, PlainMessages
  <2> QED BY <1>5, <1>8, <2>1, Appended
<1>10. SubSeq(said, Len(journal), Len(said)) = <<journal[Len(journal)]>> \o new
  BY <1>1, <1>3, <1>4, Appended
<1>11. journal' = said
  <2>1. journal' = Restored(ctx)
    BY <1>7, <1>8 DEF CloseTurn
  <2>2. CASE records = <<>>
    BY <1>3, <1>5, <1>6, <1>8, <2>1, <2>2 DEF Restored, None
  <2>3. CASE records # <<>>
    <3>1. held = Len(eff) /\ held # 0
      BY <1>5, <1>6, <2>3
    <3> QED BY <1>3, <1>9, <2>1, <3>1 DEF Restored, None
  <2> QED BY <2>2, <2>3
<1>12. PICK turn : turn = <<journal[Len(journal)]>> \o new
  OBVIOUS
<1>13. captured' = [got |-> Speech(turn), ought |-> Speech(turn)]
  BY <1>4, <1>5, <1>6, <1>7, <1>8, <1>9, <1>10, <1>12 DEF CloseTurn
<1>14. captured' \in [got : Seq(Messages), ought : Seq(Messages)] /\ captured'.got = captured'.ought
  <2>1. turn \in Seq(Messages)
    <3>1. journal[Len(journal)] \in Plain
      BY <1>1, <1>4, ElementOfSeq
    <3>2. <<journal[Len(journal)]>> \in Seq(Plain)
      BY <3>1
    <3>3. turn \in Seq(Plain)
      BY <1>12, <3>2, ConcatProperties
    <3> QED BY <3>3, PlainMessages
  <2>2. Speech(turn) \in Seq(Messages)
    BY <2>1, WithoutTyped DEF Speech
  <2>3. PICK sp : sp = Speech(turn)
    OBVIOUS
  <2> QED BY <1>13, <2>2, <2>3
<1>15. JournalTypes'
  <2>1. Len(records) \in Nat /\ 0 \in 0..Len(records) /\ <<>> \in Seq(Messages)
    BY <1>1, LenProperties, EmptySeq
  <2> QED BY <1>1, <1>11, <1>14, <2>1
<1>16. AtRest'
  <2>1. Len(said) = Len(journal) + Len(new) /\ Len(new) \in Nat
        /\ \A k \in 1..Len(journal) : said[k] = journal[k]
    BY <1>1, <1>3, <1>4, ConcatProperties, LenProperties
  <2>2. PICK n, m : n = Len(journal) - 1 /\ m = Len(said)
    OBVIOUS
  <2>3. n \in Nat /\ m \in Nat /\ n <= m /\ Accounted(journal, records, n)
        /\ \A b \in 0..n : b < Len(journal)
    BY <1>4, <2>1, <2>2
  <2>4. \A k \in 1..Len(journal) : k <= Len(said) => said[k] = journal[k]
    BY <2>1
  <2>5. \A b \in 0..n : b < Len(said) => b < Len(journal) \/ said[b + 1].kind = "user"
    BY <2>3
  <2>6. Accounted(said, records, m)
    BY <1>1, <2>3, <2>4, <2>5, AccountedKept
  <2> QED BY <1>1, <1>11, <2>2, <2>6 DEF AtRest
<1> QED BY <1>1, <1>14, <1>15, <1>16 DEF JournalInv

LEMMA JournalCompactNow == ASSUME JournalSizes, JournalInv, CompactNow PROVE JournalInv'
<1> USE DEF JournalTypes
<1>1. /\ JournalTypes /\ AtRest /\ stage = "idle" /\ Foldable(journal) /\ Fold
      /\ UNCHANGED <<journal, stage, context, held, injected, turnStart, known, said, opened, captured>>
      /\ captured.got = captured.ought
  BY DEF JournalInv, CompactNow, runVars
<1>2. PICK n : n = Len(journal)
  OBVIOUS
<1>3. n \in Nat /\ n <= Len(journal) /\ Len(journal) - 1 <= n /\ Len(journal) <= MaxMessages
      /\ Accounted(journal, records, n) /\ Len(records) \in Nat
  BY <1>1, <1>2, LenProperties DEF AtRest
<1>4. /\ records' \in Seq(CompactionSet) /\ Len(records') = Len(records) + 1
      /\ Accounted(journal, records', n)
  BY <1>1, <1>3, FoldAccounts
<1>5. JournalTypes'
  <2>1. known \in 0..Len(records')
    BY <1>1, <1>3, <1>4
  <2> QED BY <1>1, <1>4, <2>1
<1>6. AtRest'
  BY <1>1, <1>2, <1>4 DEF AtRest
<1> QED BY <1>1, <1>5, <1>6 DEF JournalInv

LEMMA JournalReset == ASSUME JournalSizes, JournalInv, Reset PROVE JournalInv'
<1> USE DEF JournalTypes
<1>1. /\ JournalTypes /\ stage = "idle" /\ journal' = <<>> /\ records' = <<>> /\ said' = <<>>
      /\ opened' = 0 /\ captured' = NoCapture
      /\ UNCHANGED <<stage, context, held, injected, turnStart, known>> /\ known = 0
  BY DEF JournalInv, Reset, ResetRecords, runVars, AtRest
<1>2. Len(<<>>) = 0 /\ <<>> \in Seq(Plain) /\ <<>> \in Seq(CompactionSet) /\ <<>> \in Seq(Messages)
  BY EmptySeq
<1>3. JournalTypes'
  <2>1. MaxMessages \in Nat
    BY DEF JournalSizes
  <2>2. NoCapture \in [got : Seq(Messages), ought : Seq(Messages)]
    BY <1>2 DEF NoCapture
  <2>3. known' \in 0..Len(records') /\ Len(said') <= MaxMessages
    <3>1. 0 \in 0..0 /\ 0 <= MaxMessages
      BY <2>1
    <3> QED BY <1>1, <1>2, <3>1
  <2> QED BY <1>1, <1>2, <2>2, <2>3
<1>4. AtRest'
  <2>1. 1..Len(records') = {}
    BY <1>1, <1>2
  <2> QED BY <1>1, <2>1 DEF AtRest, Accounted
<1> QED BY <1>1, <1>3, <1>4 DEF JournalInv, NoCapture

LEMMA JournalRestart == ASSUME JournalSizes, JournalInv, Restart PROVE JournalInv'
<1> USE DEF JournalTypes
<1>1. /\ JournalTypes /\ stage' = "idle"
      /\ context' = <<>> /\ held' = 0 /\ injected' = FALSE /\ turnStart' = 0 /\ known' = 0
      /\ opened' = 0 /\ captured' = NoCapture
  BY DEF JournalInv, Restart, None
<1>2. TurnOpen
  BY DEF JournalInv, Restart, UnderWay
<1>3. PICK k \in {Len(journal) - 1, Len(journal)} :
          journal' = SubSeq(journal, 1, k) /\ said' = SubSeq(journal, 1, k)
  BY DEF Restart
<1>4. PICK m \in {known, Len(records)} : records' = SubSeq(records, 1, m)
  BY DEF Restart
<1>5. /\ Len(journal) \in Nat /\ Len(journal) >= 1 /\ k \in Nat /\ k <= Len(journal)
      /\ Len(journal) - 1 <= k /\ Len(journal) - 1 \in Nat
      /\ m \in Nat /\ m <= Len(records) /\ Len(records) \in Nat
  BY <1>1, <1>2, LenProperties DEF TurnOpen
<1>6. /\ journal' \in Seq(Plain) /\ Len(journal') = k
      /\ \A i \in 1..k : journal'[i] = journal[i]
  <2>1. \A i \in 1..k : journal[i] \in Plain
    BY <1>1, <1>5, ElementOfSeq
  <2>2. journal' \in Seq(Plain)
    BY <1>3, <1>5, <2>1, SubSeqProperties
  <2>3. Len(journal') = k /\ \A i \in 1..k : journal'[i] = journal[1 + i - 1]
    BY <1>3, <1>5, <2>1, SubSeqProperties
  <2> QED BY <1>5, <2>2, <2>3
<1>7. /\ records' \in Seq(CompactionSet) /\ Len(records') = m
      /\ \A i \in 1..m : records'[i] = records[i]
  <2>1. \A i \in 1..m : records[i] \in CompactionSet
    BY <1>1, <1>5, ElementOfSeq
  <2>2. records' \in Seq(CompactionSet)
    BY <1>4, <1>5, <2>1, SubSeqProperties
  <2>3. Len(records') = m /\ \A i \in 1..m : records'[i] = records[1 + i - 1]
    BY <1>4, <1>5, <2>1, SubSeqProperties
  <2> QED BY <1>5, <2>2, <2>3
<1>8. Accounted(journal, records', Len(journal) - 1)
  <2>1. 1..m \subseteq 1..Len(records)
    BY <1>5
  <2> QED BY <1>2, <1>7, <2>1 DEF TurnOpen, Accounted
<1>9. Accounted(journal', records', k)
  <2>1. PICK n, j2, rs : n = Len(journal) - 1 /\ j2 = journal' /\ rs = records'
    OBVIOUS
  <2>2. n \in Nat /\ n <= k /\ j2 \in Seq(Plain) /\ rs \in Seq(CompactionSet) /\ Accounted(journal, rs, n)
    BY <1>5, <1>6, <1>7, <1>8, <2>1
  <2>3. \A b \in 0..n : b < Len(j2) => b < Len(journal) \/ j2[b + 1].kind = "user"
    BY <1>5, <2>1
  <2>4. \A i \in 1..Len(journal) : i <= Len(j2) => j2[i] = journal[i]
    BY <1>5, <1>6, <2>1
  <2>5. Accounted(j2, rs, k)
    BY <1>1, <1>5, <2>2, <2>3, <2>4, AccountedKept
  <2> QED BY <2>1, <2>5
<1>10. said' = journal' /\ Len(said') <= MaxMessages
  <2>1. Len(journal) <= Len(said)
    <3>1. CASE stage = "compacting"
      BY <1>5, <3>1 DEF JournalInv
    <3>2. CASE stage = "running"
      <4>1. PICK new \in Seq(Plain) : said = journal \o new
        BY <3>2 DEF JournalInv, UnderWay
      <4>2. Len(said) = Len(journal) + Len(new) /\ Len(new) \in Nat
        BY <1>1, <4>1, ConcatProperties, LenProperties
      <4> QED BY <1>5, <4>2
    <3> QED BY <1>1, <3>1, <3>2 DEF Restart
  <2>2. Len(said) \in Nat /\ MaxMessages \in Nat /\ Len(said) <= MaxMessages
    BY <1>1, LenProperties DEF JournalSizes
  <2>3. k <= MaxMessages
    BY <1>5, <2>1, <2>2
  <2> QED BY <1>3, <1>6, <2>3
<1>11. JournalTypes'
  <2>1. NoCapture \in [got : Seq(Messages), ought : Seq(Messages)] /\ <<>> \in Seq(Messages)
    BY EmptySeq DEF NoCapture
  <2>2. 0 \in 0..Len(records')
    BY <1>5, <1>7
  <2> QED BY <1>1, <1>6, <1>7, <1>10, <2>1, <2>2
<1>12. AtRest'
  BY <1>1, <1>6, <1>9, <1>10 DEF AtRest
<1> QED BY <1>1, <1>11, <1>12 DEF JournalInv, NoCapture

LEMMA JournalSteps == ASSUME JournalSizes, JournalInv, [JournalNext]_journalVars PROVE JournalInv'
<1>1. CASE UNCHANGED journalVars
  <2>1. UNCHANGED <<journal, records, stage, context, held, injected, turnStart, known, said, opened, captured>>
    BY <1>1 DEF journalVars
  <2>2. JournalTypes' <=> JournalTypes
    BY <2>1 DEF JournalTypes
  <2>3. AtRest' <=> AtRest
    BY <2>1 DEF AtRest
  <2>4. TurnOpen' <=> TurnOpen
    BY <2>1 DEF TurnOpen
  <2>5. UnderWay' <=> UnderWay
    <3>1. (Effective(journal, records))' = Effective(journal, records)
      BY <2>1
    <3> QED BY <2>1, <2>4, <3>1 DEF UnderWay
  <2> QED BY <2>1, <2>2, <2>3, <2>4, <2>5 DEF JournalInv
<1>2. CASE OpenTurn
  BY <1>2, JournalStartTurn
<1>3. CASE EnterTurn
  BY <1>3, JournalEnterTurn
<1>4. CASE SayText \/ CallTools \/ TakeMailbox
  BY <1>4, JournalModelStep
<1>5. CASE CloseTurn
  BY <1>5, JournalEndTurn
<1>6. CASE CompactNow
  BY <1>6, JournalCompactNow
<1>7. CASE Reset
  BY <1>7, JournalReset
<1>8. CASE Restart
  BY <1>8, JournalRestart
<1> QED BY <1>1, <1>2, <1>3, <1>4, <1>5, <1>6, <1>7, <1>8 DEF JournalNext

LEMMA JournalAlways == JournalSpec => []JournalInv
<1>1. JournalInit => JournalInv
  BY JournalStarts, KeepsSome
<1>2. JournalInv /\ [JournalNext]_journalVars => JournalInv'
  BY JournalSteps, KeepsSome
<1> QED BY <1>1, <1>2, PTL DEF JournalSpec

\* Whatever was compacted, recalled and run on in between, a turn gives back
\* all that was said, in order, and nothing else (context.rs, finish_turn).
THEOREM ConversationIsWhole == JournalSpec => []JournalIsWhole
<1>1. JournalInv => JournalIsWhole
  BY DEF JournalInv, AtRest, JournalIsWhole
<1> QED BY <1>1, JournalAlways, PTL

\* What a turn is captured as is what was said in it: whatever it ran on, no
\* message of an earlier turn, none left out, no recalled memory (capture.rs).
THEOREM CapturedIsSaid == JournalSpec => []CaptureIsTheTurn
<1>1. JournalInv => CaptureIsTheTurn
  BY DEF JournalInv, CaptureIsTheTurn
<1> QED BY <1>1, JournalAlways, PTL

\* What the model is shown leaves nothing out that the summary beside it does
\* not account for, and never begins inside a batch that has its reasoning,
\* however records, recalls, crashes and resets follow (plan_compaction).
THEOREM WindowSound == JournalSpec => []WindowIsSound
<1>1. ASSUME JournalInv
      PROVE  WindowIsSound
  <2>1. PICK n \in Nat : n \in 0..Len(journal) /\ Accounted(journal, records, n)
    <3>1. Len(journal) \in Nat
      BY <1>1, LenProperties DEF JournalInv, JournalTypes
    <3>2. CASE stage = "idle"
      <4>1. Len(journal) \in 0..Len(journal)
        BY <3>1
      <4> QED BY <1>1, <3>1, <3>2, <4>1 DEF JournalInv, AtRest
    <3>3. CASE stage # "idle"
      <4>1. TurnOpen /\ opened \in Nat
        BY <1>1, <3>3 DEF JournalInv, JournalTypes, UnderWay
      <4>2. Len(journal) - 1 \in Nat /\ Len(journal) - 1 \in 0..Len(journal)
        BY <3>1, <4>1 DEF TurnOpen
      <4> QED BY <4>1, <4>2 DEF TurnOpen
    <3> QED BY <3>2, <3>3
  <2>2. journal \in Seq(Plain) /\ records \in Seq(CompactionSet) /\ Len(journal) \in Nat
    BY <1>1, LenProperties DEF JournalInv, JournalTypes
  <2>3. PICK b : b = Boundary(journal, records)
    OBVIOUS
  <2>4. b \in 0..n /\ (b = 0 \/ Cut(journal, b))
    BY <2>1, <2>2, <2>3, BoundaryIs
  <2>5. NothingFallsBetween
    <3>1. CASE records = <<>>
      <4>1. b = 0
        BY <2>3, <3>1 DEF Boundary
      <4>2. 1..b = {}
        BY <4>1
      <4> QED BY <2>3, <4>2 DEF NothingFallsBetween
    <3>2. CASE records # <<>>
      <4>1. /\ Len(records) \in 1..Len(records) /\ b = records[Len(records)].first_kept_index
            /\ Covered = records[Len(records)].covers
        BY <2>1, <2>2, <2>3, <3>2, BoundaryIs DEF Covered
      <4>2. 1..b \subseteq Covered
        BY <2>1, <4>1 DEF Accounted
      <4> QED BY <2>3, <4>2 DEF NothingFallsBetween
    <3> QED BY <3>1, <3>2
  <2>6. ASSUME NEW i \in (b + 1)..Len(journal), journal[i].kind \in {"call", "result"},
               journal[BatchStart(journal, i) + 1].kind = "think"
        PROVE  BatchStart(journal, i) >= b
    <3>1. i - 1 \in Nat /\ b \in 0..(i - 1) /\ b \in Nat /\ b < Len(journal)
      BY <2>2, <2>4
    <3>2. PICK r : r = NoResultAt(journal, i - 1)
      OBVIOUS
    <3>3. r \in 0..(i - 1) /\ \A x \in 0..(i - 1) : x = 0 \/ journal[x + 1].kind # "result" => x <= r
      BY <3>1, <3>2, SplitPlaces
    <3>4. b <= r
      BY <2>4, <3>1, <3>3 DEF Cut
    <3>5. PICK s : s = BlockStart(journal, r)
      OBVIOUS
    <3>6. /\ s \in 0..r /\ (s # 0 => journal[s + 1].kind # "call")
          /\ \A x \in 0..r : x = 0 \/ journal[x + 1].kind # "call" => x <= s
      BY <3>1, <3>3, <3>5, SplitPlaces
    <3>7. BatchStart(journal, i) = s
      BY <3>2, <3>5 DEF BatchStart
    <3>8. ~(s < b)
      <4> SUFFICES ASSUME s < b PROVE FALSE
        OBVIOUS
      <4>1. \A x \in (s + 1)..b : x \in 0..r /\ x # 0 /\ ~(x <= s)
        BY <3>1, <3>3, <3>4, <3>6
      <4>2. \A x \in (s + 1)..b : journal[x + 1].kind = "call"
        BY <3>6, <4>1
      <4>3. s \in 0..b /\ b \in (s + 1)..b /\ b # 0
        BY <3>1, <3>6
      <4>4. BlockStart(journal, b) = s
        BY <3>1, <3>6, <4>2, <4>3, StartsAt
      <4>5. journal[s + 1].kind # "think"
        BY <2>4, <3>1, <4>2, <4>3, <4>4 DEF Cut
      <4> QED BY <2>6, <3>7, <4>5
    <3> QED BY <3>1, <3>3, <3>6, <3>7, <3>8
  <2>7. WindowIsLegal
    BY <2>3, <2>6 DEF WindowIsLegal, Is
  <2> QED BY <2>5, <2>7 DEF WindowIsSound
<1> QED BY <1>1, JournalAlways, PTL

\* The types of the state, which with the bound on records says that no record
\* keeps from the very first message on (context.rs).
THEOREM JournalTyped == JournalSpec => []JournalTypeOK
<1>1. ASSUME JournalInv
      PROVE  JournalTypeOK
  <2>1. JournalTypes
    BY <1>1 DEF JournalInv
  <2>2. journal \in Seq(Messages) /\ said \in Seq(Messages)
    BY <2>1, PlainMessages DEF JournalTypes
  <2>3. known \in Nat
    BY <2>1, LenProperties DEF JournalTypes
  <2> QED BY <2>1, <2>2, <2>3 DEF JournalTypes, CompactionSet, JournalTypeOK
<1> QED BY <1>1, JournalAlways, PTL
===============================================================================
