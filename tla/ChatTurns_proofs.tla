-------------------------- MODULE ChatTurns_proofs --------------------------
(***************************************************************************)
(* Proofs about ChatTurns, for any number of workers and messages and any  *)
(* setting of the bounds and the failure switches.                         *)
(***************************************************************************)
EXTENDS ChatTurns, SequenceTheorems, WellFoundedInduction, TLAPS, FiniteSetTheorems

Words == Messages \cup {Divider}

(***************************************************************************)
(* Types.                                                                  *)
(***************************************************************************)

\* A transcript that holds a divider has a last one.
LEMMA LastDivider ==
    ASSUME NEW t \in Seq(Words), Divider \in Elems(t)
    PROVE  \E i \in 1..Len(t) :
              t[i] = Divider /\ \A j \in (i + 1)..Len(t) : t[j] # Divider
<1> DEFINE back == {n \in Nat : n < Len(t) /\ t[Len(t) - n] = Divider}
<1>1. Len(t) \in Nat
  OBVIOUS
<1>2. PICK k \in 1..Len(t) : t[k] = Divider
  BY DEF Elems
<1>3. Len(t) - k \in back
  BY <1>1, <1>2
<1>4. back # {} /\ back \subseteq Nat
  BY <1>3
<1>5. PICK n \in back : \A m \in back : n <= m
  <2> DEFINE less == OpToRel(<, Nat)
  <2>1. PICK n \in back : \A m \in back : <<m, n>> \notin less
    <3>1. IsWellFoundedOn(less, Nat)
      BY NatLessThanWellFounded
    <3> QED
      BY <1>4, <3>1, WFMin
  <2>2. \A m, k1 \in Nat : m < k1 => <<m, k1>> \in less
    BY DEF OpToRel
  <2>3. ASSUME NEW m \in back
        PROVE  n <= m
    <3>1. m \in Nat /\ n \in Nat
      BY <1>4
    <3>2. ~(m < n)
      BY <2>1, <2>2, <3>1
    <3> QED
      BY <3>1, <3>2
  <2> QED
    BY <2>3
<1>6. Len(t) - n \in 1..Len(t) /\ t[Len(t) - n] = Divider
  BY <1>1, <1>5
<1>7. ASSUME NEW j \in (Len(t) - n + 1)..Len(t), t[j] = Divider
      PROVE  FALSE
  <2>1. Len(t) - j \in back
    BY <1>1, <1>5, <1>7
  <2>2. n <= Len(t) - j
    BY <1>5, <2>1
  <2> QED
    BY <1>1, <1>5, <1>7, <2>2
<1> QED
  BY <1>6, <1>7

\* The cut is a position of the transcript, and no divider comes after it.
LEMMA LastCutIsLast ==
    ASSUME NEW t \in Seq(Words)
    PROVE  /\ LastCut(t) \in 0..Len(t)
           /\ \A j \in (LastCut(t) + 1)..Len(t) : t[j] # Divider
<1>1. CASE Divider \in Elems(t)
  BY <1>1, LastDivider DEF LastCut
<1>2. CASE Divider \notin Elems(t)
  BY <1>2 DEF LastCut, Elems
<1> QED
  BY <1>1, <1>2

\* What a restart reads back is a closed half, and a context of messages only.
LEMMA SplitTypes ==
    ASSUME NEW t \in Seq(Words)
    PROVE  /\ SubSeq(t, 1, LastCut(t)) \in Seq(Words)
           /\ SubSeq(t, LastCut(t) + 1, Len(t)) \in Seq(Messages)
<1>1. LastCut(t) \in 0..Len(t) /\ Len(t) \in Nat
  BY LastCutIsLast
<1>2. \A i \in 1..LastCut(t) : t[i] \in Words
  BY <1>1, ElementOfSeq
<1>3. \A i \in (LastCut(t) + 1)..Len(t) : t[i] \in Messages
  BY <1>1, LastCutIsLast, ElementOfSeq DEF Words
<1> QED
  BY <1>1, <1>2, <1>3, SubSeqProperties
\* A worker at rest has the type of one.
LEMMA OffType == Off \in Tasks /\ Off.pc = "off" /\ Off.kind = "upkeep"
BY EmptySeq DEF Off, Tasks, Places, Kinds

\* Each kind of message is a message, and a word of a transcript.
LEMMA MessageSets ==
    /\ Typed \subseteq Messages /\ Inbound \subseteq Messages
    /\ Followups \subseteq Messages /\ Records \subseteq Messages
    /\ Messages \subseteq Words /\ Divider \in Words
BY DEF Messages, Words

\* What a client is shown is a sequence of messages and dividers.
LEMMA TranscriptType ==
    ASSUME TypeOK
    PROVE  Transcript \in Seq(Words)
<1>1. ctx \in Seq(Words) /\ running \in Seq(Words) /\ archived \in Seq(Words)
  BY MessageSets, SeqMonotonic DEF TypeOK, Words
<1> QED
  BY <1>1, ConcatProperties DEF Transcript

\* The start of a turn has the right types, whoever starts it.
LEMMA ClaimType ==
    ASSUME TypeOK, NEW w \in Workers, NEW kind \in Kinds,
           NEW place \in Places, NEW m \in Messages,
           Claim(w, kind, place, m)
    PROVE  /\ ctx' \in Seq(Messages) /\ running' \in Seq(Messages)
           /\ busy' \in BOOLEAN /\ interrupt' \in BOOLEAN
           /\ task' \in [Workers -> Tasks]
           /\ via' \in [Messages -> Kinds \cup {None}]
           /\ stopTarget' \in Workers \cup {None}
<1>1. ctx \o <<m>> \in Seq(Messages)
  BY ConcatProperties DEF TypeOK
<1>2. [pc |-> place, kind |-> kind, st |-> ctx \o <<m>>,
       before |-> ctx \o <<m>>, snap |-> <<>>] \in Tasks
  BY <1>1, EmptySeq DEF Tasks
<1>3. task' \in [Workers -> Tasks]
  BY <1>2 DEF TypeOK, Claim
<1>4. via' \in [Messages -> Kinds \cup {None}]
  BY DEF TypeOK, Claim, RunBy
<1> QED
  BY <1>1, <1>3, <1>4, EmptySeq DEF Claim

\* So has its end, if the state handed back is one.
LEMMA GiveBackType ==
    ASSUME TypeOK, NEW w \in Workers, NEW context \in Seq(Messages),
           NEW dropped \in SUBSET Messages,
           GiveBack(w, context, dropped)
    PROVE  TypeOK'
<1>1. task[w].kind \in Kinds
  BY DEF TypeOK, Tasks
<1>2. [Off EXCEPT !.pc = "persist", !.kind = task[w].kind] \in Tasks
  BY <1>1, OffType DEF Tasks, Places
<1>3. task' \in [Workers -> Tasks]
  BY <1>2 DEF TypeOK, GiveBack
<1>4. Elems(ctx) \subseteq Messages
  BY ElementOfSeq DEF TypeOK, Elems
<1> QED
  BY <1>3, <1>4, EmptySeq DEF TypeOK, GiveBack, disk, counts

\* After the transcript is written a worker drains, loops or is done.
LEMMA FinishType ==
    ASSUME TypeOK, NEW w \in Workers, task' = Finish(w)
    PROVE  task' \in [Workers -> Tasks]
<1>1. [Off EXCEPT !.pc = "drain"] \in Tasks
  BY OffType DEF Tasks, Places
<1>2. [Off EXCEPT !.pc = "next", !.kind = "gateway"] \in Tasks
  BY OffType DEF Tasks, Places, Kinds
<1>3. Finish(w) \in [Workers -> Tasks]
  BY <1>1, <1>2, OffType DEF TypeOK, Finish
<1> QED
  BY <1>3

\* The line grows by messages only.
LEMMA queue_messageType ==
    ASSUME NEW S, NEW line \in Seq(S), NEW m \in S
    PROVE  queue_message(line, m) \in Seq(S)
BY AppendProperties DEF queue_message

\* A worker on its way: only its place in the path changes.
LEMMA MoveType ==
    ASSUME TypeOK, NEW w \in Workers, NEW place \in Places, Move(w, place)
    PROVE  task' \in [Workers -> Tasks]
BY DEF TypeOK, Move, Tasks

\* What a worker picks up before it has claimed a context.
LEMMA PickUpType ==
    ASSUME TypeOK, NEW w \in Workers, NEW place \in Places,
           NEW kind \in Kinds, NEW m \in Messages
    PROVE  [task EXCEPT ![w] = [Off EXCEPT !.pc = place, !.kind = kind,
                                           !.st = <<m>>]]
              \in [Workers -> Tasks]
<1>1. <<m>> \in Seq(Messages)
  OBVIOUS
<1>2. [Off EXCEPT !.pc = place, !.kind = kind, !.st = <<m>>] \in Tasks
  BY <1>1, OffType DEF Tasks
<1> QED
  BY <1>2 DEF TypeOK

\* The same, with the kind a worker has when it runs no turn.
LEMMA PickUpRecordType ==
    ASSUME TypeOK, NEW w \in Workers, NEW place \in Places, NEW m \in Messages
    PROVE  [task EXCEPT ![w] = [Off EXCEPT !.pc = place, !.st = <<m>>]]
              \in [Workers -> Tasks]
<1>1. <<m>> \in Seq(Messages)
  OBVIOUS
<1>2. [Off EXCEPT !.pc = place, !.st = <<m>>] \in Tasks
  BY <1>1, OffType DEF Tasks
<1> QED
  BY <1>2 DEF TypeOK

\* Every step a request makes keeps the types.
LEMMA RequestType ==
    ASSUME TypeOK, Request
    PROVE  TypeOK'
<1> USE DEF session, disk, ghosts, counts
<1>1. ASSUME NEW m \in Typed, QueueTurn(m)
      PROVE  TypeOK'
  BY <1>1, MessageSets, queue_messageType, AppendProperties DEF TypeOK, QueueTurn
<1>2. ASSUME NEW m \in Inbound, DeliverUnready(m)
      PROVE  TypeOK'
  BY <1>2, MessageSets DEF TypeOK, DeliverUnready
<1>3. ASSUME NEW m \in Inbound, DeliverQueued(m)
      PROVE  TypeOK'
  BY <1>3, MessageSets, queue_messageType, AppendProperties DEF TypeOK, DeliverQueued
<1>4. ASSUME NEW w \in Workers, NEW m \in Typed, PostTurn(w, m)
      PROVE  TypeOK'
  <2>1. "chat" \in Kinds /\ "setup" \in Places /\ m \in Messages
    BY MessageSets DEF Kinds, Places
  <2> QED
    BY <1>4, <2>1, ClaimType DEF TypeOK, PostTurn
<1>5. ASSUME NEW w \in Workers, NEW m \in Followups, Followup(w, m)
      PROVE  TypeOK'
  <2>1. "followup" \in Kinds /\ "run" \in Places /\ m \in Messages
    BY MessageSets DEF Kinds, Places
  <2> QED
    BY <1>5, <2>1, ClaimType DEF TypeOK, Followup
<1>6. ASSUME NEW w \in Workers, NEW m \in Inbound, DeliverClaim(w, m)
      PROVE  TypeOK'
  <2>1. task' \in [Workers -> Tasks]
    BY <1>6, PickUpType, MessageSets DEF DeliverClaim, Kinds, Places
  <2> QED
    BY <1>6, <2>1, MessageSets DEF TypeOK, DeliverClaim
<1>7. ASSUME NEW w \in Workers, NEW m \in Records, RecordFlow(w, m)
      PROVE  TypeOK'
  <2>1. task' \in [Workers -> Tasks]
    BY <1>7, PickUpRecordType, MessageSets DEF RecordFlow, Places
  <2> QED
    BY <1>7, <2>1, MessageSets DEF TypeOK, RecordFlow
<1>8. ASSUME Archive
      PROVE  TypeOK => /\ ctx' \in Seq(Messages)
                       /\ archived' \in Seq(Messages \cup {Divider})
  <2>1. ASSUME TypeOK
        PROVE  /\ ctx \in Seq(Words) /\ archived \in Seq(Words)
               /\ <<Divider>> \in Seq(Words)
    BY <2>1, MessageSets, SeqMonotonic DEF TypeOK, Words
  <2> QED
    BY <1>8, <2>1, ConcatProperties, EmptySeq DEF Archive, Words
<1>9. ASSUME NEW w \in Workers, NEW m \in Records, RecordTick(w, m)
      PROVE  TypeOK'
  <2>1. task' \in [Workers -> Tasks]
    BY <1>9, PickUpRecordType, MessageSets DEF RecordTick, Places
  <2>2. /\ ctx' \in Seq(Messages)
        /\ archived' \in Seq(Messages \cup {Divider})
    BY <1>8, <1>9 DEF RecordTick, TypeOK
  <2> QED
    BY <1>9, <2>1, <2>2, MessageSets, BoundsAreNumbers DEF TypeOK, RecordTick
<1>10. ASSUME NEW w \in Workers, StartCompact(w)
       PROVE  TypeOK'
  <2>1. task' \in [Workers -> Tasks]
    BY <1>10, OffType DEF TypeOK, StartCompact, Tasks, Places
  <2> QED
    BY <1>10, <2>1, BoundsAreNumbers DEF TypeOK, StartCompact
<1>11. ASSUME NEW w \in Workers, Reset(w)
       PROVE  TypeOK'
  <2>1. task' \in [Workers -> Tasks]
    BY <1>11, OffType DEF TypeOK, Reset, Tasks, Places
  <2> QED
    BY <1>8, <1>11, <2>1, BoundsAreNumbers DEF TypeOK, Reset
<1>12. ASSUME PressStop
       PROVE  TypeOK'
  BY <1>12 DEF TypeOK, PressStop
<1>13. ASSUME DeleteChat
       PROVE  TypeOK'
  BY <1>13, EmptySeq DEF TypeOK, DeleteChat
<1> QED
  BY <1>1, <1>2, <1>3, <1>4, <1>5, <1>6, <1>7, <1>9, <1>10, <1>11, <1>12, <1>13
  DEF Request

\* On its way to a context, the gateway has one message in its hands.
HasMessage ==
    \A w \in Workers : At(w, "permit") \/ At(w, "take") =>
        \E m \in Messages : task[w].st = <<m>>

\* Every step a worker makes keeps the types.
LEMMA WorkerStepType ==
    ASSUME TypeOK, HasMessage, NEW w \in Workers, WorkerStep(w)
    PROVE  TypeOK'
<1> USE DEF session, disk, ghosts, counts
<1>1. /\ task[w] \in Tasks /\ task[w].st \in Seq(Messages)
      /\ task[w].before \in Seq(Messages) /\ task[w].snap \in Seq(Words)
      /\ Elems(task[w].st) \subseteq Messages
  BY ElementOfSeq DEF TypeOK, Tasks, Words, Elems
<1>2. [task EXCEPT ![w] = Off] \in [Workers -> Tasks]
  BY OffType DEF TypeOK
<1>3. CASE SetupDone(w)
  BY <1>3, MoveType DEF TypeOK, SetupDone, Places
<1>4. CASE SetupFails(w)
  BY <1>1, <1>2, <1>4 DEF TypeOK, SetupFails
<1>5. CASE Inject(w)
  <2>1. task[w].st \o pending \in Seq(Messages)
    BY <1>1, ConcatProperties DEF TypeOK
  <2>2. task' \in [Workers -> Tasks]
    BY <1>1, <1>5, <2>1 DEF TypeOK, Inject, Tasks
  <2>3. via' \in [Messages -> Kinds \cup {None}]
    BY <1>1, <1>5 DEF TypeOK, Inject, RunBy, Tasks
  <2> QED
    BY <1>5, <2>2, <2>3, EmptySeq DEF TypeOK, Inject
<1>6. CASE RefreshSnapshot(w)
  BY <1>1, <1>6 DEF TypeOK, RefreshSnapshot
<1>7. CASE TurnEnds(w)
  BY <1>1, <1>7, GiveBackType DEF TurnEnds
<1>8. CASE TurnStops(w)
  BY <1>1, <1>8, GiveBackType DEF TurnStops
<1>9. CASE TurnErrors(w)
  BY <1>1, <1>9, GiveBackType DEF TurnErrors
<1>10. CASE PersistAtOnce(w)
  <2>1. task' \in [Workers -> Tasks]
    BY <1>10, FinishType DEF PersistAtOnce
  <2> QED
    BY <1>10, <2>1, TranscriptType DEF TypeOK, PersistAtOnce, Words
<1>11. CASE PersistSnapshot(w)
  <2>1. task' \in [Workers -> Tasks]
    BY <1>1, <1>11, TranscriptType DEF TypeOK, PersistSnapshot, Tasks, Words, Places
  <2> QED
    BY <1>11, <2>1 DEF TypeOK, PersistSnapshot
<1>12. CASE PersistWrite(w)
  <2>1. task' \in [Workers -> Tasks]
    BY <1>12, FinishType DEF PersistWrite
  <2> QED
    BY <1>1, <1>12, <2>1 DEF TypeOK, PersistWrite, Words
<1>13. CASE DrainNext(w)
  <2>1. Head(pending) \in Messages /\ Tail(pending) \in Seq(Messages)
    BY <1>13, HeadTailProperties DEF TypeOK, DrainNext
  <2>2. "chat" \in Kinds /\ "run" \in Places
    BY DEF Kinds, Places
  <2> QED
    BY <1>13, <2>1, <2>2, ClaimType DEF TypeOK, DrainNext
<1>14. CASE DrainDone(w)
  BY <1>2, <1>14 DEF TypeOK, DrainDone
<1>15. CASE PermitDenied(w)
  <2>1. Head(task[w].st) \in Messages
    BY <1>1, <1>15, HeadTailProperties DEF PermitDenied, HasMessage
  <2> QED
    BY <1>2, <1>15, <2>1, queue_messageType, AppendProperties DEF TypeOK, PermitDenied
<1>16. CASE PermitGranted(w)
  BY <1>16, MoveType DEF TypeOK, PermitGranted, Places
<1>17. CASE GatewayTake(w)
  <2>1. Head(task[w].st) \in Messages
    BY <1>1, <1>17, HeadTailProperties DEF GatewayTake, HasMessage
  <2>2. "gateway" \in Kinds /\ "run" \in Places
    BY DEF Kinds, Places
  <2> QED
    BY <1>17, <2>1, <2>2, ClaimType DEF TypeOK, GatewayTake
<1>18. CASE GatewayNext(w)
  <2>1. Head(pending) \in Messages /\ Tail(pending) \in Seq(Messages)
    BY <1>18, HeadTailProperties DEF TypeOK, GatewayNext
  <2>2. <<Head(pending)>> \in Seq(Messages)
    BY <2>1
  <2>3. task' \in [Workers -> Tasks]
    BY <1>1, <1>18, <2>2 DEF TypeOK, GatewayNext, Tasks, Places
  <2> QED
    BY <1>18, <2>1, <2>3 DEF TypeOK, GatewayNext
<1>19. CASE GatewayDone(w)
  BY <1>2, <1>19 DEF TypeOK, GatewayDone
<1>20. CASE CompactDone(w)
  BY <1>20, MoveType DEF TypeOK, CompactDone, Places
<1>21. CASE CompactFails(w)
  BY <1>2, <1>21 DEF TypeOK, CompactFails
<1>22. CASE FileRecord(w)
  <2>1. ctx \o task[w].st \in Seq(Messages)
    BY <1>1, ConcatProperties DEF TypeOK
  <2>2. task' \in [Workers -> Tasks]
    BY <1>22, OffType DEF TypeOK, FileRecord, Tasks, Places
  <2> QED
    BY <1>22, <2>1, <2>2 DEF TypeOK, FileRecord
<1> QED
  BY <1>3, <1>4, <1>5, <1>6, <1>7, <1>8, <1>9, <1>10, <1>11, <1>12, <1>13,
     <1>14, <1>15, <1>16, <1>17, <1>18, <1>19, <1>20, <1>21, <1>22
  DEF WorkerStep

\* A restart rebuilds the chat from a well-formed file.
LEMMA RestartType ==
    ASSUME TypeOK, Restart
    PROVE  TypeOK'
<1>1. file \in Seq(Words)
  BY DEF TypeOK, Words
<1>2. archived' \in Seq(Words) /\ ctx' \in Seq(Messages)
  BY <1>1, SplitTypes DEF Restart
<1>3. task' \in [Workers -> Tasks]
  BY OffType DEF Restart
<1>4. crashes' \in 0..MaxCrashes
  BY BoundsAreNumbers DEF TypeOK, Restart
<1> QED
  BY <1>2, <1>3, <1>4, EmptySeq DEF TypeOK, Restart, Words, disk

\* A fresh chat has its types.
LEMMA TypeInit == Init => TypeOK
<1> SUFFICES ASSUME Init PROVE TypeOK
  OBVIOUS
<1>1. task \in [Workers -> Tasks]
  BY OffType DEF Init
<1>2. via \in [Messages -> Kinds \cup {None}]
  BY DEF Init
<1>3. compactions \in 0..MaxCompactions /\ resets \in 0..MaxResets
      /\ crashes \in 0..MaxCrashes
  BY BoundsAreNumbers DEF Init
<1> QED
  BY <1>1, <1>2, <1>3, EmptySeq DEF Init, TypeOK

\* What a step does to the workers: requests set one to work from scratch.
LEMMA RequestHasMessage ==
    ASSUME TypeOK, HasMessage, Request
    PROVE  HasMessage'
<1> USE DEF session, disk, ghosts, counts
<1>1. ASSUME UNCHANGED task
      PROVE  HasMessage'
  BY <1>1 DEF HasMessage, At
<1>2. ASSUME NEW w \in Workers, task' = [task EXCEPT ![w] = task'[w]],
             \/ task'[w].pc \notin {"permit", "take"}
             \/ \E m \in Messages : task'[w].st = <<m>>
      PROVE  HasMessage'
  BY <1>2 DEF TypeOK, HasMessage, At
<1>3. ASSUME NEW w \in Workers, NEW m \in Inbound, DeliverClaim(w, m)
      PROVE  HasMessage'
  BY <1>2, <1>3, MessageSets DEF TypeOK, DeliverClaim, Off
<1>4. ASSUME NEW w \in Workers, NEW m \in Typed, PostTurn(w, m)
      PROVE  HasMessage'
  BY <1>2, <1>4 DEF TypeOK, PostTurn, Claim
<1>5. ASSUME NEW w \in Workers, NEW m \in Followups, Followup(w, m)
      PROVE  HasMessage'
  BY <1>2, <1>5 DEF TypeOK, Followup, Claim
<1>6. ASSUME NEW w \in Workers, NEW m \in Records,
             RecordFlow(w, m) \/ RecordTick(w, m)
      PROVE  HasMessage'
  BY <1>2, <1>6 DEF TypeOK, RecordFlow, RecordTick, Off
<1>7. ASSUME NEW w \in Workers, StartCompact(w) \/ Reset(w)
      PROVE  HasMessage'
  BY <1>2, <1>7 DEF TypeOK, StartCompact, Reset, Off
<1> QED
  BY <1>1, <1>3, <1>4, <1>5, <1>6, <1>7
  DEF Request, QueueTurn, DeliverUnready, DeliverQueued, PressStop, DeleteChat

\* A worker's own step either leaves the gateway's path to a context, goes one
\* place along it with the same message, or takes the next one from the line.
LEMMA WorkerHasMessage ==
    ASSUME TypeOK, HasMessage, NEW w \in Workers, WorkerStep(w)
    PROVE  HasMessage'
<1> USE DEF session, disk, ghosts, counts
<1>1. ASSUME task' = [task EXCEPT ![w] = task'[w]],
             \/ task'[w].pc \notin {"permit", "take"}
             \/ \E m \in Messages : task'[w].st = <<m>>
      PROVE  HasMessage'
  BY <1>1 DEF TypeOK, HasMessage, At
<1>2. CASE SetupDone(w)
  BY <1>1, <1>2 DEF TypeOK, SetupDone, Move, Tasks
<1>3. CASE SetupFails(w) \/ DrainDone(w) \/ PermitDenied(w)
           \/ GatewayDone(w) \/ CompactFails(w)
  BY <1>1, <1>3 DEF TypeOK, SetupFails, DrainDone, PermitDenied, GatewayDone,
                    CompactFails, Off
<1>4. CASE Inject(w)
  BY <1>1, <1>4 DEF TypeOK, Inject, At, Tasks
<1>5. CASE RefreshSnapshot(w)
  BY <1>5 DEF RefreshSnapshot, HasMessage, At
<1>6. CASE TurnEnds(w) \/ TurnStops(w) \/ TurnErrors(w)
  BY <1>1, <1>6 DEF TypeOK, TurnEnds, TurnStops, TurnErrors, GiveBack, Off
<1>7. CASE PersistAtOnce(w) \/ PersistWrite(w)
  <2>1. task' = Finish(w)
    BY <1>7 DEF PersistAtOnce, PersistWrite
  <2> QED
    BY <1>1, <2>1 DEF TypeOK, Finish, Off
<1>8. CASE PersistSnapshot(w)
  BY <1>1, <1>8 DEF TypeOK, PersistSnapshot, Tasks
<1>9. CASE DrainNext(w) \/ GatewayTake(w)
  BY <1>1, <1>9 DEF TypeOK, DrainNext, GatewayTake, Claim
<1>10. CASE PermitGranted(w)
  BY <1>1, <1>10 DEF TypeOK, PermitGranted, Move, HasMessage, At, Tasks
<1>11. CASE GatewayNext(w)
  <2>1. Head(pending) \in Messages
    BY <1>11, HeadTailProperties DEF TypeOK, GatewayNext
  <2> QED
    BY <1>1, <1>11, <2>1 DEF TypeOK, GatewayNext, Tasks
<1>12. CASE CompactDone(w)
  BY <1>1, <1>12 DEF TypeOK, CompactDone, Move, Tasks
<1>13. CASE FileRecord(w)
  BY <1>1, <1>13 DEF TypeOK, FileRecord, Off
<1> QED
  BY <1>2, <1>3, <1>4, <1>5, <1>6, <1>7, <1>8, <1>9, <1>10, <1>11, <1>12, <1>13
  DEF WorkerStep

\* Every field of the session and of every worker has its type in every
\* reachable state; in particular a restart never gives the model a divider.
THEOREM TypeCorrect == Spec => [](TypeOK /\ HasMessage)
<1>1. Init => TypeOK /\ HasMessage
  BY TypeInit DEF Init, HasMessage, At, Off
<1>2. TypeOK /\ HasMessage /\ [Next]_vars => (TypeOK /\ HasMessage)'
  <2> SUFFICES ASSUME TypeOK, HasMessage, [Next]_vars
               PROVE  TypeOK' /\ HasMessage'
    OBVIOUS
  <2>1. CASE Request
    BY <2>1, RequestType, RequestHasMessage
  <2>2. CASE Restart
    BY <2>2, RestartType DEF Restart, HasMessage, At, Off
  <2>3. ASSUME NEW w \in Workers, WorkerStep(w)
        PROVE  TypeOK' /\ HasMessage'
    BY <2>3, WorkerStepType, WorkerHasMessage
  <2>4. CASE UNCHANGED vars
    BY <2>4 DEF vars, session, disk, ghosts, counts, TypeOK, HasMessage, At
  <2> QED
    BY <2>1, <2>2, <2>3, <2>4 DEF Next
<1> QED
  BY <1>1, <1>2, PTL DEF Spec

(***************************************************************************)
(* One turn at a time.  The flag alone is not inductive: what makes it     *)
(* work is that every path that sets it is the only one that clears it,    *)
(* and that the gateway keeps it between two turns of its loop.            *)
(***************************************************************************)
KindFits(w) ==
    /\ At(w, "compact") => task[w].kind # "gateway"
    /\ At(w, "next") => task[w].kind = "gateway"

TurnInv ==
    /\ TurnsExclusive
    /\ BusyMeansHeld
    /\ \A w \in Workers : KindFits(w)

\* A step of one worker keeps the invariant if it claims a free chat, releases
\* the chat it holds, or leaves both the flag and its hold as they were.
LEMMA TurnStep ==
    ASSUME TypeOK, TurnInv, NEW w \in Workers,
           task' = [task EXCEPT ![w] = task'[w]],
           KindFits(w)',
           busy' \in BOOLEAN,
           \/ ~busy /\ busy' /\ Holds(w)'
           \/ Holds(w) /\ ~busy' /\ ~Holds(w)'
           \/ busy' = busy /\ (Holds(w)' <=> Holds(w))
    PROVE  TurnInv'
<1>1. \A v \in Workers : v # w => task'[v] = task[v]
  BY DEF TypeOK
<1>2. \A v \in Workers : v # w => (Holds(v)' <=> Holds(v))
  BY <1>1 DEF Holds
<1>3. \A v \in Workers : KindFits(v)'
  BY <1>1 DEF TurnInv, KindFits, At
<1>4. TurnsExclusive' /\ BusyMeansHeld'
  <2>1. CASE ~busy /\ busy' /\ Holds(w)'
    BY <2>1, <1>2 DEF TurnInv, TurnsExclusive, BusyMeansHeld
  <2>2. CASE Holds(w) /\ ~busy' /\ ~Holds(w)'
    BY <2>2, <1>2 DEF TurnInv, TurnsExclusive, BusyMeansHeld
  <2>3. CASE busy' = busy /\ (Holds(w)' <=> Holds(w))
    BY <2>3, <1>2 DEF TurnInv, TurnsExclusive, BusyMeansHeld
  <2> QED
    BY <2>1, <2>2, <2>3
<1> QED
  BY <1>3, <1>4 DEF TurnInv

\* A request claims a free chat, or leaves who holds it alone.
LEMMA RequestTurns ==
    ASSUME TypeOK, TurnInv, Request
    PROVE  TurnInv'
<1> USE DEF session, disk, ghosts, counts
<1>1. ASSUME UNCHANGED <<busy, task>>
      PROVE  TurnInv'
  BY <1>1 DEF TurnInv, TurnsExclusive, BusyMeansHeld, Holds, At, KindFits
<1>2. ASSUME NEW w \in Workers, NEW m \in Typed, PostTurn(w, m)
      PROVE  TurnInv'
  BY <1>2, TurnStep DEF TypeOK, PostTurn, Claim, Holds, At, KindFits
<1>3. ASSUME NEW w \in Workers, NEW m \in Followups, Followup(w, m)
      PROVE  TurnInv'
  BY <1>3, TurnStep DEF TypeOK, Followup, Claim, Holds, At, KindFits
<1>4. ASSUME NEW w \in Workers, NEW m \in Inbound, DeliverClaim(w, m)
      PROVE  TurnInv'
  BY <1>4, TurnStep DEF TypeOK, DeliverClaim, Off, Holds, At, KindFits
<1>5. ASSUME NEW w \in Workers, StartCompact(w)
      PROVE  TurnInv'
  BY <1>5, TurnStep DEF TypeOK, StartCompact, Off, Holds, At, KindFits
<1>6. ASSUME NEW w \in Workers, Reset(w)
      PROVE  TurnInv'
  BY <1>6, TurnStep DEF TypeOK, Reset, Idle, Off, Holds, At, KindFits
<1>7. ASSUME NEW w \in Workers, NEW m \in Records,
             RecordFlow(w, m) \/ RecordTick(w, m)
      PROVE  TurnInv'
  <2>1. /\ task' = [task EXCEPT ![w] = task'[w]] /\ busy' = busy
        /\ task'[w].pc = "file" /\ task[w].pc = "off" /\ task'[w].kind = "upkeep"
    BY <1>7 DEF TypeOK, RecordFlow, RecordTick, Idle, Off
  <2>2. KindFits(w)' /\ ~Holds(w) /\ ~Holds(w)'
    BY <2>1 DEF KindFits, Holds, At
  <2> QED
    BY <2>1, <2>2, TurnStep DEF TypeOK
<1> QED
  BY <1>1, <1>2, <1>3, <1>4, <1>5, <1>6, <1>7
  DEF Request, QueueTurn, DeliverUnready, DeliverQueued, PressStop, DeleteChat

\* A worker gives back the chat it holds, or keeps it.
LEMMA WorkerTurns ==
    ASSUME TypeOK, TurnInv, NEW w \in Workers, WorkerStep(w)
    PROVE  TurnInv'
<1> USE DEF session, disk, ghosts, counts
<1>0. task[w] \in Tasks /\ busy \in BOOLEAN
  BY DEF TypeOK
<1>1. CASE SetupDone(w) \/ PermitGranted(w)
  BY <1>0, <1>1, TurnStep DEF TypeOK, SetupDone, PermitGranted, Move, Holds, At, KindFits, Tasks
<1>2. CASE SetupFails(w) \/ PermitDenied(w) \/ GatewayDone(w) \/ CompactFails(w)
  <2>1. Holds(w)
    BY <1>2 DEF TurnInv, SetupFails, PermitDenied, GatewayDone, CompactFails, Holds, At, KindFits
  <2>2. /\ task' = [task EXCEPT ![w] = task'[w]] /\ busy' = FALSE
        /\ task'[w].pc = "off"
    BY <1>2 DEF TypeOK, SetupFails, PermitDenied, GatewayDone, CompactFails, Off
  <2>3. KindFits(w)' /\ ~Holds(w)'
    BY <2>2 DEF KindFits, Holds, At
  <2> QED
    BY <2>1, <2>2, <2>3, TurnStep
<1>3. CASE Inject(w)
  BY <1>0, <1>3, TurnStep DEF TypeOK, Inject, Holds, At, KindFits, Tasks
<1>4. CASE RefreshSnapshot(w)
  BY <1>4 DEF RefreshSnapshot, TurnInv, TurnsExclusive, BusyMeansHeld, Holds, At, KindFits
<1>5. CASE TurnEnds(w) \/ TurnStops(w) \/ TurnErrors(w)
  <2>1. Holds(w) /\ busy
    BY <1>5 DEF TurnEnds, TurnStops, TurnErrors, Holds, At, KindFits, TurnInv, BusyMeansHeld
  <2>2. /\ task' = [task EXCEPT ![w] = task'[w]]
        /\ task'[w].pc = "persist" /\ task'[w].kind = task[w].kind
        /\ busy' = (task[w].kind = "gateway")
    BY <1>5 DEF TypeOK, TurnEnds, TurnStops, TurnErrors, GiveBack, Off
  <2> QED
    BY <1>0, <2>1, <2>2, TurnStep DEF Holds, At, KindFits
<1>6. CASE PersistAtOnce(w) \/ PersistWrite(w)
  <2>1. task' = Finish(w) /\ busy' = busy /\ task[w].pc \in {"persist", "write"}
    BY <1>6 DEF PersistAtOnce, PersistWrite, At
  <2>2. task' = [task EXCEPT ![w] = task'[w]]
    BY <2>1 DEF TypeOK, Finish
  <2>3. /\ task[w].kind = "gateway" => task'[w].pc = "next" /\ task'[w].kind = "gateway"
        /\ task[w].kind # "gateway" => task'[w].pc \in {"drain", "off"}
    BY <2>1 DEF TypeOK, Finish, Off
  <2>4. Holds(w)' <=> Holds(w)
    BY <2>1, <2>3 DEF Holds
  <2> QED
    BY <1>0, <2>1, <2>2, <2>3, <2>4, TurnStep DEF At, KindFits
<1>7. CASE PersistSnapshot(w)
  BY <1>0, <1>7, TurnStep DEF TypeOK, PersistSnapshot, Holds, At, KindFits, Tasks
<1>8. CASE DrainNext(w)
  BY <1>0, <1>8, TurnStep DEF TypeOK, DrainNext, Claim, Holds, At, KindFits
<1>9. CASE DrainDone(w)
  BY <1>0, <1>9, TurnStep DEF TypeOK, DrainDone, Off, Holds, At, KindFits
<1>10. CASE GatewayTake(w)
  <2>1. Holds(w) /\ busy
    BY <1>10 DEF GatewayTake, Holds, At, KindFits, TurnInv, BusyMeansHeld
  <2> QED
    BY <1>0, <1>10, <2>1, TurnStep DEF TypeOK, GatewayTake, Claim, Holds, At, KindFits
<1>11. CASE GatewayNext(w)
  BY <1>0, <1>11, TurnStep DEF TypeOK, TurnInv, GatewayNext, Holds, At, KindFits, Tasks
<1>12. CASE CompactDone(w)
  BY <1>0, <1>12, TurnStep DEF TypeOK, CompactDone, Move, Holds, At, KindFits, Tasks, TurnInv
<1>13. CASE FileRecord(w)
  BY <1>0, <1>13, TurnStep DEF TypeOK, FileRecord, Off, Holds, At, KindFits
<1> QED
  BY <1>1, <1>2, <1>3, <1>4, <1>5, <1>6, <1>7, <1>8, <1>9, <1>10, <1>11, <1>12,
     <1>13
  DEF WorkerStep

\* So it is in every state that can be reached.
LEMMA TurnInvariant == Spec => [](TypeOK /\ TurnInv)
<1>1. Init => TurnInv
  BY DEF Init, TurnInv, TurnsExclusive, BusyMeansHeld, KindFits, Holds, At, Off
<1>2. TypeOK /\ TurnInv /\ [Next]_vars => TurnInv'
  <2> SUFFICES ASSUME TypeOK, TurnInv, [Next]_vars
               PROVE  TurnInv'
    OBVIOUS
  <2>1. CASE Request
    BY <2>1, RequestTurns
  <2>2. CASE Restart
    BY <2>2 DEF Restart, TurnInv, TurnsExclusive, BusyMeansHeld, KindFits, Holds,
                At, Off
  <2>3. ASSUME NEW w \in Workers, WorkerStep(w)
        PROVE  TurnInv'
    BY <2>3, WorkerTurns
  <2>4. CASE UNCHANGED vars
    BY <2>4 DEF vars, session, TurnInv, TurnsExclusive, BusyMeansHeld, KindFits,
                Holds, At
  <2> QED
    BY <2>1, <2>2, <2>3, <2>4 DEF Next
<1> QED
  BY <1>1, <1>2, TypeCorrect, PTL DEF Spec

\* No two turns share a context, and the flag is set exactly while somebody
\* will clear it: the chat can be neither entered twice nor wedged.
THEOREM TurnsAreExclusive == Spec => []HeldByOne
<1>1. TurnInv => HeldByOne
  BY DEF TurnInv, HeldByOne
<1> QED
  BY <1>1, TurnInvariant, PTL

(***************************************************************************)
(* The stop button.  A stop may be pressed while a turn is being set up,   *)
(* so what is preserved speaks of that place too; and it may be pressed    *)
(* while the gateway is between two turns, when the next one clears it.    *)
(***************************************************************************)
StopInv ==
    \A w \in Workers :
        task[w].pc \in {"setup", "run"} /\ interrupt => stopTarget = w

\* The invariant is more than the property.
LEMMA StopHits == StopInv => StopHitsItsTurn
BY DEF StopInv, StopHitsItsTurn, At

\* A request that sets the flag names the worker that holds the chat.
LEMMA RequestStop ==
    ASSUME TypeOK, TurnInv, StopInv, Request
    PROVE  StopInv'
<1> USE DEF session, disk, ghosts, counts
<1>1. ASSUME UNCHANGED <<task, interrupt, stopTarget>>
      PROVE  StopInv'
  BY <1>1 DEF StopInv
<1>2. ASSUME NEW w \in Workers, task' = [task EXCEPT ![w] = task'[w]],
             task'[w].pc \notin {"setup", "run"},
             UNCHANGED <<interrupt, stopTarget>>
      PROVE  StopInv'
  BY <1>2 DEF StopInv, TypeOK
<1>3. CASE PressStop
  <2>1. ASSUME NEW w \in Workers, task[w].pc \in {"setup", "run"}
        PROVE  stopTarget' = w
    <3>1. Holds(w)
      BY <2>1 DEF Holds
    <3>2. \A v \in Workers : Holds(v) => v = w
      BY <3>1 DEF TurnInv, TurnsExclusive
    <3> QED
      BY <1>3, <3>1, <3>2 DEF PressStop
  <2> QED
    BY <1>3, <2>1 DEF PressStop, StopInv
<1>4. ASSUME NEW w \in Workers, NEW m \in Messages,
             PostTurn(w, m) \/ Followup(w, m)
      PROVE  StopInv'
  BY <1>4 DEF PostTurn, Followup, Claim, StopInv
<1>5. ASSUME NEW w \in Workers, NEW m \in Inbound, DeliverClaim(w, m)
      PROVE  StopInv'
  BY <1>2, <1>5 DEF TypeOK, DeliverClaim, Off
<1>6. ASSUME NEW w \in Workers, StartCompact(w) \/ Reset(w)
      PROVE  StopInv'
  BY <1>2, <1>6 DEF TypeOK, StartCompact, Reset, Off
<1>7. ASSUME NEW w \in Workers, NEW m \in Records,
             RecordFlow(w, m) \/ RecordTick(w, m)
      PROVE  StopInv'
  BY <1>2, <1>7 DEF TypeOK, RecordFlow, RecordTick, Off
<1> QED
  BY <1>1, <1>3, <1>4, <1>5, <1>6, <1>7, MessageSets
  DEF Request, QueueTurn, DeliverUnready, DeliverQueued, DeleteChat

\* A worker that takes the chat over clears the flag.
LEMMA WorkerStop ==
    ASSUME TypeOK, StopInv, NEW w \in Workers, WorkerStep(w)
    PROVE  StopInv'
<1> USE DEF session, disk, ghosts, counts
<1>0. task[w] \in Tasks
  BY DEF TypeOK
<1>1. ASSUME task' = [task EXCEPT ![w] = task'[w]],
             task'[w].pc \in {"setup", "run"} => task[w].pc \in {"setup", "run"},
             UNCHANGED <<interrupt, stopTarget>>
      PROVE  StopInv'
  BY <1>1 DEF StopInv, TypeOK
<1>2. CASE SetupDone(w) \/ PermitGranted(w) \/ CompactDone(w)
  BY <1>0, <1>1, <1>2
  DEF TypeOK, SetupDone, PermitGranted, CompactDone, Move, At, Tasks
<1>3. CASE SetupFails(w) \/ DrainDone(w) \/ PermitDenied(w)
           \/ GatewayDone(w) \/ CompactFails(w)
  BY <1>1, <1>3 DEF TypeOK, SetupFails, DrainDone, PermitDenied, GatewayDone,
                    CompactFails, Off
<1>4. CASE Inject(w)
  BY <1>0, <1>1, <1>4 DEF TypeOK, Inject, At, Tasks
<1>5. CASE RefreshSnapshot(w)
  BY <1>5 DEF RefreshSnapshot, StopInv
<1>6. CASE TurnEnds(w) \/ TurnStops(w) \/ TurnErrors(w)
  BY <1>1, <1>6 DEF TypeOK, TurnEnds, TurnStops, TurnErrors, GiveBack, Off
<1>7. CASE PersistAtOnce(w) \/ PersistWrite(w)
  <2>1. task' = Finish(w) /\ UNCHANGED <<interrupt, stopTarget>>
    BY <1>7 DEF PersistAtOnce, PersistWrite
  <2> QED
    BY <1>1, <2>1 DEF TypeOK, Finish, Off
<1>8. CASE PersistSnapshot(w)
  BY <1>0, <1>1, <1>8 DEF TypeOK, PersistSnapshot, Tasks
<1>9. CASE DrainNext(w) \/ GatewayTake(w)
  BY <1>9 DEF DrainNext, GatewayTake, Claim, StopInv
<1>10. CASE GatewayNext(w)
  BY <1>0, <1>1, <1>10 DEF TypeOK, GatewayNext, Tasks
<1>11. CASE FileRecord(w)
  BY <1>1, <1>11 DEF TypeOK, FileRecord, Off
<1> QED
  BY <1>2, <1>3, <1>4, <1>5, <1>6, <1>7, <1>8, <1>9, <1>10, <1>11
  DEF WorkerStep

\* A stop never kills a turn it was not pressed on.
THEOREM StopIsPrecise == Spec => []StopHitsItsTurn
<1>1. Init => StopInv
  BY DEF Init, StopInv
<1>2. TypeOK /\ TurnInv /\ StopInv /\ [Next]_vars => StopInv'
  <2> SUFFICES ASSUME TypeOK, TurnInv, StopInv, [Next]_vars
               PROVE  StopInv'
    OBVIOUS
  <2>1. CASE Request
    BY <2>1, RequestStop
  <2>2. CASE Restart
    BY <2>2 DEF Restart, StopInv
  <2>3. ASSUME NEW w \in Workers, WorkerStep(w)
        PROVE  StopInv'
    BY <2>3, WorkerStop
  <2>4. CASE UNCHANGED vars
    BY <2>4 DEF vars, session, ghosts, StopInv
  <2> QED
    BY <2>1, <2>2, <2>3, <2>4 DEF Next
<1> QED
  BY <1>1, <1>2, StopHits, TurnInvariant, PTL DEF Spec

(***************************************************************************)
(* What is in a sequence.  `Said' leaves the dividers out, `Once' says     *)
(* that no message occurs twice.                                           *)
(***************************************************************************)
Said(s) == Elems(s) \ {Divider}

Once(s) == \A i, j \in 1..Len(s) : s[i] = s[j] /\ s[i] # Divider => i = j

\* Nothing is in a sequence but what it is a sequence of.
LEMMA ElemsOfSeq ==
    ASSUME NEW S, NEW s \in Seq(S)
    PROVE  Elems(s) \subseteq S
BY ElementOfSeq DEF Elems

\* The empty sequence holds nothing.
LEMMA ElemsOfEmpty == Elems(<<>>) = {} /\ Once(<<>>)
BY DEF Elems, Once

\* A sequence of one holds that one.
LEMMA ElemsOfOne ==
    ASSUME NEW m
    PROVE  Elems(<<m>>) = {m} /\ Once(<<m>>)
BY DEF Elems, Once

\* Two sequences in a row hold what either holds ...
LEMMA ElemsOfConcat ==
    ASSUME NEW S, NEW s \in Seq(S), NEW t \in Seq(S)
    PROVE  Elems(s \o t) = Elems(s) \cup Elems(t)
<1>1. /\ Len(s) \in Nat /\ Len(t) \in Nat
      /\ Len(s \o t) = Len(s) + Len(t)
      /\ \A i \in 1..Len(s) + Len(t) :
            (s \o t)[i] = IF i <= Len(s) THEN s[i] ELSE t[i - Len(s)]
  BY ConcatProperties, LenProperties
<1>2. ASSUME NEW x \in Elems(s \o t)
      PROVE  x \in Elems(s) \cup Elems(t)
  BY <1>1, <1>2 DEF Elems
<1>3. ASSUME NEW x \in Elems(s)
      PROVE  x \in Elems(s \o t)
  BY <1>1, <1>3 DEF Elems
<1>4. ASSUME NEW x \in Elems(t)
      PROVE  x \in Elems(s \o t)
  <2>1. PICK i \in 1..Len(t) : x = t[i]
    BY <1>4 DEF Elems
  <2>2. i + Len(s) \in 1..Len(s \o t) /\ (s \o t)[i + Len(s)] = x
    BY <1>1, <2>1
  <2> QED
    BY <2>2 DEF Elems
<1> QED
  BY <1>2, <1>3, <1>4

\* ... and nothing twice, if they hold nothing in common.
LEMMA OnceConcat ==
    ASSUME NEW S, NEW s \in Seq(S), NEW t \in Seq(S), Once(s), Once(t),
           Said(s) \cap Said(t) = {}
    PROVE  Once(s \o t)
<1>1. /\ Len(s) \in Nat /\ Len(t) \in Nat
      /\ Len(s \o t) = Len(s) + Len(t)
      /\ \A i \in 1..Len(s) + Len(t) :
            (s \o t)[i] = IF i <= Len(s) THEN s[i] ELSE t[i - Len(s)]
  BY ConcatProperties, LenProperties
<1>2. ASSUME NEW i \in 1..Len(s), NEW j \in 1..Len(t), s[i] # Divider
      PROVE  s[i] # t[j]
  BY <1>2 DEF Said, Elems
<1> SUFFICES ASSUME NEW i \in 1..Len(s \o t), NEW j \in 1..Len(s \o t),
                    (s \o t)[i] = (s \o t)[j], (s \o t)[i] # Divider
             PROVE  i = j
  BY DEF Once
<1>3. CASE i <= Len(s) /\ j <= Len(s)
  BY <1>1, <1>3 DEF Once
<1>4. CASE i > Len(s) /\ j > Len(s)
  <2>1. i - Len(s) \in 1..Len(t) /\ j - Len(s) \in 1..Len(t)
    BY <1>1, <1>4
  <2>2. t[i - Len(s)] = t[j - Len(s)] /\ t[i - Len(s)] # Divider
    BY <1>1, <1>4
  <2>3. i - Len(s) = j - Len(s)
    BY <2>1, <2>2 DEF Once
  <2> QED
    BY <1>1, <2>3
<1>5. CASE i <= Len(s) /\ j > Len(s)
  BY <1>1, <1>2, <1>5
<1>6. CASE i > Len(s) /\ j <= Len(s)
  BY <1>1, <1>2, <1>6
<1> QED
  BY <1>1, <1>3, <1>4, <1>5, <1>6

\* The same for one message at the end.
LEMMA ElemsOfAppend ==
    ASSUME NEW S, NEW s \in Seq(S), NEW m \in S
    PROVE  /\ Elems(Append(s, m)) = Elems(s) \cup {m}
           /\ Once(s) /\ m \notin Elems(s) => Once(Append(s, m))
<1>0. <<m>> \in Seq(S)
  OBVIOUS
<1>1. PICK one \in Seq(S) : one = <<m>>
  BY <1>0, Zenon
<1>2. Append(s, m) = s \o one
  BY <1>1, AppendIsConcat
<1>3. Elems(one) = {m} /\ Once(one)
  BY <1>1, ElemsOfOne
<1>4. Elems(s \o one) = Elems(s) \cup {m}
  BY <1>3, ElemsOfConcat
<1>5. ASSUME Once(s), m \notin Elems(s)
      PROVE  Once(s \o one)
  <2>1. Said(s) \cap Said(one) = {}
    BY <1>3, <1>5 DEF Said
  <2> QED
    BY <1>3, <1>5, <2>1, OnceConcat
<1> QED
  BY <1>2, <1>4, <1>5

\* Cut in two, a sequence is in one part or the other, never in both.
LEMMA ElemsOfSplit ==
    ASSUME NEW S, NEW s \in Seq(S), NEW n \in 0..Len(s)
    PROVE  /\ SubSeq(s, 1, n) \in Seq(S) /\ SubSeq(s, n + 1, Len(s)) \in Seq(S)
           /\ Elems(s) = Elems(SubSeq(s, 1, n)) \cup Elems(SubSeq(s, n + 1, Len(s)))
           /\ Once(s) => /\ Once(SubSeq(s, 1, n))
                         /\ Once(SubSeq(s, n + 1, Len(s)))
                         /\ Said(SubSeq(s, 1, n)) \cap Said(SubSeq(s, n + 1, Len(s))) = {}
<1> DEFINE a == SubSeq(s, 1, n)
           b == SubSeq(s, n + 1, Len(s))
<1>1. Len(s) \in Nat /\ \A i \in 1..Len(s) : s[i] \in S
  BY LenProperties, ElementOfSeq
<1>2. a \in Seq(S) /\ Len(a) = n /\ \A i \in 1..n : a[i] = s[i]
  BY <1>1, SubSeqProperties
<1>3. b \in Seq(S) /\ Len(b) = Len(s) - n
  BY <1>1, SubSeqProperties
<1>4. \A i \in 1..(Len(s) - n) : b[i] = s[i + n]
  <2>1. \A i \in 1..(Len(s) - (n + 1) + 1) : b[i] = s[(n + 1) + i - 1]
    BY <1>1, SubSeqProperties
  <2> QED
    BY <1>1, <2>1
<1> HIDE DEF a, b
<1>5. Elems(s) = Elems(a) \cup Elems(b)
  <2>1. ASSUME NEW i \in 1..Len(s) PROVE s[i] \in Elems(a) \cup Elems(b)
    <3>1. CASE i <= n
      BY <1>1, <1>2, <3>1 DEF Elems
    <3>2. CASE i > n
      <4>1. i - n \in 1..Len(b) /\ b[i - n] = s[i]
        BY <1>1, <1>3, <1>4, <3>2
      <4> QED
        BY <4>1 DEF Elems
    <3> QED
      BY <1>1, <3>1, <3>2
  <2>2. Elems(a) \subseteq Elems(s)
    BY <1>1, <1>2 DEF Elems
  <2>3. Elems(b) \subseteq Elems(s)
    BY <1>1, <1>3, <1>4 DEF Elems
  <2> QED
    BY <2>1, <2>2, <2>3 DEF Elems
<1>6. ASSUME Once(s)
      PROVE  Once(a) /\ Once(b) /\ Said(a) \cap Said(b) = {}
  <2>1. Once(a)
    BY <1>1, <1>2, <1>6 DEF Once
  <2>2. Once(b)
    <3> SUFFICES ASSUME NEW i \in 1..Len(b), NEW j \in 1..Len(b), b[i] = b[j], b[i] # Divider
                 PROVE  i = j
      BY DEF Once
    <3>1. i + n \in 1..Len(s) /\ j + n \in 1..Len(s) /\ s[i + n] = s[j + n] /\ s[i + n] # Divider
      BY <1>1, <1>3, <1>4
    <3>2. i + n = j + n
      BY <1>6, <3>1 DEF Once
    <3> QED
      BY <1>1, <1>3, <3>2
  <2>3. ASSUME NEW i \in 1..Len(a), NEW j \in 1..Len(b), a[i] = b[j], a[i] # Divider
        PROVE  FALSE
    <3>1. i \in 1..Len(s) /\ j + n \in 1..Len(s) /\ s[i] = s[j + n] /\ s[i] # Divider
      BY <1>1, <1>2, <1>3, <1>4, <2>3
    <3>2. i = j + n
      BY <1>6, <3>1 DEF Once
    <3> QED
      BY <1>1, <1>2, <1>3, <3>2
  <2> QED
    BY <2>1, <2>2, <2>3 DEF Said, Elems
<1> QED
  BY <1>2, <1>3, <1>5, <1>6 DEF a, b

\* The same for a sequence that loses its head.
LEMMA ElemsOfHeadTail ==
    ASSUME NEW S, NEW s \in Seq(S), s # <<>>
    PROVE  /\ Elems(s) = {Head(s)} \cup Elems(Tail(s))
           /\ Once(s) => /\ Once(Tail(s))
                         /\ Divider \notin S => Head(s) \notin Elems(Tail(s))
<1>1. /\ Len(s) \in Nat \ {0} /\ Head(s) = s[1] /\ Tail(s) \in Seq(S)
      /\ Len(Tail(s)) = Len(s) - 1
      /\ \A i \in 1..Len(Tail(s)) : Tail(s)[i] = s[i + 1]
      /\ \A i \in 1..Len(s) : s[i] \in S
  BY HeadTailProperties, EmptySeq, ElementOfSeq
<1> DEFINE t == Tail(s)
<1> HIDE DEF t
<1>2. ASSUME NEW i \in 1..Len(s), i # 1 PROVE s[i] \in Elems(t)
  <2>1. i - 1 \in 1..Len(t) /\ t[i - 1] = s[i]
    BY <1>1, <1>2 DEF t
  <2> QED
    BY <2>1 DEF Elems
<1>3. Elems(s) = {Head(s)} \cup Elems(t)
  BY <1>1, <1>2 DEF Elems, t
<1>4. ASSUME Once(s)
      PROVE  Once(t) /\ (Divider \notin S => Head(s) \notin Elems(t))
  <2>1. ASSUME NEW i \in 1..Len(t), NEW j \in 1..Len(t), t[i] = t[j], t[i] # Divider
        PROVE  i = j
    <3>1. i + 1 \in 1..Len(s) /\ j + 1 \in 1..Len(s) /\ s[i + 1] = s[j + 1] /\ s[i + 1] # Divider
      BY <1>1, <2>1 DEF t
    <3>2. i + 1 = j + 1
      BY <1>4, <3>1 DEF Once
    <3> QED
      BY <1>1, <3>2 DEF t
  <2>2. ASSUME NEW i \in 1..Len(t), t[i] = Head(s), Divider \notin S
        PROVE  FALSE
    <3>1. i + 1 \in 1..Len(s) /\ 1 \in 1..Len(s) /\ s[i + 1] = s[1] /\ s[1] # Divider
      BY <1>1, <2>2 DEF t
    <3>2. i + 1 = 1
      BY <1>4, <3>1 DEF Once
    <3> QED
      BY <1>1, <3>2 DEF t
  <2> QED
    BY <2>1, <2>2 DEF Once, Elems
<1> QED
  BY <1>3, <1>4 DEF t

\* A worker with a step to make, and what the state of the chat then is: the
\* sequences have their types, before the step and after it.
LEMMA Shapes ==
    ASSUME TypeOK
    PROVE  /\ ctx \in Seq(Messages) /\ running \in Seq(Messages)
           /\ pending \in Seq(Messages) /\ lined \in Seq(Messages)
           /\ archived \in Seq(Words) /\ file \in Seq(Words)
           /\ ctx \in Seq(Words) /\ running \in Seq(Words)
           /\ \A w \in Workers : /\ task[w].st \in Seq(Messages)
                                 /\ task[w].before \in Seq(Messages)
                                 /\ task[w].snap \in Seq(Words)
<1>1. ctx \in Seq(Words) /\ running \in Seq(Words)
  BY MessageSets, SeqMonotonic DEF TypeOK
<1> QED
  BY <1>1 DEF TypeOK, Words, Tasks

(***************************************************************************)
(* Nothing is lost silently.                                               *)
(***************************************************************************)

\* A step of one worker keeps every message if what was in the places that
\* worker shares with the others, or was just accepted, is in one of them, or
\* has been reported lost.
LEMMA KeptStep ==
    ASSUME TypeOK, MessagesKept, NEW w \in Workers,
           task' = [task EXCEPT ![w] = task'[w]],
           lost \subseteq lost',
           (posted' \ posted) \cup Elems(pending) \cup Elems(archived)
               \cup Elems(ctx) \cup InHand(w)
             \subseteq lost' \cup Elems(pending') \cup Elems(archived')
                         \cup Elems(ctx') \cup InHand(w)'
    PROVE  MessagesKept'
<1>1. \A v \in Workers : v # w => InHand(v)' = InHand(v)
  BY DEF TypeOK, InHand
<1> SUFFICES ASSUME NEW m \in posted'
             PROVE  \/ m \in lost' \cup Elems(pending') \cup Elems(archived')
                              \cup Elems(ctx')
                    \/ \E v \in Workers : m \in InHand(v)'
  BY DEF MessagesKept, Elems
<1>2. CASE m \in (posted' \ posted) \cup Elems(pending) \cup Elems(archived)
                   \cup Elems(ctx) \cup InHand(w) \cup lost
  BY <1>2
<1>3. CASE \E v \in Workers : v # w /\ m \in InHand(v)
  BY <1>1, <1>3
<1> QED
  BY <1>2, <1>3 DEF MessagesKept

\* The same when no worker is involved.
LEMMA KeptUnworked ==
    ASSUME MessagesKept, UNCHANGED task, lost \subseteq lost',
           (posted' \ posted) \cup Elems(pending) \cup Elems(archived)
               \cup Elems(ctx)
             \subseteq lost' \cup Elems(pending') \cup Elems(archived')
                         \cup Elems(ctx')
    PROVE  MessagesKept'
<1>1. \A v \in Workers : InHand(v)' = InHand(v)
  BY DEF InHand
<1> QED
  BY <1>1 DEF MessagesKept

\* A claim puts the whole context, and the message it is for, in a worker's
\* hands.
LEMMA ClaimHands ==
    ASSUME TypeOK, NEW w \in Workers, NEW kind, NEW place,
           place = "setup" \/ place = "run", NEW m \in Messages,
           Claim(w, kind, place, m)
    PROVE  /\ task' = [task EXCEPT ![w] = task'[w]]
           /\ task'[w].st = ctx \o <<m>> /\ task'[w].before = ctx \o <<m>>
           /\ task'[w].pc = place /\ task'[w].kind = kind
           /\ task'[w].snap = <<>>
           /\ InHand(w)' = Elems(ctx) \cup {m}
           /\ running' = ctx \o <<m>> /\ Elems(running') = Elems(ctx) \cup {m}
           /\ ctx' = <<>> /\ Elems(ctx') = {}
<1>1. /\ task' = [task EXCEPT ![w] = task'[w]]
      /\ task'[w] = [pc |-> place, kind |-> kind, st |-> ctx \o <<m>>,
                     before |-> ctx \o <<m>>, snap |-> <<>>]
      /\ running' = ctx \o <<m>> /\ ctx' = <<>>
  BY DEF TypeOK, Claim
<1>2. Elems(ctx \o <<m>>) = Elems(ctx) \cup {m}
  <2>1. ctx \in Seq(Messages)
    BY DEF TypeOK
  <2>2. Append(ctx, m) = ctx \o <<m>>
    BY <2>1, AppendIsConcat
  <2>3. Elems(Append(ctx, m)) = Elems(ctx) \cup {m}
    BY <2>1, ElemsOfAppend
  <2> QED
    BY <2>2, <2>3
<1> QED
  BY <1>1, <1>2, ElemsOfEmpty DEF InHand

\* A reset moves the context behind a divider.
LEMMA ArchiveMoves ==
    ASSUME TypeOK, Archive
    PROVE  /\ Elems(archived') = Elems(archived) \cup Elems(ctx) \cup {Divider}
           /\ Elems(ctx') = {}
<1>1. ctx \in Seq(Words) /\ archived \in Seq(Words) /\ Divider \in Words
  BY Shapes, MessageSets
<1>2. PICK both \in Seq(Words) : both = archived \o ctx
  BY <1>1, ConcatProperties
<1>3. Elems(both) = Elems(archived) \cup Elems(ctx)
  BY <1>1, <1>2, ElemsOfConcat
<1>4. both \o <<Divider>> = Append(both, Divider)
  BY <1>1, AppendIsConcat
<1>5. Elems(Append(both, Divider)) = Elems(both) \cup {Divider}
  BY <1>1, ElemsOfAppend
<1> QED
  BY <1>2, <1>3, <1>4, <1>5, ElemsOfEmpty DEF Archive

\* A request adds a message to the line, to a context or to a worker.
LEMMA RequestKeeps ==
    ASSUME TypeOK, MessagesKept, Request
    PROVE  MessagesKept'
<1> USE DEF session, disk, ghosts, counts
<1>0. pending \in Seq(Messages) /\ ctx \in Seq(Messages) /\ archived \in Seq(Words)
  BY Shapes
<1>1. ASSUME NEW m \in Messages, QueueTurn(m) \/ DeliverQueued(m)
      PROVE  MessagesKept'
  <2>1. pending' = Append(pending, m)
    BY <1>1 DEF QueueTurn, DeliverQueued, queue_message
  <2>2. Elems(Append(pending, m)) = Elems(pending) \cup {m}
    BY <1>0, ElemsOfAppend
  <2> QED
    BY <1>1, <2>1, <2>2, KeptUnworked DEF QueueTurn, DeliverQueued
<1>2. ASSUME NEW m \in Inbound, DeliverUnready(m)
      PROVE  MessagesKept'
  BY <1>2, KeptUnworked DEF DeliverUnready
<1>3. ASSUME NEW w \in Workers, NEW m \in Messages,
             PostTurn(w, m) \/ Followup(w, m)
      PROVE  MessagesKept'
  <2>1. Claim(w, "chat", "setup", m) \/ Claim(w, "followup", "run", m)
    BY <1>3 DEF PostTurn, Followup
  <2>2. InHand(w) = {}
    BY <1>3 DEF PostTurn, Followup, Idle, InHand
  <2>3. posted' = posted \cup {m} /\ UNCHANGED <<archived, pending, lost>>
    BY <1>3 DEF PostTurn, Followup
  <2>4. /\ task' = [task EXCEPT ![w] = task'[w]]
        /\ InHand(w)' = Elems(ctx) \cup {m}
    BY <2>1, ClaimHands
  <2> QED
    BY <2>2, <2>3, <2>4, KeptStep
<1>4. ASSUME NEW w \in Workers, NEW m \in Inbound, DeliverClaim(w, m)
      PROVE  MessagesKept'
  <2>1. /\ task' = [task EXCEPT ![w] = task'[w]]
        /\ task'[w].st = <<m>> /\ task'[w].pc = "permit" /\ task[w].pc = "off"
    BY <1>4 DEF TypeOK, DeliverClaim, Idle, Off
  <2>2. InHand(w) = {} /\ InHand(w)' = {m}
    BY <2>1, ElemsOfOne DEF InHand
  <2> QED
    BY <1>4, <2>1, <2>2, KeptStep DEF DeliverClaim
<1>5. ASSUME NEW w \in Workers, NEW m \in Records,
             RecordFlow(w, m) \/ RecordTick(w, m)
      PROVE  MessagesKept'
  <2>1. /\ task' = [task EXCEPT ![w] = task'[w]]
        /\ task'[w].st = <<m>> /\ task'[w].pc = "file" /\ task[w].pc = "off"
    BY <1>5 DEF TypeOK, RecordFlow, RecordTick, Idle, Off
  <2>2. InHand(w) = {} /\ InHand(w)' = {m}
    BY <2>1, ElemsOfOne DEF InHand
  <2>3. Elems(archived) \cup Elems(ctx) \subseteq Elems(archived') \cup Elems(ctx')
    BY <1>5, ArchiveMoves DEF RecordFlow, RecordTick
  <2> QED
    BY <1>5, <2>1, <2>2, <2>3, KeptStep DEF RecordFlow, RecordTick
<1>6. ASSUME NEW w \in Workers, StartCompact(w) \/ Reset(w)
      PROVE  MessagesKept'
  <2>1. task' = [task EXCEPT ![w] = task'[w]] /\ InHand(w) = {}
    BY <1>6 DEF TypeOK, StartCompact, Reset, Idle, InHand
  <2>2. Elems(archived) \cup Elems(ctx) \subseteq Elems(archived') \cup Elems(ctx')
    BY <1>6, ArchiveMoves DEF StartCompact, Reset
  <2> QED
    BY <1>6, <2>1, <2>2, KeptStep DEF StartCompact, Reset
<1>7. CASE PressStop \/ DeleteChat
  BY <1>7, KeptUnworked DEF PressStop, DeleteChat
<1> QED
  BY <1>1, <1>2, <1>3, <1>4, <1>5, <1>6, <1>7, MessageSets DEF Request

\* A worker passes on what it holds, or reports it lost.
LEMMA WorkerKeeps ==
    ASSUME TypeOK, HasMessage, MessagesKept, NEW w \in Workers, WorkerStep(w)
    PROVE  MessagesKept'
<1> USE DEF session, disk, ghosts, counts
<1>0. /\ pending \in Seq(Messages) /\ ctx \in Seq(Messages)
      /\ task[w] \in Tasks /\ task[w].st \in Seq(Messages)
  BY Shapes DEF TypeOK
<1>1. CASE SetupDone(w) \/ PermitGranted(w) \/ CompactDone(w)
  <2>1. /\ task' = [task EXCEPT ![w] = task'[w]] /\ InHand(w)' = InHand(w)
    BY <1>0, <1>1
    DEF TypeOK, SetupDone, PermitGranted, CompactDone, Move, At, Tasks, InHand
  <2> QED
    BY <1>1, <2>1, KeptStep DEF SetupDone, PermitGranted, CompactDone
<1>2. CASE SetupFails(w)
  BY <1>2, KeptStep DEF TypeOK, SetupFails, Off, At, InHand
<1>3. CASE Inject(w)
  <2>1. /\ task' = [task EXCEPT ![w] = task'[w]] /\ task'[w].pc = "run"
        /\ task'[w].st = task[w].st \o pending
    BY <1>0, <1>3 DEF TypeOK, Inject, At, Tasks
  <2>2. InHand(w)' = InHand(w) \cup Elems(pending)
    BY <1>0, <1>3, <2>1, ElemsOfConcat DEF Inject, At, InHand
  <2> QED
    BY <1>3, <2>1, <2>2, KeptStep DEF Inject
<1>4. CASE RefreshSnapshot(w)
  BY <1>4, KeptUnworked DEF RefreshSnapshot
<1>5. CASE TurnEnds(w) \/ TurnStops(w) \/ TurnErrors(w)
  <2>1. PICK dropped : /\ GiveBack(w, ctx', dropped)
                       /\ Elems(task[w].st) \subseteq Elems(ctx') \cup dropped
    BY <1>5 DEF TurnEnds, TurnStops, TurnErrors, GiveBack
  <2>2. /\ task' = [task EXCEPT ![w] = task'[w]] /\ InHand(w) = Elems(task[w].st)
    BY <1>5, <2>1 DEF TypeOK, GiveBack, TurnEnds, TurnStops, TurnErrors, At, InHand
  <2> QED
    BY <2>1, <2>2, KeptStep DEF GiveBack
<1>6. CASE PersistAtOnce(w) \/ PersistWrite(w)
  <2>1. /\ task' = Finish(w) /\ task[w].pc \in {"persist", "write"}
        /\ UNCHANGED <<pending, archived, ctx, posted, lost>>
    BY <1>6 DEF PersistAtOnce, PersistWrite, At
  <2>2. task' = [task EXCEPT ![w] = task'[w]] /\ InHand(w) = {}
    BY <2>1 DEF TypeOK, Finish, InHand
  <2> QED
    BY <2>1, <2>2, KeptStep
<1>7. CASE PersistSnapshot(w)
  <2>1. task' = [task EXCEPT ![w] = task'[w]] /\ InHand(w) = {}
    BY <1>0, <1>7 DEF TypeOK, PersistSnapshot, At, InHand, Tasks
  <2> QED
    BY <1>7, <2>1, KeptStep DEF PersistSnapshot
<1>8. CASE DrainNext(w)
  <2>1. /\ Head(pending) \in Messages
        /\ Elems(pending) = {Head(pending)} \cup Elems(pending')
    BY <1>0, <1>8, HeadTailProperties, ElemsOfHeadTail DEF DrainNext
  <2>2. InHand(w) = {}
    BY <1>8 DEF DrainNext, At, InHand
  <2>3. /\ Claim(w, "chat", "run", Head(pending))
        /\ UNCHANGED <<archived, posted, lost>>
    BY <1>8 DEF DrainNext
  <2>4. /\ task' = [task EXCEPT ![w] = task'[w]]
        /\ InHand(w)' = Elems(ctx) \cup {Head(pending)}
    BY <2>1, <2>3, ClaimHands
  <2> QED
    BY <2>1, <2>2, <2>3, <2>4, KeptStep
<1>9. CASE DrainDone(w) \/ GatewayDone(w) \/ CompactFails(w)
  <2>1. task' = [task EXCEPT ![w] = task'[w]] /\ InHand(w) = {}
    BY <1>9 DEF TypeOK, DrainDone, GatewayDone, CompactFails, At, InHand
  <2> QED
    BY <1>9, <2>1, KeptStep DEF DrainDone, GatewayDone, CompactFails
<1>10. CASE PermitDenied(w)
  <2>1. PICK m \in Messages : task[w].st = <<m>> /\ Head(task[w].st) = m
    BY <1>10 DEF PermitDenied, HasMessage
  <2>2. InHand(w) = {m} /\ Elems(pending') = Elems(pending) \cup {m}
    BY <1>0, <1>10, <2>1, ElemsOfOne, ElemsOfAppend
    DEF PermitDenied, queue_message, At, InHand
  <2>3. task' = [task EXCEPT ![w] = task'[w]]
    BY <1>10 DEF TypeOK, PermitDenied
  <2> QED
    BY <1>10, <2>2, <2>3, KeptStep DEF PermitDenied
<1>11. CASE GatewayTake(w)
  <2>1. PICK m \in Messages : task[w].st = <<m>> /\ Head(task[w].st) = m
    BY <1>11 DEF GatewayTake, HasMessage
  <2>2. InHand(w) = {m}
    BY <1>11, <2>1, ElemsOfOne DEF GatewayTake, At, InHand
  <2>3. Claim(w, "gateway", "run", m) /\ UNCHANGED <<archived, pending, posted, lost>>
    BY <1>11, <2>1 DEF GatewayTake
  <2>4. /\ task' = [task EXCEPT ![w] = task'[w]]
        /\ InHand(w)' = Elems(ctx) \cup {m}
    BY <2>3, ClaimHands
  <2> QED
    BY <2>2, <2>3, <2>4, KeptStep
<1>12. CASE GatewayNext(w)
  <2>1. Elems(pending) = {Head(pending)} \cup Elems(pending')
    BY <1>0, <1>12, ElemsOfHeadTail DEF GatewayNext
  <2>2. /\ task' = [task EXCEPT ![w] = task'[w]] /\ task[w].pc = "next"
        /\ task'[w].pc = "take" /\ task'[w].st = <<Head(pending)>>
    BY <1>0, <1>12 DEF TypeOK, GatewayNext, At, Tasks
  <2>3. InHand(w) = {} /\ InHand(w)' = {Head(pending)}
    BY <2>2, ElemsOfOne DEF InHand
  <2> QED
    BY <1>12, <2>1, <2>2, <2>3, KeptStep DEF GatewayNext
<1>13. CASE FileRecord(w)
  <2>1. Elems(ctx') = Elems(ctx) \cup Elems(task[w].st)
    BY <1>0, <1>13, ElemsOfConcat DEF FileRecord
  <2>2. task' = [task EXCEPT ![w] = task'[w]] /\ InHand(w) = Elems(task[w].st)
    BY <1>13 DEF TypeOK, FileRecord, At, InHand
  <2> QED
    BY <1>13, <2>1, <2>2, KeptStep DEF FileRecord
<1> QED
  BY <1>1, <1>2, <1>3, <1>4, <1>5, <1>6, <1>7, <1>8, <1>9, <1>10, <1>11, <1>12,
     <1>13
  DEF WorkerStep

\* What a restart reads back is all the file holds.
LEMMA RestartReads ==
    ASSUME TypeOK, Restart
    PROVE  /\ Elems(file) = Elems(archived') \cup Elems(ctx')
           /\ Once(file) => /\ Once(archived') /\ Once(ctx')
                            /\ Said(archived') \cap Said(ctx') = {}
<1>1. file \in Seq(Words) /\ LastCut(file) \in 0..Len(file)
  BY Shapes, LastCutIsLast
<1> QED
  BY <1>1, ElemsOfSplit DEF Restart

\* Whatever the chat accepted is waiting, in a worker's hands, in the
\* conversation, or was lost by a failure the code reports: no end of a turn,
\* no path out of the line and no restart drops a message unsaid.
THEOREM NothingIsLostSilently == Spec => []MessagesKept
<1>1. Init => MessagesKept
  BY DEF Init, MessagesKept
<1>2. TypeOK /\ HasMessage /\ MessagesKept /\ [Next]_vars => MessagesKept'
  <2> SUFFICES ASSUME TypeOK, HasMessage, MessagesKept, [Next]_vars
               PROVE  MessagesKept'
    OBVIOUS
  <2>1. CASE Request
    BY <2>1, RequestKeeps
  <2>2. CASE Restart
    <3>1. posted' \subseteq lost' \cup Elems(archived') \cup Elems(ctx')
      BY <2>2, RestartReads DEF Restart
    <3> QED
      BY <3>1 DEF MessagesKept
  <2>3. ASSUME NEW w \in Workers, WorkerStep(w)
        PROVE  MessagesKept'
    BY <2>3, WorkerKeeps
  <2>4. CASE UNCHANGED vars
    BY <2>4, KeptUnworked DEF vars, session, ghosts
  <2> QED
    BY <2>1, <2>2, <2>3, <2>4 DEF Next
<1> QED
  BY <1>1, <1>2, TypeCorrect, PTL DEF Spec

(***************************************************************************)
(* No message is run twice.  That each is in one place only is not         *)
(* inductive: a restart brings back what is in the file, a worker writes   *)
(* the file from a transcript it has collected, that transcript may hold   *)
(* the snapshot of a turn, and an error brings back what a turn started    *)
(* from.  So every such copy holds no message twice (`Single'), only       *)
(* messages the chat has accepted (`Known'), and the snapshot of a turn    *)
(* that is gone nothing that is anywhere else (`Apart').                   *)
(***************************************************************************)

\* Messages on their way to a context, or to the line.
Kept(w) ==
    IF task[w].pc \in {"permit", "take", "file"} THEN Elems(task[w].st) ELSE {}

Papers(w) == Said(task[w].st) \cup Said(task[w].before) \cup Said(task[w].snap)

Known ==
    /\ Said(pending) \cup Said(ctx) \cup Said(running) \cup Said(archived)
           \cup Said(file) \subseteq posted
    /\ \A w \in Workers : Papers(w) \subseteq posted
    /\ posted \cap Inbound \subseteq seen

Single ==
    /\ Once(pending) /\ Once(ctx) /\ Once(running) /\ Once(archived) /\ Once(file)
    /\ \A w \in Workers : /\ Once(task[w].st) /\ Once(task[w].before)
                          /\ Once(task[w].snap)

Apart ==
    /\ Said(pending) \cap Said(ctx) = {}
    /\ Said(pending) \cap Said(archived) = {}
    /\ Said(ctx) \cap Said(archived) = {}
    /\ Said(running) \cap (Said(pending) \cup Said(ctx) \cup Said(archived)) = {}
    /\ \A w \in Workers :
        /\ InHand(w) \cap (Said(pending) \cup Said(ctx) \cup Said(archived)) = {}
        /\ Kept(w) \cap Said(running) = {}
        /\ task[w].pc \in {"setup", "run"} =>
               Elems(task[w].before) \subseteq Elems(task[w].st)
        /\ \A v \in Workers : v # w => InHand(w) \cap InHand(v) = {}

OnceInv == Known /\ Single /\ Apart

\* Messages are no dividers.
LEMMA SaidOfMessages ==
    ASSUME NEW s \in Seq(Messages)
    PROVE  Said(s) = Elems(s)
BY ElemsOfSeq, MessagesDisjoint DEF Said

\* What a worker holds is in its papers.
LEMMA InHandSaid ==
    ASSUME TypeOK, NEW w \in Workers
    PROVE  /\ Kept(w) \subseteq InHand(w) /\ InHand(w) \subseteq Papers(w)
           /\ Said(task[w].st) = Elems(task[w].st)
           /\ Said(task[w].before) = Elems(task[w].before)
           /\ InHand(w) \subseteq Messages
<1>1. task[w].st \in Seq(Messages) /\ task[w].before \in Seq(Messages)
  BY Shapes
<1> QED
  BY <1>1, SaidOfMessages, ElemsOfSeq DEF Kept, InHand, Papers

\* The whereabouts of a message, in the terms of the invariant.
LEMMA OnceIsOnce ==
    ASSUME TypeOK, OnceInv
    PROVE  RunOnce
<1> SUFFICES ASSUME NEW m \in Messages
             PROVE  Cardinality(
                {<<"pending", i>> : i \in {j \in 1..Len(pending) : pending[j] = m}}
                \cup {<<"archived", i>> : i \in {j \in 1..Len(archived) : archived[j] = m}}
                \cup {<<"ctx", i>> : i \in {j \in 1..Len(ctx) : ctx[j] = m}}
                \cup {<<w, i>> : w \in {v \in Workers : m \in InHand(v)},
                                  i \in {0}}) <= 1
  BY DEF RunOnce
<1> DEFINE p == {<<"pending", i>> : i \in {j \in 1..Len(pending) : pending[j] = m}}
           a == {<<"archived", i>> : i \in {j \in 1..Len(archived) : archived[j] = m}}
           c == {<<"ctx", i>> : i \in {j \in 1..Len(ctx) : ctx[j] = m}}
           h == {<<w, i>> : w \in {v \in Workers : m \in InHand(v)}, i \in {0}}
           all == p \cup a \cup c \cup h
<1>0. m # Divider
  BY MessagesDisjoint
<1>1. p # {} => m \in Said(pending)
  BY <1>0 DEF Said, Elems
<1>2. a # {} => m \in Said(archived)
  BY <1>0 DEF Said, Elems
<1>3. c # {} => m \in Said(ctx)
  BY <1>0 DEF Said, Elems
<1>4. \A x, y \in p : x = y
  BY <1>0 DEF OnceInv, Single, Once
<1>5. \A x, y \in a : x = y
  BY <1>0 DEF OnceInv, Single, Once
<1>6. \A x, y \in c : x = y
  BY <1>0 DEF OnceInv, Single, Once
<1>7. \A x \in h : \E w \in Workers : m \in InHand(w) /\ x = <<w, 0>>
  OBVIOUS
<1>8. \A x, y \in h : x = y
  BY <1>7 DEF OnceInv, Apart
<1> HIDE DEF p, a, c, h
<1>9. \A x, y \in all : x = y
  BY <1>1, <1>2, <1>3, <1>4, <1>5, <1>6, <1>7, <1>8 DEF OnceInv, Apart
<1>10. all = {} \/ \E x : all = {x}
  BY <1>9
<1>11. Cardinality(all) <= 1
  <2>1. CASE all = {}
    <3>1. IsFiniteSet({})
      BY FS_EmptySet
    <3>2. Cardinality(all) = 0
      BY <2>1, <3>1, FS_EmptySet
    <3> QED
      BY <3>2
  <2>2. ASSUME NEW x, all = {x} PROVE Cardinality(all) <= 1
    <3>1. Cardinality({x}) = 1
      BY FS_Singleton
    <3> QED
      BY <2>2, <3>1
  <2> QED
    BY <1>10, <2>1, <2>2
<1> QED
  BY <1>11 DEF p, a, c, h

\* A step of one worker, with at most one message just accepted: what it has
\* and shares is made of what it had and shared, nothing twice.
LEMMA OnceStep ==
    ASSUME TypeOK, TypeOK', OnceInv, NEW w \in Workers, NEW fresh,
           task' = [task EXCEPT ![w] = task'[w]],
           posted' = posted \cup fresh, fresh \cap posted = {},
           seen \subseteq seen', fresh \cap Inbound \subseteq seen',
           Said(file') \cup Papers(w)'
             \subseteq Said(pending) \cup Said(ctx) \cup Said(running)
                         \cup Said(archived) \cup Said(file) \cup Papers(w) \cup fresh,
           Once(pending') /\ Once(ctx') /\ Once(running') /\ Once(archived')
             /\ Once(file'),
           Once(task'[w].st) /\ Once(task'[w].before) /\ Once(task'[w].snap),
           Said(pending') \cup Said(ctx') \cup Said(archived') \cup InHand(w)'
             \subseteq Said(pending) \cup Said(ctx) \cup Said(archived) \cup InHand(w)
                         \cup fresh,
           Said(pending') \cap Said(ctx') = {},
           Said(pending') \cap Said(archived') = {},
           Said(ctx') \cap Said(archived') = {},
           InHand(w)' \cap (Said(pending') \cup Said(ctx') \cup Said(archived')) = {},
           Said(running') \subseteq Said(running) \cup Said(pending) \cup Said(ctx)
                                     \cup InHand(w) \cup fresh,
           Said(running') \cap (Said(pending') \cup Said(ctx') \cup Said(archived')) = {},
           Kept(w)' \cap Said(running') = {},
           task'[w].pc \in {"setup", "run"} =>
               Elems(task'[w].before) \subseteq Elems(task'[w].st)
    PROVE  OnceInv'
<1>1. \A v \in Workers : v # w => task'[v] = task[v]
  BY DEF TypeOK
<1>2. \A v \in Workers : v # w =>
         InHand(v)' = InHand(v) /\ Kept(v)' = Kept(v) /\ Papers(v)' = Papers(v)
  BY <1>1 DEF InHand, Kept, Papers
<1>3. \A v \in Workers : /\ Kept(v) \subseteq InHand(v)
                         /\ InHand(v) \subseteq Papers(v)
                         /\ Papers(v) \subseteq posted
  BY InHandSaid DEF OnceInv, Known
<1>4. Known'
  <2>1. Papers(w) \cup Said(pending) \cup Said(ctx) \cup Said(running)
          \cup Said(archived) \cup Said(file) \cup InHand(w) \subseteq posted
    BY <1>3 DEF OnceInv, Known
  <2>2. Said(file') \cup Papers(w)' \subseteq posted'
    BY <2>1
  <2>3. Said(pending') \cup Said(ctx') \cup Said(archived') \cup Said(running') \subseteq posted'
    BY <2>1
  <2>4. \A v \in Workers : Papers(v)' \subseteq posted'
    BY <1>2, <1>3, <2>2
  <2>5. posted' \cap Inbound \subseteq seen'
    BY DEF OnceInv, Known
  <2> QED
    BY <2>2, <2>3, <2>4, <2>5 DEF Known, Said, Papers, Elems
<1>5. Single'
  <2>1. \A v \in Workers : /\ Once(task'[v].st) /\ Once(task'[v].before)
                           /\ Once(task'[v].snap)
    BY <1>1 DEF OnceInv, Single
  <2> QED
    BY <2>1 DEF Single, Once
<1>6. Apart'
  <2>1. \A v \in Workers : v # w =>
          /\ InHand(v) \cap (Said(pending) \cup Said(ctx) \cup Said(archived)
                              \cup InHand(w) \cup fresh) = {}
          /\ Kept(v) \cap (Said(running) \cup Said(pending) \cup Said(ctx)
                            \cup InHand(w) \cup fresh) = {}
    BY <1>3 DEF OnceInv, Apart
  <2>2. \A v \in Workers : v # w =>
          /\ InHand(v)' \cap (Said(pending') \cup Said(ctx') \cup Said(archived')) = {}
          /\ InHand(v)' \cap InHand(w)' = {}
          /\ Kept(v)' \cap Said(running') = {}
    BY <1>2, <2>1
  <2>3. \A v, u \in Workers : v # u => InHand(v)' \cap InHand(u)' = {}
    <3> SUFFICES ASSUME NEW v \in Workers, NEW u \in Workers, v # u
                 PROVE  InHand(v)' \cap InHand(u)' = {}
      OBVIOUS
    <3>1. CASE v # w /\ u # w
      BY <1>2, <3>1 DEF OnceInv, Apart
    <3>2. CASE v = w \/ u = w
      BY <2>2, <3>2
    <3> QED
      BY <3>1, <3>2
  <2>4. \A v \in Workers : task'[v].pc \in {"setup", "run"} =>
               Elems(task'[v].before) \subseteq Elems(task'[v].st)
    BY <1>1 DEF OnceInv, Apart
  <2>5. \A v \in Workers :
          /\ InHand(v)' \cap (Said(pending') \cup Said(ctx') \cup Said(archived')) = {}
          /\ Kept(v)' \cap Said(running') = {}
    BY <2>2
  <2> QED
    BY <2>3, <2>4, <2>5 DEF Apart, Said, Elems
<1> QED
  BY <1>4, <1>5, <1>6 DEF OnceInv

\* The same when no worker is involved: a message joins the line, or the file
\* goes.
LEMMA OnceUnworked ==
    ASSUME TypeOK, OnceInv, NEW fresh,
           UNCHANGED <<task, ctx, running, archived>>,
           posted' = posted \cup fresh, fresh \cap posted = {},
           seen \subseteq seen', fresh \cap Inbound \subseteq seen',
           Said(file') \subseteq Said(file), Once(file'),
           Said(pending') \subseteq Said(pending) \cup fresh, Once(pending')
    PROVE  OnceInv'
<1>1. \A v \in Workers :
         InHand(v)' = InHand(v) /\ Kept(v)' = Kept(v) /\ Papers(v)' = Papers(v)
  BY DEF InHand, Kept, Papers
<1>2. \A v \in Workers : /\ Kept(v) \subseteq InHand(v)
                         /\ InHand(v) \subseteq Papers(v)
                         /\ Papers(v) \subseteq posted
  BY InHandSaid DEF OnceInv, Known
<1>3. /\ Said(ctx)' = Said(ctx) /\ Said(running)' = Said(running)
      /\ Said(archived)' = Said(archived)
      /\ Said(pending)' = Said(pending') /\ Said(file)' = Said(file')
  BY DEF Said, Elems
<1>4. Known'
  BY <1>1, <1>2, <1>3 DEF OnceInv, Known
<1>5. Single'
  BY DEF OnceInv, Single, Once
<1>6. Apart'
  <2>1. /\ Said(pending') \cap Said(ctx) = {} /\ Said(pending') \cap Said(archived) = {}
        /\ Said(running) \cap Said(pending') = {}
    BY DEF OnceInv, Apart, Known
  <2>2. \A v \in Workers : InHand(v) \cap Said(pending') = {}
    BY <1>2 DEF OnceInv, Apart
  <2> QED
    BY <1>1, <1>3, <2>1, <2>2 DEF OnceInv, Apart
<1> QED
  BY <1>4, <1>5, <1>6 DEF OnceInv

\* The start of a turn: the message it is for comes from the line, from the
\* worker's hands or from outside, and is nowhere else.
LEMMA ClaimOnce ==
    ASSUME TypeOK, TypeOK', OnceInv, NEW w \in Workers, NEW kind,
           NEW place, place = "setup" \/ place = "run", NEW m \in Messages,
           NEW fresh,
           Claim(w, kind, place, m),
           posted' = posted \cup fresh, fresh \cap posted = {},
           seen \subseteq seen', fresh \cap Inbound \subseteq seen',
           UNCHANGED <<archived, file>>,
           InHand(w) \subseteq {m}, fresh \subseteq {m},
           m \in Said(pending) \cup InHand(w) \cup fresh,
           Once(pending'), Said(pending') \subseteq Said(pending) \ {m}
    PROVE  OnceInv'
<1>1. /\ task' = [task EXCEPT ![w] = task'[w]]
      /\ task'[w].st = ctx \o <<m>> /\ task'[w].before = ctx \o <<m>>
      /\ task'[w].pc = place /\ task'[w].snap = <<>>
      /\ InHand(w)' = Elems(ctx) \cup {m}
      /\ running' = ctx \o <<m>> /\ Elems(running') = Elems(ctx) \cup {m}
      /\ ctx' = <<>> /\ Elems(ctx') = {}
  BY ClaimHands
<1>2. /\ Said(ctx) = Elems(ctx) /\ Said(pending) = Elems(pending)
      /\ Said(ctx') = {} /\ m # Divider
  <2>1. Said(ctx) = Elems(ctx) /\ Said(pending) = Elems(pending)
    BY Shapes, SaidOfMessages
  <2>2. Said(ctx') = {}
    BY <1>1 DEF Said
  <2> QED
    BY <2>1, <2>2, MessagesDisjoint
<1>3. m \notin Elems(ctx) /\ m \notin Said(archived)
  <2>1. m \in fresh => m \notin Said(ctx) \cup Said(archived)
    BY DEF OnceInv, Known
  <2> QED
    BY <1>2, <2>1 DEF OnceInv, Apart
<1>4. Once(ctx \o <<m>>)
  <2>1. ctx \in Seq(Messages) /\ Once(ctx)
    BY Shapes DEF OnceInv, Single
  <2>2. Append(ctx, m) = ctx \o <<m>>
    BY <2>1, AppendIsConcat
  <2>3. Once(Append(ctx, m))
    BY <1>3, <2>1, ElemsOfAppend
  <2> QED
    BY <2>2, <2>3
<1>5. /\ Said(running') = Elems(ctx) \cup {m} /\ Said(task'[w].st) = Elems(ctx) \cup {m}
      /\ Said(task'[w].before) = Elems(ctx) \cup {m} /\ Said(task'[w].snap) = {}
      /\ Elems(task'[w].before) = Elems(task'[w].st)
  BY <1>1, <1>2, <1>3, ElemsOfEmpty DEF Said
<1>6. Papers(w)' = Elems(ctx) \cup {m}
  BY <1>5 DEF Papers, Said, Elems
<1>7. Kept(w)' = {}
  BY <1>1 DEF Kept
<1>8. /\ Once(running') /\ Once(task'[w].st) /\ Once(task'[w].before)
      /\ Once(task'[w].snap) /\ Once(ctx') /\ Once(archived') /\ Once(file')
  BY <1>1, <1>4, ElemsOfEmpty DEF OnceInv, Single, Once
<1>9. /\ Said(archived') = Said(archived) /\ Said(file') = Said(file)
      /\ InHand(w) \subseteq Papers(w)
  BY InHandSaid DEF Said, Elems
<1>10. Said(pending) \cap Said(archived) = {} /\ Said(pending) \cap Said(ctx) = {}
       /\ Said(ctx) \cap Said(archived) = {}
  BY DEF OnceInv, Apart
<1>11. /\ Said(file') \cup Papers(w)'
             \subseteq Said(pending) \cup Said(ctx) \cup Said(running)
                         \cup Said(archived) \cup Said(file) \cup Papers(w) \cup fresh
       /\ Said(pending') \cup Said(ctx') \cup Said(archived') \cup InHand(w)'
             \subseteq Said(pending) \cup Said(ctx) \cup Said(archived) \cup InHand(w)
                         \cup fresh
       /\ Said(running') \subseteq Said(running) \cup Said(pending) \cup Said(ctx)
                                     \cup InHand(w) \cup fresh
  BY <1>1, <1>2, <1>5, <1>6, <1>9
<1>12. /\ Said(pending') \cap Said(ctx') = {}
       /\ Said(pending') \cap Said(archived') = {}
       /\ Said(ctx') \cap Said(archived') = {}
       /\ InHand(w)' \cap (Said(pending') \cup Said(ctx') \cup Said(archived')) = {}
       /\ Said(running') \cap (Said(pending') \cup Said(ctx') \cup Said(archived')) = {}
       /\ Kept(w)' \cap Said(running') = {}
  BY <1>1, <1>2, <1>3, <1>5, <1>7, <1>9, <1>10
<1> QED
  BY <1>1, <1>5, <1>8, <1>11, <1>12, OnceStep

\* A worker moves on and no sequence of the chat changes.
LEMMA OnceMoves ==
    ASSUME TypeOK, TypeOK', OnceInv, NEW w \in Workers,
           task' = [task EXCEPT ![w] = task'[w]],
           UNCHANGED <<ctx, running, archived, pending, file, posted, seen>>,
           task'[w].st \in {<<>>, task[w].st},
           task'[w].before \in {<<>>, task[w].before},
           task'[w].snap \in {<<>>, task[w].snap},
           InHand(w)' \subseteq InHand(w),
           Kept(w)' \subseteq Kept(w),
           task'[w].pc \in {"setup", "run"} =>
               /\ task[w].pc \in {"setup", "run"}
               /\ task'[w].before = task[w].before /\ task'[w].st = task[w].st
    PROVE  OnceInv'
<1>1. /\ Papers(w)' = Said(task'[w].st) \cup Said(task'[w].before) \cup Said(task'[w].snap)
      /\ Papers(w) = Said(task[w].st) \cup Said(task[w].before) \cup Said(task[w].snap)
  BY DEF Papers, Said, Elems
<1>2. Papers(w)' \subseteq Papers(w)
  <2>1. Said(<<>>) = {}
    BY ElemsOfEmpty DEF Said
  <2>2. /\ Said(task'[w].st) \subseteq Said(task[w].st)
        /\ Said(task'[w].before) \subseteq Said(task[w].before)
        /\ Said(task'[w].snap) \subseteq Said(task[w].snap)
    BY <2>1
  <2> QED
    BY <1>1, <2>2
<1>3. Once(task'[w].st) /\ Once(task'[w].before) /\ Once(task'[w].snap)
  BY ElemsOfEmpty DEF OnceInv, Single
<1>4. /\ Once(pending') /\ Once(ctx') /\ Once(running') /\ Once(archived') /\ Once(file')
      /\ Said(pending') = Said(pending) /\ Said(ctx') = Said(ctx)
      /\ Said(running') = Said(running) /\ Said(archived') = Said(archived)
      /\ Said(file') = Said(file)
  BY DEF OnceInv, Single
<1>5. /\ task'[w].pc \in {"setup", "run"} =>
           Elems(task'[w].before) \subseteq Elems(task'[w].st)
      /\ posted' = posted \cup {} /\ {} \cap posted = {} /\ seen \subseteq seen'
      /\ {} \cap Inbound \subseteq seen'
  BY DEF OnceInv, Apart
<1>6. /\ Said(pending) \cap Said(ctx) = {} /\ Said(pending) \cap Said(archived) = {}
      /\ Said(ctx) \cap Said(archived) = {}
      /\ Said(running) \cap (Said(pending) \cup Said(ctx) \cup Said(archived)) = {}
      /\ InHand(w) \cap (Said(pending) \cup Said(ctx) \cup Said(archived)) = {}
      /\ Kept(w) \cap Said(running) = {}
  BY DEF OnceInv, Apart
<1> QED
  BY <1>2, <1>3, <1>4, <1>5, <1>6, OnceStep

\* A reset keeps what the model was shown, once.
LEMMA ArchiveOnce ==
    ASSUME TypeOK, OnceInv, Archive
    PROVE  /\ Said(archived') = Said(archived) \cup Said(ctx) /\ Once(archived')
           /\ Said(ctx') = {} /\ Once(ctx')
<1>1. ctx \in Seq(Words) /\ archived \in Seq(Words) /\ Divider \in Words
  BY Shapes, MessageSets
<1>2. PICK both \in Seq(Words) : both = archived \o ctx
  BY <1>1, ConcatProperties
<1>3. Once(both)
  BY <1>1, <1>2, OnceConcat DEF OnceInv, Single, Apart
<1>4. both \o <<Divider>> = Append(both, Divider)
  BY <1>1, AppendIsConcat
<1>5. Once(Append(both, Divider))
  <2>1. PICK end \in Seq(Words) : end = <<Divider>>
    <3>1. <<Divider>> \in Seq(Words)
      BY <1>1
    <3> QED
      BY <3>1, Zenon
  <2>2. Once(end) /\ Said(end) = {}
    BY <2>1, ElemsOfOne DEF Said
  <2> QED
    BY <1>3, <1>4, <2>1, <2>2, OnceConcat
<1>6. Said(archived') = Said(archived) \cup Said(ctx) /\ Said(ctx') = {}
  BY ArchiveMoves DEF Said
<1> QED
  BY <1>2, <1>4, <1>5, <1>6, ElemsOfEmpty DEF Archive

\* A request brings in a message nobody has, if it brings one.
LEMMA RequestOnce ==
    ASSUME TypeOK, TypeOK', OnceInv, Request
    PROVE  OnceInv'
<1> USE DEF session, disk, ghosts, counts
<1>0. /\ pending \in Seq(Messages) /\ Said(pending) = Elems(pending)
      /\ Once(pending) /\ Once(file) /\ Once(archived) /\ Once(ctx) /\ Once(running)
      /\ Divider \notin Messages
  BY Shapes, SaidOfMessages, MessagesDisjoint DEF OnceInv, Single
<1>1. ASSUME NEW m \in Messages,
             \/ m \in Typed /\ QueueTurn(m)
             \/ m \in Inbound /\ DeliverQueued(m)
      PROVE  OnceInv'
  <2>1. pending' = Append(pending, m)
    BY <1>1 DEF QueueTurn, DeliverQueued, queue_message
  <2>2. m \notin posted
    BY <1>1, <1>0 DEF QueueTurn, DeliverQueued, Fresh, OnceInv, Known
  <2>3. m \notin Elems(pending)
    BY <1>0, <2>2 DEF OnceInv, Known
  <2>4. Once(Append(pending, m)) /\ Elems(Append(pending, m)) = Elems(pending) \cup {m}
    BY <1>0, <2>3, ElemsOfAppend
  <2>5. Said(pending') \subseteq Said(pending) \cup {m} /\ Once(pending')
    BY <1>0, <2>1, <2>4 DEF Said
  <2>6. /\ UNCHANGED <<task, ctx, running, archived, file>>
        /\ posted' = posted \cup {m} /\ {m} \cap posted = {}
        /\ seen \subseteq seen' /\ {m} \cap Inbound \subseteq seen'
    <3>1. m \in Typed /\ QueueTurn(m) => {m} \cap Inbound = {} /\ seen' = seen
      BY MessagesDisjoint DEF QueueTurn
    <3>2. m \in Inbound /\ DeliverQueued(m) => seen' = seen \cup {m}
      BY DEF DeliverQueued
    <3>3. /\ UNCHANGED <<task, ctx, running, archived, file>>
          /\ posted' = posted \cup {m}
      BY <1>1 DEF QueueTurn, DeliverQueued
    <3>4. seen' = seen \/ seen' = seen \cup {m}
      BY <1>1 DEF QueueTurn, DeliverQueued
    <3>5. {m} \cap Inbound \subseteq seen'
      BY <1>1, <3>1, <3>2
    <3>6. {m} \cap posted = {} /\ seen \subseteq seen'
      BY <2>2, <3>4
    <3> QED
      BY <3>3, <3>5, <3>6
  <2> QED
    BY <1>0, <2>5, <2>6, OnceUnworked
<1>2. ASSUME NEW m \in Inbound, DeliverUnready(m)
      PROVE  OnceInv'
  <2>1. {m} \cap posted = {}
    BY <1>2 DEF DeliverUnready, OnceInv, Known
  <2> QED
    BY <1>0, <1>2, <2>1, OnceUnworked DEF DeliverUnready
<1>3. ASSUME NEW w \in Workers, NEW m \in Messages,
             \/ m \in Typed /\ PostTurn(w, m)
             \/ m \in Followups /\ Followup(w, m)
      PROVE  OnceInv'
  <2>1. Claim(w, "chat", "setup", m) \/ Claim(w, "followup", "run", m)
    BY <1>3 DEF PostTurn, Followup
  <2>2. InHand(w) = {}
    BY <1>3 DEF PostTurn, Followup, Idle, InHand
  <2>3. /\ posted' = posted \cup {m} /\ {m} \cap posted = {}
        /\ seen' = seen /\ {m} \cap Inbound = {}
        /\ UNCHANGED <<archived, file, pending>>
    BY <1>3, MessagesDisjoint DEF PostTurn, Followup, Fresh
  <2>4. Said(pending') \subseteq Said(pending) \ {m}
    BY <2>3 DEF OnceInv, Known
  <2> QED
    BY <1>0, <2>1, <2>2, <2>3, <2>4, ClaimOnce
<1>4. ASSUME NEW w \in Workers, NEW m \in Messages,
             task' = [task EXCEPT ![w] = task'[w]], task[w].pc = "off",
             task'[w].pc \in {"permit", "file"}, task'[w].st = <<m>>,
             task'[w].before = <<>>, task'[w].snap = <<>>,
             posted' = posted \cup {m}, m \notin posted,
             seen \subseteq seen', {m} \cap Inbound \subseteq seen',
             UNCHANGED <<pending, running, file>>,
             Once(archived') /\ Once(ctx'),
             \/ UNCHANGED <<ctx, archived>>
             \/ /\ Said(archived') = Said(archived) \cup Said(ctx)
                /\ Said(ctx') = {}
      PROVE  OnceInv'
  <2>1. InHand(w)' = {m} /\ Kept(w)' = {m} /\ InHand(w) = {}
    BY <1>4, ElemsOfOne DEF InHand, Kept
  <2>2. Papers(w)' = {m}
    <3>1. Said(task'[w].st) = {m} /\ Said(task'[w].before) = {} /\ Said(task'[w].snap) = {}
      BY <1>0, <1>4, ElemsOfOne, ElemsOfEmpty DEF Said
    <3> QED
      BY <3>1 DEF Papers, Said, Elems
  <2>3. Once(task'[w].st) /\ Once(task'[w].before) /\ Once(task'[w].snap)
    BY <1>4, ElemsOfOne, ElemsOfEmpty
  <2>4. /\ Said(pending') = Said(pending) /\ Said(running') = Said(running)
        /\ Said(file') = Said(file)
        /\ Once(pending') /\ Once(running') /\ Once(file')
        /\ \/ Said(archived') = Said(archived) /\ Said(ctx') = Said(ctx)
           \/ Said(archived') = Said(archived) \cup Said(ctx) /\ Said(ctx') = {}
    BY <1>0, <1>4
  <2>5. m \notin Said(pending) \cup Said(ctx) \cup Said(archived) \cup Said(running)
    BY <1>4 DEF OnceInv, Known
  <2>6. /\ Said(pending) \cap Said(ctx) = {} /\ Said(pending) \cap Said(archived) = {}
        /\ Said(ctx) \cap Said(archived) = {}
        /\ Said(running) \cap (Said(pending) \cup Said(ctx) \cup Said(archived)) = {}
    BY DEF OnceInv, Apart
  <2>7. /\ Said(file') \cup Papers(w)'
             \subseteq Said(pending) \cup Said(ctx) \cup Said(running)
                         \cup Said(archived) \cup Said(file) \cup Papers(w) \cup {m}
        /\ Said(pending') \cup Said(ctx') \cup Said(archived') \cup InHand(w)'
             \subseteq Said(pending) \cup Said(ctx) \cup Said(archived) \cup InHand(w)
                         \cup {m}
        /\ Said(running') \subseteq Said(running) \cup Said(pending) \cup Said(ctx)
                                     \cup InHand(w) \cup {m}
    BY <2>1, <2>2, <2>4
  <2>8. /\ Said(pending') \cap Said(ctx') = {}
        /\ Said(pending') \cap Said(archived') = {}
        /\ Said(ctx') \cap Said(archived') = {}
        /\ InHand(w)' \cap (Said(pending') \cup Said(ctx') \cup Said(archived')) = {}
        /\ Said(running') \cap (Said(pending') \cup Said(ctx') \cup Said(archived')) = {}
        /\ Kept(w)' \cap Said(running') = {}
    BY <2>1, <2>4, <2>5, <2>6
  <2>9. {m} \cap posted = {} /\ task'[w].pc \notin {"setup", "run"}
    BY <1>4
  <2> QED
    BY <1>4, <2>3, <2>4, <2>7, <2>8, <2>9, OnceStep
<1>5. ASSUME NEW w \in Workers, NEW m \in Inbound, DeliverClaim(w, m)
      PROVE  OnceInv'
  <2>1. /\ task' = [task EXCEPT ![w] = task'[w]] /\ task[w].pc = "off"
        /\ task'[w].pc = "permit" /\ task'[w].st = <<m>>
        /\ task'[w].before = <<>> /\ task'[w].snap = <<>>
    BY <1>5 DEF TypeOK, DeliverClaim, Idle, Off
  <2>2. m \notin posted /\ m \in Messages
    BY <1>5, MessageSets DEF DeliverClaim, OnceInv, Known
  <2> QED
    BY <1>0, <1>4, <1>5, <2>1, <2>2 DEF DeliverClaim
<1>6. ASSUME NEW w \in Workers, NEW m \in Records,
             RecordFlow(w, m) \/ RecordTick(w, m)
      PROVE  OnceInv'
  <2>1. /\ task' = [task EXCEPT ![w] = task'[w]] /\ task[w].pc = "off"
        /\ task'[w].pc = "file" /\ task'[w].st = <<m>>
        /\ task'[w].before = <<>> /\ task'[w].snap = <<>>
    BY <1>6 DEF TypeOK, RecordFlow, RecordTick, Idle, Off
  <2>2. m \notin posted /\ m \in Messages /\ {m} \cap Inbound = {}
    BY <1>6, MessageSets, MessagesDisjoint DEF RecordFlow, RecordTick, Fresh
  <2>3. /\ posted' = posted \cup {m} /\ seen' = seen
        /\ UNCHANGED <<pending, running, file>>
        /\ Archive \/ UNCHANGED <<ctx, archived>>
    BY <1>6 DEF RecordFlow, RecordTick
  <2>4. /\ Once(archived') /\ Once(ctx')
        /\ \/ UNCHANGED <<ctx, archived>>
           \/ /\ Said(archived') = Said(archived) \cup Said(ctx)
              /\ Said(ctx') = {}
    BY <1>0, <2>3, ArchiveOnce
  <2> QED
    BY <1>4, <2>1, <2>2, <2>3, <2>4
<1>7. ASSUME NEW w \in Workers, StartCompact(w)
      PROVE  OnceInv'
  <2>1. /\ task' = [task EXCEPT ![w] = task'[w]]
        /\ task'[w].pc = "compact" /\ task'[w].st = <<>>
        /\ task'[w].before = <<>> /\ task'[w].snap = <<>>
    BY <1>7 DEF TypeOK, StartCompact, Off
  <2>2. InHand(w)' = {} /\ Kept(w)' = {}
    BY <2>1 DEF InHand, Kept
  <2> QED
    BY <1>7, <2>1, <2>2, OnceMoves DEF StartCompact
<1>8. ASSUME NEW w \in Workers, Reset(w)
      PROVE  OnceInv'
  <2>1. /\ task' = [task EXCEPT ![w] = task'[w]]
        /\ task'[w].pc = "persist" /\ task'[w].st = <<>>
        /\ task'[w].before = <<>> /\ task'[w].snap = <<>>
    BY <1>8 DEF TypeOK, Reset, Off
  <2>2. InHand(w)' = {} /\ Kept(w)' = {}
    BY <2>1 DEF InHand, Kept
  <2>3. Papers(w)' = {}
    <3>1. /\ Said(task'[w].st) = {} /\ Said(task'[w].before) = {}
          /\ Said(task'[w].snap) = {}
      BY <2>1, ElemsOfEmpty DEF Said
    <3> QED
      BY <3>1 DEF Papers, Said, Elems
  <2>4. Once(task'[w].st) /\ Once(task'[w].before) /\ Once(task'[w].snap)
    BY <2>1, ElemsOfEmpty
  <2>5. /\ Said(archived') = Said(archived) \cup Said(ctx) /\ Once(archived')
        /\ Said(ctx') = {} /\ Once(ctx')
    BY <1>8, ArchiveOnce DEF Reset
  <2>6. /\ Said(pending') = Said(pending) /\ Said(running') = Said(running)
        /\ Said(file') = Said(file)
        /\ Once(pending') /\ Once(running') /\ Once(file')
        /\ posted' = posted \cup {} /\ {} \cap posted = {} /\ seen \subseteq seen'
        /\ {} \cap Inbound \subseteq seen'
    BY <1>0, <1>8 DEF Reset
  <2>7. /\ Said(pending) \cap Said(ctx) = {} /\ Said(pending) \cap Said(archived) = {}
        /\ Said(running) \cap (Said(pending) \cup Said(ctx) \cup Said(archived)) = {}
    BY DEF OnceInv, Apart
  <2> QED
    BY <2>1, <2>2, <2>3, <2>4, <2>5, <2>6, <2>7, OnceStep
<1>9. CASE PressStop \/ DeleteChat
  <2>1. /\ Said(file') \subseteq Said(file) /\ Once(file')
        /\ UNCHANGED <<task, ctx, running, archived, pending, posted, seen>>
    BY <1>0, <1>9, ElemsOfEmpty DEF PressStop, DeleteChat, Said
  <2>2. posted' = posted \cup {} /\ {} \cap posted = {} /\ seen \subseteq seen'
        /\ {} \cap Inbound \subseteq seen'
    BY <2>1
  <2> QED
    BY <1>0, <2>1, <2>2, OnceUnworked
<1> QED
  BY <1>1, <1>2, <1>3, <1>5, <1>6, <1>7, <1>8, <1>9, MessageSets DEF Request

\* What a client is shown, and the file gets, holds no message twice.
LEMMA TranscriptOnce ==
    ASSUME TypeOK, OnceInv
    PROVE  /\ Transcript \in Seq(Words) /\ Once(Transcript)
           /\ Said(Transcript) \subseteq Said(archived) \cup Said(running) \cup Said(ctx)
<1> DEFINE shown == IF running # <<>> THEN running ELSE ctx
<1>1. /\ shown \in Seq(Words) /\ archived \in Seq(Words)
      /\ Once(shown) /\ Once(archived) /\ Said(archived) \cap Said(shown) = {}
      /\ Said(shown) \subseteq Said(running) \cup Said(ctx)
  BY Shapes DEF OnceInv, Single, Apart
<1> HIDE DEF shown
<1>2. /\ archived \o shown \in Seq(Words) /\ Once(archived \o shown)
      /\ Elems(archived \o shown) = Elems(archived) \cup Elems(shown)
  BY <1>1, OnceConcat, ElemsOfConcat, ConcatProperties
<1>3. Transcript = archived \o shown
  BY DEF Transcript, shown
<1> QED
  BY <1>1, <1>2, <1>3 DEF Said

\* A worker that is done with its messages holds none.
LEMMA OffHoldsNothing ==
    ASSUME NEW w \in Workers, task'[w].st = <<>>, task'[w].before = <<>>,
           task'[w].snap = <<>>
    PROVE  /\ Papers(w)' = {} /\ Kept(w)' = {} /\ InHand(w)' = {}
           /\ Once(task'[w].st) /\ Once(task'[w].before) /\ Once(task'[w].snap)
<1>1. /\ Said(task'[w].st) = {} /\ Said(task'[w].before) = {}
      /\ Said(task'[w].snap) = {}
  BY ElemsOfEmpty DEF Said
<1>2. Elems(task'[w].st) = {}
  BY ElemsOfEmpty
<1>3. InHand(w)' = {} /\ Kept(w)' = {}
  BY <1>2 DEF InHand, Kept, Elems
<1>4. Papers(w)' = {}
  BY <1>1 DEF Papers, Said, Elems
<1> QED
  BY <1>3, <1>4, ElemsOfEmpty

\* A running turn takes the line over, shows what it holds, and gives it back.
LEMMA TurnOnce ==
    ASSUME TypeOK, TypeOK', OnceInv, NEW w \in Workers,
           Inject(w) \/ RefreshSnapshot(w) \/ TurnEnds(w) \/ TurnStops(w) \/ TurnErrors(w)
    PROVE  OnceInv'
<1> USE DEF session, disk, ghosts, counts
<1>0. /\ pending \in Seq(Messages) /\ Said(pending) = Elems(pending)
      /\ Once(pending) /\ Once(file) /\ Once(archived) /\ Once(ctx) /\ Once(running)
      /\ Once(task[w].st) /\ Once(task[w].before) /\ Once(task[w].snap)
      /\ task[w] \in Tasks /\ task[w].st \in Seq(Messages)
      /\ task[w].before \in Seq(Messages)
      /\ Said(task[w].st) = Elems(task[w].st)
      /\ Said(task[w].before) = Elems(task[w].before)
      /\ InHand(w) \subseteq Papers(w)
  BY Shapes, SaidOfMessages, InHandSaid DEF OnceInv, Single, TypeOK
<1>1. /\ task[w].pc = "run" /\ InHand(w) = Elems(task[w].st)
      /\ Elems(task[w].before) \subseteq Elems(task[w].st)
      /\ UNCHANGED <<archived, file, posted, seen>>
      /\ posted' = posted \cup {} /\ {} \cap posted = {} /\ seen \subseteq seen'
      /\ {} \cap Inbound \subseteq seen'
      /\ Once(archived') /\ Once(file')
      /\ Said(archived') = Said(archived) /\ Said(file') = Said(file)
  BY <1>0 DEF Inject, RefreshSnapshot, TurnEnds, TurnStops, TurnErrors, GiveBack,
              At, InHand, OnceInv, Apart
<1>2. /\ Said(pending) \cap Said(ctx) = {} /\ Said(pending) \cap Said(archived) = {}
      /\ Said(ctx) \cap Said(archived) = {}
      /\ Said(running) \cap (Said(pending) \cup Said(ctx) \cup Said(archived)) = {}
      /\ InHand(w) \cap (Said(pending) \cup Said(ctx) \cup Said(archived)) = {}
  BY DEF OnceInv, Apart
<1>3. CASE Inject(w)
  <2>1. /\ task' = [task EXCEPT ![w] = task'[w]] /\ task'[w].pc = "run"
        /\ task'[w].st = task[w].st \o pending
        /\ task'[w].before = task[w].before /\ task'[w].snap = task[w].snap
        /\ pending' = <<>> /\ UNCHANGED <<ctx, running>>
    BY <1>0, <1>3 DEF TypeOK, Inject, At, Tasks
  <2>2. /\ Elems(task'[w].st) = Elems(task[w].st) \cup Elems(pending)
        /\ Once(task'[w].st)
    BY <1>0, <1>1, <1>2, <2>1, ElemsOfConcat, OnceConcat
  <2>3. /\ InHand(w)' = InHand(w) \cup Said(pending) /\ Kept(w)' = {}
        /\ Papers(w)' \subseteq Papers(w) \cup Said(pending)
    <3>1. /\ Said(task'[w].st) = Said(task[w].st) \cup Said(pending)
          /\ Said(task'[w].before) = Said(task[w].before)
          /\ Said(task'[w].snap) = Said(task[w].snap)
      BY <2>1, <2>2 DEF Said
    <3>2. Papers(w)' = Said(task'[w].st) \cup Said(task'[w].before) \cup Said(task'[w].snap)
      BY DEF Papers, Said, Elems
    <3>3. Papers(w)' \subseteq Papers(w) \cup Said(pending)
      BY <3>1, <3>2 DEF Papers
    <3> QED
      BY <1>0, <1>1, <2>1, <2>2, <3>3 DEF InHand, Kept
  <2>4. /\ Said(pending') = {} /\ Once(pending')
        /\ Said(ctx') = Said(ctx) /\ Said(running') = Said(running)
        /\ Once(ctx') /\ Once(running')
        /\ Once(task'[w].before) /\ Once(task'[w].snap)
    BY <1>0, <2>1, ElemsOfEmpty DEF Said
  <2>5. Elems(task'[w].before) \subseteq Elems(task'[w].st)
    BY <1>1, <2>1, <2>2
  <2>6. /\ Said(file') \cup Papers(w)'
             \subseteq Said(pending) \cup Said(ctx) \cup Said(running)
                         \cup Said(archived) \cup Said(file) \cup Papers(w) \cup {}
        /\ Said(pending') \cup Said(ctx') \cup Said(archived') \cup InHand(w)'
             \subseteq Said(pending) \cup Said(ctx) \cup Said(archived) \cup InHand(w)
                         \cup {}
        /\ Said(running') \subseteq Said(running) \cup Said(pending) \cup Said(ctx)
                                     \cup InHand(w) \cup {}
    BY <1>1, <2>3, <2>4
  <2>7. /\ Said(pending') \cap Said(ctx') = {}
        /\ Said(pending') \cap Said(archived') = {}
        /\ Said(ctx') \cap Said(archived') = {}
        /\ InHand(w)' \cap (Said(pending') \cup Said(ctx') \cup Said(archived')) = {}
        /\ Said(running') \cap (Said(pending') \cup Said(ctx') \cup Said(archived')) = {}
        /\ Kept(w)' \cap Said(running') = {}
    BY <1>1, <1>2, <2>3, <2>4
  <2> QED
    BY <1>1, <2>1, <2>2, <2>4, <2>5, <2>6, <2>7, OnceStep
<1>4. CASE RefreshSnapshot(w)
  <2>1. /\ task' = [task EXCEPT ![w] = task'[w]] /\ task'[w] = task[w]
        /\ running' = task[w].st /\ UNCHANGED <<task, ctx, pending>>
    BY <1>4 DEF TypeOK, RefreshSnapshot
  <2>2. InHand(w)' = InHand(w) /\ Papers(w)' = Papers(w) /\ Kept(w)' = {}
    BY <1>1, <2>1 DEF InHand, Papers, Kept
  <2>3. /\ Said(running') = InHand(w) /\ Once(running')
        /\ Said(pending') = Said(pending) /\ Said(ctx') = Said(ctx)
        /\ Once(pending') /\ Once(ctx')
        /\ Once(task'[w].st) /\ Once(task'[w].before) /\ Once(task'[w].snap)
        /\ Elems(task'[w].before) \subseteq Elems(task'[w].st)
    BY <1>0, <1>1, <2>1
  <2>4. /\ Said(file') \cup Papers(w)'
             \subseteq Said(pending) \cup Said(ctx) \cup Said(running)
                         \cup Said(archived) \cup Said(file) \cup Papers(w) \cup {}
        /\ Said(pending') \cup Said(ctx') \cup Said(archived') \cup InHand(w)'
             \subseteq Said(pending) \cup Said(ctx) \cup Said(archived) \cup InHand(w)
                         \cup {}
        /\ Said(running') \subseteq Said(running) \cup Said(pending) \cup Said(ctx)
                                     \cup InHand(w) \cup {}
    BY <1>1, <2>2, <2>3
  <2>5. /\ Said(pending') \cap Said(ctx') = {}
        /\ Said(pending') \cap Said(archived') = {}
        /\ Said(ctx') \cap Said(archived') = {}
        /\ InHand(w)' \cap (Said(pending') \cup Said(ctx') \cup Said(archived')) = {}
        /\ Said(running') \cap (Said(pending') \cup Said(ctx') \cup Said(archived')) = {}
        /\ Kept(w)' \cap Said(running') = {}
    BY <1>1, <1>2, <2>2, <2>3
  <2> QED
    BY <1>1, <2>1, <2>3, <2>4, <2>5, OnceStep
<1>5. CASE TurnEnds(w) \/ TurnStops(w) \/ TurnErrors(w)
  <2>1. /\ ctx' = task[w].st \/ ctx' = task[w].before
        /\ running' = <<>> /\ pending' = pending
        /\ task' = [task EXCEPT ![w] = task'[w]]
        /\ task'[w].pc = "persist" /\ task'[w].st = <<>>
        /\ task'[w].before = <<>> /\ task'[w].snap = <<>>
    BY <1>5 DEF TypeOK, TurnEnds, TurnStops, TurnErrors, GiveBack, Off
  <2>2. Papers(w)' = {} /\ Kept(w)' = {} /\ InHand(w)' = {}
    BY <2>1, OffHoldsNothing
  <2>3. Once(task'[w].st) /\ Once(task'[w].before) /\ Once(task'[w].snap)
    BY <2>1, OffHoldsNothing
  <2>4. /\ Said(ctx') \subseteq InHand(w) /\ Once(ctx')
        /\ Said(pending') = Said(pending) /\ Once(pending')
        /\ Said(running') = {} /\ Once(running')
    BY <1>0, <1>1, <2>1, ElemsOfEmpty DEF Said
  <2>5. /\ Said(file') \cup Papers(w)'
             \subseteq Said(pending) \cup Said(ctx) \cup Said(running)
                         \cup Said(archived) \cup Said(file) \cup Papers(w) \cup {}
        /\ Said(pending') \cup Said(ctx') \cup Said(archived') \cup InHand(w)'
             \subseteq Said(pending) \cup Said(ctx) \cup Said(archived) \cup InHand(w)
                         \cup {}
        /\ Said(running') \subseteq Said(running) \cup Said(pending) \cup Said(ctx)
                                     \cup InHand(w) \cup {}
    BY <1>1, <2>2, <2>4
  <2>6. /\ Said(pending') \cap Said(ctx') = {}
        /\ Said(pending') \cap Said(archived') = {}
        /\ Said(ctx') \cap Said(archived') = {}
        /\ InHand(w)' \cap (Said(pending') \cup Said(ctx') \cup Said(archived')) = {}
        /\ Said(running') \cap (Said(pending') \cup Said(ctx') \cup Said(archived')) = {}
        /\ Kept(w)' \cap Said(running') = {}
    BY <1>1, <1>2, <2>2, <2>4
  <2>7. task'[w].pc \notin {"setup", "run"}
    BY <2>1
  <2> QED
    BY <1>1, <2>1, <2>3, <2>4, <2>5, <2>6, <2>7, OnceStep
<1> QED
  BY <1>3, <1>4, <1>5

\* A worker whose transcript is on disk holds nothing any more.
LEMMA FinishOff ==
    ASSUME TypeOK, NEW w \in Workers, task' = Finish(w)
    PROVE  /\ task' = [task EXCEPT ![w] = task'[w]]
           /\ task'[w].pc \in {"drain", "next", "off"} /\ task'[w].st = <<>>
           /\ task'[w].before = <<>> /\ task'[w].snap = <<>>
<1>1. PICK done : /\ Finish(w) = [task EXCEPT ![w] = done]
                  /\ \/ done = [Off EXCEPT !.pc = "drain"]
                     \/ done = [Off EXCEPT !.pc = "next", !.kind = "gateway"]
                     \/ done = Off
  BY DEF Finish
<1>2. /\ done.pc \in {"drain", "next", "off"} /\ done.st = <<>>
      /\ done.before = <<>> /\ done.snap = <<>>
  <2>1. CASE done = [Off EXCEPT !.pc = "drain"]
    BY <2>1 DEF Off
  <2>2. CASE done = [Off EXCEPT !.pc = "next", !.kind = "gateway"]
    BY <2>2 DEF Off
  <2>3. CASE done = Off
    BY <2>3 DEF Off
  <2> QED
    BY <1>1, <2>1, <2>2, <2>3
<1>3. task' = [task EXCEPT ![w] = task'[w]] /\ task'[w] = done
  BY <1>1 DEF TypeOK
<1> QED
  BY <1>2, <1>3

\* What is collected for the file, and written to it, is there once.
LEMMA WriteOnce ==
    ASSUME TypeOK, TypeOK', OnceInv, NEW w \in Workers,
           PersistAtOnce(w) \/ PersistSnapshot(w) \/ PersistWrite(w)
    PROVE  OnceInv'
<1> USE DEF session, disk, ghosts, counts
<1>0. /\ Once(file) /\ Once(task[w].st) /\ Once(task[w].before)
      /\ Once(task[w].snap) /\ Said(task[w].snap) \subseteq Papers(w)
      /\ task[w] \in Tasks
  BY DEF OnceInv, Single, TypeOK, Papers
<1>1. /\ UNCHANGED <<ctx, running, archived, pending, posted, seen>>
      /\ Said(ctx') = Said(ctx) /\ Said(running') = Said(running)
      /\ Said(archived') = Said(archived) /\ Said(pending') = Said(pending)
      /\ Once(pending') /\ Once(ctx') /\ Once(running') /\ Once(archived')
      /\ posted' = posted \cup {} /\ {} \cap posted = {} /\ seen \subseteq seen'
      /\ {} \cap Inbound \subseteq seen'
      /\ task[w].pc \in {"persist", "write"}
  BY DEF PersistAtOnce, PersistSnapshot, PersistWrite, OnceInv, Single, At
<1>2. /\ Said(pending) \cap Said(ctx) = {} /\ Said(pending) \cap Said(archived) = {}
      /\ Said(ctx) \cap Said(archived) = {}
      /\ Said(running) \cap (Said(pending) \cup Said(ctx) \cup Said(archived)) = {}
  BY DEF OnceInv, Apart
<1>3. ASSUME Papers(w)' \subseteq Papers(w) \cup Said(archived) \cup Said(running) \cup Said(ctx),
             InHand(w)' = {}, Kept(w)' = {},
             task' = [task EXCEPT ![w] = task'[w]],
             task'[w].pc \notin {"setup", "run"},
             Once(task'[w].st) /\ Once(task'[w].before) /\ Once(task'[w].snap),
             Once(file'),
             Said(file') \subseteq Papers(w) \cup Said(archived) \cup Said(running)
                                     \cup Said(ctx) \cup Said(file)
      PROVE  OnceInv'
  <2>1. /\ Said(file') \cup Papers(w)'
             \subseteq Said(pending) \cup Said(ctx) \cup Said(running)
                         \cup Said(archived) \cup Said(file) \cup Papers(w) \cup {}
        /\ Said(pending') \cup Said(ctx') \cup Said(archived') \cup InHand(w)'
             \subseteq Said(pending) \cup Said(ctx) \cup Said(archived) \cup InHand(w)
                         \cup {}
        /\ Said(running') \subseteq Said(running) \cup Said(pending) \cup Said(ctx)
                                     \cup InHand(w) \cup {}
    BY <1>1, <1>3
  <2>2. /\ Said(pending') \cap Said(ctx') = {}
        /\ Said(pending') \cap Said(archived') = {}
        /\ Said(ctx') \cap Said(archived') = {}
        /\ InHand(w)' \cap (Said(pending') \cup Said(ctx') \cup Said(archived')) = {}
        /\ Said(running') \cap (Said(pending') \cup Said(ctx') \cup Said(archived')) = {}
        /\ Kept(w)' \cap Said(running') = {}
    BY <1>1, <1>2, <1>3
  <2> QED
    BY <1>1, <1>3, <2>1, <2>2, OnceStep
<1>4. CASE PersistAtOnce(w) \/ PersistWrite(w)
  <2>1. file' = Transcript \/ file' = task[w].snap
    BY <1>4 DEF PersistAtOnce, PersistWrite
  <2>2. /\ Once(file')
        /\ Said(file') \subseteq Papers(w) \cup Said(archived) \cup Said(running)
                                   \cup Said(ctx) \cup Said(file)
    BY <1>0, <2>1, TranscriptOnce
  <2>3. /\ task' = [task EXCEPT ![w] = task'[w]]
        /\ task'[w].pc \notin {"setup", "run"} /\ task'[w].st = <<>>
        /\ task'[w].before = <<>> /\ task'[w].snap = <<>>
    <3>1. task' = Finish(w)
      BY <1>4 DEF PersistAtOnce, PersistWrite
    <3> QED
      BY <3>1, FinishOff
  <2>4. /\ Papers(w)' = {} /\ Kept(w)' = {} /\ InHand(w)' = {}
        /\ Once(task'[w].st) /\ Once(task'[w].before) /\ Once(task'[w].snap)
    BY <2>3, OffHoldsNothing
  <2>5. task' = [task EXCEPT ![w] = task'[w]] /\ task'[w].pc \notin {"setup", "run"}
    BY <2>3
  <2>6. Papers(w)' \subseteq Papers(w) \cup Said(archived) \cup Said(running) \cup Said(ctx)
    BY <2>4
  <2> QED
    BY <1>3, <2>2, <2>4, <2>5, <2>6
<1>5. CASE PersistSnapshot(w)
  <2>1. /\ task' = [task EXCEPT ![w] = task'[w]]
        /\ task'[w].pc = "write" /\ task'[w].st = task[w].st
        /\ task'[w].before = task[w].before /\ task'[w].snap = Transcript
        /\ file' = file
    BY <1>0, <1>5 DEF TypeOK, PersistSnapshot, Tasks
  <2>2. InHand(w)' = {} /\ Kept(w)' = {} /\ task'[w].pc \notin {"setup", "run"}
    BY <2>1 DEF InHand, Kept
  <2>3. Papers(w)' = Said(task'[w].st) \cup Said(task'[w].before) \cup Said(task'[w].snap)
    BY DEF Papers, Said, Elems
  <2>4. /\ Said(task'[w].st) \cup Said(task'[w].before) \subseteq Papers(w)
        /\ Said(task'[w].snap) \subseteq Said(archived) \cup Said(running) \cup Said(ctx)
    BY <2>1, TranscriptOnce DEF Papers
  <2>5. /\ Once(task'[w].st) /\ Once(task'[w].before) /\ Once(task'[w].snap)
        /\ Once(file')
    BY <1>0, <2>1, TranscriptOnce
  <2>6. Papers(w)' \subseteq Papers(w) \cup Said(archived) \cup Said(running) \cup Said(ctx)
    BY <2>3, <2>4
  <2>7. Said(file') \subseteq Papers(w) \cup Said(archived) \cup Said(running)
                               \cup Said(ctx) \cup Said(file)
    BY <2>1
  <2> QED
    BY <1>3, <2>1, <2>2, <2>5, <2>6, <2>7
<1> QED
  BY <1>4, <1>5

\* A message leaves the line, or returns to it.
LEMMA LineOnce ==
    ASSUME TypeOK, TypeOK', HasMessage, OnceInv, NEW w \in Workers,
           DrainNext(w) \/ GatewayTake(w) \/ GatewayNext(w) \/ PermitDenied(w)
             \/ FileRecord(w)
    PROVE  OnceInv'
<1> USE DEF session, disk, ghosts, counts
<1>0. /\ pending \in Seq(Messages) /\ ctx \in Seq(Messages)
      /\ Said(pending) = Elems(pending) /\ Said(ctx) = Elems(ctx)
      /\ Once(pending) /\ Once(file) /\ Once(archived) /\ Once(ctx) /\ Once(running)
      /\ Once(task[w].st) /\ Once(task[w].before) /\ Once(task[w].snap)
      /\ task[w] \in Tasks /\ task[w].st \in Seq(Messages)
      /\ Said(task[w].st) = Elems(task[w].st)
      /\ Kept(w) \subseteq InHand(w) /\ InHand(w) \subseteq Papers(w)
      /\ Divider \notin Messages
  BY Shapes, SaidOfMessages, InHandSaid, MessagesDisjoint
  DEF OnceInv, Single, TypeOK
<1>1. /\ Said(pending) \cap Said(ctx) = {} /\ Said(pending) \cap Said(archived) = {}
      /\ Said(ctx) \cap Said(archived) = {}
      /\ Said(running) \cap (Said(pending) \cup Said(ctx) \cup Said(archived)) = {}
      /\ InHand(w) \cap (Said(pending) \cup Said(ctx) \cup Said(archived)) = {}
      /\ Kept(w) \cap Said(running) = {}
  BY DEF OnceInv, Apart
<1>2. /\ UNCHANGED <<archived, file, posted, seen>>
      /\ posted' = posted \cup {} /\ {} \cap posted = {} /\ seen \subseteq seen'
      /\ {} \cap Inbound \subseteq seen'
      /\ Once(archived') /\ Once(file')
      /\ Said(archived') = Said(archived) /\ Said(file') = Said(file)
  BY <1>0 DEF DrainNext, GatewayTake, GatewayNext, PermitDenied, FileRecord
<1>3. CASE DrainNext(w)
  <2>1. /\ Head(pending) \in Messages
        /\ Said(pending) = {Head(pending)} \cup Elems(pending')
        /\ Head(pending) \notin Elems(pending') /\ Once(pending')
    BY <1>0, <1>3, HeadTailProperties, ElemsOfHeadTail DEF DrainNext
  <2>2. PICK m \in Messages : m = Head(pending)
    BY <2>1
  <2>3. Claim(w, "chat", "run", m) /\ InHand(w) = {}
    BY <1>3, <2>2 DEF DrainNext, At, InHand
  <2>4. InHand(w) \subseteq {m} /\ {} \subseteq {m} /\ m \in Said(pending) \cup InHand(w) \cup {}
    BY <2>1, <2>2, <2>3
  <2>5. Said(pending') \subseteq Said(pending) \ {m} /\ Once(pending')
    BY <2>1, <2>2 DEF Said
  <2> QED
    BY <1>2, <2>3, <2>4, <2>5, ClaimOnce
<1>4. CASE GatewayTake(w)
  <2>1. PICK m \in Messages : task[w].st = <<m>> /\ Head(task[w].st) = m
    BY <1>4 DEF GatewayTake, HasMessage
  <2>2. InHand(w) = {m}
    BY <1>4, <2>1, ElemsOfOne DEF GatewayTake, At, InHand
  <2>3. Claim(w, "gateway", "run", m) /\ pending' = pending
    BY <1>4, <2>1 DEF GatewayTake
  <2>4. InHand(w) \subseteq {m} /\ {} \subseteq {m} /\ m \in Said(pending) \cup InHand(w) \cup {}
    BY <2>2
  <2>5. Said(pending') \subseteq Said(pending) \ {m} /\ Once(pending')
    BY <1>0, <1>1, <2>2, <2>3
  <2> QED
    BY <1>2, <2>3, <2>4, <2>5, ClaimOnce
<1>5. CASE GatewayNext(w)
  <2>1. /\ Said(pending) = {Head(pending)} \cup Elems(pending')
        /\ Head(pending) \notin Elems(pending') /\ Once(pending')
        /\ Head(pending) # Divider
    BY <1>0, <1>5, HeadTailProperties, ElemsOfHeadTail DEF GatewayNext
  <2>2. /\ task' = [task EXCEPT ![w] = task'[w]]
        /\ task'[w].pc = "take" /\ task'[w].st = <<Head(pending)>>
        /\ task'[w].before = task[w].before /\ task'[w].snap = task[w].snap
        /\ UNCHANGED <<ctx, running>>
    BY <1>0, <1>5 DEF TypeOK, GatewayNext, Tasks
  <2>3. /\ Elems(task'[w].st) = {Head(pending)} /\ Once(task'[w].st)
        /\ Said(task'[w].st) = {Head(pending)}
    BY <2>1, <2>2, ElemsOfOne DEF Said
  <2>4. InHand(w)' = {Head(pending)} /\ Kept(w)' = {Head(pending)}
    BY <2>2, <2>3 DEF InHand, Kept
  <2>5. Papers(w)' \subseteq Papers(w) \cup {Head(pending)}
    <3>1. Papers(w)' = Said(task'[w].st) \cup Said(task'[w].before) \cup Said(task'[w].snap)
      BY DEF Papers, Said, Elems
    <3> QED
      BY <2>2, <2>3, <3>1 DEF Papers
  <2>6. /\ Said(pending') = Said(pending) \ {Head(pending)}
        /\ Said(ctx') = Said(ctx) /\ Said(running') = Said(running)
        /\ Once(ctx') /\ Once(running')
        /\ Once(task'[w].before) /\ Once(task'[w].snap)
        /\ task'[w].pc \notin {"setup", "run"}
        /\ Head(pending) \in Said(pending)
    <3>1. Said(pending') = Said(pending) \ {Head(pending)} /\ Head(pending) \in Said(pending)
      BY <1>0, <2>1 DEF Said
    <3>2. task'[w].pc \notin {"setup", "run"}
      BY <2>2
    <3> QED
      BY <1>0, <2>2, <3>1, <3>2
  <2>7. /\ Said(file') \cup Papers(w)'
             \subseteq Said(pending) \cup Said(ctx) \cup Said(running)
                         \cup Said(archived) \cup Said(file) \cup Papers(w) \cup {}
        /\ Said(pending') \cup Said(ctx') \cup Said(archived') \cup InHand(w)'
             \subseteq Said(pending) \cup Said(ctx) \cup Said(archived) \cup InHand(w)
                         \cup {}
        /\ Said(running') \subseteq Said(running) \cup Said(pending) \cup Said(ctx)
                                     \cup InHand(w) \cup {}
    BY <1>2, <2>4, <2>5, <2>6
  <2>8. /\ Said(pending') \cap Said(ctx') = {}
        /\ Said(pending') \cap Said(archived') = {}
        /\ Said(ctx') \cap Said(archived') = {}
        /\ InHand(w)' \cap (Said(pending') \cup Said(ctx') \cup Said(archived')) = {}
        /\ Said(running') \cap (Said(pending') \cup Said(ctx') \cup Said(archived')) = {}
        /\ Kept(w)' \cap Said(running') = {}
    BY <1>1, <1>2, <2>4, <2>6
  <2> QED
    BY <1>2, <2>1, <2>2, <2>3, <2>6, <2>7, <2>8, OnceStep
<1>6. CASE PermitDenied(w)
  <2>1. PICK m \in Messages : task[w].st = <<m>> /\ Head(task[w].st) = m
    BY <1>6 DEF PermitDenied, HasMessage
  <2>2. InHand(w) = {m} /\ Kept(w) = {m} /\ m \notin Elems(pending)
    BY <1>0, <1>1, <1>6, <2>1, ElemsOfOne DEF PermitDenied, At, InHand, Kept
  <2>3. Elems(pending') = Elems(pending) \cup {m} /\ Once(pending')
    BY <1>0, <1>6, <2>1, <2>2, ElemsOfAppend DEF PermitDenied, queue_message
  <2>4. /\ task' = [task EXCEPT ![w] = task'[w]]
        /\ task'[w].pc = "off" /\ task'[w].st = <<>>
        /\ task'[w].before = <<>> /\ task'[w].snap = <<>>
        /\ UNCHANGED <<ctx, running>>
    BY <1>6 DEF TypeOK, PermitDenied, Off
  <2>5. /\ Papers(w)' = {} /\ Kept(w)' = {} /\ InHand(w)' = {}
        /\ Once(task'[w].st) /\ Once(task'[w].before) /\ Once(task'[w].snap)
    BY <2>4, OffHoldsNothing
  <2>6. /\ Said(pending') = Said(pending) \cup {m}
        /\ Said(ctx') = Said(ctx) /\ Said(running') = Said(running)
        /\ Once(ctx') /\ Once(running') /\ task'[w].pc \notin {"setup", "run"}
    <3>1. Said(pending') = Said(pending) \cup {m}
      BY <1>0, <2>3 DEF Said
    <3>2. task'[w].pc \notin {"setup", "run"}
      BY <2>4
    <3> QED
      BY <1>0, <2>4, <3>1, <3>2
  <2>7. /\ Said(file') \cup Papers(w)'
             \subseteq Said(pending) \cup Said(ctx) \cup Said(running)
                         \cup Said(archived) \cup Said(file) \cup Papers(w) \cup {}
        /\ Said(pending') \cup Said(ctx') \cup Said(archived') \cup InHand(w)'
             \subseteq Said(pending) \cup Said(ctx) \cup Said(archived) \cup InHand(w)
                         \cup {}
        /\ Said(running') \subseteq Said(running) \cup Said(pending) \cup Said(ctx)
                                     \cup InHand(w) \cup {}
    BY <1>2, <2>2, <2>5, <2>6
  <2>8. /\ Said(pending') \cap Said(ctx') = {}
        /\ Said(pending') \cap Said(archived') = {}
        /\ Said(ctx') \cap Said(archived') = {}
        /\ InHand(w)' \cap (Said(pending') \cup Said(ctx') \cup Said(archived')) = {}
        /\ Said(running') \cap (Said(pending') \cup Said(ctx') \cup Said(archived')) = {}
        /\ Kept(w)' \cap Said(running') = {}
    BY <1>1, <1>2, <2>2, <2>5, <2>6
  <2> QED
    BY <1>2, <2>3, <2>4, <2>5, <2>6, <2>7, <2>8, OnceStep
<1>7. CASE FileRecord(w)
  <2>1. InHand(w) = Said(task[w].st) /\ Kept(w) = Said(task[w].st)
    BY <1>0, <1>7 DEF FileRecord, At, InHand, Kept
  <2>2. /\ Elems(ctx') = Elems(ctx) \cup Elems(task[w].st) /\ Once(ctx')
    BY <1>0, <1>1, <1>7, <2>1, ElemsOfConcat, OnceConcat DEF FileRecord
  <2>3. /\ task' = [task EXCEPT ![w] = task'[w]]
        /\ task'[w].pc = "persist" /\ task'[w].st = <<>>
        /\ task'[w].before = <<>> /\ task'[w].snap = <<>>
        /\ UNCHANGED <<pending, running>>
    BY <1>7 DEF TypeOK, FileRecord, Off
  <2>4. /\ Papers(w)' = {} /\ Kept(w)' = {} /\ InHand(w)' = {}
        /\ Once(task'[w].st) /\ Once(task'[w].before) /\ Once(task'[w].snap)
    BY <2>3, OffHoldsNothing
  <2>5. /\ Said(ctx') = Said(ctx) \cup InHand(w)
        /\ Said(pending') = Said(pending) /\ Said(running') = Said(running)
        /\ Once(pending') /\ Once(running') /\ task'[w].pc \notin {"setup", "run"}
    <3>1. Said(ctx') = Said(ctx) \cup InHand(w)
      BY <1>0, <2>1, <2>2 DEF Said
    <3>2. task'[w].pc \notin {"setup", "run"}
      BY <2>3
    <3> QED
      BY <1>0, <2>3, <3>1, <3>2
  <2>6. /\ Said(file') \cup Papers(w)'
             \subseteq Said(pending) \cup Said(ctx) \cup Said(running)
                         \cup Said(archived) \cup Said(file) \cup Papers(w) \cup {}
        /\ Said(pending') \cup Said(ctx') \cup Said(archived') \cup InHand(w)'
             \subseteq Said(pending) \cup Said(ctx) \cup Said(archived) \cup InHand(w)
                         \cup {}
        /\ Said(running') \subseteq Said(running) \cup Said(pending) \cup Said(ctx)
                                     \cup InHand(w) \cup {}
    BY <1>2, <2>4, <2>5
  <2>7. /\ Said(pending') \cap Said(ctx') = {}
        /\ Said(pending') \cap Said(archived') = {}
        /\ Said(ctx') \cap Said(archived') = {}
        /\ InHand(w)' \cap (Said(pending') \cup Said(ctx') \cup Said(archived')) = {}
        /\ Said(running') \cap (Said(pending') \cup Said(ctx') \cup Said(archived')) = {}
        /\ Kept(w)' \cap Said(running') = {}
    BY <1>1, <1>2, <2>1, <2>4, <2>5
  <2> QED
    BY <1>2, <2>2, <2>3, <2>4, <2>5, <2>6, <2>7, OnceStep
<1> QED
  BY <1>3, <1>4, <1>5, <1>6, <1>7

\* No step of a worker puts a message in a second place.
LEMMA WorkerOnce ==
    ASSUME TypeOK, TypeOK', HasMessage, OnceInv, NEW w \in Workers, WorkerStep(w)
    PROVE  OnceInv'
<1> USE DEF session, disk, ghosts, counts
<1>0. task[w] \in Tasks
  BY DEF TypeOK
<1>1. CASE SetupDone(w) \/ PermitGranted(w) \/ CompactDone(w)
  <2>1. /\ task' = [task EXCEPT ![w] = task'[w]]
        /\ task'[w].st = task[w].st /\ task'[w].before = task[w].before
        /\ task'[w].snap = task[w].snap
        /\ \/ task[w].pc = "setup" /\ task'[w].pc = "run"
           \/ task[w].pc = "permit" /\ task'[w].pc = "take"
           \/ task[w].pc = "compact" /\ task'[w].pc = "persist"
    <3>1. ASSUME NEW place, Move(w, place)
          PROVE  /\ task' = [task EXCEPT ![w] = task'[w]] /\ task'[w].pc = place
                 /\ task'[w].st = task[w].st /\ task'[w].before = task[w].before
                 /\ task'[w].snap = task[w].snap
      BY <1>0, <3>1 DEF TypeOK, Move, Tasks
    <3>2. CASE SetupDone(w)
      BY <3>1, <3>2 DEF SetupDone, At
    <3>3. CASE PermitGranted(w)
      BY <3>1, <3>3 DEF PermitGranted, At
    <3>4. CASE CompactDone(w)
      BY <3>1, <3>4 DEF CompactDone, At
    <3> QED
      BY <1>1, <3>2, <3>3, <3>4
  <2>2. InHand(w)' = InHand(w) /\ Kept(w)' = Kept(w)
    BY <2>1 DEF InHand, Kept
  <2>3. UNCHANGED <<ctx, running, archived, pending, file, posted, seen>>
    BY <1>1 DEF SetupDone, PermitGranted, CompactDone
  <2> QED
    BY <2>1, <2>2, <2>3, OnceMoves
<1>2. CASE SetupFails(w) \/ DrainDone(w) \/ GatewayDone(w) \/ CompactFails(w)
  <2>1. /\ task' = [task EXCEPT ![w] = task'[w]] /\ task'[w].pc = "off"
        /\ task'[w].st = <<>> /\ task'[w].before = <<>> /\ task'[w].snap = <<>>
    BY <1>2 DEF TypeOK, SetupFails, DrainDone, GatewayDone, CompactFails, Off
  <2>2. InHand(w)' = {} /\ Kept(w)' = {}
    BY <2>1 DEF InHand, Kept
  <2>3. UNCHANGED <<ctx, running, archived, pending, file, posted, seen>>
    BY <1>2 DEF SetupFails, DrainDone, GatewayDone, CompactFails
  <2> QED
    BY <2>1, <2>2, <2>3, OnceMoves
<1> QED
  BY <1>1, <1>2, TurnOnce, WriteOnce, LineOnce DEF WorkerStep

\* So it is in every state that can be reached.
LEMMA OnceInvariant == Spec => [](TypeOK /\ OnceInv)
<1>1. Init => OnceInv
  <2> SUFFICES ASSUME Init PROVE OnceInv
    OBVIOUS
  <2>1. \A w \in Workers : /\ Papers(w) = {} /\ Kept(w) = {} /\ InHand(w) = {}
                           /\ task[w].pc = "off" /\ task[w].st = <<>>
                           /\ task[w].before = <<>> /\ task[w].snap = <<>>
    BY ElemsOfEmpty DEF Init, Off, Papers, Kept, InHand, Said
  <2>2. Known
    BY <2>1, ElemsOfEmpty DEF Init, Known, Said
  <2>3. Single
    BY <2>1, ElemsOfEmpty DEF Init, Single
  <2>4. Apart
    BY <2>1, ElemsOfEmpty DEF Init, Apart, Said
  <2> QED
    BY <2>2, <2>3, <2>4 DEF OnceInv
<1>2. TypeOK /\ TypeOK' /\ HasMessage /\ OnceInv /\ [Next]_vars => OnceInv'
  <2> SUFFICES ASSUME TypeOK, TypeOK', HasMessage, OnceInv, [Next]_vars
               PROVE  OnceInv'
    OBVIOUS
  <2>1. CASE Request
    BY <2>1, RequestOnce
  <2>2. CASE Restart
    <3>1. /\ Said(archived') \cup Said(ctx') = Said(file)
          /\ Once(archived') /\ Once(ctx') /\ Said(archived') \cap Said(ctx') = {}
      BY <2>2, RestartReads DEF OnceInv, Single, Said
    <3>2. /\ pending' = <<>> /\ running' = <<>> /\ UNCHANGED <<file, posted, seen>>
          /\ \A w \in Workers : /\ task'[w].pc = "off" /\ task'[w].st = <<>>
                                /\ task'[w].before = <<>> /\ task'[w].snap = <<>>
      BY <2>2 DEF Restart, disk, Off
    <3>3. \A w \in Workers :
            /\ Papers(w)' = {} /\ Kept(w)' = {} /\ InHand(w)' = {}
            /\ Once(task'[w].st) /\ Once(task'[w].before) /\ Once(task'[w].snap)
      BY <3>2, OffHoldsNothing
    <3>4. /\ Said(pending') = {} /\ Said(running') = {}
          /\ Once(pending') /\ Once(running')
          /\ Said(file') = Said(file) /\ Once(file')
      BY <3>2, ElemsOfEmpty DEF Said, OnceInv, Single
    <3>5. Said(file) \subseteq posted /\ posted \cap Inbound \subseteq seen
      BY DEF OnceInv, Known
    <3>6. Known'
      <4>1. /\ Said(pending') \cup Said(ctx') \cup Said(running') \cup Said(archived')
                 \cup Said(file') \subseteq posted'
            /\ \A w \in Workers : Papers(w)' \subseteq posted'
            /\ posted' \cap Inbound \subseteq seen'
        BY <3>1, <3>2, <3>3, <3>4, <3>5
      <4> QED
        BY <4>1 DEF Known, Said, Papers, Elems
    <3>7. Single'
      BY <3>1, <3>3, <3>4 DEF Single, Once
    <3>8. Apart'
      <4>1. /\ Said(pending') \cap Said(ctx') = {}
            /\ Said(pending') \cap Said(archived') = {}
            /\ Said(running') \cap (Said(pending') \cup Said(ctx') \cup Said(archived')) = {}
            /\ \A w \in Workers :
                 /\ InHand(w)' \cap (Said(pending') \cup Said(ctx') \cup Said(archived')) = {}
                 /\ Kept(w)' \cap Said(running') = {}
                 /\ task'[w].pc \in {"setup", "run"} =>
                        Elems(task'[w].before) \subseteq Elems(task'[w].st)
                 /\ \A v \in Workers : v # w => InHand(w)' \cap InHand(v)' = {}
        BY <3>2, <3>3, <3>4
      <4> QED
        BY <3>1, <4>1 DEF Apart, Said, Elems
    <3> QED
      BY <3>6, <3>7, <3>8 DEF OnceInv
  <2>3. ASSUME NEW w \in Workers, WorkerStep(w)
        PROVE  OnceInv'
    BY <2>3, WorkerOnce
  <2>4. CASE UNCHANGED vars
    <3>1. UNCHANGED <<task, ctx, running, archived, pending, file, posted, seen>>
      BY <2>4 DEF vars, session, disk, ghosts
    <3>2. /\ Said(file') \subseteq Said(file) /\ Once(file')
          /\ Said(pending') \subseteq Said(pending) \cup {} /\ Once(pending')
          /\ posted' = posted \cup {} /\ {} \cap posted = {} /\ seen \subseteq seen'
          /\ {} \cap Inbound \subseteq seen'
      BY <3>1 DEF OnceInv, Single
    <3> QED
      BY <3>1, <3>2, OnceUnworked
  <2> QED
    BY <2>1, <2>2, <2>3, <2>4 DEF Next
<1> QED
  BY <1>1, <1>2, TypeCorrect, PTL DEF Spec

\* A message is in line, in the conversation or with one worker, and only
\* once: no drain, injection, redelivery, error or restart runs it again.
THEOREM NoMessageRunsTwice == Spec => []RunOnce
<1>1. TypeOK /\ OnceInv => RunOnce
  BY OnceIsOnce
<1> QED
  BY <1>1, OnceInvariant, PTL

(***************************************************************************)
(* The line is first in, first out.  Behind it is an account of what has   *)
(* been run: everything in a conversation, or in a copy of one, was run by *)
(* some turn or filed as a record, so that what a restart finds in the     *)
(* file was run, and the rest of the line it reports lost.                 *)
(***************************************************************************)

\* What some turn has run, or nothing has to run.
Ran == {m \in Messages : via[m] # None} \cup Records \cup {Divider}

RunInv ==
    /\ Elems(ctx) \cup Elems(archived) \cup Elems(running) \cup Elems(file)
           \subseteq Ran
    /\ \A w \in Workers :
        /\ Elems(task[w].snap) \subseteq Ran
        /\ task[w].pc = "setup" \/ task[w].pc = "run" =>
               Elems(task[w].st) \cup Elems(task[w].before) \subseteq Ran
        /\ task[w].pc = "permit" =>
               Elems(task[w].st) \subseteq Inbound /\ Elems(task[w].st) \cap Ran = {}
        /\ task[w].pc = "file" => Elems(task[w].st) \subseteq Records
    /\ Elems(lined) \subseteq (Typed \cup Inbound) \cap posted
    /\ \A m \in Messages : via[m] # None => m \in posted

\* A turn that takes messages up has run them, and no others.
LEMMA RunByRuns ==
    ASSUME TypeOK, NEW ms, ms \subseteq Messages, NEW kind \in Kinds, RunBy(ms, kind)
    PROVE  /\ Ran' = Ran \cup ms
           /\ \A m \in Messages : /\ m \in ms => via'[m] # None
                                  /\ m \notin ms => via'[m] = via[m]
BY NoneIsNoKind DEF TypeOK, RunBy, Ran

\* Where no message is run, the account is what it was.
LEMMA RanKept ==
    ASSUME UNCHANGED via
    PROVE  Ran' = Ran
BY DEF Ran

\* A step of one worker, or of none, keeps the account if what it puts into a
\* conversation was run, and nothing that waits for a permit is run by it.
LEMMA RunStep ==
    ASSUME TypeOK, RunInv, NEW w \in Workers, NEW ms,
           task' = [task EXCEPT ![w] = task'[w]],
           Ran' = Ran \cup ms,
           Elems(ctx') \cup Elems(archived') \cup Elems(running') \cup Elems(file')
             \cup Elems(task'[w].snap) \subseteq Ran',
           task'[w].pc = "setup" \/ task'[w].pc = "run" =>
               Elems(task'[w].st) \cup Elems(task'[w].before) \subseteq Ran',
           task'[w].pc = "permit" =>
               Elems(task'[w].st) \subseteq Inbound /\ Elems(task'[w].st) \cap Ran' = {},
           task'[w].pc = "file" => Elems(task'[w].st) \subseteq Records,
           \A v \in Workers : v # w /\ task[v].pc = "permit" =>
               Elems(task[v].st) \cap ms = {},
           posted \subseteq posted',
           Elems(lined') \subseteq Elems(lined) \cup ((Typed \cup Inbound) \cap posted'),
           \A m \in Messages : via'[m] # None => m \in posted' \/ via[m] # None
    PROVE  RunInv'
<1>1. \A v \in Workers : v # w => task'[v] = task[v]
  BY DEF TypeOK
<1>2. ASSUME NEW v \in Workers
      PROVE  /\ Elems(task'[v].snap) \subseteq Ran'
             /\ task'[v].pc = "setup" \/ task'[v].pc = "run" =>
                    Elems(task'[v].st) \cup Elems(task'[v].before) \subseteq Ran'
             /\ task'[v].pc = "permit" =>
                    Elems(task'[v].st) \subseteq Inbound /\ Elems(task'[v].st) \cap Ran' = {}
             /\ task'[v].pc = "file" => Elems(task'[v].st) \subseteq Records
  <2>1. CASE v = w
    BY <2>1
  <2>2. CASE v # w
    <3>1. task'[v] = task[v]
      BY <1>1, <2>2
    <3>2. Ran \subseteq Ran'
      OBVIOUS
    <3> QED
      BY <2>2, <3>1, <3>2 DEF RunInv
  <2> QED
    BY <2>1, <2>2
<1>3. /\ Elems(lined') \subseteq (Typed \cup Inbound) \cap posted'
      /\ \A m \in Messages : via'[m] # None => m \in posted'
  BY DEF RunInv
<1> QED
  BY <1>2, <1>3 DEF RunInv, Elems

\* The same when no worker is involved.
LEMMA RunUnworked ==
    ASSUME TypeOK, RunInv, UNCHANGED <<task, via, ctx, archived, running>>,
           Elems(file') \subseteq Ran, posted \subseteq posted',
           Elems(lined') \subseteq Elems(lined) \cup ((Typed \cup Inbound) \cap posted')
    PROVE  RunInv'
<1>1. Ran' = Ran
  BY RanKept
<1>2. \A w \in Workers : task'[w] = task[w]
  OBVIOUS
<1>3. /\ Elems(lined') \subseteq (Typed \cup Inbound) \cap posted'
      /\ \A m \in Messages : via'[m] # None => m \in posted'
  BY DEF RunInv
<1>4. Elems(ctx') \cup Elems(archived') \cup Elems(running') \cup Elems(file')
           \subseteq Ran'
  BY <1>1 DEF RunInv
<1>5. \A w \in Workers :
        /\ Elems(task'[w].snap) \subseteq Ran'
        /\ task'[w].pc = "setup" \/ task'[w].pc = "run" =>
               Elems(task'[w].st) \cup Elems(task'[w].before) \subseteq Ran'
        /\ task'[w].pc = "permit" =>
               Elems(task'[w].st) \subseteq Inbound /\ Elems(task'[w].st) \cap Ran' = {}
        /\ task'[w].pc = "file" => Elems(task'[w].st) \subseteq Records
  BY <1>1, <1>2 DEF RunInv
<1> QED
  BY <1>3, <1>4, <1>5 DEF RunInv, Elems

\* A claim runs its message.  What waits for a permit is another.
LEMMA ClaimRuns ==
    ASSUME TypeOK, RunInv, OnceInv, NEW w \in Workers, NEW kind, NEW place,
           kind \in Kinds, place = "setup" \/ place = "run", NEW m \in Messages,
           Claim(w, kind, place, m), m \in posted',
           m \in Elems(pending) \/ m \in InHand(w) \/ m \notin posted,
           posted \subseteq posted', UNCHANGED <<archived, file, lined>>
    PROVE  RunInv'
<1>1. /\ task' = [task EXCEPT ![w] = task'[w]]
      /\ task'[w].st = ctx \o <<m>> /\ task'[w].before = ctx \o <<m>>
      /\ task'[w].pc = place /\ task'[w].snap = <<>>
      /\ running' = ctx \o <<m>> /\ Elems(running') = Elems(ctx) \cup {m}
      /\ Elems(ctx') = {}
  BY ClaimHands
<1>2. /\ Ran' = Ran \cup {m}
      /\ \A n \in Messages : n # m => via'[n] = via[n]
  <2>1. RunBy({m}, kind)
    BY DEF Claim
  <2>2. {m} \subseteq Messages
    OBVIOUS
  <2>3. /\ Ran' = Ran \cup {m}
        /\ \A n \in Messages : n \notin {m} => via'[n] = via[n]
    BY <2>1, <2>2, RunByRuns
  <2> QED
    BY <2>3
<1>3. ASSUME NEW v \in Workers, v # w, task[v].pc = "permit"
      PROVE  Elems(task[v].st) \cap {m} = {}
  <2>1. InHand(v) = Elems(task[v].st)
    BY <1>3 DEF InHand
  <2>2. InHand(v) \cap Said(pending) = {} /\ InHand(v) \cap InHand(w) = {}
    BY <1>3 DEF OnceInv, Apart
  <2>3. Said(pending) = Elems(pending)
    BY Shapes, SaidOfMessages
  <2>4. InHand(v) \subseteq posted
    BY InHandSaid DEF OnceInv, Known
  <2> QED
    BY <2>1, <2>2, <2>3, <2>4
<1>4. /\ Elems(ctx') \cup Elems(archived') \cup Elems(running') \cup Elems(file')
             \cup Elems(task'[w].snap) \subseteq Ran'
      /\ Elems(task'[w].st) \cup Elems(task'[w].before) \subseteq Ran'
  <2>1. Elems(ctx) \cup Elems(archived) \cup Elems(file) \subseteq Ran
    BY DEF RunInv
  <2>2. Elems(task'[w].snap) = {}
    BY <1>1, ElemsOfEmpty
  <2>3. Elems(archived') = Elems(archived) /\ Elems(file') = Elems(file)
    OBVIOUS
  <2>4. Elems(task'[w].st) = Elems(running') /\ Elems(task'[w].before) = Elems(running')
    BY <1>1
  <2> QED
    BY <1>1, <1>2, <2>1, <2>2, <2>3, <2>4
<1>5. /\ Elems(lined') \subseteq Elems(lined) \cup ((Typed \cup Inbound) \cap posted')
      /\ \A n \in Messages : via'[n] # None => n \in posted' \/ via[n] # None
      /\ task'[w].pc # "permit" /\ task'[w].pc # "file"
  BY <1>1, <1>2
<1> QED
  BY <1>1, <1>2, <1>3, <1>4, <1>5, RunStep

\* A reset closes off only what was run.
LEMMA ArchiveRan ==
    ASSUME TypeOK, RunInv, Archive
    PROVE  Elems(archived') \cup Elems(ctx') \subseteq Ran
BY ArchiveMoves DEF RunInv, Ran

\* What a request starts a turn with, that turn has run.
LEMMA RequestRuns ==
    ASSUME TypeOK, RunInv, OnceInv, Request
    PROVE  RunInv'
<1> USE DEF session, disk, ghosts, counts
<1>0. lined \in Seq(Messages)
  BY Shapes
<1>1. ASSUME NEW m \in Typed \cup Inbound,
             \/ m \in Typed /\ QueueTurn(m)
             \/ m \in Inbound /\ DeliverQueued(m)
      PROVE  RunInv'
  <2>1. /\ lined' = Append(lined, m) /\ posted' = posted \cup {m}
        /\ UNCHANGED <<task, via, ctx, archived, running, file>>
    BY <1>1 DEF QueueTurn, DeliverQueued
  <2>2. Elems(Append(lined, m)) = Elems(lined) \cup {m}
    BY <1>0, <1>1, MessageSets, ElemsOfAppend
  <2>3. Elems(file') \subseteq Ran
    BY <2>1 DEF RunInv
  <2> QED
    BY <1>1, <2>1, <2>2, <2>3, RunUnworked
<1>2. ASSUME NEW m \in Inbound, DeliverUnready(m)
      PROVE  RunInv'
  BY <1>2, RunUnworked DEF DeliverUnready, RunInv
<1>3. ASSUME NEW w \in Workers, NEW m \in Messages,
             PostTurn(w, m) \/ Followup(w, m)
      PROVE  RunInv'
  <2>1. Claim(w, "chat", "setup", m) \/ Claim(w, "followup", "run", m)
    BY <1>3 DEF PostTurn, Followup
  <2>2. m \in posted' /\ m \notin posted /\ posted \subseteq posted'
        /\ UNCHANGED <<archived, file, lined>>
    BY <1>3 DEF PostTurn, Followup, Fresh
  <2>3. "chat" \in Kinds /\ "followup" \in Kinds
    BY DEF Kinds
  <2> QED
    BY <2>1, <2>2, <2>3, ClaimRuns
<1>4. ASSUME NEW w \in Workers, NEW st,
             task' = [task EXCEPT ![w] = task'[w]], task'[w].st = st,
             task'[w].before = <<>>, task'[w].snap = <<>>,
             UNCHANGED <<via, lined, running, file>>, posted \subseteq posted',
             Archive \/ UNCHANGED <<ctx, archived>>,
             \/ task'[w].pc = "permit" /\ Elems(st) \subseteq Inbound /\ Elems(st) \cap Ran = {}
             \/ task'[w].pc = "file" /\ Elems(st) \subseteq Records
             \/ task'[w].pc = "persist" \/ task'[w].pc = "compact"
      PROVE  RunInv'
  <2>1. Ran' = Ran \cup {}
    BY <1>4, RanKept
  <2>2. Elems(ctx') \cup Elems(archived') \subseteq Ran
    <3>1. CASE Archive
      BY <3>1, ArchiveRan
    <3>2. CASE UNCHANGED <<ctx, archived>>
      BY <3>2 DEF RunInv
    <3> QED
      BY <1>4, <3>1, <3>2
  <2>3. Elems(task'[w].snap) = {} /\ Elems(running') \cup Elems(file') \subseteq Ran
    BY <1>4, ElemsOfEmpty DEF RunInv
  <2>4. Elems(ctx') \cup Elems(archived') \cup Elems(running') \cup Elems(file')
             \cup Elems(task'[w].snap) \subseteq Ran'
    BY <2>1, <2>2, <2>3
  <2>5. /\ task'[w].pc = "setup" \/ task'[w].pc = "run" =>
               Elems(task'[w].st) \cup Elems(task'[w].before) \subseteq Ran'
        /\ task'[w].pc = "permit" =>
               Elems(task'[w].st) \subseteq Inbound /\ Elems(task'[w].st) \cap Ran' = {}
        /\ task'[w].pc = "file" => Elems(task'[w].st) \subseteq Records
    BY <1>4, <2>1
  <2>6. /\ \A v \in Workers : v # w /\ task[v].pc = "permit" =>
               Elems(task[v].st) \cap {} = {}
        /\ Elems(lined') \subseteq Elems(lined) \cup ((Typed \cup Inbound) \cap posted')
        /\ \A m \in Messages : via'[m] # None => m \in posted' \/ via[m] # None
    BY <1>4
  <2> QED
    BY <1>4, <2>1, <2>4, <2>5, <2>6, RunStep
<1>5. ASSUME NEW w \in Workers, NEW m \in Inbound, DeliverClaim(w, m)
      PROVE  RunInv'
  <2>1. /\ task' = [task EXCEPT ![w] = task'[w]]
        /\ task'[w].pc = "permit" /\ task'[w].st = <<m>>
        /\ task'[w].before = <<>> /\ task'[w].snap = <<>>
    BY <1>5 DEF TypeOK, DeliverClaim, Off
  <2>2. m \in Messages /\ m \notin posted /\ m \notin Records /\ m # Divider
    BY <1>5, MessageSets, MessagesDisjoint DEF DeliverClaim, OnceInv, Known
  <2>3. m \notin Ran
    BY <2>2 DEF RunInv, Ran
  <2>4. Elems(<<m>>) \subseteq Inbound /\ Elems(<<m>>) \cap Ran = {}
    BY <2>3, ElemsOfOne
  <2> QED
    BY <1>4, <1>5, <2>1, <2>4 DEF DeliverClaim
<1>6. ASSUME NEW w \in Workers, NEW m \in Records,
             RecordFlow(w, m) \/ RecordTick(w, m)
      PROVE  RunInv'
  <2>1. /\ task' = [task EXCEPT ![w] = task'[w]]
        /\ task'[w].pc = "file" /\ task'[w].st = <<m>>
        /\ task'[w].before = <<>> /\ task'[w].snap = <<>>
    BY <1>6 DEF TypeOK, RecordFlow, RecordTick, Off
  <2>2. /\ UNCHANGED <<via, lined, running, file>> /\ posted \subseteq posted'
        /\ Archive \/ UNCHANGED <<ctx, archived>>
    BY <1>6 DEF RecordFlow, RecordTick
  <2>3. Elems(<<m>>) \subseteq Records
    BY ElemsOfOne
  <2> QED
    BY <1>4, <2>1, <2>2, <2>3
<1>7. ASSUME NEW w \in Workers, StartCompact(w) \/ Reset(w)
      PROVE  RunInv'
  <2>1. /\ task' = [task EXCEPT ![w] = task'[w]]
        /\ task'[w].pc = "compact" \/ task'[w].pc = "persist"
        /\ task'[w].before = <<>> /\ task'[w].snap = <<>>
    BY <1>7 DEF TypeOK, StartCompact, Reset, Off
  <2>2. /\ UNCHANGED <<via, lined, running, file>> /\ posted \subseteq posted'
        /\ Archive \/ UNCHANGED <<ctx, archived>>
    BY <1>7 DEF StartCompact, Reset
  <2> QED
    BY <1>4, <2>1, <2>2
<1>8. CASE PressStop \/ DeleteChat
  <2>1. /\ Elems(file') \subseteq Elems(file)
        /\ UNCHANGED <<task, via, ctx, archived, running, posted, lined>>
    BY <1>8, ElemsOfEmpty DEF PressStop, DeleteChat
  <2>2. Elems(file') \subseteq Ran
    BY <2>1 DEF RunInv
  <2> QED
    BY <2>1, <2>2, RunUnworked
<1> QED
  BY <1>1, <1>2, <1>3, <1>5, <1>6, <1>7, <1>8, MessageSets DEF Request

\* A client is shown only what was run.
LEMMA TranscriptRan ==
    ASSUME TypeOK, RunInv
    PROVE  Elems(Transcript) \subseteq Ran
<1> DEFINE shown == IF running # <<>> THEN running ELSE ctx
<1>1. /\ shown \in Seq(Words) /\ archived \in Seq(Words)
      /\ Elems(shown) \subseteq Ran /\ Elems(archived) \subseteq Ran
  BY Shapes DEF RunInv
<1> HIDE DEF shown
<1>2. Elems(archived \o shown) = Elems(archived) \cup Elems(shown)
  BY <1>1, ElemsOfConcat
<1>3. Transcript = archived \o shown
  BY DEF Transcript, shown
<1> QED
  BY <1>1, <1>2, <1>3

\* A worker goes on, and no message is taken up.
LEMMA RunMoves ==
    ASSUME TypeOK, RunInv, NEW w \in Workers,
           task' = [task EXCEPT ![w] = task'[w]],
           UNCHANGED <<via, posted>>,
           Elems(ctx') \cup Elems(archived') \cup Elems(running') \cup Elems(file')
             \cup Elems(task'[w].snap) \subseteq Ran,
           Elems(lined') \subseteq Elems(lined) \cup ((Typed \cup Inbound) \cap posted),
           \/ /\ task[w].pc = "setup" /\ task'[w].pc = "run"
              /\ task'[w].st = task[w].st /\ task'[w].before = task[w].before
           \/ task'[w].pc = "run" /\ task'[w] = task[w]
           \/ task'[w].pc \notin {"setup", "run", "permit", "file"}
    PROVE  RunInv'
<1>1. Ran' = Ran \cup {}
  BY RanKept
<1>2. /\ task'[w].pc = "setup" \/ task'[w].pc = "run" =>
             Elems(task'[w].st) \cup Elems(task'[w].before) \subseteq Ran'
      /\ task'[w].pc = "permit" =>
             Elems(task'[w].st) \subseteq Inbound /\ Elems(task'[w].st) \cap Ran' = {}
      /\ task'[w].pc = "file" => Elems(task'[w].st) \subseteq Records
  BY <1>1 DEF RunInv
<1>3. Elems(ctx') \cup Elems(archived') \cup Elems(running') \cup Elems(file')
             \cup Elems(task'[w].snap) \subseteq Ran'
  BY <1>1
<1>4. /\ \A v \in Workers : v # w /\ task[v].pc = "permit" =>
             Elems(task[v].st) \cap {} = {}
      /\ Elems(lined') \subseteq Elems(lined) \cup ((Typed \cup Inbound) \cap posted')
      /\ \A m \in Messages : via'[m] # None => m \in posted' \/ via[m] # None
      /\ posted \subseteq posted'
  OBVIOUS
<1> QED
  BY <1>1, <1>2, <1>3, <1>4, RunStep

\* What a worker puts into a conversation was run.
LEMMA WorkerRuns ==
    ASSUME TypeOK, HasMessage, OnceInv, RunInv, NEW w \in Workers, WorkerStep(w)
    PROVE  RunInv'
<1> USE DEF session, disk, ghosts, counts
<1>0. /\ pending \in Seq(Messages) /\ ctx \in Seq(Messages) /\ lined \in Seq(Messages)
      /\ task[w] \in Tasks /\ task[w].st \in Seq(Messages)
      /\ Elems(ctx) \subseteq Ran /\ Elems(archived) \subseteq Ran
      /\ Elems(running) \subseteq Ran /\ Elems(file) \subseteq Ran
      /\ Elems(task[w].snap) \subseteq Ran /\ Elems(<<>>) \subseteq Ran
  BY Shapes, ElemsOfEmpty DEF TypeOK, RunInv
<1>1. CASE SetupDone(w)
  <2>1. /\ task' = [task EXCEPT ![w] = task'[w]]
        /\ task[w].pc = "setup" /\ task'[w].pc = "run"
        /\ task'[w].st = task[w].st /\ task'[w].before = task[w].before
        /\ task'[w].snap = task[w].snap
    BY <1>0, <1>1 DEF TypeOK, SetupDone, Move, At, Tasks
  <2>2. UNCHANGED <<ctx, archived, running, file, lined, via, posted>>
    BY <1>1 DEF SetupDone
  <2> QED
    BY <1>0, <2>1, <2>2, RunMoves
<1>2. CASE PermitGranted(w) \/ CompactDone(w)
  <2>1. /\ task' = [task EXCEPT ![w] = task'[w]] /\ task'[w].snap = task[w].snap
        /\ task'[w].pc \notin {"setup", "run", "permit", "file"}
    <3>1. ASSUME NEW place, Move(w, place)
          PROVE  /\ task' = [task EXCEPT ![w] = task'[w]] /\ task'[w].pc = place
                 /\ task'[w].snap = task[w].snap
      BY <1>0, <3>1 DEF TypeOK, Move, Tasks
    <3>2. CASE PermitGranted(w)
      BY <3>1, <3>2 DEF PermitGranted
    <3>3. CASE CompactDone(w)
      BY <3>1, <3>3 DEF CompactDone
    <3> QED
      BY <1>2, <3>2, <3>3
  <2>2. UNCHANGED <<ctx, archived, running, file, lined, via, posted>>
    BY <1>2 DEF PermitGranted, CompactDone
  <2> QED
    BY <1>0, <2>1, <2>2, RunMoves
<1>3. CASE SetupFails(w) \/ DrainDone(w) \/ GatewayDone(w) \/ CompactFails(w)
  <2>1. /\ task' = [task EXCEPT ![w] = task'[w]] /\ task'[w].pc = "off"
        /\ task'[w].snap = <<>>
    BY <1>3 DEF TypeOK, SetupFails, DrainDone, GatewayDone, CompactFails, Off
  <2>2. UNCHANGED <<ctx, archived, running, file, lined, via, posted>>
    BY <1>3 DEF SetupFails, DrainDone, GatewayDone, CompactFails
  <2> QED
    BY <1>0, <2>1, <2>2, RunMoves
<1>4. CASE Inject(w)
  <2>1. /\ task' = [task EXCEPT ![w] = task'[w]] /\ task'[w].pc = "run"
        /\ task[w].pc = "run" /\ task'[w].st = task[w].st \o pending
        /\ task'[w].before = task[w].before /\ task'[w].snap = task[w].snap
        /\ UNCHANGED <<ctx, archived, running, file, lined, posted>>
        /\ RunBy(Elems(pending), task[w].kind) /\ task[w].kind \in Kinds
    BY <1>0, <1>4 DEF TypeOK, Inject, At, Tasks
  <2>2. Elems(pending) \subseteq Messages /\ Elems(pending) \subseteq posted
    BY <1>0, ElemsOfSeq, SaidOfMessages DEF OnceInv, Known
  <2>3. /\ Ran' = Ran \cup Elems(pending)
        /\ \A m \in Messages : m \notin Elems(pending) => via'[m] = via[m]
    BY <2>1, <2>2, RunByRuns
  <2>4. Elems(task'[w].st) = Elems(task[w].st) \cup Elems(pending)
    BY <1>0, <2>1, ElemsOfConcat
  <2>5. Elems(task[w].st) \cup Elems(task[w].before) \subseteq Ran
    BY <2>1 DEF RunInv
  <2>6. \A v \in Workers : v # w /\ task[v].pc = "permit" =>
             Elems(task[v].st) \cap Elems(pending) = {}
    <3> SUFFICES ASSUME NEW v \in Workers, task[v].pc = "permit"
                 PROVE  Elems(task[v].st) \cap Elems(pending) = {}
      OBVIOUS
    <3>1. InHand(v) = Elems(task[v].st)
      BY DEF InHand
    <3>2. InHand(v) \cap Said(pending) = {}
      BY DEF OnceInv, Apart
    <3> QED
      BY <1>0, <3>1, <3>2, SaidOfMessages
  <2>7. Elems(ctx') \cup Elems(archived') \cup Elems(running') \cup Elems(file')
             \cup Elems(task'[w].snap) \subseteq Ran'
    BY <1>0, <2>1, <2>3
  <2>8. /\ Elems(task'[w].st) \cup Elems(task'[w].before) \subseteq Ran'
        /\ task'[w].pc # "permit" /\ task'[w].pc # "file"
        /\ \A m \in Messages : via'[m] # None => m \in posted' \/ via[m] # None
        /\ posted \subseteq posted'
        /\ Elems(lined') \subseteq Elems(lined) \cup ((Typed \cup Inbound) \cap posted')
    BY <2>1, <2>2, <2>3, <2>4, <2>5
  <2> QED
    BY <2>1, <2>3, <2>6, <2>7, <2>8, RunStep
<1>5. CASE RefreshSnapshot(w)
  <2>1. /\ task' = [task EXCEPT ![w] = task'[w]] /\ task'[w] = task[w]
        /\ task[w].pc = "run" /\ running' = task[w].st
        /\ UNCHANGED <<task, ctx, archived, file, lined, via, posted>>
    BY <1>5 DEF TypeOK, RefreshSnapshot, At
  <2>2. Elems(running') \subseteq Ran
    BY <2>1 DEF RunInv
  <2> QED
    BY <1>0, <2>1, <2>2, RunMoves
<1>6. CASE TurnEnds(w) \/ TurnStops(w) \/ TurnErrors(w)
  <2>1. /\ ctx' = task[w].st \/ ctx' = task[w].before
        /\ task[w].pc = "run" /\ running' = <<>>
        /\ UNCHANGED <<archived, file, lined, via, posted>>
        /\ task' = [task EXCEPT ![w] = task'[w]]
        /\ task'[w].pc = "persist" /\ task'[w].snap = <<>>
    BY <1>6 DEF TypeOK, TurnEnds, TurnStops, TurnErrors, GiveBack, Off, At
  <2>2. Elems(ctx') \subseteq Ran
    BY <2>1 DEF RunInv
  <2> QED
    BY <1>0, <2>1, <2>2, RunMoves
<1>7. CASE PersistAtOnce(w) \/ PersistWrite(w)
  <2>1. file' = Transcript \/ file' = task[w].snap
    BY <1>7 DEF PersistAtOnce, PersistWrite
  <2>2. Elems(file') \subseteq Ran
    BY <1>0, <2>1, TranscriptRan
  <2>3. /\ task' = Finish(w) /\ UNCHANGED <<ctx, archived, running, lined, via, posted>>
    BY <1>7 DEF PersistAtOnce, PersistWrite
  <2>4. /\ task' = [task EXCEPT ![w] = task'[w]] /\ task'[w].snap = <<>>
        /\ task'[w].pc \notin {"setup", "run", "permit", "file"}
    BY <2>3, FinishOff
  <2> QED
    BY <1>0, <2>2, <2>3, <2>4, RunMoves
<1>8. CASE PersistSnapshot(w)
  <2>1. /\ task' = [task EXCEPT ![w] = task'[w]]
        /\ task'[w].pc = "write" /\ task'[w].snap = Transcript
        /\ UNCHANGED <<ctx, archived, running, file, lined, via, posted>>
    BY <1>0, <1>8 DEF TypeOK, PersistSnapshot, Tasks
  <2>2. Elems(task'[w].snap) \subseteq Ran
    BY <2>1, TranscriptRan
  <2> QED
    BY <1>0, <2>1, <2>2, RunMoves
<1>9. CASE DrainNext(w)
  <2>1. Head(pending) \in Messages /\ Head(pending) \in Elems(pending)
    BY <1>0, <1>9, HeadTailProperties, ElemsOfHeadTail DEF DrainNext
  <2>2. PICK m \in Messages : m = Head(pending)
    BY <2>1
  <2>3. Claim(w, "chat", "run", m) /\ UNCHANGED <<archived, file, lined, posted>>
    BY <1>9, <2>2 DEF DrainNext
  <2>4. m \in Elems(pending) /\ m \in posted'
    BY <1>0, <2>1, <2>2, <2>3, SaidOfMessages DEF OnceInv, Known
  <2>5. "chat" \in Kinds
    BY DEF Kinds
  <2> QED
    BY <2>3, <2>4, <2>5, ClaimRuns
<1>10. CASE GatewayTake(w)
  <2>1. PICK m \in Messages : task[w].st = <<m>> /\ Head(task[w].st) = m
    BY <1>10 DEF GatewayTake, HasMessage
  <2>2. InHand(w) = {m}
    BY <1>10, <2>1, ElemsOfOne DEF GatewayTake, At, InHand
  <2>3. Claim(w, "gateway", "run", m) /\ UNCHANGED <<archived, file, lined, posted>>
    BY <1>10, <2>1 DEF GatewayTake
  <2>4. m \in InHand(w) /\ m \in posted'
    BY <2>2, <2>3, InHandSaid DEF OnceInv, Known
  <2>5. "gateway" \in Kinds
    BY DEF Kinds
  <2> QED
    BY <2>3, <2>4, <2>5, ClaimRuns
<1>11. CASE GatewayNext(w)
  <2>1. /\ task' = [task EXCEPT ![w] = task'[w]] /\ task'[w].pc = "take"
        /\ task'[w].snap = task[w].snap
        /\ UNCHANGED <<ctx, archived, running, file, lined, via, posted>>
    BY <1>0, <1>11 DEF TypeOK, GatewayNext, Tasks
  <2> QED
    BY <1>0, <2>1, RunMoves
<1>12. CASE PermitDenied(w)
  <2>1. PICK m \in Messages : task[w].st = <<m>> /\ Head(task[w].st) = m
    BY <1>12 DEF PermitDenied, HasMessage
  <2>2. m \in Inbound /\ m \in InHand(w)
    BY <1>12, <2>1, ElemsOfOne DEF PermitDenied, At, RunInv, InHand
  <2>3. m \in posted
    BY <2>2, InHandSaid DEF OnceInv, Known
  <2>4. Elems(lined') = Elems(lined) \cup {m}
    BY <1>0, <1>12, <2>1, ElemsOfAppend DEF PermitDenied
  <2>5. /\ task' = [task EXCEPT ![w] = task'[w]] /\ task'[w].pc = "off"
        /\ task'[w].snap = <<>>
        /\ UNCHANGED <<ctx, archived, running, file, via, posted>>
    BY <1>12 DEF TypeOK, PermitDenied, Off
  <2>6. Elems(lined') \subseteq Elems(lined) \cup ((Typed \cup Inbound) \cap posted)
    BY <2>2, <2>3, <2>4
  <2> QED
    BY <1>0, <2>5, <2>6, RunMoves
<1>13. CASE FileRecord(w)
  <2>1. Elems(ctx') = Elems(ctx) \cup Elems(task[w].st)
    BY <1>0, <1>13, ElemsOfConcat DEF FileRecord
  <2>2. Elems(ctx') \subseteq Ran
    BY <1>0, <1>13, <2>1 DEF FileRecord, At, RunInv, Ran
  <2>3. /\ task' = [task EXCEPT ![w] = task'[w]] /\ task'[w].pc = "persist"
        /\ task'[w].snap = <<>>
        /\ UNCHANGED <<archived, running, file, lined, via, posted>>
    BY <1>13 DEF TypeOK, FileRecord, Off
  <2> QED
    BY <1>0, <2>2, <2>3, RunMoves
<1> QED
  BY <1>1, <1>2, <1>3, <1>4, <1>5, <1>6, <1>7, <1>8, <1>9, <1>10, <1>11, <1>12,
     <1>13
  DEF WorkerStep

\* What a restart reads back was run.
LEMMA RestartRuns ==
    ASSUME TypeOK, RunInv, Restart
    PROVE  RunInv'
<1>1. Ran' = Ran
  BY RanKept DEF Restart
<1>2. /\ Elems(file) = Elems(archived') \cup Elems(ctx')
      /\ Elems(running') = {} /\ UNCHANGED <<file, lined, via, posted>>
  BY RestartReads, ElemsOfEmpty DEF Restart, disk
<1>3. Elems(file) \subseteq Ran
  BY DEF RunInv
<1>4. Elems(ctx') \cup Elems(archived') \cup Elems(running') \cup Elems(file')
           \subseteq Ran'
  BY <1>1, <1>2, <1>3
<1>5. \A w \in Workers : task'[w].pc = "off" /\ task'[w].snap = <<>>
  BY DEF Restart, Off
<1>6. \A w \in Workers :
        /\ Elems(task'[w].snap) \subseteq Ran'
        /\ task'[w].pc = "setup" \/ task'[w].pc = "run" =>
               Elems(task'[w].st) \cup Elems(task'[w].before) \subseteq Ran'
        /\ task'[w].pc = "permit" =>
               Elems(task'[w].st) \subseteq Inbound /\ Elems(task'[w].st) \cap Ran' = {}
        /\ task'[w].pc = "file" => Elems(task'[w].st) \subseteq Records
  BY <1>5, ElemsOfEmpty
<1>7. /\ Elems(lined') \subseteq (Typed \cup Inbound) \cap posted'
      /\ \A m \in Messages : via'[m] # None => m \in posted'
  BY <1>2 DEF RunInv
<1> QED
  BY <1>4, <1>6, <1>7 DEF RunInv, Elems

\* A fresh chat holds nothing that was not run.
LEMMA RunInit ==
    ASSUME Init
    PROVE  RunInv
<1>1. /\ Elems(ctx) = {} /\ Elems(archived) = {} /\ Elems(running) = {}
      /\ Elems(file) = {} /\ Elems(lined) = {}
  BY ElemsOfEmpty DEF Init
<1>2. \A w \in Workers : task[w].pc = "off" /\ Elems(task[w].snap) = {}
  BY ElemsOfEmpty DEF Init, Off
<1>3. \A m \in Messages : via[m] = None
  BY DEF Init
<1> QED
  BY <1>1, <1>2, <1>3 DEF RunInv

\* The messages the gateway has taken off the line and not yet run.
Offered ==
    {m \in Messages : \E w \in Workers : At(w, "take") /\ m \in Elems(task[w].st)}

\* The line is what is left of everything that went through it: the first k
\* are gone, run or lost, all but perhaps the last of them, which the gateway
\* may hold.
Gone(k) ==
    /\ Len(pending) = Len(lined) - k
    /\ \A i \in 1..Len(pending) :
           pending[i] = lined[k + i] /\ via[pending[i]] = None
    /\ \A i \in 1..k : \/ via[lined[i]] # None
                       \/ lined[i] \in lost
                       \/ i = k /\ lined[k] \in Offered

LineInv == \E k \in 0..Len(lined) : Gone(k)

\* A line that is emptied from the front is in order.
LEMMA LineOrdered ==
    ASSUME TypeOK, LineInv
    PROVE  QueueInOrder
<1>0. Len(lined) \in Nat
  BY Shapes, LenProperties
<1>1. PICK k \in 0..Len(lined) : Gone(k)
  BY DEF LineInv
<1> SUFFICES ASSUME NEW i \in 1..Len(lined), NEW j \in 1..Len(lined), i < j,
                    via[lined[j]] # None
             PROVE  via[lined[i]] # None \/ lined[i] \in lost
  BY DEF QueueInOrder
<1>2. ASSUME j > k PROVE FALSE
  <2>1. j - k \in 1..Len(pending)
    BY <1>0, <1>1, <1>2 DEF Gone
  <2>2. pending[j - k] = lined[k + (j - k)] /\ via[pending[j - k]] = None
    BY <1>1, <2>1 DEF Gone
  <2>3. k + (j - k) = j
    BY <1>0
  <2> QED
    BY <2>2, <2>3
<1>3. i \in 1..k /\ i # k
  BY <1>0, <1>2
<1> QED
  BY <1>1, <1>3 DEF Gone

\* The line stands still: what is run meanwhile did not go through it, or was
\* taken off it before.
LEMMA LineStays ==
    ASSUME TypeOK, LineInv, UNCHANGED <<pending, lined>>, lost \subseteq lost',
           \A m \in Elems(pending) : via'[m] = via[m],
           \A m \in Messages : /\ via[m] # None => via'[m] # None
                               /\ m \in Offered => m \in Offered' \/ via'[m] # None
    PROVE  LineInv'
<1>1. /\ lined \in Seq(Messages) /\ Len(lined) \in Nat
      /\ \A i \in 1..Len(lined) : lined[i] \in Messages
  BY Shapes, LenProperties, ElementOfSeq
<1>2. PICK k \in 0..Len(lined) : Gone(k)
  BY DEF LineInv
<1>3. /\ Len(pending') = Len(lined') - k
      /\ \A i \in 1..Len(pending') :
             pending'[i] = lined'[k + i] /\ via'[pending'[i]] = None
  BY <1>2 DEF Gone, Elems
<1>4. \A i \in 1..k : \/ via'[lined'[i]] # None
                      \/ lined'[i] \in lost'
                      \/ i = k /\ lined'[k] \in Offered'
  BY <1>1, <1>2 DEF Gone
<1>6. Gone(k)'
  BY <1>3, <1>4 DEF Gone
<1> QED
  BY <1>2, <1>6 DEF LineInv

\* A message nothing has run joins the line.
LEMMA LineGrows ==
    ASSUME TypeOK, LineInv, NEW m \in Messages, via[m] = None,
           pending' = Append(pending, m), lined' = Append(lined, m),
           UNCHANGED <<via, lost>>,
           Offered \subseteq Offered'
    PROVE  LineInv'
<1>1. /\ lined \in Seq(Messages) /\ pending \in Seq(Messages)
      /\ Len(lined) \in Nat /\ Len(pending) \in Nat
      /\ \A i \in 1..Len(lined) : lined[i] \in Messages
  BY Shapes, LenProperties, ElementOfSeq
<1>2. PICK k \in 0..Len(lined) : Gone(k)
  BY DEF LineInv
<1>3. /\ Len(lined') = Len(lined) + 1 /\ Len(pending') = Len(pending) + 1
      /\ \A i \in 1..Len(lined) : lined'[i] = lined[i]
      /\ \A i \in 1..Len(pending) : pending'[i] = pending[i]
      /\ lined'[Len(lined) + 1] = m /\ pending'[Len(pending) + 1] = m
  BY <1>1, AppendProperties
<1>4. Len(pending') = Len(lined') - k
  BY <1>1, <1>2, <1>3 DEF Gone
<1>5. ASSUME NEW i \in 1..Len(pending')
      PROVE  pending'[i] = lined'[k + i] /\ via'[pending'[i]] = None
  <2>1. CASE i \in 1..Len(pending)
    <3>1. k + i \in 1..Len(lined) /\ pending[i] = lined[k + i] /\ via[pending[i]] = None
      BY <1>1, <1>2, <2>1 DEF Gone
    <3> QED
      BY <1>3, <2>1, <3>1
  <2>2. CASE i = Len(pending) + 1
    <3>1. k + i = Len(lined) + 1
      BY <1>1, <1>2, <2>2 DEF Gone
    <3>2. pending'[i] = m
      BY <1>3, <2>2
    <3>3. lined'[k + i] = m
      BY <1>3, <3>1
    <3> QED
      BY <3>2, <3>3
  <2>3. i \in 1..Len(pending) \/ i = Len(pending) + 1
    BY <1>1, <1>3
  <2> QED
    BY <2>1, <2>2, <2>3
<1>6. \A i \in 1..k : \/ via'[lined'[i]] # None
                      \/ lined'[i] \in lost'
                      \/ i = k /\ lined'[k] \in Offered'
  <2>1. \A i \in 1..k : i \in 1..Len(lined) /\ lined'[i] = lined[i] /\ lined[i] \in Messages
    BY <1>1, <1>3
  <2> QED
    BY <1>2, <2>1 DEF Gone
<1>7. Gone(k)'
  BY <1>4, <1>5, <1>6 DEF Gone
<1>8. k \in 0..Len(lined')
  BY <1>1, <1>3
<1> QED
  BY <1>7, <1>8 DEF LineInv

\* Its head leaves it, run or in the gateway's hands; nothing was there before.
LEMMA LineMoves ==
    ASSUME TypeOK, LineInv, pending # <<>>, Once(pending),
           pending' = Tail(pending), UNCHANGED <<lined, lost>>,
           \A n \in Messages : n # Head(pending) => via'[n] = via[n],
           via'[Head(pending)] # None \/ Head(pending) \in Offered',
           Offered = {}
    PROVE  LineInv'
<1>1. /\ lined \in Seq(Messages) /\ pending \in Seq(Messages)
      /\ Len(lined) \in Nat /\ Len(pending) \in Nat \ {0}
      /\ \A i \in 1..Len(lined) : lined[i] \in Messages
      /\ \A i \in 1..Len(pending) : pending[i] \in Messages
  BY Shapes, LenProperties, ElementOfSeq, EmptySeq
<1>2. PICK k \in 0..Len(lined) : Gone(k)
  BY DEF LineInv
<1>3. /\ Head(pending) = pending[1] /\ Len(pending') = Len(pending) - 1
      /\ \A i \in 1..Len(pending') : pending'[i] = pending[i + 1]
  BY <1>1, HeadTailProperties
<1>4. k + 1 \in 0..Len(lined) /\ Len(pending') = Len(lined') - (k + 1)
      /\ lined[k + 1] = pending[1]
  BY <1>1, <1>2, <1>3 DEF Gone
<1>5. ASSUME NEW i \in 1..Len(pending')
      PROVE  pending'[i] = lined'[k + 1 + i] /\ via'[pending'[i]] = None
  <2>1. /\ i + 1 \in 1..Len(pending) /\ pending[i + 1] = lined[k + (i + 1)]
        /\ via[pending[i + 1]] = None
    BY <1>1, <1>2, <1>3 DEF Gone
  <2>2. pending[i + 1] # pending[1] /\ pending[i + 1] \in Messages
    <3>1. pending[i + 1] \in Messages /\ 1 \in 1..Len(pending) /\ i + 1 # 1
      BY <1>1, <1>3, <2>1
    <3>2. pending[i + 1] # Divider
      BY <3>1, MessagesDisjoint
    <3> QED
      BY <2>1, <3>1, <3>2 DEF Once
  <2>3. k + (i + 1) = k + 1 + i
    BY <1>1
  <2> QED
    BY <1>3, <2>1, <2>2, <2>3
<1>6. ASSUME NEW i \in 1..(k + 1)
      PROVE  \/ via'[lined'[i]] # None
             \/ lined'[i] \in lost'
             \/ i = k + 1 /\ lined'[k + 1] \in Offered'
  <2>1. CASE i = k + 1
    <3>1. lined'[i] = Head(pending)
      BY <1>3, <1>4, <2>1
    <3> QED
      BY <2>1, <3>1
  <2>2. CASE i \in 1..k
    <3>1. lined[i] \in Messages /\ lined[k] \in Messages
      BY <1>1, <2>2
    <3>2. via[lined[i]] # None \/ lined[i] \in lost
      BY <1>2, <2>2, <3>1 DEF Gone
    <3>3. lined[i] = Head(pending) \/ via'[lined[i]] = via[lined[i]]
      BY <3>1
    <3>4. via[Head(pending)] = None
      BY <1>1, <1>2, <1>3 DEF Gone
    <3>5. CASE lined[i] = Head(pending) /\ lined[i] \notin lost
      BY <3>2, <3>4, <3>5
    <3> QED
      BY <3>2, <3>3, <3>5
  <2> QED
    BY <1>1, <2>1, <2>2
<1>7. Gone(k + 1)'
  BY <1>4, <1>5, <1>6 DEF Gone
<1> QED
  BY <1>4, <1>7 DEF LineInv

\* The line empties: all that was in it is run, or lost.
LEMMA LineEmpties ==
    ASSUME TypeOK, LineInv, pending' = <<>>, UNCHANGED lined,
           \A i \in 1..Len(lined) :
               via'[lined[i]] # None \/ lined[i] \in lost'
    PROVE  LineInv'
<1>1. Len(lined) \in Nat /\ Len(pending') = 0
  BY Shapes, LenProperties, EmptySeq
<1>2. Gone(Len(lined))'
  BY <1>1 DEF Gone
<1> QED
  BY <1>1, <1>2 DEF LineInv

\* What a worker holds for the gateway is with no other worker.
LEMMA OfferedStep ==
    ASSUME TypeOK, NEW w \in Workers, task' = [task EXCEPT ![w] = task'[w]]
    PROVE  /\ task[w].pc # "take" => Offered \subseteq Offered'
           /\ task'[w].st = task[w].st /\ task'[w].pc = task[w].pc =>
                  Offered \subseteq Offered'
           /\ \A m \in Messages :
                  m \in Offered /\ m \notin Elems(task[w].st) => m \in Offered'
<1>1. \A v \in Workers : v # w => task'[v] = task[v]
  BY DEF TypeOK
<1>2. ASSUME NEW m \in Offered, NEW v \in Workers, v # w, At(v, "take"),
             m \in Elems(task[v].st)
      PROVE  m \in Offered'
  BY <1>1, <1>2 DEF Offered, At, Elems
<1>3. ASSUME NEW m \in Offered, At(w, "take"), m \in Elems(task[w].st),
             task'[w].st = task[w].st, task'[w].pc = task[w].pc
      PROVE  m \in Offered'
  BY <1>3 DEF Offered, At, Elems
<1>4. \A m \in Offered : \E v \in Workers : At(v, "take") /\ m \in Elems(task[v].st)
  BY DEF Offered
<1>5. task[w].pc # "take" => Offered \subseteq Offered'
  BY <1>2, <1>4 DEF At
<1>6. task'[w].st = task[w].st /\ task'[w].pc = task[w].pc => Offered \subseteq Offered'
  BY <1>2, <1>3, <1>4
<1>7. \A m \in Messages :
          m \in Offered /\ m \notin Elems(task[w].st) => m \in Offered'
  BY <1>2, <1>4
<1> QED
  BY <1>5, <1>6, <1>7

\* Nothing is on offer while somebody else owns the chat, or nobody does.
LEMMA NothingOffered ==
    ASSUME TurnInv, \/ ~busy
                    \/ \E w \in Workers : Holds(w) /\ task[w].pc # "take"
    PROVE  Offered = {}
BY DEF TurnInv, TurnsExclusive, BusyMeansHeld, Holds, At, Offered

\* A claim from outside the line runs nothing that is in it.
LEMMA ClaimLeavesLine ==
    ASSUME TypeOK, OnceInv, LineInv, NEW w \in Workers, NEW kind,
           NEW place, kind \in Kinds, place = "setup" \/ place = "run",
           NEW m \in Messages, Claim(w, kind, place, m),
           m \notin Elems(pending), Elems(task[w].st) \subseteq {m},
           UNCHANGED <<pending, lined, lost>>
    PROVE  LineInv'
<1>1. /\ \A n \in Messages : n \notin {m} => via'[n] = via[n]
      /\ via'[m] # None
  <2>1. RunBy({m}, kind) /\ {m} \subseteq Messages
    BY DEF Claim
  <2> QED
    BY <2>1, RunByRuns
<1>2. Elems(pending) \subseteq Messages
  BY Shapes, ElemsOfSeq
<1>3. task' = [task EXCEPT ![w] = task'[w]]
  BY ClaimHands
<1>4. \A n \in Messages : n \in Offered => n \in Offered' \/ via'[n] # None
  BY <1>1, <1>3, OfferedStep
<1>5. \A n \in Messages : via[n] # None => via'[n] # None
  BY <1>1
<1>6. \A n \in Elems(pending) : via'[n] = via[n]
  BY <1>1, <1>2
<1> QED
  BY <1>4, <1>5, <1>6, LineStays

\* Steps that neither touch the line nor run anything.
LEMMA LineUntouched ==
    ASSUME TypeOK, LineInv, UNCHANGED <<pending, lined, via>>, lost \subseteq lost',
           Offered \subseteq Offered'
    PROVE  LineInv'
BY LineStays

\* A request joins the line at its end, or passes it by.
LEMMA RequestLines ==
    ASSUME TypeOK, OnceInv, RunInv, LineInv, Request
    PROVE  LineInv'
<1> USE DEF session, disk, ghosts, counts
<1>0. pending \in Seq(Messages) /\ Said(pending) = Elems(pending)
  BY Shapes, SaidOfMessages
<1>1. ASSUME NEW m \in Messages,
             \/ m \in Typed /\ QueueTurn(m)
             \/ m \in Inbound /\ DeliverQueued(m)
      PROVE  LineInv'
  <2>1. /\ pending' = Append(pending, m) /\ lined' = Append(lined, m)
        /\ UNCHANGED <<via, lost, task>>
    BY <1>1 DEF QueueTurn, DeliverQueued, queue_message
  <2>2. m \notin posted
    BY <1>1 DEF QueueTurn, DeliverQueued, Fresh, OnceInv, Known
  <2>3. via[m] = None
    BY <2>2 DEF RunInv
  <2>4. Offered' = Offered
    BY <2>1 DEF Offered, At
  <2> QED
    BY <2>1, <2>3, <2>4, LineGrows
<1>2. ASSUME NEW w \in Workers, NEW m \in Messages,
             PostTurn(w, m) \/ Followup(w, m)
      PROVE  LineInv'
  <2>1. Claim(w, "chat", "setup", m) \/ Claim(w, "followup", "run", m)
    BY <1>2 DEF PostTurn, Followup
  <2>2. m \notin Elems(pending) /\ UNCHANGED <<pending, lined, lost>>
    BY <1>0, <1>2 DEF PostTurn, Followup, Fresh, OnceInv, Known
  <2>3. "chat" \in Kinds /\ "followup" \in Kinds
    BY DEF Kinds
  <2>4. /\ \A n \in Messages : n \notin {m} => via'[n] = via[n]
        /\ via'[m] # None
    <3>1. {m} \subseteq Messages /\ (RunBy({m}, "chat") \/ RunBy({m}, "followup"))
      BY <2>1 DEF Claim
    <3> QED
      BY <2>3, <3>1, RunByRuns
  <2>5. Offered \subseteq Offered'
    <3>1. task' = [task EXCEPT ![w] = task'[w]]
      BY <2>1, ClaimHands
    <3>2. task[w].pc # "take"
      BY <1>2 DEF PostTurn, Followup, Idle
    <3> QED
      BY <3>1, <3>2, OfferedStep
  <2>6. Elems(pending) \subseteq Messages
    BY <1>0, ElemsOfSeq
  <2>7. /\ \A n \in Elems(pending) : via'[n] = via[n]
        /\ \A n \in Messages : /\ via[n] # None => via'[n] # None
                               /\ n \in Offered => n \in Offered' \/ via'[n] # None
    BY <2>2, <2>4, <2>5, <2>6
  <2> QED
    BY <2>2, <2>7, LineStays
<1>3. ASSUME NEW w \in Workers, task' = [task EXCEPT ![w] = task'[w]],
             task[w].pc = "off", UNCHANGED <<pending, lined, via, lost>>
      PROVE  LineInv'
  BY <1>3, OfferedStep, LineUntouched
<1>4. ASSUME NEW w \in Workers, NEW m \in Messages,
             DeliverClaim(w, m) \/ RecordFlow(w, m) \/ RecordTick(w, m)
      PROVE  LineInv'
  <2>1. /\ task' = [task EXCEPT ![w] = task'[w]] /\ task[w].pc = "off"
        /\ UNCHANGED <<pending, lined, via, lost>>
    BY <1>4 DEF TypeOK, DeliverClaim, RecordFlow, RecordTick, Idle
  <2> QED
    BY <1>3, <2>1
<1>5. ASSUME NEW w \in Workers, StartCompact(w) \/ Reset(w)
      PROVE  LineInv'
  <2>1. /\ task' = [task EXCEPT ![w] = task'[w]] /\ task[w].pc = "off"
        /\ UNCHANGED <<pending, lined, via, lost>>
    BY <1>5 DEF TypeOK, StartCompact, Reset, Idle
  <2> QED
    BY <1>3, <2>1
<1>6. ASSUME \/ \E m \in Inbound : DeliverUnready(m)
             \/ PressStop \/ DeleteChat
      PROVE  LineInv'
  <2>1. UNCHANGED <<pending, lined, via, task>> /\ lost \subseteq lost'
    BY <1>6 DEF DeliverUnready, PressStop, DeleteChat
  <2>2. Offered' = Offered
    BY <2>1 DEF Offered, At
  <2> QED
    BY <2>1, <2>2, LineUntouched
<1> QED
  BY <1>1, <1>2, <1>4, <1>5, <1>6, MessageSets DEF Request

\* A worker takes the head of the line, all of it, or nothing.
LEMMA WorkerLines ==
    ASSUME TypeOK, HasMessage, TurnInv, OnceInv, RunInv, LineInv,
           NEW w \in Workers, WorkerStep(w)
    PROVE  LineInv'
<1> USE DEF session, disk, ghosts, counts
<1>0. /\ pending \in Seq(Messages) /\ Said(pending) = Elems(pending)
      /\ Once(pending) /\ task[w] \in Tasks
  BY Shapes, SaidOfMessages DEF OnceInv, Single, TypeOK
<1>1. ASSUME task' = [task EXCEPT ![w] = task'[w]], task[w].pc # "take",
             UNCHANGED <<pending, lined, via>>, lost \subseteq lost'
      PROVE  LineInv'
  BY <1>1, OfferedStep, LineUntouched
<1>2. CASE SetupDone(w) \/ PermitGranted(w) \/ CompactDone(w)
  <2>1. /\ task[w].pc # "take" /\ UNCHANGED <<pending, lined, via, lost>>
        /\ task' = [task EXCEPT ![w] = task'[w]]
    <3>1. ASSUME NEW place, Move(w, place)
          PROVE  task' = [task EXCEPT ![w] = task'[w]]
      BY <3>1 DEF TypeOK, Move
    <3> QED
      BY <1>2, <3>1 DEF SetupDone, PermitGranted, CompactDone, At
  <2> QED
    BY <1>1, <2>1
<1>3. CASE SetupFails(w) \/ DrainDone(w) \/ GatewayDone(w) \/ CompactFails(w)
             \/ RefreshSnapshot(w) \/ FileRecord(w)
  <2>1. /\ task' = [task EXCEPT ![w] = task'[w]] /\ task[w].pc # "take"
        /\ UNCHANGED <<pending, lined, via>> /\ lost \subseteq lost'
    BY <1>3
    DEF TypeOK, SetupFails, DrainDone, GatewayDone, CompactFails, RefreshSnapshot,
        FileRecord, At
  <2> QED
    BY <1>1, <2>1
<1>4. CASE TurnEnds(w) \/ TurnStops(w) \/ TurnErrors(w)
  <2>1. /\ task' = [task EXCEPT ![w] = task'[w]] /\ task[w].pc # "take"
        /\ UNCHANGED <<pending, lined, via>> /\ lost \subseteq lost'
    BY <1>4 DEF TypeOK, TurnEnds, TurnStops, TurnErrors, GiveBack, At
  <2> QED
    BY <1>1, <2>1
<1>5. CASE PersistAtOnce(w) \/ PersistWrite(w)
  <2>1. task' = [task EXCEPT ![w] = task'[w]]
    BY <1>5, FinishOff DEF PersistAtOnce, PersistWrite
  <2>2. task[w].pc # "take" /\ UNCHANGED <<pending, lined, via, lost>>
    BY <1>5 DEF PersistAtOnce, PersistWrite, At
  <2> QED
    BY <1>1, <2>1, <2>2
<1>6. CASE PersistSnapshot(w)
  <2>1. /\ task' = [task EXCEPT ![w] = task'[w]] /\ task[w].pc # "take"
        /\ UNCHANGED <<pending, lined, via, lost>>
    BY <1>0, <1>6 DEF TypeOK, PersistSnapshot, At, Tasks
  <2> QED
    BY <1>1, <2>1
<1>7. CASE Inject(w)
  <2>1. /\ pending' = <<>> /\ UNCHANGED <<lined, lost>>
        /\ RunBy(Elems(pending), task[w].kind) /\ task[w].kind \in Kinds
        /\ Elems(pending) \subseteq Messages
    BY <1>0, <1>7, ElemsOfSeq DEF Inject, Tasks
  <2>2. /\ \A m \in Messages : /\ m \in Elems(pending) => via'[m] # None
                               /\ m \notin Elems(pending) => via'[m] = via[m]
    BY <2>1, RunByRuns
  <2>3. Offered = {}
    BY <1>7, NothingOffered DEF Inject, At, Holds
  <2>4. PICK k \in 0..Len(lined) : Gone(k)
    BY DEF LineInv
  <2>5. ASSUME NEW i \in 1..Len(lined)
        PROVE  via'[lined[i]] # None \/ lined[i] \in lost'
    <3>0. /\ Len(lined) \in Nat /\ lined[i] \in Messages
          /\ Len(pending) = Len(lined) - k
      BY <2>4, Shapes, LenProperties, ElementOfSeq DEF Gone
    <3>1. CASE i \in 1..k
      <4>1. via[lined[i]] # None \/ lined[i] \in lost
        BY <2>3, <2>4, <3>1 DEF Gone
      <4> QED
        BY <2>1, <2>2, <3>0, <4>1
    <3>2. CASE i \notin 1..k
      <4>1. i - k \in 1..Len(pending) /\ k + (i - k) = i
        BY <3>0, <3>2
      <4>2. pending[i - k] = lined[i]
        BY <2>4, <4>1 DEF Gone
      <4>3. lined[i] \in Elems(pending)
        BY <4>1, <4>2 DEF Elems
      <4> QED
        BY <2>2, <3>0, <4>3
    <3> QED
      BY <3>1, <3>2
  <2> QED
    BY <2>1, <2>5, LineEmpties
<1>8. CASE DrainNext(w)
  <2>1. /\ pending # <<>> /\ pending' = Tail(pending) /\ UNCHANGED <<lined, lost>>
        /\ Claim(w, "chat", "run", Head(pending)) /\ ~busy
    BY <1>8 DEF DrainNext
  <2>2. PICK m \in Messages : m = Head(pending)
    BY <1>0, <2>1, HeadTailProperties
  <2>3. /\ \A n \in Messages : n \notin {m} => via'[n] = via[n]
        /\ via'[m] # None
    <3>1. RunBy({m}, "chat") /\ {m} \subseteq Messages /\ "chat" \in Kinds
      BY <2>1, <2>2 DEF Claim, Kinds
    <3> QED
      BY <3>1, RunByRuns
  <2>4. Offered = {}
    BY <2>1, NothingOffered
  <2> QED
    BY <1>0, <2>1, <2>2, <2>3, <2>4, LineMoves
<1>9. CASE GatewayTake(w)
  <2>1. PICK m \in Messages : task[w].st = <<m>> /\ Head(task[w].st) = m
    BY <1>9 DEF GatewayTake, HasMessage
  <2>2. InHand(w) = {m} /\ Elems(task[w].st) = {m}
    BY <1>9, <2>1, ElemsOfOne DEF GatewayTake, At, InHand
  <2>3. m \notin Elems(pending)
    BY <1>0, <2>2 DEF OnceInv, Apart
  <2>4. Claim(w, "gateway", "run", m) /\ UNCHANGED <<pending, lined, lost>>
    BY <1>9, <2>1 DEF GatewayTake
  <2>5. "gateway" \in Kinds /\ Elems(task[w].st) \subseteq {m}
    BY <2>2 DEF Kinds
  <2> QED
    BY <2>3, <2>4, <2>5, ClaimLeavesLine
<1>10. CASE GatewayNext(w)
  <2>1. /\ pending # <<>> /\ pending' = Tail(pending)
        /\ UNCHANGED <<lined, lost, via>>
        /\ task'[w].pc = "take" /\ task'[w].st = <<Head(pending)>>
        /\ task[w].pc = "next"
    BY <1>0, <1>10 DEF TypeOK, GatewayNext, At, Tasks
  <2>2. Head(pending) \in Messages /\ Elems(task'[w].st) = {Head(pending)}
    BY <1>0, <2>1, HeadTailProperties, ElemsOfOne
  <2>3. Head(pending) \in Offered'
    BY <2>1, <2>2 DEF Offered, At, Elems
  <2>4. Offered = {}
    <3>1. Holds(w) /\ task[w].pc # "take"
      BY <2>1 DEF TurnInv, KindFits, Holds, At
    <3> QED
      BY <3>1, NothingOffered
  <2> QED
    BY <1>0, <2>1, <2>3, <2>4, LineMoves
<1>11. CASE PermitDenied(w)
  <2>1. PICK m \in Messages : task[w].st = <<m>> /\ Head(task[w].st) = m
    BY <1>11 DEF PermitDenied, HasMessage
  <2>2. /\ pending' = Append(pending, m) /\ lined' = Append(lined, m)
        /\ UNCHANGED <<via, lost>> /\ task[w].pc = "permit"
        /\ task' = [task EXCEPT ![w] = task'[w]]
    BY <1>11, <2>1 DEF TypeOK, PermitDenied, queue_message, At
  <2>3. via[m] = None
    <3>1. m \in Elems(task[w].st)
      BY <2>1, ElemsOfOne
    <3> QED
      BY <2>2, <3>1 DEF RunInv, Ran
  <2>4. Offered \subseteq Offered'
    BY <2>2, OfferedStep
  <2> QED
    BY <2>2, <2>3, <2>4, LineGrows
<1> QED
  BY <1>2, <1>3, <1>4, <1>5, <1>6, <1>7, <1>8, <1>9, <1>10, <1>11
  DEF WorkerStep

\* A restart reports lost what waited, and what it was about to run.
LEMMA RestartLines ==
    ASSUME TypeOK, RunInv, LineInv, Restart
    PROVE  LineInv'
<1>1. /\ pending' = <<>> /\ UNCHANGED <<lined, via>>
      /\ lost' = lost \cup (posted \ Elems(file))
  BY DEF Restart
<1>2. ASSUME NEW i \in 1..Len(lined)
      PROVE  via'[lined[i]] # None \/ lined[i] \in lost'
  <2>1. lined[i] \in Elems(lined)
    BY DEF Elems
  <2>2. lined[i] \in (Typed \cup Inbound) \cap posted
    BY <2>1 DEF RunInv
  <2>3. lined[i] \notin Records /\ lined[i] # Divider
    BY <2>2, MessagesDisjoint, MessageSets
  <2>4. lined[i] \in Elems(file) => lined[i] \in Ran
    BY DEF RunInv
  <2> QED
    BY <1>1, <2>2, <2>3, <2>4 DEF Ran
<1> QED
  BY <1>1, <1>2, LineEmpties

\* Whichever path empties the line, it empties it from the front.
THEOREM LineIsFirstInFirstOut == Spec => []QueueInOrder
<1>1. Init => RunInv /\ LineInv
  <2> SUFFICES ASSUME Init PROVE LineInv
    BY RunInit
  <2>1. Gone(0)
    BY DEF Init, Gone
  <2>2. 0 \in 0..Len(lined)
    BY DEF Init
  <2> QED
    BY <2>1, <2>2 DEF LineInv
<1>2. TypeOK /\ HasMessage /\ TurnInv /\ OnceInv /\ RunInv /\ LineInv /\ [Next]_vars
      => (RunInv /\ LineInv)'
  <2> SUFFICES ASSUME TypeOK, HasMessage, TurnInv, OnceInv, RunInv, LineInv, [Next]_vars
               PROVE  RunInv' /\ LineInv'
    OBVIOUS
  <2>1. CASE Request
    BY <2>1, RequestRuns, RequestLines
  <2>2. CASE Restart
    BY <2>2, RestartRuns, RestartLines
  <2>3. ASSUME NEW w \in Workers, WorkerStep(w)
        PROVE  RunInv' /\ LineInv'
    BY <2>3, WorkerRuns, WorkerLines
  <2>4. CASE UNCHANGED vars
    <3>1. UNCHANGED <<task, via, ctx, archived, running, file, posted, lined, pending, lost>>
      BY <2>4 DEF vars, session, disk, ghosts
    <3>2. Elems(file') \subseteq Ran
      BY <3>1 DEF RunInv
    <3>3. Offered' = Offered
      BY <3>1 DEF Offered, At
    <3> QED
      BY <3>1, <3>2, <3>3, RunUnworked, LineUntouched
  <2> QED
    BY <2>1, <2>2, <2>3, <2>4 DEF Next
<1>3. TypeOK /\ LineInv => QueueInOrder
  BY LineOrdered
<1> QED
  BY <1>1, <1>2, <1>3, TypeCorrect, TurnInvariant, OnceInvariant, PTL DEF Spec

(***************************************************************************)
(* The file catches up.  While a chat exists, its file is what a client is *)
(* shown, or some worker is on a path that ends in writing it.  This is    *)
(* so where a turn that was claimed can be set up, and nothing comes       *)
(* between the two halves of persist_chat.                                 *)
(***************************************************************************)
WillWrite(w) == task[w].pc \in {"setup", "run", "file", "persist"}

DiskInv ==
    /\ \A w \in Workers : ~At(w, "write")
    /\ inStore => /\ onDisk
                  /\ file = Transcript \/ \E w \in Workers : WillWrite(w)

\* A step keeps the invariant if its worker will write, or changed nothing
\* that is shown.
LEMMA WillWriteStep ==
    ASSUME TypeOK, DiskInv, NEW w \in Workers,
           task' = [task EXCEPT ![w] = task'[w]], task'[w].pc # "write",
           inStore' = inStore, onDisk' = onDisk,
           \/ WillWrite(w)'
           \/ ~WillWrite(w) /\ UNCHANGED <<ctx, archived, running, file>>
    PROVE  DiskInv'
<1>1. \A v \in Workers : v # w => task'[v] = task[v]
  BY DEF TypeOK
<1>2. \A v \in Workers : ~At(v, "write")'
  BY <1>1 DEF DiskInv, At
<1>3. CASE WillWrite(w)'
  BY <1>2, <1>3 DEF DiskInv
<1>4. CASE ~WillWrite(w) /\ UNCHANGED <<ctx, archived, running, file>>
  <2>1. Transcript' = Transcript
    BY <1>4 DEF Transcript
  <2>2. \A v \in Workers : WillWrite(v) => WillWrite(v)'
    BY <1>1, <1>4 DEF WillWrite
  <2> QED
    BY <1>2, <1>4, <2>1, <2>2 DEF DiskInv
<1> QED
  BY <1>3, <1>4

\* The same when no worker is involved.
LEMMA WillWriteKept ==
    ASSUME DiskInv, UNCHANGED <<task, ctx, archived, running, file, onDisk>>,
           inStore' => inStore
    PROVE  DiskInv'
<1>1. Transcript' = Transcript
  BY DEF Transcript
<1>2. \A v \in Workers : WillWrite(v)' = WillWrite(v) /\ At(v, "write")' = At(v, "write")
  BY DEF WillWrite, At
<1> QED
  BY <1>1, <1>2 DEF DiskInv

\* A request that changes what is shown leaves a worker to write it.
LEMMA RequestWrites ==
    ASSUME TypeOK, DiskInv, Request
    PROVE  DiskInv'
<1> USE DEF session, disk, ghosts, counts
<1>1. ASSUME NEW w \in Workers, NEW m \in Messages,
             PostTurn(w, m) \/ Followup(w, m)
      PROVE  DiskInv'
  <2>1. Claim(w, "chat", "setup", m) \/ Claim(w, "followup", "run", m)
    BY <1>1 DEF PostTurn, Followup
  <2>2. /\ task' = [task EXCEPT ![w] = task'[w]]
        /\ task'[w].pc = "setup" \/ task'[w].pc = "run"
    BY <2>1, ClaimHands
  <2>3. inStore' = inStore /\ onDisk' = onDisk
    BY <1>1 DEF PostTurn, Followup
  <2>4. WillWrite(w)' /\ task'[w].pc # "write"
    BY <2>2 DEF WillWrite
  <2> QED
    BY <2>2, <2>3, <2>4, WillWriteStep
<1>2. ASSUME NEW w \in Workers,
             \/ \E m \in Inbound : DeliverClaim(w, m)
             \/ StartCompact(w)
      PROVE  DiskInv'
  <2>1. /\ task' = [task EXCEPT ![w] = task'[w]] /\ task[w].pc = "off"
        /\ task'[w].pc # "write"
        /\ UNCHANGED <<ctx, archived, running, file, inStore, onDisk>>
    BY <1>2 DEF TypeOK, DeliverClaim, StartCompact, Idle, Off
  <2>2. ~WillWrite(w)
    BY <2>1 DEF WillWrite
  <2> QED
    BY <2>1, <2>2, WillWriteStep
<1>3. ASSUME NEW w \in Workers,
             \/ \E m \in Records : RecordFlow(w, m) \/ RecordTick(w, m)
             \/ Reset(w)
      PROVE  DiskInv'
  <2>1. /\ task' = [task EXCEPT ![w] = task'[w]]
        /\ task'[w].pc = "file" \/ task'[w].pc = "persist"
        /\ UNCHANGED <<inStore, onDisk>>
    BY <1>3 DEF TypeOK, RecordFlow, RecordTick, Reset, Off
  <2>2. WillWrite(w)' /\ task'[w].pc # "write"
    BY <2>1 DEF WillWrite
  <2> QED
    BY <2>1, <2>2, WillWriteStep
<1>4. CASE DeleteChat
  BY <1>4 DEF DeleteChat, DiskInv, At
<1>5. ASSUME \/ \E m \in Typed : QueueTurn(m)
             \/ \E m \in Inbound : DeliverUnready(m) \/ DeliverQueued(m)
             \/ PressStop
      PROVE  DiskInv'
  <2>1. UNCHANGED <<task, ctx, archived, running, file, onDisk, inStore>>
    BY <1>5 DEF QueueTurn, DeliverUnready, DeliverQueued, PressStop
  <2> QED
    BY <2>1, WillWriteKept
<1> QED
  BY <1>1, <1>2, <1>3, <1>4, <1>5, MessageSets DEF Request

\* A worker that changes what is shown goes on to write it.
LEMMA WorkerWrites ==
    ASSUME TypeOK, HasMessage, DiskInv, WriteIsAtomic, ~SetupMayFail,
           NEW w \in Workers, WorkerStep(w)
    PROVE  DiskInv'
<1> USE DEF session, disk, ghosts, counts
<1>0. task[w] \in Tasks /\ pending \in Seq(Messages)
  BY DEF TypeOK
<1>1. ASSUME task' = [task EXCEPT ![w] = task'[w]], UNCHANGED <<inStore, onDisk>>,
             \/ task'[w].pc = "run" \/ task'[w].pc = "persist"
             \/ /\ task[w].pc = "permit" \/ task[w].pc = "drain" \/ task[w].pc = "next"
                     \/ task[w].pc = "compact"
                /\ task'[w].pc # "write" /\ UNCHANGED <<ctx, archived, running, file>>
      PROVE  DiskInv'
  <2>1. WillWrite(w)' \/ (~WillWrite(w) /\ UNCHANGED <<ctx, archived, running, file>>)
    BY <1>1 DEF WillWrite
  <2>2. task'[w].pc # "write"
    BY <1>1
  <2> QED
    BY <1>1, <2>1, <2>2, WillWriteStep
<1>2. CASE SetupDone(w) \/ PermitGranted(w) \/ CompactDone(w)
  <2>1. ASSUME NEW place, Move(w, place)
        PROVE  task' = [task EXCEPT ![w] = task'[w]] /\ task'[w].pc = place
    BY <1>0, <2>1 DEF TypeOK, Move, Tasks
  <2>2. CASE SetupDone(w)
    BY <1>1, <2>1, <2>2 DEF SetupDone
  <2>3. CASE PermitGranted(w)
    BY <1>1, <2>1, <2>3 DEF PermitGranted, At
  <2>4. CASE CompactDone(w)
    BY <1>1, <2>1, <2>4 DEF CompactDone
  <2> QED
    BY <1>2, <2>2, <2>3, <2>4
<1>3. CASE SetupFails(w) \/ PersistSnapshot(w) \/ PersistWrite(w)
  BY <1>3 DEF SetupFails, PersistSnapshot, PersistWrite, DiskInv
<1>4. CASE Inject(w) \/ RefreshSnapshot(w)
  <2>1. /\ task' = [task EXCEPT ![w] = task'[w]] /\ task'[w].pc = "run"
        /\ UNCHANGED <<inStore, onDisk>>
    BY <1>0, <1>4 DEF TypeOK, Inject, RefreshSnapshot, At, Tasks
  <2> QED
    BY <1>1, <2>1
<1>5. CASE TurnEnds(w) \/ TurnStops(w) \/ TurnErrors(w) \/ FileRecord(w)
  <2>1. /\ task' = [task EXCEPT ![w] = task'[w]] /\ task'[w].pc = "persist"
        /\ UNCHANGED <<inStore, onDisk>>
    BY <1>5 DEF TypeOK, TurnEnds, TurnStops, TurnErrors, GiveBack, FileRecord, Off
  <2> QED
    BY <1>1, <2>1
<1>6. CASE PersistAtOnce(w)
  <2>1. /\ onDisk' = TRUE /\ file' = Transcript /\ UNCHANGED <<ctx, archived, running>>
        /\ task' = Finish(w)
    BY <1>6 DEF PersistAtOnce
  <2>2. Transcript' = Transcript
    BY <2>1 DEF Transcript
  <2>3. task' = [task EXCEPT ![w] = task'[w]] /\ task'[w].pc # "write"
    BY <2>1, FinishOff
  <2>4. \A v \in Workers : ~At(v, "write")'
    BY <2>3 DEF TypeOK, DiskInv, At
  <2> QED
    BY <2>1, <2>2, <2>4 DEF DiskInv
<1>7. CASE DrainNext(w) \/ GatewayTake(w)
  <2>1. PICK m \in Messages : Claim(w, "chat", "run", m) \/ Claim(w, "gateway", "run", m)
    <3>1. CASE DrainNext(w)
      BY <1>0, <3>1, HeadTailProperties DEF DrainNext
    <3>2. CASE GatewayTake(w)
      BY <3>2 DEF GatewayTake, HasMessage
    <3> QED
      BY <1>7, <3>1, <3>2
  <2>2. task' = [task EXCEPT ![w] = task'[w]] /\ task'[w].pc = "run"
    BY <2>1, ClaimHands
  <2>3. UNCHANGED <<inStore, onDisk>>
    BY <1>7 DEF DrainNext, GatewayTake
  <2> QED
    BY <1>1, <2>2, <2>3
<1>8. CASE DrainDone(w) \/ GatewayDone(w) \/ CompactFails(w) \/ PermitDenied(w)
  <2>1. /\ task' = [task EXCEPT ![w] = task'[w]] /\ task'[w].pc = "off"
        /\ task[w].pc = "permit" \/ task[w].pc = "drain" \/ task[w].pc = "next"
             \/ task[w].pc = "compact"
        /\ UNCHANGED <<ctx, archived, running, file, inStore, onDisk>>
    BY <1>8 DEF TypeOK, DrainDone, GatewayDone, CompactFails, PermitDenied, Off, At
  <2> QED
    BY <1>1, <2>1
<1>9. CASE GatewayNext(w)
  <2>1. /\ task' = [task EXCEPT ![w] = task'[w]] /\ task'[w].pc = "take"
        /\ task[w].pc = "next"
        /\ UNCHANGED <<ctx, archived, running, file, inStore, onDisk>>
    BY <1>0, <1>9 DEF TypeOK, GatewayNext, At, Tasks
  <2> QED
    BY <1>1, <2>1
<1> QED
  BY <1>2, <1>3, <1>4, <1>5, <1>6, <1>7, <1>8, <1>9 DEF WorkerStep

\* What a restart shows is what the file holds.
LEMMA RestartWrites ==
    ASSUME TypeOK, DiskInv, Restart
    PROVE  DiskInv'
<1>1. file \in Seq(Words) /\ LastCut(file) \in 0..Len(file) /\ Len(file) \in Nat
  BY Shapes, LastCutIsLast, LenProperties
<1>2. PICK n \in 0..Len(file) : n = LastCut(file)
  BY <1>1
<1>3. SubSeq(file, 1, n) \o SubSeq(file, n + 1, Len(file)) = file
  <2>1. SubSeq(file, 1, n) \o SubSeq(file, n + 1, Len(file)) = SubSeq(file, 1, Len(file))
    <3>1. /\ 1 \in 1..Len(file) + 1 /\ n \in 1 - 1..Len(file)
          /\ Len(file) \in n..Len(file)
      BY <1>1
    <3> QED
      BY <1>1, <3>1, ConcatAdjacentSubSeq
  <2>2. SubSeq(file, 1, Len(file)) = file
    BY <1>1, SubSeqFull
  <2> QED
    BY <2>1, <2>2
<1>4. Transcript' = file'
  BY <1>2, <1>3 DEF Restart, Transcript, disk
<1>5. inStore' = onDisk' /\ \A w \in Workers : ~At(w, "write")'
  BY DEF Restart, disk, Off, At
<1> QED
  BY <1>4, <1>5 DEF DiskInv

\* Once nothing works on a chat its file is the conversation a client is
\* shown, after a restart too.
THEOREM FileCatchesUp ==
    ASSUME WriteIsAtomic, ~SetupMayFail
    PROVE  Spec => []DiskCatchesUp
<1>1. Init => DiskInv
  BY DEF Init, DiskInv, Transcript, At, Off
<1>2. TypeOK /\ HasMessage /\ DiskInv /\ [Next]_vars => DiskInv'
  <2> SUFFICES ASSUME TypeOK, HasMessage, DiskInv, [Next]_vars
               PROVE  DiskInv'
    OBVIOUS
  <2>1. CASE Request
    BY <2>1, RequestWrites
  <2>2. CASE Restart
    BY <2>2, RestartWrites
  <2>3. ASSUME NEW w \in Workers, WorkerStep(w)
        PROVE  DiskInv'
    BY <2>3, WorkerWrites
  <2>4. CASE UNCHANGED vars
    BY <2>4, WillWriteKept DEF vars, session, disk
  <2> QED
    BY <2>1, <2>2, <2>3, <2>4 DEF Next
<1>3. DiskInv => DiskCatchesUp
  BY DEF DiskInv, DiskCatchesUp, AllIdle, Idle, WillWrite
<1> QED
  BY <1>1, <1>2, <1>3, TypeCorrect, PTL DEF Spec
=============================================================================
