------------------------- MODULE ProjectTick_proofs -------------------------
(***************************************************************************)
(* Proofs about ProjectTick, for any projects, rails and numbers of        *)
(* crashes, panics and acts of people.                                     *)
(*                                                                         *)
(* Neither property is inductive.  What a save puts on disk was read one   *)
(* to four awaits earlier, so the invariant says what every clone still in *)
(* memory has in common with the file: the clones of the pass that wait    *)
(* their turn, and the copy of the tick at work, before the agents start   *)
(* and after it was read again.                                            *)
(***************************************************************************)
EXTENDS ProjectTick, SequenceTheorems, FiniteSetTheorems, TLAPS

Queued == [project : Projects, record : Records]

\* No agent of the tick has started; the record has been read again.
Early == {"preflight", "session", "brief"}
Late  == {"announce", "fold"}

\* A tick is at work exactly when it has a project and a copy of its record,
\* and a project is in one place of a pass at most.
OneTick ==
    /\ cur \in Projects <=> pc \notin {"sleep", "next"}
    /\ cur \in Projects => copy \in Records
    /\ \A i, j \in 1..Len(queue) : queue[i].project = queue[j].project => i = j
    /\ \A i \in 1..Len(queue) : queue[i].project # cur

\* No clone is behind the file, and the tick at work has room under its rails.
ClonesCount ==
    /\ \A i \in 1..Len(queue) :
        /\ queue[i].record.ticks = disk[queue[i].project].ticks
        /\ disk[queue[i].project].streak <= queue[i].record.streak
    /\ cur \in Projects =>
        /\ copy.ticks = disk[cur].ticks /\ copy.ticks < MaxTicks
        /\ copy.streak < MaxStreak /\ disk[cur].streak < MaxStreak

\* Everything but the records, the clones and where the loop is.
SideOK ==
    /\ due \in [Projects -> BOOLEAN] /\ looks \in [Projects -> 0..Patience]
    /\ decided \in [Projects -> Statuses] /\ told \in [Projects -> BOOLEAN]
    /\ wrote \in [Projects -> SUBSET {"stop", "run"}] /\ owed \in [Projects -> Places]
    /\ turns \in [Projects -> Nat] /\ restarts \in [Projects -> 0..MaxActs]
    /\ acts \in 0..MaxActs /\ panics \in 0..MaxPanics /\ crashes \in 0..MaxCrashes
    /\ \A p \in Projects : restarts[p] <= acts

TickInv == TypeOK /\ OneTick /\ ClonesCount /\ SideOK

(***************************************************************************)
(* The pass.                                                               *)
(***************************************************************************)

LEMMA FunctionIsSeq ==
    ASSUME NEW S, NEW n \in Nat, NEW f \in [1..n -> S]
    PROVE  f \in Seq(S) /\ Len(f) = n
<1>1. f \in Seq(S)
  BY SeqDef
<1> QED
  BY <1>1, LenProperties

\* A pass, as the clones it is made of.
ClonesOf(s) == [i \in DOMAIN s |-> [project |-> s[i], record |-> disk[s[i]]]]

\* A pass holds each due project once, with its record as it is.
LEMMA PassClones ==
    ASSUME TypeOK, NEW s \in Passes
    PROVE  /\ ClonesOf(s) \in Seq(Queued)
           /\ \A i \in 1..Len(ClonesOf(s)) :
                /\ ClonesOf(s)[i].project \in Projects /\ is_due(ClonesOf(s)[i].project)
                /\ ClonesOf(s)[i].record = disk[ClonesOf(s)[i].project]
           /\ \A i, j \in 1..Len(ClonesOf(s)) :
                ClonesOf(s)[i].project = ClonesOf(s)[j].project => i = j
<1> DEFINE D == {p \in Projects : is_due(p)}
           n == Cardinality(D)
           q == ClonesOf(s)
<1>1. n \in Nat
  <2>1. D \in SUBSET Projects
    OBVIOUS
  <2> HIDE DEF D
  <2>2. IsFiniteSet(D)
    BY <2>1, ProjectsAreFinite, FS_Subset
  <2> QED
    BY <2>2, FS_CardinalityType
<1>2. s \in [1..n -> D] /\ \A i, j \in DOMAIN s : i # j => s[i] # s[j]
  BY DEF Passes
<1>3. q \in [1..n -> Queued]
  BY <1>2 DEF Queued, TypeOK, ClonesOf
<1>4. q \in Seq(Queued) /\ Len(q) = n
  <2> HIDE DEF q, n
  <2> QED
    BY <1>1, <1>3, FunctionIsSeq
<1>6. \A i \in 1..n : q[i].project = s[i] /\ q[i].record = disk[s[i]] /\ s[i] \in D
  BY <1>2 DEF ClonesOf
<1> QED
  BY <1>2, <1>4, <1>6

\* Taking the first clone of a pass leaves the others as they are.
LEMMA PassGoesOn ==
    ASSUME TypeOK, queue # <<>>, queue' = Tail(queue)
    PROVE  /\ queue' \in Seq(Queued) /\ Len(queue) \in Nat \ {0} /\ 1 \in 1..Len(queue)
           /\ Head(queue) = queue[1] /\ queue[1] \in Queued
           /\ Len(queue') \in Nat
           /\ \A i \in 1..Len(queue') : queue'[i] = queue[i + 1] /\ i + 1 \in 1..Len(queue)
<1>1. queue \in Seq(Queued) /\ Len(queue) \in Nat \ {0} /\ queue \in [1..Len(queue) -> Queued]
  BY EmptySeq, LenProperties DEF TypeOK, Queued
<1>2. /\ queue' \in Seq(Queued) /\ Len(queue') = Len(queue) - 1
      /\ \A i \in 1..Len(queue') : queue'[i] = queue[i + 1]
  BY <1>1, HeadTailProperties
<1>3. Head(queue) = queue[1]
  BY <1>1, SMTT(20)
<1> QED
  BY <1>1, <1>2, <1>3

LEMMA PassTypes ==
    ASSUME TypeOK
    PROVE  Len(queue) \in Nat /\ \A i \in 1..Len(queue) :
               queue[i].project \in Projects /\ queue[i].record \in Records
<1>1. queue \in Seq(Queued)
  BY DEF TypeOK, Queued
<1>2. queue \in [1..Len(queue) -> Queued] /\ Len(queue) \in Nat
  BY <1>1, LenProperties
<1> QED
  BY <1>2 DEF Queued

(***************************************************************************)
(* Types, and what the clones share with the file.                         *)
(***************************************************************************)

LEMMA InitTick == Init => TickInv
BY BoundsAreNumbers, NoneIsNoProject, EmptySeq
   DEF Init, TickInv, TypeOK, OneTick, ClonesCount, SideOK, Statuses, Records, Places

\* What people, tools and the clock do: the tick is where it was, and no
\* record is further along.
LEMMA BesideTheTick ==
    ASSUME TickInv, SideOK', disk' \in [Projects -> Records], UNCHANGED loop,
           \A p \in Projects : disk'[p].ticks = disk[p].ticks /\ disk'[p].streak <= disk[p].streak
    PROVE  TickInv'
<1>1. UNCHANGED <<pc, cur, copy, queue>>
  BY DEF loop
<1>2. TypeOK' /\ OneTick'
  BY <1>1 DEF TickInv, TypeOK, OneTick, SideOK
<1>3. ClonesCount'
  <2>1. \A p \in Projects :
          /\ disk'[p].streak \in Nat /\ disk[p].streak \in Nat
          /\ disk'[p].ticks = disk[p].ticks /\ disk'[p].streak <= disk[p].streak
    BY BoundsAreNumbers DEF TickInv, TypeOK, Records
  <2>2. \A i \in 1..Len(queue) :
          queue[i].project \in Projects /\ queue[i].record.streak \in Nat
    BY PassTypes, BoundsAreNumbers DEF TickInv, Records
  <2> QED
    BY <1>1, <2>1, <2>2, BoundsAreNumbers DEF TickInv, ClonesCount
<1> QED
  BY <1>2, <1>3 DEF TickInv

\* A tick that goes on: its copy keeps the number of the tick.
LEMMA TickGoesOn ==
    ASSUME TickInv, SideOK', cur \in Projects, UNCHANGED <<cur, queue>>,
           pc' \in Places \ {"sleep", "next"}, copy' \in Records,
           disk' \in [Projects -> Records],
           \A p \in Projects \ {cur} : disk'[p] = disk[p],
           copy'.ticks = copy.ticks, disk'[cur].ticks = copy.ticks,
           copy'.streak < MaxStreak, disk'[cur].streak < MaxStreak
    PROVE  TickInv'
<1>1. TypeOK'
  BY DEF TickInv, TypeOK, SideOK
<1>2. OneTick'
  BY DEF TickInv, OneTick
<1>3. ClonesCount'
  BY PassTypes DEF TickInv, OneTick, ClonesCount
<1> QED
  BY <1>1, <1>2, <1>3 DEF TickInv

\* A tick that is over, whatever it left in its own record.
LEMMA TickIsOver ==
    ASSUME TickInv, SideOK', cur \in Projects, UNCHANGED queue, NextProject,
           disk' \in [Projects -> Records],
           \A p \in Projects \ {cur} : disk'[p] = disk[p]
    PROVE  TickInv'
<1>1. TypeOK'
  BY DEF TickInv, TypeOK, SideOK, NextProject, Places
<1>2. OneTick'
  BY PassTypes, NoneIsNoProject DEF TickInv, OneTick, NextProject
<1>3. ClonesCount'
  BY PassTypes, NoneIsNoProject DEF TickInv, OneTick, ClonesCount, NextProject
<1> QED
  BY <1>1, <1>2, <1>3 DEF TickInv

LEMMA PollKeeps == TickInv /\ Poll => TickInv'
<1> SUFFICES ASSUME TickInv, Poll PROVE TickInv'
  OBVIOUS
<1>1. PICK s \in Passes :
          queue' = ClonesOf(s)
  BY DEF Poll, ClonesOf
<1>2. /\ queue' \in Seq(Queued)
      /\ \A i \in 1..Len(queue') : is_due(queue'[i].project)
      /\ \A i \in 1..Len(queue') : queue'[i].project \in Projects
      /\ \A i \in 1..Len(queue') : queue'[i].record = disk[queue'[i].project]
      /\ \A i, j \in 1..Len(queue') : queue'[i].project = queue'[j].project => i = j
  BY <1>1, PassClones DEF TickInv
<1>3. /\ pc = "sleep" /\ pc' = "next" /\ cur \notin Projects
      /\ UNCHANGED <<disk, due, looks, cur, copy, history, counts>>
  BY DEF Poll, TickInv, OneTick
<1>4. SideOK'
  BY <1>3 DEF TickInv, SideOK, history, counts
<1>5. TypeOK'
  BY <1>2, <1>3, <1>4 DEF TickInv, TypeOK, SideOK, Places, Queued
<1>6. OneTick'
  BY <1>2, <1>3 DEF TickInv, OneTick
<1>7. ClonesCount'
  <2>1. \A p \in Projects : disk[p].streak \in Nat
    BY BoundsAreNumbers DEF TickInv, TypeOK, Records
  <2> QED
    BY <1>2, <1>3, <2>1 DEF ClonesCount
<1> QED
  BY <1>4, <1>5, <1>6, <1>7 DEF TickInv

LEMMA PassEndsKeeps == TickInv /\ PassEnds => TickInv'
BY PassTypes DEF TickInv, PassEnds, TypeOK, OneTick, ClonesCount, SideOK, Places, history, counts

LEMMA CrashKeeps == TickInv /\ Crash => TickInv'
<1> SUFFICES ASSUME TickInv, Crash PROVE TickInv'
  OBVIOUS
<1>1. /\ pc' = "sleep" /\ cur' = None /\ copy' = None /\ queue' = <<>> /\ Len(queue') = 0
      /\ UNCHANGED <<disk, due, looks, history, acts, panics>>
      /\ crashes < MaxCrashes /\ crashes' = crashes + 1
  BY DEF Crash
<1>2. SideOK'
  BY <1>1, BoundsAreNumbers DEF TickInv, SideOK, history
<1>3. TypeOK'
  BY <1>1, <1>2 DEF TickInv, TypeOK, SideOK, Places
<1>4. OneTick' /\ ClonesCount'
  BY <1>1, NoneIsNoProject DEF OneTick, ClonesCount
<1> QED
  BY <1>2, <1>3, <1>4 DEF TickInv

\* The first clone of the pass.
LEMMA FirstClone ==
    ASSUME TickInv, queue # <<>>, queue' = Tail(queue)
    PROVE  /\ Head(queue).project \in Projects /\ Head(queue).record \in Records
           /\ Head(queue).record.ticks = disk[Head(queue).project].ticks
           /\ disk[Head(queue).project].streak <= Head(queue).record.streak
           /\ queue' \in Seq(Queued)
           /\ \A i \in 1..Len(queue') :
                /\ queue'[i].project \in Projects /\ queue'[i].record \in Records
                /\ queue'[i].project # Head(queue).project /\ queue'[i].project # cur
                /\ queue'[i].record.ticks = disk[queue'[i].project].ticks
                /\ disk[queue'[i].project].streak <= queue'[i].record.streak
           /\ \A i, j \in 1..Len(queue') : queue'[i].project = queue'[j].project => i = j
<1>1. /\ queue' \in Seq(Queued) /\ Len(queue) \in Nat \ {0} /\ 1 \in 1..Len(queue)
      /\ Head(queue) = queue[1] /\ Len(queue') \in Nat
      /\ \A i \in 1..Len(queue') : queue'[i] = queue[i + 1] /\ i + 1 \in 1..Len(queue)
  BY PassGoesOn DEF TickInv
<1>2. \A i \in 1..Len(queue) : queue[i].project \in Projects /\ queue[i].record \in Records
  BY PassTypes DEF TickInv
<1>3. \A i \in 1..Len(queue') : i + 1 # 1
  OBVIOUS
<1>4. ASSUME NEW i \in 1..Len(queue')
      PROVE  /\ queue'[i].project \in Projects /\ queue'[i].record \in Records
             /\ queue'[i].project # Head(queue).project /\ queue'[i].project # cur
             /\ queue'[i].record.ticks = disk[queue'[i].project].ticks
             /\ disk[queue'[i].project].streak <= queue'[i].record.streak
  BY <1>1, <1>2, <1>3 DEF TickInv, OneTick, ClonesCount
<1>5. ASSUME NEW i \in 1..Len(queue'), NEW j \in 1..Len(queue'),
             queue'[i].project = queue'[j].project
      PROVE  i = j
  <2>1. i + 1 = j + 1
    BY <1>1, <1>5 DEF TickInv, OneTick
  <2> QED
    BY <2>1
<1> QED
  BY <1>1, <1>2, <1>4, <1>5 DEF TickInv, ClonesCount

LEMMA TickRailKeeps == TickInv /\ TickRail => TickInv'
<1> SUFFICES ASSUME TickInv, TickRail PROVE TickInv'
  OBVIOUS
<1> DEFINE p == Head(queue).project
           r == [Head(queue).record EXCEPT !.status = "blocked"]
<1>1. /\ pc = "next" /\ queue # <<>> /\ queue' = Tail(queue) /\ disk' = [disk EXCEPT ![p] = r]
      /\ decided' = [decided EXCEPT ![p] = "blocked"] /\ told' = [told EXCEPT ![p] = FALSE]
      /\ UNCHANGED <<due, looks, pc, cur, copy, wrote, owed, turns, restarts, counts>>
  BY DEF TickRail, Saved, Decide
<1>2. p \in Projects /\ Head(queue).record \in Records
  BY <1>1, FirstClone
<1>3. r \in Records
  BY <1>2 DEF Records, Statuses
<1> HIDE DEF p, r
<1>4. disk' \in [Projects -> Records] /\ \A q \in Projects \ {p} : disk'[q] = disk[q]
  BY <1>1, <1>2, <1>3 DEF TickInv, TypeOK
<1>5. SideOK'
  BY <1>1, <1>2 DEF TickInv, SideOK, Statuses, counts
<1>6. cur \notin Projects
  BY <1>1 DEF TickInv, OneTick
<1>7. /\ queue' \in Seq(Queued)
      /\ \A i \in 1..Len(queue') :
           /\ queue'[i].project \in Projects \ {p} /\ queue'[i].project # cur
           /\ queue'[i].record.ticks = disk[queue'[i].project].ticks
           /\ disk[queue'[i].project].streak <= queue'[i].record.streak
      /\ \A i, j \in 1..Len(queue') : queue'[i].project = queue'[j].project => i = j
  BY <1>1, FirstClone DEF p
<1>8. TypeOK'
  BY <1>1, <1>4, <1>5, <1>7 DEF TickInv, TypeOK, SideOK, Queued
<1>9. OneTick' /\ ClonesCount'
  BY <1>1, <1>4, <1>6, <1>7 DEF TickInv, OneTick, ClonesCount
<1> QED
  BY <1>5, <1>8, <1>9 DEF TickInv

LEMMA TickStartKeeps == TickInv /\ TickStart => TickInv'
<1> SUFFICES ASSUME TickInv, TickStart PROVE TickInv'
  OBVIOUS
<1> DEFINE p == Head(queue).project
           r == Head(queue).record
<1>1. /\ pc = "next" /\ queue # <<>> /\ queue' = Tail(queue) /\ pc' = "preflight"
      /\ cur' = p /\ copy' = [r EXCEPT !.requested = FALSE]
      /\ disk' = IF r.requested THEN [disk EXCEPT ![p] = copy'] ELSE disk
      /\ owed' = [owed EXCEPT ![p] = "sleep"]
      /\ UNCHANGED <<due, looks, decided, told, wrote, turns, restarts, counts>>
      /\ ~(r.ticks >= MaxTicks) /\ ~(r.streak >= MaxStreak)
  BY DEF TickStart, rail_tripped
<1>2. /\ p \in Projects /\ r \in Records
      /\ r.ticks = disk[p].ticks /\ disk[p].streak <= r.streak
  BY <1>1, FirstClone
<1> HIDE DEF p, r
<1>3. /\ copy' \in Records /\ copy'.ticks = r.ticks /\ copy'.streak = r.streak
      /\ r.ticks \in Nat /\ r.streak \in Nat /\ r.ticks < MaxTicks /\ r.streak < MaxStreak
  <2>1. r.ticks \in 0..MaxTicks /\ r.streak \in 0..MaxStreak
    BY <1>2 DEF Records
  <2>2. /\ r.ticks \in Nat /\ r.streak \in Nat /\ r.ticks < MaxTicks /\ r.streak < MaxStreak
    BY <1>1, <2>1, BoundsAreNumbers
  <2>3. copy' \in Records /\ copy'.ticks = r.ticks /\ copy'.streak = r.streak
    BY <1>1, <1>2 DEF Records
  <2> QED
    BY <2>2, <2>3
<1>4. /\ disk' \in [Projects -> Records] /\ \A q \in Projects \ {p} : disk'[q] = disk[q]
      /\ disk'[p].ticks = r.ticks /\ disk'[p].streak < MaxStreak
  <2>1. disk \in [Projects -> Records] /\ disk[p].streak \in Nat
    BY <1>2, BoundsAreNumbers DEF TickInv, TypeOK, Records
  <2> QED
    BY <1>1, <1>2, <1>3, <2>1, BoundsAreNumbers
<1>5. SideOK'
  BY <1>1, <1>2 DEF TickInv, SideOK, Places, counts
<1>6. /\ queue' \in Seq(Queued)
      /\ \A i \in 1..Len(queue') :
           /\ queue'[i].project \in Projects \ {p}
           /\ queue'[i].record.ticks = disk[queue'[i].project].ticks
           /\ disk[queue'[i].project].streak <= queue'[i].record.streak
      /\ \A i, j \in 1..Len(queue') : queue'[i].project = queue'[j].project => i = j
  BY <1>1, FirstClone DEF p
<1>7. TypeOK'
  BY <1>1, <1>2, <1>3, <1>4, <1>5, <1>6 DEF TickInv, TypeOK, SideOK, Queued, Places
<1>8. OneTick' /\ ClonesCount'
  BY <1>1, <1>2, <1>3, <1>4, <1>6 DEF TickInv, OneTick, ClonesCount
<1> QED
  BY <1>5, <1>7, <1>8 DEF TickInv

LEMMA PreflightWaitKeeps == TickInv /\ PreflightWait => TickInv'
<1> SUFFICES ASSUME TickInv, PreflightWait PROVE TickInv'
  OBVIOUS
<1>1. /\ cur \in Projects /\ copy \in Records
      /\ disk' = [disk EXCEPT ![cur] = copy] /\ looks[cur] < Patience
      /\ looks' = [looks EXCEPT ![cur] = @ + 1] /\ due' = [due EXCEPT ![cur] = FALSE]
      /\ NextProject /\ UNCHANGED <<queue, history, counts>>
  BY DEF PreflightWait, Saved, TickInv, OneTick
<1>2. SideOK'
  <2>1. looks' \in [Projects -> 0..Patience]
    BY <1>1, BoundsAreNumbers DEF TickInv, SideOK
  <2> QED
    BY <1>1, <2>1 DEF TickInv, SideOK, history, counts
<1>3. disk' \in [Projects -> Records] /\ \A p \in Projects \ {cur} : disk'[p] = disk[p]
  BY <1>1 DEF TickInv, TypeOK
<1> QED
  BY <1>1, <1>2, <1>3, TickIsOver

LEMMA PreflightSpendKeeps == TickInv /\ PreflightSpend => TickInv'
<1> SUFFICES ASSUME TickInv, PreflightSpend PROVE TickInv'
  OBVIOUS
<1>1. PICK still \in BOOLEAN : copy' = [copy EXCEPT !.run = copy.run /\ still]
  BY DEF PreflightSpend
<1>2. /\ cur \in Projects /\ copy \in Records /\ disk' = [disk EXCEPT ![cur] = copy']
      /\ wrote' = IF copy'.run THEN wrote ELSE [wrote EXCEPT ![cur] = @ \ {"run"}]
      /\ pc' = "session"
      /\ UNCHANGED <<due, looks, cur, queue, decided, told, owed, turns, restarts, counts>>
  BY DEF PreflightSpend, Saved, TickInv, OneTick
<1>3. copy' \in Records /\ copy'.ticks = copy.ticks /\ copy'.streak = copy.streak
  <2>1. (copy.run /\ still) \in BOOLEAN
    OBVIOUS
  <2> QED
    BY <1>1, <1>2, <2>1 DEF Records
<1>4. SideOK'
  BY <1>2 DEF TickInv, SideOK, counts
<1>5. /\ disk' \in [Projects -> Records] /\ \A p \in Projects \ {cur} : disk'[p] = disk[p]
      /\ disk'[cur] = copy'
  BY <1>2, <1>3 DEF TickInv, TypeOK
<1>6. copy.streak < MaxStreak
  BY <1>2 DEF TickInv, ClonesCount
<1>7. pc' \in Places \ {"sleep", "next"}
  BY <1>2 DEF Places
<1> QED
  BY <1>2, <1>3, <1>4, <1>5, <1>6, <1>7, TickGoesOn

\* What the tick learned is on disk when it goes on.
LEMMA LearnedKeeps ==
    ASSUME TickInv, cur \in Projects, NEW r \in Records, Learned(r),
           r.ticks = copy.ticks, r.streak = copy.streak
    PROVE  /\ copy' \in Records /\ copy'.ticks = copy.ticks /\ copy'.streak < MaxStreak
           /\ disk' \in [Projects -> Records] /\ \A p \in Projects \ {cur} : disk'[p] = disk[p]
           /\ disk'[cur].ticks = copy.ticks /\ disk'[cur].streak < MaxStreak
<1>1. copy' = r /\ disk' = IF r = copy THEN disk ELSE [disk EXCEPT ![cur] = r]
  BY DEF Learned
<1>2. /\ copy.ticks = disk[cur].ticks /\ copy.streak < MaxStreak /\ disk[cur].streak < MaxStreak
      /\ disk \in [Projects -> Records]
  BY DEF TickInv, ClonesCount, TypeOK
<1> QED
  BY <1>1, <1>2

LEMMA OpenSessionKeeps == TickInv /\ OpenSession => TickInv'
<1> SUFFICES ASSUME TickInv, OpenSession PROVE TickInv'
  OBVIOUS
<1> DEFINE r == [copy EXCEPT !.session = TRUE]
<1>1. /\ cur \in Projects /\ copy \in Records /\ Learned(r) /\ pc' = "brief"
      /\ turns' = [turns EXCEPT ![cur] = @ + 1]
      /\ UNCHANGED <<due, looks, cur, queue, decided, told, wrote, owed, restarts, counts>>
  BY DEF OpenSession, TickInv, OneTick
<1>2. r \in Records /\ r.ticks = copy.ticks /\ r.streak = copy.streak
  BY <1>1 DEF Records
<1>3. SideOK'
  BY <1>1 DEF TickInv, SideOK, counts
<1>4. pc' \in Places \ {"sleep", "next"}
  BY <1>1 DEF Places
<1> HIDE DEF r
<1> QED
  BY <1>1, <1>2, <1>3, <1>4, LearnedKeeps, TickGoesOn

LEMMA ComposeBriefKeeps == TickInv /\ ComposeBrief => TickInv'
<1> SUFFICES ASSUME TickInv, ComposeBrief PROVE TickInv'
  OBVIOUS
<1>1. PICK composed \in BOOLEAN : Learned([copy EXCEPT !.brief = @ \/ composed])
  BY DEF ComposeBrief
<1> DEFINE r == [copy EXCEPT !.brief = @ \/ composed]
<1>2. /\ cur \in Projects /\ copy \in Records /\ pc' = "conduct"
      /\ UNCHANGED <<due, looks, cur, queue, history, counts>>
  BY DEF ComposeBrief, TickInv, OneTick
<1>3. r \in Records /\ r.ticks = copy.ticks /\ r.streak = copy.streak
  <2>1. (copy.brief \/ composed) \in BOOLEAN
    OBVIOUS
  <2> QED
    BY <1>2, <2>1 DEF Records
<1>4. SideOK'
  BY <1>2 DEF TickInv, SideOK, history, counts
<1>5. pc' \in Places \ {"sleep", "next"}
  BY <1>2 DEF Places
<1>6. Learned(r)
  BY <1>1
<1> HIDE DEF r
<1> QED
  BY <1>2, <1>3, <1>4, <1>5, <1>6, LearnedKeeps, TickGoesOn

\* A record read again is no further along than the copy it replaces.
LEMMA RereadKeeps ==
    ASSUME TickInv, cur \in Projects
    PROVE  /\ Reread(cur) \in Records /\ Reread(cur).ticks = copy.ticks
           /\ Reread(cur).streak < MaxStreak
           /\ disk \in [Projects -> Records] /\ disk[cur].ticks = copy.ticks
           /\ disk[cur].streak < MaxStreak
BY DEF TickInv, TypeOK, OneTick, ClonesCount, Reread

LEMMA EndConductKeeps == TickInv /\ EndConduct => TickInv'
<1> SUFFICES ASSUME TickInv, EndConduct PROVE TickInv'
  OBVIOUS
<1>1. /\ cur \in Projects /\ copy' = Reread(cur)
      /\ pc' \in {"worker", "announce"}
      /\ told' = told \/ told' = [told EXCEPT ![cur] = copy'.status \in {"blocked", "done"}]
      /\ UNCHANGED <<disk, due, looks, cur, queue, decided, wrote, owed, turns, restarts, counts>>
  BY DEF EndConduct, TickInv, OneTick
<1>2. told' \in [Projects -> BOOLEAN]
  <2>1. (copy'.status \in {"blocked", "done"}) \in BOOLEAN
    OBVIOUS
  <2> QED
    BY <1>1, <2>1 DEF TickInv, SideOK
<1>3. SideOK'
  BY <1>1, <1>2 DEF TickInv, SideOK, counts
<1>4. pc' \in Places \ {"sleep", "next"}
  BY <1>1 DEF Places
<1> QED
  BY <1>1, <1>3, <1>4, RereadKeeps, TickGoesOn

LEMMA EndWorkerKeeps == TickInv /\ EndWorker => TickInv'
<1> SUFFICES ASSUME TickInv, EndWorker PROVE TickInv'
  OBVIOUS
<1>1. /\ cur \in Projects /\ copy' = Reread(cur) /\ pc' = "fold"
      /\ UNCHANGED <<disk, due, looks, cur, queue, history, counts>>
  BY DEF EndWorker, TickInv, OneTick
<1>2. SideOK' /\ pc' \in Places \ {"sleep", "next"}
  BY <1>1 DEF TickInv, SideOK, history, counts, Places
<1> QED
  BY <1>1, <1>2, RereadKeeps, TickGoesOn

\* The tick at work may be counted.
LEMMA RoomForOne ==
    ASSUME TickInv, cur \in Projects
    PROVE  /\ copy \in Records /\ copy.ticks \in Nat /\ copy.streak \in Nat
           /\ copy.ticks + 1 \in 0..MaxTicks /\ copy.streak + 1 \in 0..MaxStreak
BY BoundsAreNumbers DEF TickInv, OneTick, ClonesCount, Records

LEMMA EndedSaveKeeps == TickInv /\ EndedSave => TickInv'
<1> SUFFICES ASSUME TickInv, EndedSave PROVE TickInv'
  OBVIOUS
<1> DEFINE r == [copy EXCEPT !.ticks = @ + 1]
<1>1. /\ cur \in Projects /\ disk' = [disk EXCEPT ![cur] = r]
      /\ due' = [due EXCEPT ![cur] = FALSE]
      /\ NextProject /\ UNCHANGED <<looks, queue, history, counts>>
  BY DEF EndedSave, Saved, TickInv, OneTick
<1>2. r \in Records
  BY <1>1, RoomForOne DEF Records
<1> HIDE DEF r
<1>3. disk' \in [Projects -> Records] /\ \A p \in Projects \ {cur} : disk'[p] = disk[p]
  BY <1>1, <1>2 DEF TickInv, TypeOK
<1>4. SideOK'
  BY <1>1 DEF TickInv, SideOK, history, counts
<1> QED
  BY <1>1, <1>3, <1>4, TickIsOver

\* What a tick leaves in its record.
LEMMA FoldedRecord ==
    ASSUME TickInv, cur \in Projects, NEW progressed \in BOOLEAN
    PROVE  /\ Folded(copy, progressed) \in Records
           /\ Folded(copy, progressed).ticks = copy.ticks + 1
           /\ Folded(copy, progressed).run = copy.run
           /\ Folded(copy, progressed).requested = copy.requested
           /\ Folded(copy, progressed).status \in {copy.status, "blocked"}
<1> DEFINE st == IF progressed THEN 0 ELSE copy.streak + 1
           counted == [copy EXCEPT !.ticks = @ + 1, !.streak = st]
<1>1. copy \in Records /\ copy.ticks + 1 \in 0..MaxTicks /\ st \in 0..MaxStreak
  BY RoomForOne, BoundsAreNumbers
<1>2. Folded(copy, progressed) = counted
      \/ Folded(copy, progressed) = [counted EXCEPT !.status = "blocked"]
  BY DEF Folded
<1> HIDE DEF st
<1>3. /\ counted \in Records /\ counted.ticks = copy.ticks + 1 /\ counted.run = copy.run
      /\ counted.requested = copy.requested /\ counted.status = copy.status
  BY <1>1 DEF Records
<1> HIDE DEF counted
<1> QED
  BY <1>2, <1>3 DEF Records, Statuses

LEMMA FoldKeeps == TickInv /\ Fold => TickInv'
<1> SUFFICES ASSUME TickInv, Fold PROVE TickInv'
  OBVIOUS
<1>1. PICK progressed \in BOOLEAN :
        LET r == Folded(copy, progressed)
        IN /\ Saved(cur, r)
           /\ told' = [told EXCEPT ![cur] = r.status \in {"blocked", "done"}]
           /\ IF r.status = copy.status
              THEN UNCHANGED decided
              ELSE Decide(cur, r.status)
  BY DEF Fold
<1> DEFINE r == Folded(copy, progressed)
<1>2. /\ cur \in Projects /\ due' = [due EXCEPT ![cur] = FALSE]
      /\ NextProject /\ UNCHANGED <<looks, queue, wrote, owed, turns, restarts, counts>>
  BY DEF Fold, TickInv, OneTick
<1>3. r \in Records
  BY <1>2, FoldedRecord
<1> HIDE DEF r
<1>4. disk' \in [Projects -> Records] /\ \A p \in Projects \ {cur} : disk'[p] = disk[p]
  BY <1>1, <1>2, <1>3 DEF Saved, TickInv, TypeOK, r
<1>5. told' \in [Projects -> BOOLEAN]
  <2>1. (r.status \in {"blocked", "done"}) \in BOOLEAN
    OBVIOUS
  <2>2. told' = [told EXCEPT ![cur] = r.status \in {"blocked", "done"}]
    BY <1>1 DEF r
  <2> QED
    BY <2>1, <2>2 DEF TickInv, SideOK
<1>6. decided' \in [Projects -> Statuses]
  <2>1. r.status \in Statuses /\ (decided' = decided \/ decided' = [decided EXCEPT ![cur] = r.status])
    BY <1>1, <1>3 DEF r, Decide, Records
  <2> QED
    BY <2>1 DEF TickInv, SideOK
<1>7. SideOK'
  BY <1>2, <1>5, <1>6 DEF TickInv, SideOK, counts
<1> QED
  BY <1>2, <1>4, <1>7, TickIsOver

\* A record whose status changes is a record.
LEMMA Restatused ==
    ASSUME NEW r \in Records, NEW st \in Statuses
    PROVE  /\ [r EXCEPT !.status = st] \in Records
           /\ [r EXCEPT !.status = st].ticks = r.ticks
           /\ [r EXCEPT !.status = st].streak = r.streak
           /\ [r EXCEPT !.status = st].run = r.run
           /\ [r EXCEPT !.status = st].requested = r.requested
           /\ [r EXCEPT !.status = st].status = st
BY DEF Records

LEMMA PanicKeeps == TickInv /\ Panic => TickInv'
<1> SUFFICES ASSUME TickInv, Panic PROVE TickInv'
  OBVIOUS
<1> DEFINE r == [disk[cur] EXCEPT !.status = "blocked"]
<1>1. /\ cur \in Projects /\ panics < MaxPanics /\ panics' = panics + 1 /\ NextProject
      /\ UNCHANGED <<due, looks, queue, owed, turns, restarts, acts, crashes, wrote>>
      /\ \/ UNCHANGED <<disk, decided, told>>
         \/ /\ disk' = [disk EXCEPT ![cur] = r]
            /\ decided' = [decided EXCEPT ![cur] = "blocked"]
            /\ told' = [told EXCEPT ![cur] = FALSE]
  BY DEF Panic, Saved, Decide, TickInv, TypeOK
<1>2. r \in Records
  BY <1>1, Restatused DEF Statuses, TickInv, TypeOK
<1> HIDE DEF r
<1>3. disk' \in [Projects -> Records] /\ \A p \in Projects \ {cur} : disk'[p] = disk[p]
  BY <1>1, <1>2 DEF TickInv, TypeOK
<1>4. panics' \in 0..MaxPanics
  BY <1>1, BoundsAreNumbers DEF TickInv, SideOK
<1>5. SideOK'
  BY <1>1, <1>4 DEF TickInv, SideOK, Statuses
<1> QED
  BY <1>1, <1>3, <1>5, TickIsOver

\* One record rewritten beside the tick, no further along than it was.
LEMMA OneRecordBeside ==
    ASSUME TickInv, SideOK', UNCHANGED loop, NEW p \in Projects, NEW r \in Records,
           disk' = [disk EXCEPT ![p] = r], r.ticks = disk[p].ticks, r.streak <= disk[p].streak
    PROVE  TickInv'
<1>1. disk \in [Projects -> Records]
  BY DEF TickInv, TypeOK
<1>2. \A q \in Projects : disk[q].streak \in Nat
  BY <1>1, BoundsAreNumbers DEF Records
<1>3. /\ disk' \in [Projects -> Records]
      /\ \A q \in Projects : disk'[q].ticks = disk[q].ticks /\ disk'[q].streak <= disk[q].streak
  BY <1>1, <1>2
<1> QED
  BY <1>3, BesideTheTick

\* The status of one record rewritten beside the tick.
LEMMA StatusBeside ==
    ASSUME TickInv, SideOK', UNCHANGED loop, NEW p \in Projects, NEW st \in Statuses,
           disk' = [disk EXCEPT ![p] = [disk[p] EXCEPT !.status = st]]
    PROVE  TickInv'
<1> DEFINE r == [disk[p] EXCEPT !.status = st]
<1>1. disk[p] \in Records /\ disk[p].streak \in Nat
  BY BoundsAreNumbers DEF TickInv, TypeOK, Records
<1>2. r \in Records /\ r.ticks = disk[p].ticks /\ r.streak = disk[p].streak
  BY <1>1, Restatused
<1>3. disk' = [disk EXCEPT ![p] = r] /\ r.streak <= disk[p].streak
  BY <1>1, <1>2
<1> HIDE DEF r
<1> QED
  BY <1>2, <1>3, OneRecordBeside

LEMMA ElapseKeeps ==
    ASSUME TickInv, NEW p \in Projects, Elapse(p)
    PROVE  TickInv'
<1>1. SideOK'
  BY DEF TickInv, SideOK, Elapse, history, counts
<1>2. \A q \in Projects : disk[q].streak \in Nat
  BY BoundsAreNumbers DEF TickInv, TypeOK, Records
<1>3. UNCHANGED <<disk, loop>>
  BY DEF Elapse
<1>4. /\ disk' \in [Projects -> Records]
      /\ \A q \in Projects : disk'[q].ticks = disk[q].ticks /\ disk'[q].streak <= disk[q].streak
  BY <1>2, <1>3 DEF TickInv, TypeOK
<1> QED
  BY <1>1, <1>3, <1>4, BesideTheTick

LEMMA ToolsKeep == TickInv /\ Tools => TickInv'
<1> SUFFICES ASSUME TickInv, Tools PROVE TickInv'
  OBVIOUS
<1>1. cur \in Projects
  BY DEF Tools, ProjectBlock, ProjectComplete, ProjectAwaitRun, Tool, TickInv, OneTick
<1>2. CASE ProjectBlock
  <2>1. SideOK'
    BY <1>1, <1>2 DEF ProjectBlock, Decide, Writes, TickInv, SideOK, Statuses, counts
  <2> QED
    BY <1>1, <1>2, <2>1, StatusBeside DEF ProjectBlock, Saved, Statuses
<1>3. CASE ProjectComplete
  <2>1. SideOK'
    BY <1>1, <1>3 DEF ProjectComplete, Decide, Writes, TickInv, SideOK, Statuses, counts
  <2> QED
    BY <1>1, <1>3, <2>1, StatusBeside DEF ProjectComplete, Saved, Statuses
<1>4. CASE ProjectAwaitRun
  <2> DEFINE r == [disk[cur] EXCEPT !.run = TRUE]
  <2>1. SideOK'
    BY <1>1, <1>4, BoundsAreNumbers DEF ProjectAwaitRun, Writes, TickInv, SideOK, counts
  <2>2. disk[cur] \in Records /\ disk[cur].streak \in Nat
    BY <1>1, BoundsAreNumbers DEF TickInv, TypeOK, Records
  <2>3. r \in Records /\ r.ticks = disk[cur].ticks /\ r.streak <= disk[cur].streak
    <3>1. r \in Records /\ r.ticks = disk[cur].ticks /\ r.streak = disk[cur].streak
      BY <2>2 DEF Records
    <3> QED
      BY <2>2, <3>1
  <2>4. disk' = [disk EXCEPT ![cur] = r] /\ UNCHANGED loop
    BY <1>4 DEF ProjectAwaitRun, Saved
  <2> HIDE DEF r
  <2> QED
    BY <1>1, <2>1, <2>3, <2>4, OneRecordBeside
<1> QED
  BY <1>2, <1>3, <1>4 DEF Tools

LEMMA PeopleKeep == TickInv /\ People => TickInv'
<1> SUFFICES ASSUME TickInv, NEW p \in Projects,
                    Pause(p) \/ Resume(p) \/ Answer(p) \/ ForceTick(p) \/ Delete(p)
             PROVE  TickInv'
  BY DEF People
<1>1. /\ acts < MaxActs /\ acts' = acts + 1 /\ UNCHANGED <<loop, turns, panics, crashes>>
      /\ acts' \in 0..MaxActs
      /\ restarts' = restarts \/ restarts' = [restarts EXCEPT ![p] = @ + 1]
  <2>1. /\ acts < MaxActs /\ acts' = acts + 1 /\ UNCHANGED <<loop, turns, panics, crashes>>
    BY DEF Pause, Resume, Answer, ForceTick, Delete, Act
  <2>2. acts' \in 0..MaxActs
    BY <2>1, BoundsAreNumbers DEF TickInv, SideOK
  <2>3. restarts' = restarts \/ restarts' = [restarts EXCEPT ![p] = @ + 1]
    BY DEF Pause, Resume, Answer, ForceTick, Delete, TickInv, SideOK
  <2> QED
    BY <2>1, <2>2, <2>3
<1>2. restarts' \in [Projects -> 0..MaxActs] /\ \A q \in Projects : restarts'[q] <= acts'
  BY <1>1, BoundsAreNumbers DEF TickInv, SideOK
<1>3. owed' \in [Projects -> Places]
  BY DEF Pause, Resume, Answer, ForceTick, Delete, Overrules, TickInv, TypeOK, Places
<1>4. SideOK'
  <2>1. due' \in [Projects -> BOOLEAN] /\ looks' \in [Projects -> 0..Patience]
    BY DEF Pause, Resume, Answer, ForceTick, Delete, TickInv, SideOK
  <2>2. decided' \in [Projects -> Statuses] /\ told' \in [Projects -> BOOLEAN]
    BY DEF Pause, Resume, Answer, ForceTick, Delete, Overrules, Decide, Statuses,
           TickInv, SideOK
  <2>3. wrote' \in [Projects -> SUBSET {"stop", "run"}]
    <3>1. \/ wrote' = wrote \/ wrote' = [wrote EXCEPT ![p] = {}]
          \/ wrote' = [wrote EXCEPT ![p] = @ \ {"stop"}]
      BY DEF Pause, Resume, Answer, ForceTick, Delete, Overrules
    <3> QED
      BY <3>1 DEF TickInv, SideOK
  <2> QED
    BY <1>1, <1>2, <1>3, <2>1, <2>2, <2>3 DEF TickInv, SideOK
<1>5. CASE Pause(p) \/ Answer(p) \/ Delete(p)
  BY <1>1, <1>4, <1>5, StatusBeside DEF Pause, Answer, Delete, Saved, Statuses
<1>6. disk[p] \in Records /\ disk[p].streak \in Nat
  BY BoundsAreNumbers DEF TickInv, TypeOK, Records
<1>7. CASE Resume(p)
  <2> DEFINE r == [disk[p] EXCEPT !.status = "active", !.streak = 0]
  <2>1. r \in Records /\ r.ticks = disk[p].ticks /\ r.streak <= disk[p].streak
    <3>1. 0 \in 0..MaxStreak
      BY BoundsAreNumbers
    <3>2. r \in Records /\ r.ticks = disk[p].ticks /\ r.streak = 0
      BY <1>6, <3>1 DEF Records, Statuses
    <3> QED
      BY <1>6, <3>2
  <2>2. disk' = [disk EXCEPT ![p] = r]
    BY <1>7 DEF Resume, Saved
  <2> HIDE DEF r
  <2> QED
    BY <1>1, <1>4, <2>1, <2>2, OneRecordBeside
<1>8. CASE ForceTick(p)
  <2> DEFINE r == [disk[p] EXCEPT !.requested = TRUE]
  <2>1. r \in Records /\ r.ticks = disk[p].ticks /\ r.streak <= disk[p].streak
    <3>1. r \in Records /\ r.ticks = disk[p].ticks /\ r.streak = disk[p].streak
      BY <1>6 DEF Records
    <3> QED
      BY <1>6, <3>1
  <2>2. disk' = [disk EXCEPT ![p] = r]
    BY <1>8 DEF ForceTick, Saved
  <2> HIDE DEF r
  <2> QED
    BY <1>1, <1>4, <2>1, <2>2, OneRecordBeside
<1> QED
  BY <1>5, <1>7, <1>8

LEMMA TickInvStep == TickInv /\ [Next]_vars => TickInv'
<1> SUFFICES ASSUME TickInv, [Next]_vars PROVE TickInv'
  OBVIOUS
<1>1. CASE UNCHANGED vars
  <2>1. \A q \in Projects : disk[q].streak \in Nat
    BY BoundsAreNumbers DEF TickInv, TypeOK, Records
  <2>2. SideOK'
    BY <1>1 DEF vars, history, counts, TickInv, SideOK
  <2>3. UNCHANGED <<disk, loop>>
    BY <1>1 DEF vars
  <2>4. /\ disk' \in [Projects -> Records]
        /\ \A q \in Projects : disk'[q].ticks = disk[q].ticks /\ disk'[q].streak <= disk[q].streak
    BY <2>1, <2>3 DEF TickInv, TypeOK
  <2> QED
    BY <2>2, <2>3, <2>4, BesideTheTick
<1>2. CASE Loop
  BY <1>2, PollKeeps, PassEndsKeeps, TickRailKeeps, TickStartKeeps, PreflightWaitKeeps,
     PreflightSpendKeeps, OpenSessionKeeps, ComposeBriefKeeps, EndConductKeeps,
     EndedSaveKeeps, EndWorkerKeeps, FoldKeeps DEF Loop
<1>3. CASE Tools \/ People \/ Panic \/ Crash
  BY <1>3, ToolsKeep, PeopleKeep, PanicKeeps, CrashKeeps
<1>4. CASE \E p \in Projects : Elapse(p)
  BY <1>4, ElapseKeeps
<1> QED
  BY <1>1, <1>2, <1>3, <1>4 DEF Next

\* Every record, clone, flag and counter is of its kind: a tick is never
\* counted past its rails, and a clone is never behind the file.
THEOREM TickTypes == Spec => [](TypeOK /\ TickInv)
<1>1. TickInv => TypeOK
  BY DEF TickInv
<1> QED
  BY <1>1, InitTick, TickInvStep, PTL DEF Spec

(***************************************************************************)
(* What a project spends.  A tick that spends owes the record one count;   *)
(* so does one that a panic ended, whose project is blocked and in no      *)
(* pass until a person sets it going again.                                *)
(***************************************************************************)

Spending == {"brief", "conduct", "announce", "worker", "fold"}
Counted(p) == disk[p].ticks + crashes + restarts[p]
Ended(p) ==
    /\ cur # p /\ ~ticks(disk[p])
    /\ \A i \in 1..Len(queue) : queue[i].project # p
SpendOf(p) ==
    /\ turns[p] <= Counted(p) + 1
    /\ turns[p] <= Counted(p) \/ (cur = p /\ pc \in Spending) \/ Ended(p)
SpendInv == \A p \in Projects : SpendOf(p)

LEMMA Counts ==
    ASSUME TickInv, NEW p \in Projects
    PROVE  /\ turns[p] \in Nat /\ disk[p].ticks \in Nat /\ crashes \in Nat
           /\ restarts[p] \in Nat /\ Counted(p) \in Nat
<1>1. disk[p].ticks \in Nat
  BY BoundsAreNumbers DEF TickInv, TypeOK, Records
<1>2. turns[p] \in Nat /\ crashes \in Nat /\ restarts[p] \in Nat
  BY BoundsAreNumbers DEF TickInv, SideOK
<1> QED
  BY <1>1, <1>2 DEF Counted

\* A record that is not rewritten with another number, nor set going.
LEMMA SpendUnmoved ==
    ASSUME TickInv, TickInv', NEW p \in Projects, SpendOf(p), turns'[p] = turns[p],
           disk'[p].ticks = disk[p].ticks, crashes' = crashes, restarts'[p] = restarts[p],
           (cur = p /\ pc \in Spending) => (cur' = p /\ pc' \in Spending),
           Ended(p) => Ended(p)'
    PROVE  SpendOf(p)'
BY DEF SpendOf, Counted

\* One that owes nothing may be where it likes.
LEMMA SpendPaid ==
    ASSUME TickInv, TickInv', NEW p \in Projects, SpendOf(p), turns'[p] = turns[p],
           turns[p] <= Counted(p) \/ Counted(p)' = Counted(p) + 1, Counted(p)' >= Counted(p)
    PROVE  SpendOf(p)'
<1>1. turns[p] \in Nat /\ Counted(p) \in Nat /\ Counted(p)' \in Nat
  <2>1. turns[p] \in Nat /\ Counted(p) \in Nat
    BY Counts
  <2>2. disk'[p].ticks \in Nat /\ crashes' \in Nat /\ restarts'[p] \in Nat
    BY BoundsAreNumbers DEF TickInv, TypeOK, SideOK, Records
  <2> QED
    BY <2>1, <2>2 DEF Counted
<1>2. turns[p] <= Counted(p)'
  BY <1>1 DEF SpendOf
<1> QED
  BY <1>1, <1>2 DEF SpendOf

LEMMA SpendLoop ==
    ASSUME TickInv, TickInv', SpendInv, Loop, NEW p \in Projects
    PROVE  SpendOf(p)'
<1>1. SpendOf(p) /\ turns[p] \in Nat /\ Counted(p) \in Nat /\ disk[p].ticks \in Nat
      /\ crashes \in Nat /\ restarts[p] \in Nat
  BY Counts DEF SpendInv
<1>2. CASE Poll
  <2>1. PICK s \in Passes : queue' = ClonesOf(s)
    BY <1>2 DEF Poll, ClonesOf
  <2>2. \A i \in 1..Len(queue') : is_due(queue'[i].project)
    BY <2>1, PassClones DEF TickInv
  <2>3. /\ pc = "sleep" /\ UNCHANGED <<disk, cur, turns, restarts, crashes>>
    BY <1>2 DEF Poll, history, counts
  <2>4. Ended(p) => Ended(p)'
    BY <2>2, <2>3 DEF Ended, is_due, ticks
  <2> QED
    BY <1>1, <2>3, <2>4, SpendUnmoved DEF Spending
<1>3. CASE PassEnds
  BY <1>1, <1>3, SpendUnmoved DEF PassEnds, history, counts, Ended, ticks, Spending
<1>4. CASE TickRail
  <2>1. /\ pc = "next" /\ queue # <<>> /\ queue' = Tail(queue)
        /\ disk' = [disk EXCEPT ![Head(queue).project] =
                      [Head(queue).record EXCEPT !.status = "blocked"]]
        /\ UNCHANGED <<pc, cur, turns, restarts, crashes>>
    BY <1>4 DEF TickRail, Saved, counts
  <2>2. /\ Head(queue).project \in Projects /\ Head(queue).record \in Records
        /\ Head(queue).record.ticks = disk[Head(queue).project].ticks
    BY <2>1, FirstClone
  <2>3. [Head(queue).record EXCEPT !.status = "blocked"].ticks = Head(queue).record.ticks
    BY <2>2, Restatused DEF Statuses
  <2>4. disk'[p].ticks = disk[p].ticks
    BY <2>1, <2>2, <2>3 DEF TickInv, TypeOK
  <2>5. CASE p = Head(queue).project
    <3>1. ~Ended(p) /\ ~(cur = p /\ pc \in Spending)
      BY <2>1, <2>5, PassGoesOn DEF Ended, Spending, TickInv
    <3>2. Counted(p)' = Counted(p)
      BY <2>1, <2>4 DEF Counted
    <3> QED
      BY <1>1, <2>1, <3>1, <3>2, SpendPaid DEF SpendOf
  <2>6. CASE p # Head(queue).project
    <3>1. disk'[p] = disk[p]
      BY <2>1, <2>2, <2>6 DEF TickInv, TypeOK
    <3>2. Ended(p) => Ended(p)'
      BY <2>1, <3>1, PassGoesOn DEF Ended, ticks, TickInv
    <3> QED
      BY <1>1, <2>1, <2>4, <3>2, SpendUnmoved
  <2> QED
    BY <2>5, <2>6
<1>5. CASE TickStart
  <2>1. /\ pc = "next" /\ queue # <<>> /\ queue' = Tail(queue)
        /\ cur' = Head(queue).project
        /\ copy' = [Head(queue).record EXCEPT !.requested = FALSE]
        /\ disk' = disk \/ disk' = [disk EXCEPT ![Head(queue).project] = copy']
        /\ UNCHANGED <<turns, restarts, crashes>>
    BY <1>5 DEF TickStart, counts
  <2>2. /\ Head(queue).project \in Projects /\ Head(queue).record \in Records
        /\ Head(queue).record.ticks = disk[Head(queue).project].ticks
    BY <2>1, FirstClone
  <2>3. copy'.ticks = Head(queue).record.ticks
    BY <2>1, <2>2 DEF Records
  <2>4. disk'[p].ticks = disk[p].ticks
    BY <2>1, <2>2, <2>3 DEF TickInv, TypeOK
  <2>5. CASE p = Head(queue).project
    <3>1. ~Ended(p) /\ ~(cur = p /\ pc \in Spending)
      BY <2>1, <2>5, PassGoesOn DEF Ended, Spending, TickInv
    <3>2. Counted(p)' = Counted(p)
      BY <2>1, <2>4 DEF Counted
    <3> QED
      BY <1>1, <2>1, <3>1, <3>2, SpendPaid DEF SpendOf
  <2>6. CASE p # Head(queue).project
    <3>1. disk'[p] = disk[p]
      BY <2>1, <2>2, <2>6 DEF TickInv, TypeOK
    <3>2. Ended(p) => Ended(p)'
      BY <2>1, <2>6, <3>1, PassGoesOn DEF Ended, ticks, TickInv
    <3> QED
      BY <1>1, <2>1, <2>4, <3>2, SpendUnmoved DEF Spending
  <2> QED
    BY <2>5, <2>6
<1>6. CASE PreflightWait \/ PreflightSpend \/ OpenSession
  <2>1. /\ cur \in Projects /\ pc \in {"preflight", "session"}
        /\ UNCHANGED <<queue, restarts, crashes>>
        /\ \/ cur' = cur /\ pc' \in {"session", "brief"}
           \/ cur' = None
    BY <1>6 DEF PreflightWait, PreflightSpend, OpenSession, NextProject, TickInv, OneTick,
                history, counts
  <2>2. disk'[cur].ticks = disk[cur].ticks /\ \A q \in Projects \ {cur} : disk'[q] = disk[q]
    <3>1. /\ copy \in Records /\ copy.ticks = disk[cur].ticks /\ disk \in [Projects -> Records]
      BY <2>1 DEF TickInv, OneTick, ClonesCount, TypeOK
    <3>2. PICK r : /\ r.ticks = copy.ticks
                   /\ disk' = disk \/ disk' = [disk EXCEPT ![cur] = r]
      <4>1. CASE PreflightWait
        BY <4>1 DEF PreflightWait, Saved
      <4>2. CASE PreflightSpend
        <5>1. PICK still : copy' = [copy EXCEPT !.run = copy.run /\ still]
          BY <4>2 DEF PreflightSpend
        <5>2. copy'.ticks = copy.ticks
          BY <3>1, <5>1 DEF Records
        <5> QED
          BY <4>2, <5>2 DEF PreflightSpend, Saved
      <4>3. CASE OpenSession
        <5>1. [copy EXCEPT !.session = TRUE].ticks = copy.ticks
          BY <3>1 DEF Records
        <5> QED
          BY <4>3, <5>1 DEF OpenSession, Learned
      <4> QED
        BY <1>6, <4>1, <4>2, <4>3
    <3> QED
      BY <2>1, <3>1, <3>2
  <2>3. CASE p = cur
    <3>1. turns[p] <= Counted(p)
      BY <1>1, <2>1, <2>3 DEF SpendOf, Ended, Spending
    <3>2. Counted(p)' = Counted(p)
      BY <2>1, <2>2, <2>3 DEF Counted
    <3>3. CASE turns'[p] = turns[p]
      BY <1>1, <3>1, <3>2, <3>3, SpendPaid
    <3>4. CASE OpenSession
      <4>1. turns'[p] = turns[p] + 1 /\ cur' = p /\ pc' = "brief"
        BY <2>3, <3>4 DEF OpenSession, TickInv, SideOK
      <4> QED
        BY <1>1, <3>1, <3>2, <4>1 DEF SpendOf, Spending
    <3> QED
      BY <1>6, <3>3, <3>4 DEF PreflightWait, PreflightSpend, history
  <2>4. CASE p # cur
    <3>1. turns'[p] = turns[p] /\ disk'[p] = disk[p]
      BY <1>6, <2>2, <2>4 DEF PreflightWait, PreflightSpend, OpenSession, history, TickInv, SideOK
    <3>2. Ended(p) => Ended(p)'
      BY <2>1, <2>4, <3>1, NoneIsNoProject DEF Ended, ticks
    <3> QED
      BY <1>1, <2>1, <2>4, <3>1, <3>2, SpendUnmoved
  <2> QED
    BY <2>3, <2>4
<1>7. CASE ComposeBrief \/ EndConduct \/ EndWorker
  <2>1. /\ cur \in Projects /\ cur' = cur /\ pc' \in Spending /\ pc \in Spending
        /\ UNCHANGED <<queue, turns, restarts, crashes>>
    BY <1>7 DEF ComposeBrief, EndConduct, EndWorker, TickInv, OneTick, Spending, history, counts
  <2>2. disk'[cur].ticks = disk[cur].ticks /\ \A q \in Projects \ {cur} : disk'[q] = disk[q]
    <3>1. /\ copy \in Records /\ copy.ticks = disk[cur].ticks /\ disk \in [Projects -> Records]
      BY <2>1 DEF TickInv, OneTick, ClonesCount, TypeOK
    <3>2. CASE ComposeBrief
      <4>1. PICK composed : Learned([copy EXCEPT !.brief = @ \/ composed])
        BY <3>2 DEF ComposeBrief
      <4>2. [copy EXCEPT !.brief = @ \/ composed].ticks = copy.ticks
        BY <3>1 DEF Records
      <4> QED
        BY <2>1, <3>1, <4>1, <4>2 DEF Learned
    <3> QED
      BY <1>7, <3>2 DEF EndConduct, EndWorker
  <2>3. Ended(p) => Ended(p)'
    BY <2>1, <2>2 DEF Ended, ticks
  <2>4. disk'[p].ticks = disk[p].ticks
    BY <2>2
  <2> QED
    BY <1>1, <2>1, <2>3, <2>4, SpendUnmoved
<1>8. CASE EndedSave \/ Fold
  <2>1. /\ cur \in Projects /\ cur' = None
        /\ UNCHANGED <<queue, turns, restarts, crashes>>
    BY <1>8 DEF EndedSave, Fold, NextProject, TickInv, OneTick, history, counts
  <2>2. disk'[cur].ticks = disk[cur].ticks + 1 /\ \A q \in Projects \ {cur} : disk'[q] = disk[q]
    <3>1. /\ copy \in Records /\ copy.ticks = disk[cur].ticks /\ disk \in [Projects -> Records]
      BY <2>1 DEF TickInv, OneTick, ClonesCount, TypeOK
    <3>2. PICK r : r.ticks = copy.ticks + 1 /\ disk' = [disk EXCEPT ![cur] = r]
      <4>1. CASE EndedSave
        <5>1. [copy EXCEPT !.ticks = @ + 1].ticks = copy.ticks + 1
          BY <3>1 DEF Records
        <5> QED
          BY <4>1, <5>1 DEF EndedSave, Saved
      <4>2. CASE Fold
        BY <2>1, <4>2, FoldedRecord DEF Fold, Saved
      <4> QED
        BY <1>8, <4>1, <4>2
    <3> QED
      BY <2>1, <3>1, <3>2
  <2>3. CASE p = cur
    <3>1. Counted(p)' = Counted(p) + 1
      BY <1>1, <2>1, <2>2, <2>3 DEF Counted
    <3> QED
      BY <1>1, <2>1, <3>1, SpendPaid
  <2>4. CASE p # cur
    <3>1. Ended(p) => Ended(p)'
      BY <2>1, <2>2, <2>4, NoneIsNoProject DEF Ended, ticks
    <3> QED
      BY <1>1, <2>1, <2>2, <2>4, <3>1, SpendUnmoved
  <2> QED
    BY <2>3, <2>4
<1> QED
  BY <1>2, <1>3, <1>4, <1>5, <1>6, <1>7, <1>8 DEF Loop

LEMMA SpendBeside ==
    ASSUME TickInv, TickInv', SpendInv, NEW p \in Projects,
           Tools \/ People \/ \E q \in Projects : Elapse(q)
    PROVE  SpendOf(p)'
<1>1. SpendOf(p) /\ turns[p] \in Nat /\ Counted(p) \in Nat /\ disk[p].ticks \in Nat
      /\ crashes \in Nat /\ restarts[p] \in Nat /\ disk \in [Projects -> Records]
  BY Counts DEF SpendInv, TickInv, TypeOK
<1>2. CASE \E q \in Projects : Elapse(q)
  BY <1>1, <1>2, SpendUnmoved DEF Elapse, loop, history, counts, Ended, ticks
<1>3. CASE Tools
  <2>1. /\ cur \in Projects /\ pc \in Spending /\ UNCHANGED <<loop, turns, restarts, crashes>>
    BY <1>3 DEF Tools, ProjectBlock, ProjectComplete, ProjectAwaitRun, Tool, TickInv, OneTick,
                Spending, counts
  <2>2. PICK r : r.ticks = disk[cur].ticks /\ disk' = [disk EXCEPT ![cur] = r]
    <3>1. disk[cur] \in Records
      BY <1>1, <2>1
    <3>2. /\ [disk[cur] EXCEPT !.status = "blocked"].ticks = disk[cur].ticks
          /\ [disk[cur] EXCEPT !.status = "done"].ticks = disk[cur].ticks
          /\ [disk[cur] EXCEPT !.run = TRUE].ticks = disk[cur].ticks
      BY <3>1 DEF Records
    <3> QED
      BY <1>3, <3>2 DEF Tools, ProjectBlock, ProjectComplete, ProjectAwaitRun, Saved
  <2>3. disk'[p].ticks = disk[p].ticks
    BY <1>1, <2>1, <2>2
  <2>4. Ended(p) => Ended(p)'
    BY <1>1, <2>1, <2>2 DEF Ended, ticks, loop
  <2> QED
    BY <1>1, <2>1, <2>3, <2>4, SpendUnmoved DEF loop
<1>4. CASE People
  <2>1. PICK q \in Projects :
            Pause(q) \/ Resume(q) \/ Answer(q) \/ ForceTick(q) \/ Delete(q)
    BY <1>4 DEF People
  <2>2. UNCHANGED <<loop, turns, crashes>> /\ UNCHANGED <<pc, cur, queue>>
    BY <2>1 DEF Pause, Resume, Answer, ForceTick, Delete, loop
  <2>3. disk[q] \in Records
    BY <1>1
  <2>4. /\ [disk[q] EXCEPT !.status = "paused"].ticks = disk[q].ticks
        /\ [disk[q] EXCEPT !.status = "paused"].status = "paused"
        /\ [disk[q] EXCEPT !.status = "gone"].ticks = disk[q].ticks
        /\ [disk[q] EXCEPT !.status = "gone"].status = "gone"
        /\ [disk[q] EXCEPT !.status = "active"].ticks = disk[q].ticks
        /\ [disk[q] EXCEPT !.status = "active", !.streak = 0].ticks = disk[q].ticks
        /\ [disk[q] EXCEPT !.status = "active", !.streak = 0].status = "active"
        /\ [disk[q] EXCEPT !.requested = TRUE].ticks = disk[q].ticks
        /\ [disk[q] EXCEPT !.requested = TRUE].status = disk[q].status
    BY <2>3 DEF Records
  <2>5. CASE p # q
    <3>1. disk'[p] = disk[p] /\ restarts'[p] = restarts[p]
      <4>1. \E r : disk' = [disk EXCEPT ![q] = r]
        BY <2>1 DEF Pause, Resume, Answer, ForceTick, Delete, Saved
      <4>2. \E n : restarts' = restarts \/ restarts' = [restarts EXCEPT ![q] = n]
        BY <2>1 DEF Pause, Resume, Answer, ForceTick, Delete
      <4> QED
        BY <1>1, <2>5, <4>1, <4>2 DEF TickInv, SideOK
    <3>2. Ended(p) => Ended(p)'
      BY <2>2, <3>1 DEF Ended, ticks
    <3> QED
      BY <1>1, <2>2, <3>1, <3>2, SpendUnmoved
  <2>6. CASE p = q /\ (Pause(q) \/ Delete(q) \/ ForceTick(q) \/ (Resume(q) /\ ticks(disk[q])))
    <3>1. /\ disk'[p].ticks = disk[p].ticks /\ restarts'[p] = restarts[p]
          /\ ticks(disk'[p]) => ticks(disk[p])
      BY <1>1, <2>4, <2>6 DEF Pause, Delete, ForceTick, Resume, Saved, ticks, TickInv, SideOK
    <3>2. Ended(p) => Ended(p)'
      BY <2>2, <3>1 DEF Ended
    <3> QED
      BY <1>1, <2>2, <3>1, <3>2, SpendUnmoved
  <2>7. CASE p = q /\ (Answer(q) \/ (Resume(q) /\ ~ticks(disk[q])))
    <3>1. disk'[p].ticks = disk[p].ticks /\ restarts'[p] = restarts[p] + 1
      BY <1>1, <2>4, <2>7 DEF Answer, Resume, Saved, TickInv, SideOK
    <3>2. Counted(p)' = Counted(p) + 1
      BY <1>1, <2>2, <3>1 DEF Counted
    <3> QED
      BY <1>1, <2>2, <3>2, SpendPaid
  <2> QED
    BY <2>1, <2>5, <2>6, <2>7
<1> QED
  BY <1>2, <1>3, <1>4

LEMMA SpendFaults ==
    ASSUME TickInv, TickInv', SpendInv, NEW p \in Projects, Panic \/ Crash
    PROVE  SpendOf(p)'
<1>1. SpendOf(p) /\ turns[p] \in Nat /\ Counted(p) \in Nat /\ disk[p].ticks \in Nat
      /\ crashes \in Nat /\ restarts[p] \in Nat /\ disk \in [Projects -> Records]
  BY Counts DEF SpendInv, TickInv, TypeOK
<1>2. CASE Crash
  <2>1. Counted(p)' = Counted(p) + 1 /\ turns'[p] = turns[p]
    BY <1>1, <1>2 DEF Crash, Counted, history
  <2> QED
    BY <1>1, <2>1, SpendPaid
<1>3. CASE Panic
  <2>1. /\ cur \in Projects /\ cur' = None /\ UNCHANGED <<queue, turns, restarts, crashes>>
        /\ \/ disk[cur].status = "gone" /\ disk' = disk
           \/ disk' = [disk EXCEPT ![cur] = [disk[cur] EXCEPT !.status = "blocked"]]
    BY <1>3 DEF Panic, NextProject, Saved, TickInv, TypeOK
  <2>2. /\ [disk[cur] EXCEPT !.status = "blocked"].ticks = disk[cur].ticks
        /\ [disk[cur] EXCEPT !.status = "blocked"].status = "blocked"
    BY <1>1, <2>1 DEF Records
  <2>3. disk'[p].ticks = disk[p].ticks
    BY <1>1, <2>1, <2>2
  <2>4. CASE p = cur
    <3>1. ~ticks(disk'[p])
      BY <1>1, <2>1, <2>2, <2>4 DEF ticks
    <3>2. Ended(p)'
      BY <2>1, <2>4, <3>1, NoneIsNoProject DEF Ended, TickInv, OneTick
    <3>3. Counted(p)' = Counted(p)
      BY <2>1, <2>3 DEF Counted
    <3> QED
      BY <1>1, <2>1, <3>2, <3>3 DEF SpendOf
  <2>5. CASE p # cur
    <3>1. Ended(p) => Ended(p)'
      BY <1>1, <2>1, <2>5, NoneIsNoProject DEF Ended, ticks
    <3> QED
      BY <1>1, <2>1, <2>3, <2>5, <3>1, SpendUnmoved
  <2> QED
    BY <2>4, <2>5
<1> QED
  BY <1>2, <1>3

\* What a project may spend is what its rails allow: every tick that cost turns
\* is counted, but for those a crash took, those of a panic a person then
\* overruled, and the one at work.
THEOREM SpendIsBounded == Spec => []SpendBound
<1>1. Init => SpendInv
  BY BoundsAreNumbers DEF Init, SpendInv, SpendOf, Counted
<1>2. TickInv /\ TickInv' /\ SpendInv /\ [Next]_vars => SpendInv'
  <2> SUFFICES ASSUME TickInv, TickInv', SpendInv, [Next]_vars, NEW p \in Projects
               PROVE  SpendOf(p)'
    BY DEF SpendInv
  <2>1. CASE UNCHANGED vars
    BY <2>1, SpendUnmoved DEF vars, SpendInv, Ended, ticks, loop, history, counts
  <2> QED
    BY <2>1, SpendLoop, SpendBeside, SpendFaults DEF Next
<1>3. SpendInv => SpendBound
  BY DEF SpendInv, SpendOf, Counted, SpendBound
<1> QED
  BY <1>1, <1>2, <1>3, TickTypes, PTL DEF Spec

(***************************************************************************)
(* What others write.  Every record that will be saved honours what tools  *)
(* and a force wrote before it was read: the clones that wait, because     *)
(* their agents are not at work, the copy before the agents start, because *)
(* they have written nothing, and the copy read after they were done.      *)
(***************************************************************************)

AtWork == {"conduct", "worker"}
Honours(r, written, force) ==
    /\ "stop" \in written => ~ticks(r)
    /\ "run" \in written => r.run
    /\ force \in AtWork => r.requested
Silent(p) == wrote[p] = {} /\ owed[p] \notin AtWork

FileHonours(p) == IF disk[p].status = "gone" THEN Silent(p) ELSE Honours(disk[p], wrote[p], owed[p])
PassHonours ==
    \A i \in 1..Len(queue) :
        /\ queue[i].record.status = "active"
        /\ Honours(queue[i].record, wrote[queue[i].project], owed[queue[i].project])
CopyHonours ==
    cur \in Projects =>
        /\ copy.status # "gone"
        /\ pc \in Early => copy.status = "active" /\ Honours(copy, wrote[cur], owed[cur]) /\ owed[cur] \notin AtWork
        /\ pc \in Late => Honours(copy, wrote[cur], owed[cur])
WritesInv == (\A p \in Projects : FileHonours(p)) /\ PassHonours /\ CopyHonours

LEMMA WritesPass ==
    ASSUME TickInv, TickInv', WritesInv, Poll \/ PassEnds \/ TickRail \/ TickStart \/ Crash
    PROVE  WritesInv'
<1>1. CASE Poll
  <2>1. PICK s \in Passes : queue' = ClonesOf(s)
    BY <1>1 DEF Poll, ClonesOf
  <2>2. \A i \in 1..Len(queue') :
          /\ queue'[i].project \in Projects /\ is_due(queue'[i].project)
          /\ queue'[i].record = disk[queue'[i].project]
    BY <2>1, PassClones DEF TickInv
  <2>3. UNCHANGED <<disk, cur, wrote, owed>> /\ cur \notin Projects
    BY <1>1 DEF Poll, history, TickInv, OneTick
  <2>4. PassHonours'
    BY <2>2, <2>3 DEF WritesInv, FileHonours, PassHonours, Honours, is_due, ticks
  <2> QED
    BY <2>3, <2>4 DEF WritesInv, FileHonours, Silent, Honours, CopyHonours
<1>2. CASE PassEnds
  <2>1. UNCHANGED <<disk, cur, copy, queue, wrote, owed>> /\ cur \notin Projects
    BY <1>2 DEF PassEnds, history, TickInv, OneTick
  <2> QED
    BY <2>1 DEF WritesInv, FileHonours, Silent, Honours, CopyHonours, PassHonours
<1>3. CASE Crash
  <2>1. UNCHANGED <<disk, wrote, owed>> /\ cur' \notin Projects /\ Len(queue') = 0
    BY <1>3, NoneIsNoProject DEF Crash, history
  <2> QED
    BY <2>1 DEF WritesInv, FileHonours, Silent, Honours, CopyHonours, PassHonours
<1> SUFFICES ASSUME TickRail \/ TickStart PROVE WritesInv'
  BY <1>1, <1>2, <1>3
<1> DEFINE p0 == Head(queue).project
           r0 == Head(queue).record
<1>4. /\ queue # <<>> /\ queue' = Tail(queue) /\ pc = "next" /\ cur \notin Projects
  BY DEF TickRail, TickStart, TickInv, OneTick
<1>5. /\ p0 \in Projects /\ r0 \in Records
      /\ \A i \in 1..Len(queue') :
           queue'[i].project \in Projects /\ queue'[i].project # p0
  BY <1>4, FirstClone
<1>6. /\ Honours(r0, wrote[p0], owed[p0]) /\ r0.status = "active"
      /\ \A i \in 1..Len(queue') : /\ queue'[i].record.status = "active"
                                   /\ Honours(queue'[i].record, wrote[queue'[i].project],
                                              owed[queue'[i].project])
  <2>1. /\ 1 \in 1..Len(queue) /\ Head(queue) = queue[1]
        /\ \A i \in 1..Len(queue') : queue'[i] = queue[i + 1] /\ i + 1 \in 1..Len(queue)
    BY <1>4, PassGoesOn DEF TickInv
  <2> QED
    BY <2>1 DEF WritesInv, PassHonours
<1>7. disk \in [Projects -> Records] /\ owed \in [Projects -> Places]
  BY DEF TickInv, TypeOK, SideOK
<1>8. CASE TickRail
  <2> DEFINE r == [r0 EXCEPT !.status = "blocked"]
  <2>1. disk' = [disk EXCEPT ![p0] = r] /\ UNCHANGED <<cur, wrote, owed>>
    BY <1>8 DEF TickRail, Saved
  <2>2. /\ r.status = "blocked" /\ r.run = r0.run /\ r.requested = r0.requested
    BY <1>5 DEF Records
  <2>3. Honours(r, wrote[p0], owed[p0])
    BY <1>6, <2>2 DEF Honours, ticks
  <2> HIDE DEF r, p0, r0
  <2>4. ASSUME NEW p \in Projects
        PROVE  FileHonours(p)'
    <3>1. CASE p = p0
      <4>1. disk'[p] = r
        BY <1>5, <1>7, <2>1, <3>1
      <4> QED
        BY <2>1, <2>2, <2>3, <3>1, <4>1 DEF FileHonours, Honours
    <3>2. CASE p # p0
      <4>1. disk'[p] = disk[p]
        BY <1>5, <1>7, <2>1, <3>2
      <4> QED
        BY <2>1, <4>1 DEF WritesInv, FileHonours, Silent, Honours
    <3> QED
      BY <3>1, <3>2
  <2>5. PassHonours' /\ CopyHonours'
    BY <1>4, <1>6, <2>1 DEF PassHonours, CopyHonours, Honours
  <2> QED
    BY <2>4, <2>5 DEF WritesInv
<1>9. CASE TickStart
  <2>1. /\ cur' = p0 /\ copy' = [r0 EXCEPT !.requested = FALSE] /\ pc' = "preflight"
        /\ disk' = disk \/ disk' = [disk EXCEPT ![p0] = copy']
        /\ owed' = [owed EXCEPT ![p0] = "sleep"] /\ UNCHANGED wrote
    BY <1>9 DEF TickStart
  <2>2. /\ copy'.status = "active" /\ copy'.run = r0.run
    BY <1>5, <1>6, <2>1 DEF Records
  <2>3. owed'[p0] \notin AtWork /\ \A p \in Projects \ {p0} : owed'[p] = owed[p]
    BY <1>5, <1>7, <2>1 DEF AtWork
  <2>4. Honours(copy', wrote'[p0], owed'[p0])
    BY <1>6, <2>1, <2>2, <2>3 DEF Honours, ticks
  <2> HIDE DEF p0, r0
  <2>5. ASSUME NEW p \in Projects
        PROVE  FileHonours(p)'
    <3>1. CASE p = p0
      <4>1. CASE disk' = disk
        BY <2>1, <2>3, <3>1, <4>1 DEF WritesInv, FileHonours, Silent, Honours
      <4>2. CASE disk' = [disk EXCEPT ![p0] = copy']
        <5>1. disk'[p] = copy'
          BY <1>5, <1>7, <3>1, <4>2
        <5> QED
          BY <2>2, <2>4, <3>1, <5>1 DEF FileHonours, Honours
      <4> QED
        BY <2>1, <4>1, <4>2
    <3>2. CASE p # p0
      <4>1. disk'[p] = disk[p]
        BY <1>5, <1>7, <2>1, <3>2
      <4> QED
        BY <2>1, <2>3, <3>2, <4>1 DEF WritesInv, FileHonours, Silent, Honours
    <3> QED
      BY <3>1, <3>2
  <2>6. PassHonours'
    BY <1>5, <1>6, <2>1, <2>3 DEF PassHonours, Honours
  <2>7. CopyHonours'
    BY <1>5, <2>1, <2>2, <2>3, <2>4 DEF CopyHonours, Early, Late, Honours
  <2> QED
    BY <2>5, <2>6, <2>7 DEF WritesInv
<1> QED
  BY <1>8, <1>9

\* What a tick does to its own record leaves the others' as they were.
LEMMA WritesElsewhere ==
    ASSUME TickInv, WritesInv, cur \in Projects, UNCHANGED <<queue, owed>>,
           \A p \in Projects \ {cur} : disk'[p] = disk[p] /\ wrote'[p] = wrote[p]
    PROVE  /\ \A p \in Projects \ {cur} :
                IF disk'[p].status = "gone" THEN wrote'[p] = {} /\ owed'[p] \notin AtWork
                ELSE Honours(disk'[p], wrote'[p], owed'[p])
           /\ PassHonours'
<1>1. PassHonours'
  BY PassTypes DEF TickInv, OneTick, WritesInv, PassHonours
<1> QED
  BY <1>1 DEF WritesInv, FileHonours, Silent

\* One record saved by its tick, which then goes on with it or is over.
LEMMA WritesSaved ==
    ASSUME TickInv, WritesInv, cur \in Projects, UNCHANGED <<queue, owed>>,
           \A p \in Projects \ {cur} : wrote'[p] = wrote[p],
           NEW r, r.status # "gone", Honours(r, wrote'[cur], owed'[cur]),
           disk' = [disk EXCEPT ![cur] = r],
           CopyHonours'
    PROVE  WritesInv'
<1>1. disk'[cur] = r /\ \A p \in Projects \ {cur} : disk'[p] = disk[p]
  BY DEF TickInv, TypeOK
<1>2. /\ PassHonours'
      /\ \A p \in Projects \ {cur} :
                IF disk'[p].status = "gone" THEN wrote'[p] = {} /\ owed'[p] \notin AtWork
                ELSE Honours(disk'[p], wrote'[p], owed'[p])
  BY <1>1, WritesElsewhere
<1>3. Honours(disk'[cur], wrote'[cur], owed'[cur]) /\ disk'[cur].status # "gone"
  BY <1>1
<1>4. \A p \in Projects : FileHonours(p)'
  BY <1>2, <1>3 DEF FileHonours, Silent
<1> QED
  BY <1>2, <1>4 DEF WritesInv

\* A tick that saves nothing.
LEMMA WritesUnsaved ==
    ASSUME TickInv, WritesInv, UNCHANGED <<disk, queue, owed, wrote>>, CopyHonours'
    PROVE  WritesInv'
BY DEF WritesInv, FileHonours, Silent, PassHonours

LEMMA WritesEarly ==
    ASSUME TickInv, WritesInv,
           PreflightWait \/ PreflightSpend \/ OpenSession \/ ComposeBrief
    PROVE  WritesInv'
<1>1. /\ cur \in Projects /\ pc \in Early /\ UNCHANGED <<queue, owed>>
  BY DEF PreflightWait, PreflightSpend, OpenSession, ComposeBrief, Early, TickInv, OneTick, history
<1>2. /\ copy \in Records /\ copy.status = "active" /\ Honours(copy, wrote[cur], owed[cur])
      /\ owed[cur] \notin AtWork /\ disk \in [Projects -> Records]
      /\ wrote \in [Projects -> SUBSET {"stop", "run"}]
  BY <1>1 DEF WritesInv, CopyHonours, TickInv, OneTick, TypeOK, SideOK
<1>3. CASE PreflightWait
  <2>1. /\ disk' = [disk EXCEPT ![cur] = copy] /\ UNCHANGED wrote /\ cur' = None
    BY <1>3 DEF PreflightWait, Saved, NextProject, history
  <2>2. CopyHonours'
    BY <2>1, NoneIsNoProject DEF CopyHonours
  <2> QED
    BY <1>1, <1>2, <2>1, <2>2, WritesSaved
<1>4. CASE PreflightSpend
  <2>1. PICK still : copy' = [copy EXCEPT !.run = copy.run /\ still]
    BY <1>4 DEF PreflightSpend
  <2>2. /\ wrote' = IF copy'.run THEN wrote ELSE [wrote EXCEPT ![cur] = @ \ {"run"}]
        /\ disk' = [disk EXCEPT ![cur] = copy'] /\ cur' = cur /\ pc' = "session"
    BY <1>4 DEF PreflightSpend, Saved
  <2>3. copy'.status = "active" /\ copy'.requested = copy.requested
    BY <1>2, <2>1 DEF Records
  <2>4. /\ wrote'[cur] \subseteq wrote[cur] /\ ("run" \in wrote'[cur] => copy'.run)
        /\ \A p \in Projects \ {cur} : wrote'[p] = wrote[p]
    BY <1>1, <1>2, <2>2
  <2>5. Honours(copy', wrote'[cur], owed'[cur])
    BY <1>1, <1>2, <2>3, <2>4 DEF Honours, ticks
  <2>6. CopyHonours'
    BY <1>1, <1>2, <2>2, <2>3, <2>5 DEF CopyHonours, Late
  <2> QED
    BY <1>1, <2>2, <2>3, <2>4, <2>5, <2>6, WritesSaved
<1>5. CASE OpenSession \/ ComposeBrief
  <2>1. PICK r : /\ Learned(r) /\ r.status = "active" /\ r.run = copy.run
                 /\ r.requested = copy.requested
    <3>1. CASE OpenSession
      <4>1. /\ [copy EXCEPT !.session = TRUE].status = "active"
            /\ [copy EXCEPT !.session = TRUE].run = copy.run
            /\ [copy EXCEPT !.session = TRUE].requested = copy.requested
        BY <1>2 DEF Records
      <4> QED
        BY <3>1, <4>1 DEF OpenSession
    <3>2. CASE ComposeBrief
      <4>1. PICK composed : Learned([copy EXCEPT !.brief = @ \/ composed])
        BY <3>2 DEF ComposeBrief
      <4>2. /\ [copy EXCEPT !.brief = @ \/ composed].status = "active"
            /\ [copy EXCEPT !.brief = @ \/ composed].run = copy.run
            /\ [copy EXCEPT !.brief = @ \/ composed].requested = copy.requested
        BY <1>2 DEF Records
      <4> QED
        BY <4>1, <4>2
    <3> QED
      BY <1>5, <3>1, <3>2
  <2>2. UNCHANGED <<cur, wrote>> /\ pc' \in {"brief", "conduct"}
    BY <1>5 DEF OpenSession, ComposeBrief, history
  <2>3. Honours(r, wrote'[cur], owed'[cur])
    BY <1>1, <1>2, <2>1, <2>2 DEF Honours, ticks
  <2>4. copy' = r
    BY <2>1 DEF Learned
  <2>5. CopyHonours'
    BY <1>1, <1>2, <2>1, <2>2, <2>3, <2>4 DEF CopyHonours, Late
  <2>6. CASE disk' = disk
    BY <1>1, <2>2, <2>5, <2>6, WritesUnsaved
  <2>7. CASE disk' = [disk EXCEPT ![cur] = r]
    BY <1>1, <2>1, <2>2, <2>3, <2>5, <2>7, WritesSaved
  <2> QED
    BY <2>1, <2>6, <2>7 DEF Learned
<1> QED
  BY <1>3, <1>4, <1>5

\* A record read again honours all that was written while agents were at work.
LEMMA RereadHonours ==
    ASSUME TickInv, WritesInv, cur \in Projects
    PROVE  Reread(cur).status # "gone" /\ Honours(Reread(cur), wrote[cur], owed[cur])
<1>1. CASE disk[cur].status = "gone"
  BY <1>1 DEF WritesInv, FileHonours, Silent, Honours, Reread, CopyHonours
<1>2. CASE disk[cur].status # "gone"
  BY <1>2 DEF WritesInv, FileHonours, Reread
<1> QED
  BY <1>1, <1>2

LEMMA WritesLate ==
    ASSUME TickInv, WritesInv, EndConduct \/ EndWorker \/ EndedSave \/ Fold \/ Panic
    PROVE  WritesInv'
<1>1. /\ cur \in Projects /\ UNCHANGED <<queue, owed, wrote>>
  BY DEF EndConduct, EndWorker, EndedSave, Fold, Panic, TickInv, TypeOK, OneTick, history
<1>2. CASE EndConduct \/ EndWorker
  <2>1. /\ copy' = Reread(cur) /\ UNCHANGED <<disk, cur>>
        /\ pc' \in {"worker", "announce", "fold"}
    BY <1>2 DEF EndConduct, EndWorker
  <2>2. CopyHonours'
    BY <1>1, <2>1, RereadHonours DEF CopyHonours, Early
  <2> QED
    BY <1>1, <2>1, <2>2, WritesUnsaved
<1>3. CASE EndedSave \/ Fold
  <2>1. pc \in Late /\ cur' = None /\ copy.status # "gone" /\ Honours(copy, wrote[cur], owed[cur])
    BY <1>1, <1>3 DEF EndedSave, Fold, NextProject, Late, WritesInv, CopyHonours
  <2>2. PICK r : /\ disk' = [disk EXCEPT ![cur] = r] /\ r.run = copy.run
                 /\ r.requested = copy.requested /\ r.status \in {copy.status, "blocked"}
    <3>1. CASE EndedSave
      <4>1. copy \in Records
        BY <1>1 DEF TickInv, OneTick
      <4>2. /\ [copy EXCEPT !.ticks = @ + 1].run = copy.run
            /\ [copy EXCEPT !.ticks = @ + 1].requested = copy.requested
            /\ [copy EXCEPT !.ticks = @ + 1].status = copy.status
        BY <4>1 DEF Records
      <4> QED
        BY <3>1, <4>2 DEF EndedSave, Saved
    <3>2. CASE Fold
      BY <1>1, <3>2, FoldedRecord DEF Fold, Saved
    <3> QED
      BY <1>3, <3>1, <3>2
  <2>3. r.status # "gone" /\ Honours(r, wrote'[cur], owed'[cur])
    BY <1>1, <2>1, <2>2 DEF Honours, ticks
  <2>4. CopyHonours'
    BY <2>1, NoneIsNoProject DEF CopyHonours
  <2> QED
    BY <1>1, <2>2, <2>3, <2>4, WritesSaved
<1>4. CASE Panic
  <2>1. cur' = None
    BY <1>4 DEF Panic, NextProject
  <2>2. CopyHonours'
    BY <2>1, NoneIsNoProject DEF CopyHonours
  <2>3. CASE disk[cur].status = "gone"
    BY <1>1, <1>4, <2>2, <2>3, WritesUnsaved DEF Panic
  <2>4. CASE disk[cur].status # "gone"
    <3> DEFINE r == [disk[cur] EXCEPT !.status = "blocked"]
    <3>1. disk' = [disk EXCEPT ![cur] = r] /\ disk[cur] \in Records
      BY <1>1, <1>4, <2>4 DEF Panic, Saved, TickInv, TypeOK
    <3>2. r.status = "blocked" /\ r.run = disk[cur].run /\ r.requested = disk[cur].requested
      BY <3>1 DEF Records
    <3>3. Honours(r, wrote'[cur], owed'[cur])
      BY <1>1, <2>4, <3>2 DEF WritesInv, FileHonours, Honours, ticks
    <3> HIDE DEF r
    <3> QED
      BY <1>1, <2>2, <3>1, <3>2, <3>3, WritesSaved
  <2> QED
    BY <2>3, <2>4
<1> QED
  BY <1>2, <1>3, <1>4

LEMMA WritesTools ==
    ASSUME TickInv, WritesInv, Tools
    PROVE  WritesInv'
<1>1. /\ cur \in Projects /\ pc \in AtWork /\ UNCHANGED <<queue, owed, cur, pc, copy>>
      /\ disk[cur].status # "gone" /\ disk[cur] \in Records
      /\ wrote \in [Projects -> SUBSET {"stop", "run"}]
  BY DEF Tools, ProjectBlock, ProjectComplete, ProjectAwaitRun, Tool, AtWork, loop,
         TickInv, TypeOK, OneTick
<1>2. CopyHonours'
  BY <1>1 DEF WritesInv, CopyHonours, AtWork, Early, Late
<1>3. Honours(disk[cur], wrote[cur], owed[cur])
  BY <1>1 DEF WritesInv, FileHonours
<1>4. CASE ProjectBlock \/ ProjectComplete
  <2>1. PICK st \in {"blocked", "done"} :
          /\ disk' = [disk EXCEPT ![cur] = [disk[cur] EXCEPT !.status = st]]
          /\ wrote' = [wrote EXCEPT ![cur] = @ \cup {"stop"}]
    BY <1>4 DEF ProjectBlock, ProjectComplete, Saved, Writes
  <2> DEFINE r == [disk[cur] EXCEPT !.status = st]
  <2>2. r.status = st /\ r.run = disk[cur].run /\ r.requested = disk[cur].requested
    BY <1>1 DEF Records
  <2>3. /\ wrote'[cur] = wrote[cur] \cup {"stop"}
        /\ \A p \in Projects \ {cur} : wrote'[p] = wrote[p]
    BY <1>1, <2>1
  <2>4. Honours(r, wrote'[cur], owed'[cur])
    BY <1>1, <1>3, <2>2, <2>3 DEF Honours, ticks
  <2>5. disk' = [disk EXCEPT ![cur] = r] /\ r.status # "gone"
    BY <2>1, <2>2
  <2> HIDE DEF r
  <2> QED
    BY <1>1, <1>2, <2>3, <2>4, <2>5, WritesSaved
<1>5. CASE ProjectAwaitRun
  <2> DEFINE r == [disk[cur] EXCEPT !.run = TRUE]
  <2>1. disk' = [disk EXCEPT ![cur] = r] /\ wrote' = [wrote EXCEPT ![cur] = @ \cup {"run"}]
    BY <1>5 DEF ProjectAwaitRun, Saved, Writes
  <2>2. r.status = disk[cur].status /\ r.run /\ r.requested = disk[cur].requested
    BY <1>1 DEF Records
  <2>3. /\ wrote'[cur] = wrote[cur] \cup {"run"}
        /\ \A p \in Projects \ {cur} : wrote'[p] = wrote[p]
    BY <1>1, <2>1
  <2>4. Honours(r, wrote'[cur], owed'[cur])
    BY <1>1, <1>3, <2>2, <2>3 DEF Honours, ticks
  <2> HIDE DEF r
  <2> QED
    BY <1>1, <1>2, <2>1, <2>2, <2>3, <2>4, WritesSaved
<1> QED
  BY <1>4, <1>5 DEF Tools

LEMMA WritesPeople ==
    ASSUME TickInv, WritesInv, People \/ \E q \in Projects : Elapse(q)
    PROVE  WritesInv'
<1>1. CASE \E q \in Projects : Elapse(q)
  BY <1>1 DEF Elapse, loop, history, WritesInv, FileHonours, Silent, PassHonours, CopyHonours
<1>2. CASE People
  <2>1. PICK q \in Projects :
            Pause(q) \/ Resume(q) \/ Answer(q) \/ ForceTick(q) \/ Delete(q)
    BY <1>2 DEF People
  <2>2. /\ UNCHANGED <<pc, cur, copy, queue>> /\ disk[q].status # "gone"
        /\ disk \in [Projects -> Records] /\ disk[q] \in Records
        /\ wrote \in [Projects -> SUBSET {"stop", "run"}] /\ owed \in [Projects -> Places]
    BY <2>1 DEF Pause, Resume, Answer, ForceTick, Delete, Act, loop, TickInv, TypeOK
  <2>3. Honours(disk[q], wrote[q], owed[q])
    BY <2>2 DEF WritesInv, FileHonours
  <2>4. PICK r, w, o :
          /\ disk' = [disk EXCEPT ![q] = r] /\ wrote' = [wrote EXCEPT ![q] = w]
          /\ owed' = [owed EXCEPT ![q] = o] /\ w \subseteq wrote[q]
          /\ IF r.status = "gone" THEN w = {} /\ o \notin AtWork ELSE Honours(r, w, o)
          /\ o \in AtWork => (owed[q] \in AtWork \/ (cur = q /\ pc \in AtWork))
    <3>1. CASE Pause(q)
      <4>1. /\ disk' = [disk EXCEPT ![q] = [disk[q] EXCEPT !.status = "paused"]]
            /\ wrote' = [wrote EXCEPT ![q] = wrote[q] \ {"stop"}]
            /\ owed' = [owed EXCEPT ![q] = owed[q]]
        BY <2>2, <3>1 DEF Pause, Saved, Overrules
      <4>2. Honours([disk[q] EXCEPT !.status = "paused"], wrote[q] \ {"stop"}, owed[q])
        BY <2>2, <2>3 DEF Honours, Records
      <4>3. [disk[q] EXCEPT !.status = "paused"].status # "gone"
        BY <2>2 DEF Records
      <4> QED
        BY <4>1, <4>2, <4>3
    <3>2. CASE Answer(q)
      <4>1. /\ disk' = [disk EXCEPT ![q] = [disk[q] EXCEPT !.status = "active"]]
            /\ wrote' = [wrote EXCEPT ![q] = wrote[q] \ {"stop"}]
            /\ owed' = [owed EXCEPT ![q] = owed[q]]
        BY <2>2, <3>2 DEF Answer, Saved, Overrules
      <4>2. Honours([disk[q] EXCEPT !.status = "active"], wrote[q] \ {"stop"}, owed[q])
        BY <2>2, <2>3 DEF Honours, Records
      <4>3. [disk[q] EXCEPT !.status = "active"].status # "gone"
        BY <2>2 DEF Records
      <4> QED
        BY <4>1, <4>2, <4>3
    <3>3. CASE Resume(q)
      <4>1. /\ disk' = [disk EXCEPT ![q] = [disk[q] EXCEPT !.status = "active", !.streak = 0]]
            /\ wrote' = [wrote EXCEPT ![q] = wrote[q] \ {"stop"}]
            /\ owed' = [owed EXCEPT ![q] = owed[q]]
        BY <2>2, <3>3 DEF Resume, Saved, Overrules
      <4>2. Honours([disk[q] EXCEPT !.status = "active", !.streak = 0], wrote[q] \ {"stop"}, owed[q])
        BY <2>2, <2>3 DEF Honours, Records
      <4>3. [disk[q] EXCEPT !.status = "active", !.streak = 0].status # "gone"
        BY <2>2 DEF Records
      <4> QED
        BY <4>1, <4>2, <4>3
    <3>4. CASE ForceTick(q)
      <4>1. /\ disk' = [disk EXCEPT ![q] = [disk[q] EXCEPT !.requested = TRUE]]
            /\ wrote' = [wrote EXCEPT ![q] = wrote[q]]
            /\ owed' = [owed EXCEPT ![q] = IF cur = q THEN pc ELSE "sleep"]
        BY <2>2, <3>4 DEF ForceTick, Saved
      <4>2. /\ [disk[q] EXCEPT !.requested = TRUE].requested
            /\ [disk[q] EXCEPT !.requested = TRUE].run = disk[q].run
            /\ [disk[q] EXCEPT !.requested = TRUE].status = disk[q].status
        BY <2>2 DEF Records
      <4>3. Honours([disk[q] EXCEPT !.requested = TRUE], wrote[q], IF cur = q THEN pc ELSE "sleep")
        BY <2>3, <4>2 DEF Honours, ticks
      <4>4. "sleep" \notin AtWork
        BY DEF AtWork
      <4> QED
        BY <2>2, <4>1, <4>2, <4>3, <4>4
    <3>5. CASE Delete(q)
      <4>1. /\ disk' = [disk EXCEPT ![q] = [disk[q] EXCEPT !.status = "gone"]]
            /\ wrote' = [wrote EXCEPT ![q] = {}] /\ owed' = [owed EXCEPT ![q] = "sleep"]
        BY <3>5 DEF Delete, Saved
      <4>2. [disk[q] EXCEPT !.status = "gone"].status = "gone" /\ "sleep" \notin AtWork
        BY <2>2 DEF Records, AtWork
      <4> DEFINE r == [disk[q] EXCEPT !.status = "gone"]
                 w == {}
                 o == "sleep"
      <4>3. /\ disk' = [disk EXCEPT ![q] = r] /\ wrote' = [wrote EXCEPT ![q] = w]
            /\ owed' = [owed EXCEPT ![q] = o] /\ w \subseteq wrote[q]
            /\ IF r.status = "gone" THEN w = {} /\ o \notin AtWork ELSE Honours(r, w, o)
            /\ o \in AtWork => (owed[q] \in AtWork \/ (cur = q /\ pc \in AtWork))
        BY <4>1, <4>2
      <4> HIDE DEF r, w, o
      <4> QED
        BY <4>3
    <3> QED
      BY <2>1, <3>1, <3>2, <3>3, <3>4, <3>5
  <2>5. /\ disk'[q] = r /\ wrote'[q] = w /\ owed'[q] = o
        /\ \A p \in Projects \ {q} :
             disk'[p] = disk[p] /\ wrote'[p] = wrote[p] /\ owed'[p] = owed[p]
    BY <2>2, <2>4
  <2>6. ASSUME NEW p \in Projects
        PROVE  FileHonours(p)'
    BY <2>4, <2>5 DEF WritesInv, FileHonours, Silent
  <2>7. PassHonours'
    <3> SUFFICES ASSUME NEW i \in 1..Len(queue)
                 PROVE  /\ queue[i].record.status = "active"
                        /\ Honours(queue[i].record, wrote'[queue[i].project], owed'[queue[i].project])
      BY <2>2 DEF PassHonours
    <3>1. /\ queue[i].project \in Projects /\ queue[i].project # cur
          /\ queue[i].record.status = "active"
          /\ Honours(queue[i].record, wrote[queue[i].project], owed[queue[i].project])
      BY PassTypes DEF TickInv, OneTick, WritesInv, PassHonours
    <3>2. CASE queue[i].project = q
      BY <2>4, <2>5, <3>1, <3>2 DEF Honours
    <3>3. CASE queue[i].project # q
      BY <2>5, <3>1, <3>3
    <3> QED
      BY <3>1, <3>2, <3>3
  <2>8. CopyHonours'
    <3> SUFFICES ASSUME cur \in Projects
                 PROVE  /\ copy.status # "gone"
                        /\ pc \in Early => /\ copy.status = "active" /\ owed'[cur] \notin AtWork
                                           /\ Honours(copy, wrote'[cur], owed'[cur])
                        /\ pc \in Late => Honours(copy, wrote'[cur], owed'[cur])
      BY <2>2 DEF CopyHonours
    <3>1. CASE cur = q
      BY <2>4, <2>5, <3>1 DEF WritesInv, CopyHonours, Honours, AtWork, Early, Late
    <3>2. CASE cur # q
      BY <2>5, <3>2 DEF WritesInv, CopyHonours
    <3> QED
      BY <3>1, <3>2
  <2> QED
    BY <2>6, <2>7, <2>8 DEF WritesInv
<1> QED
  BY <1>1, <1>2

\* What a tool wrote, or a force raised, while the agents of a tick were at work
\* is still in the record when the tick is over, and after: no later save puts
\* back what was there before.
THEOREM WritesOfOthersStick == Spec => []OthersWritesStick
<1>1. Init => WritesInv
  BY NoneIsNoProject DEF Init, WritesInv, FileHonours, Silent, Honours, AtWork, PassHonours,
                         CopyHonours
<1>2. TickInv /\ TickInv' /\ WritesInv /\ [Next]_vars => WritesInv'
  <2> SUFFICES ASSUME TickInv, TickInv', WritesInv, [Next]_vars PROVE WritesInv'
    OBVIOUS
  <2>1. CASE UNCHANGED vars
    BY <2>1 DEF vars, loop, history, WritesInv, FileHonours, Silent, PassHonours, CopyHonours
  <2> QED
    BY <2>1, WritesPass, WritesEarly, WritesLate, WritesTools, WritesPeople DEF Next, Loop
<1>3. WritesInv => OthersWritesStick
  BY DEF WritesInv, FileHonours, Honours, AtWork, OthersWritesStick, ToolWritesStick,
         ForceOutlivesTick, ticks
<1> QED
  BY <1>1, <1>2, <1>3, TickTypes, PTL DEF Spec
=============================================================================
