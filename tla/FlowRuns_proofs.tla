-------------------------- MODULE FlowRuns_proofs --------------------------
(***************************************************************************)
(* Proofs about FlowRuns, for any graph, budget, runs and drivers: first   *)
(* the traces and how a run ends, then what its conversation says of it.   *)
(*                                                                         *)
(* A run may be driven by two at once, and each then writes the record it  *)
(* has in mind.  What still holds of every record and every drive alone is *)
(* that its trace is a walk of the graph; what holds of a run driven by    *)
(* one at a time is that its record, once ended, says what the drive will  *)
(* say again when it finishes.                                             *)
(***************************************************************************)
EXTENDS FlowRuns, SequenceTheorems, FiniteSetTheorems, WellFoundedInduction, TLAPS

RecFields   == {"status", "node", "trace", "chat", "wake", "snap"}
DriveFields == {"run", "node", "visits", "trace", "chat", "marked", "phase"}
Phases      == {"idle", "node", "paused"} \cup Ended

\* A record's trace is a walk from the entry, and a pause is its end.
RecOk(r, k) ==
    /\ DOMAIN k = RecFields
    /\ k.status \in Statuses /\ k.node \in Nodes /\ k.trace \in Seq(Nodes)
    /\ IsWalk(k.trace)
    /\ k.status # "none" => k.trace # <<>> /\ (r \notin Legacy => k.trace[1] = Entry)
    /\ k.status = "paused" => k.trace[Len(k.trace)] = k.node

\* So is a drive's, and the node it is at goes on with it.
DriveOk(e) ==
    /\ DOMAIN e = DriveFields
    /\ e.phase \in Phases /\ e.node \in Nodes /\ e.trace \in Seq(Nodes)
    /\ e.run \in RunIds \cup {"none"}
    /\ e.phase = "idle" <=> e.run = "none"
    /\ IsWalk(e.trace)
    /\ e.trace # <<>> /\ e.run \in RunIds \ Legacy => e.trace[1] = Entry
    /\ e.phase = "node" => /\ IsWalk(Append(e.trace, e.node))
                           /\ e.trace = <<>> => e.node = Entry
    /\ e.phase = "paused" => e.trace # <<>> /\ e.trace[Len(e.trace)] = e.node

Sound ==
    /\ DOMAIN disk = RunIds /\ DOMAIN drives = Drivers
    /\ \A r \in RunIds : RecOk(r, disk[r])
    /\ \A d \in Drivers : DriveOk(drives[d])

Busy(d) == drives[d].run # "none"

\* A run that is recorded or driven was started.
Begun ==
    /\ \A r \in RunIds : disk[r].status # "none" => r \in started
    /\ \A d \in Drivers : Busy(d) => drives[d].run \in started

\* Who has not taken a step has no record.
Blank ==
    \A d \in Drivers :
        Busy(d) /\ drives[d].trace = <<>> => disk[drives[d].run].status = "none"

\* A run without a record, or not muddled, has one driver.
Alone ==
    \A d1, d2 \in Drivers :
        /\ Busy(d1) /\ drives[d1].run = drives[d2].run
        /\ disk[drives[d1].run].status = "none" \/ drives[d1].run \notin muddled
        => d1 = d2

\* A drive that marked its record as ended is about to say so.
Marked ==
    \A d \in Drivers :
        /\ Busy(d) /\ drives[d].run \notin muddled
        /\ disk[drives[d].run].status \in Ended
        => drives[d].phase = disk[drives[d].run].status

RunInv == Sound /\ Begun /\ Blank /\ Alone /\ Marked

(***************************************************************************)
(* Walks.                                                                  *)
(***************************************************************************)

\* The flow has an entry.
LEMMA EntryIsANode == Entry \in Nodes
BY FlowIsAGraph DEF Entry, Nodes

\* Where a handle leads is a node, along an edge.
LEMMA EdgesLead ==
    ASSUME NEW n \in Nodes, NEW h, NEW m \in NextNodes(n, h)
    PROVE  m \in Nodes /\ \E e \in Flow.edges : e[1] = n /\ e[3] = m
<1>1. PICK g : m \in Leaving(n, g)
  BY DEF NextNodes
<1>2. PICK e \in Flow.edges : e[1] = n /\ e[3] = m
  BY <1>1 DEF Leaving
<1> QED BY <1>2, FlowIsAGraph DEF Nodes

\* A walk that ends where an edge leaves goes on along it.
LEMMA WalkGoesOn ==
    ASSUME NEW t \in Seq(Nodes), t # <<>>, IsWalk(t), NEW m \in Nodes,
           \E e \in Flow.edges : e[1] = t[Len(t)] /\ e[3] = m
    PROVE  IsWalk(Append(t, m))
<1> DEFINE u == Append(t, m)
<1>1. Len(t) \in Nat /\ Len(t) >= 1 /\ Len(u) = Len(t) + 1
  BY EmptySeq
<1>2. u[Len(t) + 1] = m /\ \A i \in 1..Len(t) : u[i] = t[i]
  BY AppendProperties
<1>3. ASSUME NEW i \in 1..(Len(u) - 1)
      PROVE  \E e \in Flow.edges : e[1] = u[i] /\ e[3] = u[i + 1]
  <2>1. CASE i = Len(t)
    BY <1>1, <1>2, <2>1
  <2>2. CASE i \in 1..(Len(t) - 1)
    <3>1. u[i] = t[i] /\ u[i + 1] = t[i + 1]
      BY <1>1, <1>2, <2>2
    <3> QED BY <2>2, <3>1 DEF IsWalk
  <2> QED BY <1>1, <1>3, <2>1, <2>2
<1> QED BY <1>3 DEF IsWalk

\* No node, or one, is a walk.
LEMMA ShortWalks == IsWalk(<<>>) /\ \A n \in Nodes : IsWalk(<<n>>) /\ IsWalk(Append(<<>>, n))
BY DEF IsWalk

\* The trace of a drive that visits its node.
LEMMA Visited ==
    ASSUME NEW e, DriveOk(e), e.phase = "node"
    PROVE  LET t == Append(e.trace, e.node) IN
              /\ t \in Seq(Nodes) /\ t # <<>> /\ IsWalk(t) /\ t[Len(t)] = e.node
              /\ e.run \in RunIds /\ (e.run \notin Legacy => t[1] = Entry)
<1> DEFINE t == Append(e.trace, e.node)
<1>1. e.trace \in Seq(Nodes) /\ e.node \in Nodes /\ e.run \in RunIds /\ IsWalk(t)
  BY DEF DriveOk
<1>2. /\ t \in Seq(Nodes) /\ Len(t) = Len(e.trace) + 1 /\ t[Len(t)] = e.node
      /\ \A i \in 1..Len(e.trace) : t[i] = e.trace[i]
      /\ Len(e.trace) \in Nat
  BY <1>1, AppendProperties
<1>3. t # <<>>
  BY <1>2, EmptySeq
<1>4. e.run \notin Legacy => t[1] = Entry
  <2>1. CASE e.trace = <<>>
    BY <1>2, <2>1 DEF DriveOk
  <2>2. CASE e.trace # <<>>
    <3>1. Len(e.trace) >= 1
      BY <1>1, <2>2, EmptySeq
    <3> QED BY <1>1, <1>2, <2>2, <3>1 DEF DriveOk
  <2> QED BY <2>1, <2>2
<1> QED BY <1>1, <1>2, <1>3, <1>4

\* A driver at rest.
LEMMA IdleIsOk == DriveOk(Idle)
BY EntryIsANode, ShortWalks, NoneIsNoRun DEF DriveOk, Idle, DriveFields, Phases

(***************************************************************************)
(* A step of one drive: what it must respect to keep the invariant.        *)
(***************************************************************************)

\* Only the drive and its run's record change, and the record never says
\* ended behind its drive's back.
LEMMA DriveStepKeeps ==
    ASSUME RunInv, NEW d \in Drivers, NEW r \in RunIds, drives[d].run = r,
           DOMAIN drives' = Drivers, DOMAIN disk' = RunIds,
           \A x \in Drivers \ {d} : drives'[x] = drives[x],
           \A y \in RunIds \ {r} : disk'[y] = disk[y],
           UNCHANGED <<started, muddled>>,
           DriveOk(drives'[d]), RecOk(r, disk'[r]),
           drives'[d].run \in {r, "none"},
           drives'[d].run = r =>
              /\ disk[r].status = "none" => disk'[r].status = "none"
              /\ drives'[d].trace # <<>> \/ disk'[r].status = "none"
              /\ disk'[r].status \in Ended /\ r \notin muddled
                    => drives'[d].phase = disk'[r].status,
           disk'[r].status = "none" => disk[r].status = "none"
    PROVE  RunInv'
<1> USE DEF RunInv
<1>1. r # "none" /\ Busy(d)
  BY NoneIsNoRun DEF Busy
<1>2. Sound'
  <2>1. \A x \in Drivers : DriveOk(drives'[x])
    BY DEF Sound
  <2>2. \A y \in RunIds : RecOk(y, disk'[y])
    BY DEF Sound
  <2> QED BY <2>1, <2>2 DEF Sound, DriveOk, RecOk, IsWalk
<1>3. Begun'
  BY <1>1 DEF Begun, Busy
<1>4. \A x \in Drivers : Busy(x) => drives[x].run \in RunIds
  BY DEF Sound, DriveOk, Busy
<1>5. \A x \in Drivers \ {d} :
        drives[x].run = r => r \in muddled /\ disk[r].status # "none"
  BY <1>1 DEF Alone
<1>6. Blank'
  <2> SUFFICES ASSUME NEW x \in Drivers, drives'[x].run # "none", drives'[x].trace = <<>>
               PROVE  disk'[drives'[x].run].status = "none"
    BY DEF Blank, Busy
  <2>1. CASE x = d
    BY <2>1
  <2>2. CASE x # d
    BY <1>4, <1>5, <2>2 DEF Blank, Busy
  <2> QED BY <2>1, <2>2
<1>7. Alone'
  <2> SUFFICES ASSUME NEW a \in Drivers, NEW b \in Drivers,
                      drives'[a].run # "none", drives'[a].run = drives'[b].run,
                      disk'[drives'[a].run].status = "none" \/ drives'[a].run \notin muddled
               PROVE  a = b
    BY DEF Alone, Busy
  <2>1. CASE a # d /\ b # d
    <3>1. Busy(a) /\ drives[a].run = drives[b].run /\ drives[a].run \in RunIds
      BY <1>4, <2>1 DEF Busy
    <3>2. disk'[drives[a].run].status = "none" => disk[drives[a].run].status = "none"
      BY <3>1
    <3> QED BY <2>1, <3>1, <3>2 DEF Alone
  <2>2. CASE a = d \/ b = d
    BY <1>1, <1>5, <2>2
  <2> QED BY <2>1, <2>2
<1>8. Marked'
  <2> SUFFICES ASSUME NEW x \in Drivers, drives'[x].run # "none", drives'[x].run \notin muddled,
                      disk'[drives'[x].run].status \in Ended
               PROVE  drives'[x].phase = disk'[drives'[x].run].status
    BY DEF Marked, Busy
  <2>1. CASE x = d
    BY <2>1
  <2>2. CASE x # d
    BY <1>4, <1>5, <2>2 DEF Marked, Busy
  <2> QED BY <2>1, <2>2
<1> QED BY <1>2, <1>3, <1>6, <1>7, <1>8

\* What mark_terminal writes: nothing for a run that never paused.
LEMMA MarkedTerminal ==
    ASSUME RunInv, NEW r \in RunIds, NEW status \in Ended, NEW t \in Seq(Nodes),
           IsWalk(t), t # <<>> \/ disk[r].status = "none",
           t # <<>> /\ r \notin Legacy => t[1] = Entry,
           MarkTerminal(r, status, t)
    PROVE  /\ DOMAIN disk' = RunIds
           /\ \A y \in RunIds \ {r} : disk'[y] = disk[y]
           /\ RecOk(r, disk'[r])
           /\ disk[r].status = "none" => disk'[r].status = "none"
           /\ disk[r].status # "none" => disk'[r].status = status
<1>0. RecOk(r, disk[r]) /\ DOMAIN disk = RunIds
  BY DEF RunInv, Sound
<1>1. CASE disk[r].status = "none"
  <2>1. disk' = disk
    BY <1>1 DEF MarkTerminal
  <2> QED BY <1>0, <1>1, <2>1
<1>2. CASE disk[r].status # "none"
  <2>1. disk' = [disk EXCEPT ![r].status = status, ![r].trace = t, ![r].wake = "never"]
    BY <1>2 DEF MarkTerminal
  <2>2. /\ DOMAIN disk' = RunIds /\ \A y \in RunIds \ {r} : disk'[y] = disk[y]
        /\ disk'[r] = [disk[r] EXCEPT !.status = status, !.trace = t, !.wake = "never"]
    BY <1>0, <2>1
  <2>3. /\ DOMAIN disk'[r] = RecFields /\ disk'[r].status = status
        /\ disk'[r].trace = t /\ disk'[r].node = disk[r].node
    BY <1>0, <2>2 DEF RecOk, RecFields
  <2>4. status \in Statuses /\ status # "paused"
    BY DEF Statuses, Ended
  <2>5. RecOk(r, disk'[r])
    BY <1>0, <1>2, <2>3, <2>4 DEF RecOk
  <2> QED BY <1>2, <2>2, <2>3, <2>5
<1> QED BY <1>1, <1>2

\* What is known of the drive that steps.
LEMMA Driving ==
    ASSUME RunInv, NEW d \in Drivers, NEW p \in Phases \ {"idle"}, At(d, p)
    PROVE  /\ drives[d].run \in RunIds /\ Busy(d)
           /\ DriveOk(drives[d]) /\ DOMAIN drives = Drivers
           /\ drives[d].trace # <<>> \/ disk[drives[d].run].status = "none"
           /\ drives[d].run \notin muddled /\ disk[drives[d].run].status \in Ended
                => p = disk[drives[d].run].status
<1>1. DriveOk(drives[d]) /\ DOMAIN drives = Drivers /\ drives[d].phase = p
  BY DEF RunInv, Sound, At
<1>2. drives[d].run \in RunIds /\ Busy(d)
  BY <1>1 DEF DriveOk, Busy
<1> QED BY <1>1, <1>2 DEF RunInv, Blank, Marked

\* Over budget the record is marked failed, and the drive will say so.
LEMMA ExhaustKeeps ==
    ASSUME RunInv, NEW d \in Drivers, Exhaust(d)
    PROVE  RunInv'
<1> DEFINE e == drives[d]
           r == e.run
<1>1. /\ At(d, "node") /\ MarkTerminal(r, "failed", e.trace)
      /\ drives' = [drives EXCEPT ![d] = [e EXCEPT !.phase = "failed"]]
      /\ UNCHANGED <<started, muddled>>
  BY DEF Exhaust, Set
<1>2. /\ r \in RunIds /\ DriveOk(e) /\ DOMAIN drives = Drivers
      /\ e.trace # <<>> \/ disk[r].status = "none"
  BY <1>1, Driving DEF Phases
<1>3. e.trace \in Seq(Nodes) /\ IsWalk(e.trace) /\ (e.trace # <<>> /\ r \notin Legacy => e.trace[1] = Entry)
  BY <1>2 DEF DriveOk
<1>4. /\ DOMAIN disk' = RunIds
      /\ \A y \in RunIds \ {r} : disk'[y] = disk[y]
      /\ RecOk(r, disk'[r])
      /\ disk[r].status = "none" => disk'[r].status = "none"
      /\ disk[r].status # "none" => disk'[r].status = "failed"
  BY <1>1, <1>2, <1>3, MarkedTerminal DEF Ended
<1>5. /\ DOMAIN drives' = Drivers /\ \A x \in Drivers \ {d} : drives'[x] = drives[x]
      /\ drives'[d] = [e EXCEPT !.phase = "failed"]
  BY <1>1, <1>2
<1>6. /\ DOMAIN drives'[d] = DriveFields /\ drives'[d].phase = "failed"
      /\ drives'[d].run = r /\ drives'[d].trace = e.trace /\ drives'[d].node = e.node
  BY <1>2, <1>5 DEF DriveOk, DriveFields
<1>7. DriveOk(drives'[d])
  BY <1>2, <1>6, NoneIsNoRun DEF DriveOk, Phases, Ended
<1>8. disk'[r].status \in Ended => disk'[r].status = "failed"
  BY <1>4 DEF Ended
<1> HIDE DEF e, r
<1> QED BY <1>1, <1>2, <1>4, <1>5, <1>6, <1>7, <1>8, DriveStepKeeps DEF e, r, Ended

\* A visit that ends the run: an end node, or an answer that leads nowhere.
LEMMA EndingKeeps ==
    ASSUME RunInv, NEW d \in Drivers, At(d, "node"), NEW status \in Ended, NEW e2,
           DOMAIN e2 = DriveFields, e2.phase = status, e2.run = drives[d].run,
           e2.node \in Nodes, e2.trace = Append(drives[d].trace, drives[d].node),
           drives' = [drives EXCEPT ![d] = e2],
           MarkTerminal(drives[d].run, status, Append(drives[d].trace, drives[d].node)),
           UNCHANGED <<started, muddled>>
    PROVE  RunInv'
<1> DEFINE r == drives[d].run
           t == Append(drives[d].trace, drives[d].node)
<1>1. r \in RunIds /\ DriveOk(drives[d]) /\ DOMAIN drives = Drivers
  BY Driving DEF Phases
<1>2. t \in Seq(Nodes) /\ t # <<>> /\ IsWalk(t) /\ (r \notin Legacy => t[1] = Entry)
  BY <1>1, Visited DEF At
<1>3. /\ DOMAIN disk' = RunIds
      /\ \A y \in RunIds \ {r} : disk'[y] = disk[y]
      /\ RecOk(r, disk'[r])
      /\ disk[r].status = "none" => disk'[r].status = "none"
      /\ disk[r].status # "none" => disk'[r].status = status
  BY <1>1, <1>2, MarkedTerminal
<1>4. /\ DOMAIN drives' = Drivers /\ drives'[d] = e2
      /\ \A x \in Drivers \ {d} : drives'[x] = drives[x]
  BY <1>1
<1>5. DriveOk(e2)
  BY <1>1, <1>2, NoneIsNoRun DEF DriveOk, Phases, Ended
<1>6. status # "none" /\ "none" \notin Ended
  BY DEF Ended
<1>7. disk'[r].status \in Ended => disk'[r].status = status
  BY <1>3, <1>6
<1> HIDE DEF t
<1> QED BY <1>1, <1>2, <1>3, <1>4, <1>5, <1>6, <1>7, DriveStepKeeps DEF t

\* The trace goes on along the edge the handle names, or the run ends.
LEMMA AdvanceKeeps ==
    ASSUME RunInv, NEW d \in Drivers, Advance(d)
    PROVE  RunInv'
<1> DEFINE e == drives[d]
           t == Append(e.trace, e.node)
<1>1. At(d, "node") /\ UNCHANGED <<started, muddled>>
  BY DEF Advance
<1> DEFINE Told(a) ==
             [Stepped(e) EXCEPT !.chat = IF a.spoke THEN ChatOf(e.run, e.chat) ELSE e.chat,
                                !.marked = e.marked \/ (a.spoke /\ e.run \in Owned)]
<1>2. PICK a \in Answers(e.node) :
        \/ /\ \E n \in NextNodes(e.node, a.handle) : Set(d, [Told(a) EXCEPT !.node = n])
           /\ disk' = disk
        \/ \E ended \in Ended :
             /\ MarkTerminal(e.run, ended, Told(a).trace)
             /\ Set(d, [Told(a) EXCEPT !.phase = ended])
  BY DEF Advance, Ended
<1> DEFINE told == Told(a)
<1>3. e.run \in RunIds /\ DriveOk(e) /\ DOMAIN drives = Drivers /\ e.phase = "node"
  BY <1>1, Driving DEF Phases, At
<1>4. /\ DOMAIN told = DriveFields /\ told.run = e.run /\ told.trace = t
      /\ told.node = e.node /\ told.phase = "node"
  BY <1>3 DEF DriveOk, DriveFields, Stepped
<1> HIDE DEF Told
<1>5. t \in Seq(Nodes) /\ t # <<>> /\ IsWalk(t) /\ t[Len(t)] = e.node /\ (e.run \notin Legacy => t[1] = Entry)
  BY <1>3, Visited
<1>6. e.node \in Nodes
  BY <1>3 DEF DriveOk
<1>7. CASE /\ \E n \in NextNodes(e.node, a.handle) : Set(d, [told EXCEPT !.node = n])
           /\ disk' = disk
  <2>1. PICK n \in NextNodes(e.node, a.handle) : drives' = [drives EXCEPT ![d] = [told EXCEPT !.node = n]]
    BY <1>7 DEF Set
  <2>2. n \in Nodes /\ \E g \in Flow.edges : g[1] = e.node /\ g[3] = n
    BY <1>6, EdgesLead
  <2>3. /\ DOMAIN drives' = Drivers /\ \A x \in Drivers \ {d} : drives'[x] = drives[x]
        /\ drives'[d] = [told EXCEPT !.node = n]
    BY <1>3, <2>1
  <2>4. /\ DOMAIN drives'[d] = DriveFields /\ drives'[d].run = e.run
        /\ drives'[d].trace = t /\ drives'[d].node = n /\ drives'[d].phase = "node"
    BY <1>4, <2>3 DEF DriveFields
  <2>5. IsWalk(Append(t, n))
    BY <1>5, <2>2, WalkGoesOn
  <2>6. DriveOk(drives'[d])
    BY <1>3, <1>5, <2>2, <2>4, <2>5, NoneIsNoRun DEF DriveOk, Phases
  <2>7. RecOk(e.run, disk[e.run]) /\ DOMAIN disk = RunIds
    BY <1>3 DEF RunInv, Sound
  <2>8. e.run \notin muddled => disk[e.run].status \notin Ended
    <3>1. e.run \notin muddled /\ disk[e.run].status \in Ended => "node" = disk[e.run].status
      BY <1>1, Driving DEF Phases
    <3> QED BY <3>1 DEF Ended
  <2> HIDE DEF t
  <2> QED BY <1>1, <1>3, <1>5, <1>7, <2>3, <2>4, <2>6, <2>7, <2>8, DriveStepKeeps
<1>8. CASE \E ended \in Ended :
             /\ MarkTerminal(e.run, ended, told.trace)
             /\ Set(d, [told EXCEPT !.phase = ended])
  <2>1. PICK ended \in Ended :
          /\ MarkTerminal(e.run, ended, t)
          /\ drives' = [drives EXCEPT ![d] = [told EXCEPT !.phase = ended]]
    BY <1>4, <1>8 DEF Set
  <2> DEFINE e2 == [told EXCEPT !.phase = ended]
  <2>2. /\ DOMAIN e2 = DriveFields /\ e2.phase = ended /\ e2.run = e.run
        /\ e2.node = e.node /\ e2.trace = t
    BY <1>4 DEF DriveFields
  <2> HIDE DEF e2
  <2> QED BY <1>1, <1>6, <2>1, <2>2, EndingKeeps DEF e2
<1> QED BY <1>2, <1>7, <1>8

\* An end node is visited, and ends the run.
LEMMA ReachEndKeeps ==
    ASSUME RunInv, NEW d \in Drivers, ReachEnd(d)
    PROVE  RunInv'
<1> DEFINE e == drives[d]
           status == EndStatus(e.node)
           e2 == [Stepped(e) EXCEPT !.phase = status]
<1>1. /\ At(d, "node") /\ UNCHANGED <<started, muddled>>
      /\ MarkTerminal(e.run, status, Stepped(e).trace)
      /\ drives' = [drives EXCEPT ![d] = e2]
  BY DEF ReachEnd, Set
<1>2. DriveOk(e)
  BY <1>1, Driving DEF Phases
<1>3. /\ DOMAIN e2 = DriveFields /\ e2.phase = status /\ e2.run = e.run
      /\ e2.node = e.node /\ e2.trace = Append(e.trace, e.node)
      /\ Stepped(e).trace = Append(e.trace, e.node)
  BY <1>2 DEF DriveOk, DriveFields, Stepped
<1>4. status \in Ended /\ e.node \in Nodes
  BY <1>2 DEF EndStatus, Ended, DriveOk
<1> HIDE DEF e2, status
<1> QED BY <1>1, <1>3, <1>4, EndingKeeps

\* A pausing node is visited, and the trace ends in it.
LEMMA ReachPauseKeeps ==
    ASSUME RunInv, NEW d \in Drivers, ReachPause(d)
    PROVE  RunInv'
<1> DEFINE e == drives[d]
           t == Append(e.trace, e.node)
<1>1. /\ At(d, "node") /\ UNCHANGED <<disk, started, muddled>>
      /\ drives' = [drives EXCEPT ![d] =
                      [Stepped(e) EXCEPT !.chat = ChatOf(e.run, e.chat), !.marked = TRUE,
                                         !.phase = "paused"]]
  BY DEF ReachPause, Set
<1>2. e.run \in RunIds /\ DriveOk(e) /\ DOMAIN drives = Drivers /\ e.phase = "node"
  BY <1>1, Driving DEF Phases, At
<1>3. t \in Seq(Nodes) /\ t # <<>> /\ IsWalk(t) /\ t[Len(t)] = e.node /\ (e.run \notin Legacy => t[1] = Entry)
  BY <1>2, Visited
<1>4. /\ DOMAIN drives' = Drivers /\ \A x \in Drivers \ {d} : drives'[x] = drives[x]
      /\ drives'[d] = [Stepped(e) EXCEPT !.chat = ChatOf(e.run, e.chat), !.marked = TRUE,
                                         !.phase = "paused"]
  BY <1>1, <1>2
<1>5. /\ DOMAIN drives'[d] = DriveFields /\ drives'[d].phase = "paused" /\ drives'[d].run = e.run
      /\ drives'[d].node = e.node /\ drives'[d].trace = t
  BY <1>2, <1>4 DEF DriveOk, DriveFields, Stepped
<1>6. DriveOk(drives'[d])
  BY <1>2, <1>3, <1>5, NoneIsNoRun DEF DriveOk, Phases
<1>7. RecOk(e.run, disk[e.run]) /\ DOMAIN disk = RunIds
  BY <1>2 DEF RunInv, Sound
<1>8. e.run \notin muddled => disk[e.run].status \notin Ended
  <2>1. e.run \notin muddled /\ disk[e.run].status \in Ended => "node" = disk[e.run].status
    BY <1>1, Driving DEF Phases
  <2> QED BY <2>1 DEF Ended
<1> HIDE DEF t
<1> QED BY <1>1, <1>2, <1>3, <1>4, <1>5, <1>6, <1>7, <1>8, DriveStepKeeps

\* The checkpoint holds the drive's walk.
LEMMA PersistKeeps ==
    ASSUME RunInv, NEW d \in Drivers, PersistPaused(d)
    PROVE  RunInv'
<1> DEFINE e == drives[d]
<1>1. /\ At(d, "paused") /\ UNCHANGED <<started, muddled>>
      /\ disk' = [disk EXCEPT ![e.run] = Checkpoint(e)]
      /\ drives' = [drives EXCEPT ![d] = Idle]
  BY DEF PersistPaused, Set
<1>2. e.run \in RunIds /\ DriveOk(e) /\ DOMAIN drives = Drivers /\ e.phase = "paused"
  BY <1>1, Driving DEF Phases, At
<1>3. /\ DOMAIN drives' = Drivers /\ \A x \in Drivers \ {d} : drives'[x] = drives[x]
      /\ drives'[d] = Idle
  BY <1>1, <1>2
<1>4. /\ DOMAIN disk' = RunIds /\ \A y \in RunIds \ {e.run} : disk'[y] = disk[y]
      /\ disk'[e.run] = Checkpoint(e)
  BY <1>1, <1>2 DEF RunInv, Sound
<1>5. /\ DOMAIN Checkpoint(e) = RecFields /\ Checkpoint(e).status = "paused"
      /\ Checkpoint(e).node = e.node /\ Checkpoint(e).trace = e.trace
  BY DEF Checkpoint, RecFields
<1>6. RecOk(e.run, disk'[e.run])
  BY <1>2, <1>4, <1>5 DEF RecOk, DriveOk, Statuses
<1>7. Idle.run = "none"
  BY DEF Idle
<1> QED BY <1>1, <1>2, <1>3, <1>4, <1>5, <1>6, <1>7, IdleIsOk, NoneIsNoRun, DriveStepKeeps

\* The record is marked once more, as the drive had marked it.
LEMMA FinishKeeps ==
    ASSUME RunInv, NEW d \in Drivers, Finish(d)
    PROVE  RunInv'
<1> DEFINE e == drives[d]
<1>1. PICK status \in Ended :
        /\ At(d, status) /\ UNCHANGED <<started, muddled>>
        /\ MarkTerminal(e.run, status, e.trace)
        /\ drives' = [drives EXCEPT ![d] = Idle]
  BY DEF Finish, Set
<1>2. /\ e.run \in RunIds /\ DriveOk(e) /\ DOMAIN drives = Drivers
      /\ e.trace # <<>> \/ disk[e.run].status = "none"
  BY <1>1, Driving DEF Phases, Ended
<1>3. /\ DOMAIN drives' = Drivers /\ \A x \in Drivers \ {d} : drives'[x] = drives[x]
      /\ drives'[d] = Idle
  BY <1>1, <1>2
<1>4. e.trace \in Seq(Nodes) /\ IsWalk(e.trace) /\ (e.trace # <<>> /\ e.run \notin Legacy => e.trace[1] = Entry)
  BY <1>2 DEF DriveOk
<1>5. /\ DOMAIN disk' = RunIds
      /\ \A y \in RunIds \ {e.run} : disk'[y] = disk[y]
      /\ RecOk(e.run, disk'[e.run])
      /\ disk[e.run].status # "none" => disk'[e.run].status = status
  BY <1>1, <1>2, <1>4, MarkedTerminal
<1>6. Idle.run = "none" /\ status # "none"
  BY DEF Idle, Ended
<1> QED BY <1>1, <1>2, <1>3, <1>5, <1>6, IdleIsOk, NoneIsNoRun, DriveStepKeeps

(***************************************************************************)
(* Setting off, and what happens around the drives.                        *)
(***************************************************************************)

\* A drive that sets off goes on from a record that is not ended.
LEMMA SetOffKeeps ==
    ASSUME RunInv, NEW d \in Drivers, NEW r \in RunIds, At(d, "idle"), NEW e2,
           DriveOk(e2), e2.run = r, drives' = [drives EXCEPT ![d] = e2],
           UNCHANGED disk, started \subseteq started', r \in started',
           muddled \subseteq muddled', disk[r].status \notin Ended,
           e2.trace = <<>> => disk[r].status = "none",
           disk[r].status = "none" \/ r \notin muddled'
              => \A x \in Drivers : drives[x].run # r
    PROVE  RunInv'
<1> USE DEF RunInv
<1>1. /\ DOMAIN drives' = Drivers /\ drives'[d] = e2
      /\ \A x \in Drivers \ {d} : drives'[x] = drives[x]
  BY DEF Sound
<1>2. r # "none"
  BY NoneIsNoRun
<1>3. Sound'
  <2>1. \A x \in Drivers : DriveOk(drives'[x])
    BY <1>1 DEF Sound
  <2>2. DOMAIN disk' = RunIds /\ \A y \in RunIds : RecOk(y, disk'[y])
    BY DEF Sound
  <2> QED BY <1>1, <2>1, <2>2 DEF Sound, DriveOk, RecOk, IsWalk
<1>4. Begun'
  BY <1>1 DEF Begun, Busy
<1>5. Blank'
  BY <1>1 DEF Blank, Busy
<1>6. Alone'
  <2> SUFFICES ASSUME NEW a \in Drivers, NEW b \in Drivers,
                      drives'[a].run # "none", drives'[a].run = drives'[b].run,
                      disk[drives'[a].run].status = "none" \/ drives'[a].run \notin muddled'
               PROVE  a = b
    BY DEF Alone, Busy
  <2>1. CASE a # d /\ b # d
    BY <1>1, <2>1 DEF Alone, Busy
  <2>2. CASE a = d \/ b = d
    BY <1>1, <2>2
  <2> QED BY <2>1, <2>2
<1>7. Marked'
  BY <1>1 DEF Marked, Busy
<1> QED BY <1>3, <1>4, <1>5, <1>6, <1>7

\* A new run has neither record nor driver.
LEMMA StartKeeps ==
    ASSUME RunInv, NEW d \in Drivers, NEW r \in RunIds, StartRun(d, r)
    PROVE  RunInv'
<1> DEFINE e2 == [Idle EXCEPT !.run = r, !.phase = "node"]
<1>1. /\ At(d, "idle") /\ r \notin started /\ started' = started \cup {r}
      /\ drives' = [drives EXCEPT ![d] = e2] /\ UNCHANGED <<disk, muddled>>
  BY DEF StartRun
<1>2. /\ DOMAIN e2 = DriveFields /\ e2.run = r /\ e2.phase = "node"
      /\ e2.trace = <<>> /\ e2.node = Entry
  BY DEF Idle, DriveFields
<1>3. DriveOk(e2)
  <2>1. <<>> \in Seq(Nodes) /\ IsWalk(<<>>) /\ IsWalk(Append(<<>>, Entry))
    BY EntryIsANode, ShortWalks
  <2>2. IsWalk(e2.trace) /\ IsWalk(Append(e2.trace, e2.node))
    BY <1>2, <2>1
  <2> HIDE DEF e2
  <2> QED BY <1>2, <2>1, <2>2, EntryIsANode, NoneIsNoRun DEF DriveOk, Phases
<1>4. disk[r].status = "none" /\ \A x \in Drivers : drives[x].run # r
  BY <1>1, NoneIsNoRun DEF RunInv, Begun, Busy
<1> HIDE DEF e2
<1> QED BY <1>1, <1>2, <1>3, <1>4, SetOffKeeps DEF Ended

\* A resume goes on from the node the record's walk ends in.
LEMMA ResumeKeeps ==
    ASSUME RunInv, NEW d \in Drivers, NEW r \in RunIds, NEW h, Resume(d, r, h)
    PROVE  RunInv'
<1> DEFINE rec == disk[r]
           exec == [Idle EXCEPT !.run = r, !.trace = Restored(rec), !.chat = rec.chat,
                                !.marked = (rec.chat # NoChat)]
<1>1. PICK e2 \in {[exec EXCEPT !.node = n, !.phase = "node"] : n \in NextNodes(rec.node, h)}
                    \cup {[exec EXCEPT !.node = rec.node, !.phase = "completed"]} :
        drives' = [drives EXCEPT ![d] = e2]
  BY DEF Resume
<1>2. /\ At(d, "idle") /\ rec.status = "paused"
      /\ UNCHANGED <<disk, started>>
      /\ muddled' = IF DrivenNow(r) # {} THEN muddled \cup {r} ELSE muddled
  BY DEF Resume, Resumable
<1>3. RecOk(r, rec) /\ r \in started
  BY <1>2 DEF RunInv, Sound, Begun
<1>4. /\ rec.node \in Nodes /\ rec.trace \in Seq(Nodes) /\ IsWalk(rec.trace)
      /\ rec.trace # <<>> /\ (r \notin Legacy => rec.trace[1] = Entry)
      /\ rec.trace[Len(rec.trace)] = rec.node
  BY <1>2, <1>3 DEF RecOk
<1>5. /\ DOMAIN exec = DriveFields /\ exec.run = r /\ exec.trace = rec.trace
  BY DEF Idle, DriveFields, Restored
<1>6. DriveOk(e2) /\ e2.run = r /\ e2.trace = rec.trace
  <2>1. CASE \E n \in NextNodes(rec.node, h) : e2 = [exec EXCEPT !.node = n, !.phase = "node"]
    <3>1. PICK n \in NextNodes(rec.node, h) : e2 = [exec EXCEPT !.node = n, !.phase = "node"]
      BY <2>1
    <3>2. n \in Nodes /\ \E g \in Flow.edges : g[1] = rec.node /\ g[3] = n
      <4>1. rec.node \in Nodes
        BY <1>4
      <4>2. \A k \in Nodes : \A m \in NextNodes(k, h) :
              m \in Nodes /\ \E g \in Flow.edges : g[1] = k /\ g[3] = m
        BY EdgesLead
      <4> QED BY <4>1, <4>2
    <3>3. IsWalk(Append(rec.trace, n))
      BY <1>4, <3>2, WalkGoesOn
    <3>4. /\ DOMAIN e2 = DriveFields /\ e2.run = r /\ e2.trace = rec.trace
          /\ e2.node = n /\ e2.phase = "node"
      BY <1>5, <3>1 DEF DriveFields
    <3> QED BY <1>4, <3>2, <3>3, <3>4, NoneIsNoRun DEF DriveOk, Phases
  <2>2. CASE e2 = [exec EXCEPT !.node = rec.node, !.phase = "completed"]
    <3>1. /\ DOMAIN e2 = DriveFields /\ e2.run = r /\ e2.trace = rec.trace
          /\ e2.node = rec.node /\ e2.phase = "completed"
      BY <1>5, <2>2 DEF DriveFields
    <3> QED BY <1>4, <3>1, NoneIsNoRun DEF DriveOk, Phases, Ended
  <2> QED BY <1>1, <2>1, <2>2
<1>7. r \notin muddled' => \A x \in Drivers : drives[x].run # r
  BY <1>2 DEF DrivenNow
<1>8. muddled \subseteq muddled'
  BY <1>2
<1> HIDE DEF exec
<1> QED BY <1>1, <1>2, <1>3, <1>4, <1>6, <1>7, <1>8, SetOffKeeps DEF Ended

\* The daemon ends a record nobody can drive any more.
LEMMA DaemonFailsKeeps ==
    ASSUME RunInv, NEW r \in RunIds, DaemonFails(r)
    PROVE  RunInv'
<1> USE DEF RunInv
<1>1. /\ disk[r].status = "paused"
      /\ disk' = [disk EXCEPT ![r].status = "failed", ![r].wake = "never"]
      /\ muddled' = IF DrivenNow(r) # {} THEN muddled \cup {r} ELSE muddled
      /\ UNCHANGED <<drives, started>>
  BY DEF DaemonFails, Orphaned
<1>2. RecOk(r, disk[r])
  BY DEF Sound
<1>3. /\ DOMAIN disk' = RunIds /\ \A y \in RunIds \ {r} : disk'[y] = disk[y]
      /\ disk'[r] = [disk[r] EXCEPT !.status = "failed", !.wake = "never"]
  BY <1>1 DEF Sound
<1>4. /\ DOMAIN disk'[r] = RecFields /\ disk'[r].status = "failed"
      /\ disk'[r].node = disk[r].node /\ disk'[r].trace = disk[r].trace
  BY <1>2, <1>3 DEF RecOk, RecFields
<1>5. RecOk(r, disk'[r])
  BY <1>1, <1>2, <1>4 DEF RecOk, Statuses, Ended
<1>6. Sound'
  <2>1. \A y \in RunIds : RecOk(y, disk'[y])
    BY <1>3, <1>5 DEF Sound
  <2>2. DOMAIN drives' = Drivers /\ \A x \in Drivers : DriveOk(drives'[x])
    BY <1>1 DEF Sound
  <2> QED BY <1>3, <2>1, <2>2 DEF Sound, DriveOk, RecOk, IsWalk
<1>7. \A y \in RunIds : disk'[y].status = "none" <=> disk[y].status = "none"
  BY <1>1, <1>3, <1>4
<1>8. \A x \in Drivers : Busy(x) => drives[x].run \in RunIds
  BY DEF Sound, DriveOk, Busy
<1>9. muddled \subseteq muddled'
      /\ (r \notin muddled' => \A x \in Drivers : drives[x].run # r)
  BY <1>1 DEF DrivenNow
<1>10. Begun' /\ Blank'
  BY <1>1, <1>7, <1>8 DEF Begun, Blank, Busy
<1>11. Alone'
  <2> SUFFICES ASSUME NEW a \in Drivers, NEW b \in Drivers, Busy(a),
                      drives[a].run = drives[b].run,
                      disk'[drives[a].run].status = "none" \/ drives[a].run \notin muddled'
               PROVE  a = b
    BY <1>1 DEF Alone, Busy
  <2> QED BY <1>7, <1>8, <1>9 DEF Alone
<1>12. Marked'
  <2> SUFFICES ASSUME NEW x \in Drivers, Busy(x), drives[x].run \notin muddled',
                      disk'[drives[x].run].status \in Ended
               PROVE  drives[x].phase = disk'[drives[x].run].status
    BY <1>1 DEF Marked, Busy
  <2>1. drives[x].run # r /\ drives[x].run \in RunIds /\ drives[x].run \notin muddled
    BY <1>8, <1>9
  <2> QED BY <1>3, <2>1 DEF Marked
<1> QED BY <1>6, <1>10, <1>11, <1>12

\* A crash leaves the records and no drive.
LEMMA CrashKeeps == ASSUME RunInv, Crash PROVE RunInv'
<1> USE DEF RunInv
<1>1. /\ drives' = [d \in Drivers |-> Idle] /\ UNCHANGED <<disk, started>>
  BY DEF Crash
<1>2. Idle.run = "none"
  BY DEF Idle
<1>3. \A d \in Drivers : DriveOk(drives'[d])
  BY <1>1, IdleIsOk
<1>4. \A r \in RunIds : RecOk(r, disk'[r])
  BY <1>1 DEF Sound
<1>5. Sound'
  BY <1>1, <1>3, <1>4 DEF Sound, DriveOk, RecOk, IsWalk
<1>6. Begun' /\ Blank' /\ Alone' /\ Marked'
  BY <1>1, <1>2 DEF Begun, Blank, Alone, Marked, Busy
<1> QED BY <1>5, <1>6

\* The rest touches neither records nor drives.
LEMMA OthersKeep ==
    ASSUME RunInv, UNCHANGED <<disk, drives, started, muddled>>
    PROVE  RunInv'
BY DEF RunInv, Sound, DriveOk, RecOk, IsWalk, Begun, Blank, Alone, Marked, Busy

\* The legacy records on disk are walks of one node.
LEMMA RunInit == Init => RunInv
<1> SUFFICES ASSUME Init PROVE RunInv
  OBVIOUS
<1>1. PICK n \in Nodes :
        disk = [r \in RunIds |->
                  IF r \in Legacy THEN [NoRecord EXCEPT !.status = "paused", !.node = n,
                                                        !.trace = <<n>>, !.wake = "timed"]
                  ELSE NoRecord]
  BY DEF Init
<1>2. drives = [d \in Drivers |-> Idle] /\ started = Legacy
  BY DEF Init
<1>3. Idle.run = "none"
  BY DEF Idle
<1>4. /\ DOMAIN NoRecord = RecFields /\ NoRecord.status = "none"
      /\ NoRecord.node = Entry /\ NoRecord.trace = <<>>
  BY DEF NoRecord, RecFields
<1>5. ASSUME NEW r \in RunIds
      PROVE  RecOk(r, disk[r]) /\ (disk[r].status # "none" => r \in started)
  <2>1. CASE r \in Legacy
    <3>1. disk[r] = [NoRecord EXCEPT !.status = "paused", !.node = n,
                                     !.trace = <<n>>, !.wake = "timed"]
      BY <1>1, <2>1
    <3>2. /\ DOMAIN disk[r] = RecFields /\ disk[r].status = "paused"
          /\ disk[r].node = n /\ disk[r].trace = <<n>>
      BY <1>4, <3>1 DEF RecFields
    <3>3. <<n>> \in Seq(Nodes) /\ <<n>> # <<>> /\ <<n>>[Len(<<n>>)] = n
      OBVIOUS
    <3> QED BY <1>2, <2>1, <3>2, <3>3, ShortWalks DEF RecOk, Statuses
  <2>2. CASE r \notin Legacy
    <3>1. disk[r] = NoRecord
      BY <1>1, <2>2
    <3>2. /\ DOMAIN disk[r] = RecFields /\ disk[r].status = "none"
          /\ disk[r].node = Entry /\ disk[r].trace = <<>>
      BY <1>4, <3>1
    <3>3. <<>> \in Seq(Nodes)
      OBVIOUS
    <3>4. RecOk(r, disk[r])
      BY <3>2, <3>3, EntryIsANode, ShortWalks DEF RecOk, Statuses
    <3> QED BY <3>2, <3>4
  <2> QED BY <2>1, <2>2
<1>6. Sound
  BY <1>1, <1>2, <1>5, IdleIsOk DEF Sound
<1>7. Begun /\ Blank /\ Alone /\ Marked
  BY <1>2, <1>3, <1>5 DEF Begun, Blank, Alone, Marked, Busy
<1> QED BY <1>6, <1>7 DEF RunInv

\* Every step keeps records and drives sound.
LEMMA RunStep == RunInv /\ [Next]_vars => RunInv'
<1> SUFFICES ASSUME RunInv, [Next]_vars
             PROVE  RunInv'
  OBVIOUS
<1>1. CASE \E d \in Drivers, r \in RunIds : StartRun(d, r) \/ ResumeByHand(d, r)
  BY <1>1, StartKeeps, ResumeKeeps DEF ResumeByHand
<1>2. CASE \E r \in RunIds : DaemonFails(r) \/ DaemonWakes(r)
  <2>1. Daemon \in Drivers
    BY DEF Drivers
  <2> QED BY <1>2, <2>1, DaemonFailsKeeps, ResumeKeeps DEF DaemonWakes
<1>3. CASE \E d \in Drivers : DriveStep(d)
  BY <1>3, ExhaustKeeps, AdvanceKeeps, ReachEndKeeps, ReachPauseKeeps, PersistKeeps,
     FinishKeeps DEF DriveStep
<1>4. CASE Reap \/ DeleteFlow
  BY <1>4, OthersKeep DEF Reap, DeleteFlow
<1>5. CASE Crash
  BY <1>5, CrashKeeps
<1>6. CASE UNCHANGED vars
  BY <1>6, OthersKeep DEF vars
<1> QED BY <1>1, <1>2, <1>3, <1>4, <1>5, <1>6 DEF Next

\* And so they always are.
LEMMA RunAlways == Spec => []RunInv
<1> QED BY RunInit, RunStep, PTL DEF Spec

(***************************************************************************)
(* The results.                                                            *)
(***************************************************************************)

\* No pause, resume, crash or second driver splices two walks into one trace
\* (flow_exec.rs carries the trace through the checkpoint and the resume).
THEOREM TracesAreWalks == Spec => []TraceIsAWalk
<1>1. RunInv => TraceIsAWalk
  <2> SUFFICES ASSUME RunInv PROVE TraceIsAWalk
    OBVIOUS
  <2>1. ASSUME NEW r \in RunIds
        PROVE  /\ IsWalk(disk[r].trace)
               /\ disk[r].status # "none" /\ r \notin Legacy => disk[r].trace[1] = Entry
    BY DEF RunInv, Sound, RecOk
  <2>2. ASSUME NEW d \in Drivers, At(d, "node")
        PROVE  /\ IsWalk(Append(drives[d].trace, drives[d].node))
               /\ \/ Head(Append(drives[d].trace, drives[d].node)) = Entry
                  \/ drives[d].run \in Legacy
    <3> DEFINE t == Append(drives[d].trace, drives[d].node)
    <3>1. DriveOk(drives[d]) /\ drives[d].phase = "node"
      BY <2>2 DEF RunInv, Sound, At
    <3>2. /\ t \in Seq(Nodes) /\ t # <<>> /\ IsWalk(t)
          /\ drives[d].run \notin Legacy => t[1] = Entry
      BY <3>1, Visited
    <3>3. Head(t) = t[1]
      BY <3>2
    <3> QED BY <3>2, <3>3
  <2> QED BY <2>1, <2>2 DEF TraceIsAWalk
<1> QED BY <1>1, RunAlways, PTL

\* The record of a run that one at a time drove is never taken back from its
\* end (resume_flow tests the status, which only mark_terminal settles).
LEMMA EndIsKept ==
    ASSUME RunInv, [Next]_vars, NEW r \in RunIds, disk[r].status \in Ended, r \notin muddled
    PROVE  disk'[r].status = disk[r].status
<1>1. DOMAIN disk = RunIds
  BY DEF RunInv, Sound
<1>2. ASSUME NEW d \in Drivers, NEW p \in {"node", "paused"}, At(d, p)
      PROVE  drives[d].run # r
  BY <1>2, Driving DEF Phases, Ended
<1>3. ASSUME NEW d \in Drivers, NEW y \in RunIds, NEW s, NEW t, MarkTerminal(y, s, t), y # r
      PROVE  disk'[r] = disk[r]
  BY <1>1, <1>3 DEF MarkTerminal
<1>4. ASSUME NEW d \in Drivers, DriveStep(d)
      PROVE  disk'[r].status = disk[r].status
  <2>1. CASE Exhaust(d)
    BY <1>2, <1>3, <2>1, Driving DEF Exhaust, Phases
  <2>2. CASE Advance(d)
    <3>1. At(d, "node") /\ (disk' = disk \/ \E s, t : MarkTerminal(drives[d].run, s, t))
      BY <2>2 DEF Advance
    <3> QED BY <1>2, <1>3, <3>1, Driving DEF Phases
  <2>3. CASE ReachEnd(d)
    BY <1>2, <1>3, <2>3, Driving DEF ReachEnd, Phases
  <2>4. CASE ReachPause(d)
    BY <2>4 DEF ReachPause
  <2>5. CASE PersistPaused(d)
    BY <1>1, <1>2, <2>5 DEF PersistPaused
  <2>6. CASE Finish(d)
    <3>1. PICK p \in Ended : At(d, p) /\ MarkTerminal(drives[d].run, p, drives[d].trace)
      BY <2>6 DEF Finish
    <3>2. CASE drives[d].run = r
      <4>1. p = disk[r].status
        BY <3>1, <3>2, Driving DEF Phases, Ended
      <4>2. RecOk(r, disk[r])
        BY DEF RunInv, Sound
      <4>3. disk'[r].status = p
        BY <1>1, <3>1, <3>2, <4>1, <4>2 DEF MarkTerminal, RecOk, RecFields, Ended
      <4> QED BY <4>1, <4>3
    <3>3. CASE drives[d].run # r
      BY <1>3, <3>1, <3>3, Driving DEF Phases, Ended
    <3> QED BY <3>2, <3>3
  <2> QED BY <1>4, <2>1, <2>2, <2>3, <2>4, <2>5, <2>6 DEF DriveStep
<1>5. ASSUME NEW y \in RunIds, DaemonFails(y)
      PROVE  disk'[r].status = disk[r].status
  BY <1>1, <1>5 DEF DaemonFails, Orphaned, Ended
<1>6. \/ disk' = disk
      \/ \E y \in RunIds : DaemonFails(y)
      \/ \E d \in Drivers : DriveStep(d)
  BY DEF Next, StartRun, ResumeByHand, DaemonWakes, Resume, Reap, DeleteFlow, Crash, vars
<1> QED BY <1>4, <1>5, <1>6

\* A run that ended stays ended (mark_terminal, resume_flow's status test).
THEOREM EndsAreFinal == Spec => EndedStaysEnded
<1>1. RunInv /\ [Next]_vars =>
        [\A r \in RunIds : disk[r].status \in Ended /\ r \notin muddled
              => disk'[r].status = disk[r].status]_vars
  BY EndIsKept
<1> QED BY <1>1, RunAlways, PTL DEF Spec, EndedStaysEnded

(***************************************************************************)
(* Conversations.  What a run said is where its record says: its drive is  *)
(* in the conversation the record names, a run in none has opened none, and*)
(* a drive about to write its checkpoint has said that it waits.  Without  *)
(* the first a second conversation would be opened at a resume, without the*)
(* second by the next line, and without the third a record would be paused *)
(* before its conversation is.                                             *)
(***************************************************************************)

\* The conversations: those in memory are a prefix of all there can be, those on
\* disk are in memory too, and only runs with an agent open one.
Opened == {c \in Chats : of[c] # "none"}

Shelves ==
    /\ store \subseteq Chats /\ shelf \in Seq(Chats) /\ ToSet(shelf) \subseteq store
    /\ said \in [Chats -> Lines] /\ of \in [Chats -> Owned \cup {"none"}]
    /\ \E n \in Nat : Opened = 1..n

\* The conversation of a record or of a drive was opened for its run.
IsChatOf(c, r) == c = NoChat \/ (c \in Chats /\ of[c] = r /\ r # "none")

Addressed ==
    /\ \A d \in Drivers : IsChatOf(drives[d].chat, drives[d].run)
    /\ \A r \in RunIds : IsChatOf(disk[r].chat, r) /\ (~disk[r].snap => disk[r].chat = NoChat)

\* A drive is in the conversation its run paused in.
Followed ==
    \A d \in Drivers : Busy(d) /\ drives[d].run \notin muddled =>
        disk[drives[d].run].chat \in {NoChat, drives[d].chat}

Mute(r) == \A c \in Chats : of[c] # r

\* A run that is in no conversation has opened none.
Unopened ==
    /\ \A r \in RunIds \ started : Mute(r)
    /\ \A d \in Drivers : Busy(d) /\ drives[d].run \notin Legacy \cup muddled
                          /\ drives[d].chat = NoChat => Mute(drives[d].run)
    /\ \A r \in RunIds \ (Legacy \cup muddled) :
          DrivenNow(r) = {} /\ disk[r].status = "paused" /\ disk[r].chat = NoChat => Mute(r)

\* A drive about to write its checkpoint has said that it pauses.
PauseIsSaid ==
    \A d \in Drivers : At(d, "paused") /\ drives[d].run \notin muddled
                       /\ drives[d].chat \in store => said[drives[d].chat] = "paused"

ThreadInv == Shelves /\ Addressed /\ Followed /\ Unopened /\ PauseIsSaid /\ ThreadTells

\* A non-empty set of numbers has a least one.
LEMMA LeastNumber ==
    ASSUME NEW S, S \subseteq Nat, S # {}
    PROVE  \E n \in S : \A m \in S : n <= m
<1> DEFINE less == OpToRel(<, Nat)
<1>1. PICK n \in S : \A m \in S : <<m, n>> \notin less
  <2>1. IsWellFoundedOn(less, Nat)
    BY NatLessThanWellFounded
  <2> QED BY <2>1, WFMin
<1>2. \A m, k \in Nat : m < k => <<m, k>> \in less
  BY DEF OpToRel
<1>3. ASSUME NEW m \in S
      PROVE  n <= m
  <2>1. m \in Nat /\ n \in Nat
    OBVIOUS
  <2>2. ~(m < n)
    BY <1>1, <1>2, <2>1
  <2> QED BY <2>1, <2>2
<1> QED BY <1>3

\* What Keep has after each element.
Keeping(s, gone, n, f) ==
    f = [i \in 0..n |-> IF i = 0 THEN <<>>
                        ELSE IF s[i] \in gone THEN f[i - 1] ELSE Append(f[i - 1], s[i])]

\* There is a function that does so, by the least length without one.
LEMMA KeepingExists ==
    ASSUME NEW s, NEW gone, NEW n \in Nat
    PROVE  \E f : Keeping(s, gone, n, f)
<1> DEFINE bad == {k \in Nat : \A f : ~Keeping(s, gone, k, f)}
<1> SUFFICES ASSUME n \in bad PROVE FALSE
  OBVIOUS
<1>1. PICK k \in bad : \A m \in bad : k <= m
  <2>1. bad \subseteq Nat /\ bad # {}
    OBVIOUS
  <2> HIDE DEF bad
  <2> QED BY <2>1, LeastNumber
<1>2. CASE k = 0
  <2> DEFINE f == [i \in 0..0 |-> <<>>]
  <2>1. Keeping(s, gone, 0, f)
    BY DEF Keeping
  <2> QED BY <1>1, <1>2, <2>1
<1>3. CASE k # 0
  <2>1. k - 1 \in Nat /\ k \in Nat /\ k - 1 \notin bad
    BY <1>1, <1>3
  <2>2. PICK g : Keeping(s, gone, k - 1, g)
    BY <2>1
  <2> DEFINE Next1(x, i) == IF s[i] \in gone THEN x ELSE Append(x, s[i])
             f == [i \in 0..k |-> IF i = k THEN Next1(g[k - 1], k) ELSE g[i]]
  <2>3. \A i \in 0..(k - 1) : f[i] = g[i] /\ f[i] = IF i = 0 THEN <<>> ELSE Next1(g[i - 1], i)
    <3> TAKE i \in 0..(k - 1)
    <3>1. i \in 0..k /\ i # k
      BY <2>1
    <3>2. g[i] = IF i = 0 THEN <<>> ELSE Next1(g[i - 1], i)
      BY <2>2 DEF Keeping
    <3> QED BY <3>1, <3>2
  <2>4. f[k] = Next1(g[k - 1], k)
    BY <2>1
  <2>5. \A i \in 0..k : f[i] = IF i = 0 THEN <<>> ELSE Next1(f[i - 1], i)
    <3> SUFFICES ASSUME NEW i \in 0..k
                 PROVE  f[i] = IF i = 0 THEN <<>> ELSE Next1(f[i - 1], i)
      OBVIOUS
    <3>1. CASE i = k
      <4>1. f[k - 1] = g[k - 1]
        BY <2>1, <2>3
      <4> HIDE DEF f
      <4> QED BY <1>3, <2>4, <3>1, <4>1
    <3>2. CASE i # k
      <4>1. i \in 0..(k - 1)
        BY <2>1, <3>2
      <4>2. i # 0 => i - 1 \in 0..(k - 1)
        BY <2>1, <4>1
      <4> HIDE DEF f
      <4> QED BY <2>3, <4>1, <4>2
    <3> QED BY <3>1, <3>2
  <2>6. f = [i \in 0..k |-> f[i]]
    OBVIOUS
  <2> HIDE DEF f
  <2>7. Keeping(s, gone, k, f)
    BY <2>5, <2>6 DEF Keeping
  <2> QED BY <1>1, <2>7
<1> QED BY <1>2, <1>3

\* Appending adds one element.
LEMMA AppendIs ==
    ASSUME NEW S, NEW k \in Seq(S), NEW x \in S
    PROVE  Append(k, x) \in Seq(S) /\ ToSet(Append(k, x)) = ToSet(k) \cup {x}
<1>1. /\ Append(k, x) \in Seq(S) /\ Len(Append(k, x)) = Len(k) + 1 /\ Len(k) \in Nat
      /\ \A i \in 1..Len(k) : Append(k, x)[i] = k[i]
      /\ Append(k, x)[Len(k) + 1] = x
  BY AppendProperties
<1> DEFINE w == Append(k, x)
<1>2. DOMAIN w = 1..Len(k) + 1 /\ DOMAIN k = 1..Len(k)
  BY <1>1, LenProperties
<1>3. \A i : i \in 1..Len(k) + 1 <=> i \in 1..Len(k) \/ i = Len(k) + 1
  BY <1>1
<1>4. (\A i \in 1..Len(k) : w[i] = k[i]) /\ w[Len(k) + 1] = x
  BY <1>1
<1>5. w \in Seq(S)
  BY <1>1
<1> HIDE DEF w
<1>6. ToSet(w) = ToSet(k) \cup {x}
  BY <1>2, <1>3, <1>4 DEF ToSet
<1> QED BY <1>5, <1>6 DEF w

\* What is kept is what is not gone.
LEMMA KeepIs ==
    ASSUME NEW S, NEW s \in Seq(S), NEW gone
    PROVE  /\ Keep(s, gone) \in Seq(S)
           /\ ToSet(Keep(s, gone)) = ToSet(s) \ gone
<1>1. Len(s) \in Nat /\ DOMAIN s = 1..Len(s) /\ \A i \in 1..Len(s) : s[i] \in S
  BY LenProperties, ElementOfSeq
<1> DEFINE kept == CHOOSE f : f = [i \in 0..Len(s) |->
                       IF i = 0 THEN <<>>
                       ELSE IF s[i] \in gone THEN f[i - 1] ELSE Append(f[i - 1], s[i])]
<1>2. kept = [i \in 0..Len(s) |->
                IF i = 0 THEN <<>>
                ELSE IF s[i] \in gone THEN kept[i - 1] ELSE Append(kept[i - 1], s[i])]
  <2>1. \E f : f = [i \in 0..Len(s) |->
                IF i = 0 THEN <<>>
                ELSE IF s[i] \in gone THEN f[i - 1] ELSE Append(f[i - 1], s[i])]
    <3>1. PICK f : Keeping(s, gone, Len(s), f)
      BY <1>1, KeepingExists
    <3> QED BY <3>1 DEF Keeping
  <2> QED BY <2>1
<1>3. Keep(s, gone) = kept[Len(s)]
  BY DEF Keep
<1> HIDE DEF kept
<1>4. /\ kept[0] = <<>>
      /\ \A i \in 1..Len(s) : kept[i] = IF s[i] \in gone THEN kept[i - 1]
                                        ELSE Append(kept[i - 1], s[i])
  <2>1. 0 \in 0..Len(s) /\ \A i \in 1..Len(s) : i \in 0..Len(s) /\ i # 0
    BY <1>1
  <2> QED BY <1>2, <2>1
<1> DEFINE Good(n) == /\ kept[n] \in Seq(S)
                      /\ ToSet(kept[n]) = {s[i] : i \in 1..n} \ gone
           bad == {n \in 0..Len(s) : ~Good(n)}
<1>5. ASSUME bad # {} PROVE FALSE
  <2>1. PICK n \in bad : \A m \in bad : n <= m
    <3>1. bad \subseteq Nat
      BY <1>1
    <3> HIDE DEF bad
    <3> QED BY <1>5, <3>1, LeastNumber
  <2>2. CASE n = 0
    <3>1. <<>> \in Seq(S) /\ DOMAIN <<>> = {}
      OBVIOUS
    <3>2. ToSet(<<>>) = {}
      BY <3>1 DEF ToSet
    <3>3. kept[n] = <<>> /\ {s[i] : i \in 1..n} = {}
      BY <1>4, <2>2
    <3>4. Good(n)
      BY <3>1, <3>2, <3>3
    <3> QED BY <2>1, <3>4
  <2>3. CASE n # 0
    <3>1. n \in 1..Len(s) /\ n - 1 \in 0..Len(s) /\ n - 1 < n /\ n \in Nat
      BY <1>1, <2>1, <2>3
    <3>2. Good(n - 1)
      <4>1. n - 1 \notin bad
        <5>1. n - 1 \in bad => n <= n - 1
          BY <2>1
        <5> QED BY <3>1, <5>1
      <4> QED BY <3>1, <4>1
    <3>3. {s[i] : i \in 1..n} = {s[i] : i \in 1..(n - 1)} \cup {s[n]}
      <4>1. \A i : i \in 1..n <=> i \in 1..(n - 1) \/ i = n
        BY <3>1
      <4> QED BY <4>1
    <3>4. s[n] \in S
      BY <1>1, <3>1
    <3>5. CASE s[n] \in gone
      <4>1. kept[n] = kept[n - 1]
        BY <1>4, <3>1, <3>5
      <4>2. Good(n)
        BY <3>2, <3>3, <3>5, <4>1
      <4> QED BY <2>1, <4>2
    <3>6. CASE s[n] \notin gone
      <4> DEFINE k == kept[n - 1]
      <4>1. kept[n] = Append(k, s[n])
        BY <1>4, <3>1, <3>6
      <4>2. k \in Seq(S) /\ ToSet(k) = {s[i] : i \in 1..(n - 1)} \ gone
        BY <3>2
      <4> HIDE DEF k
      <4>3. Append(k, s[n]) \in Seq(S) /\ ToSet(Append(k, s[n])) = ToSet(k) \cup {s[n]}
        BY <3>4, <4>2, AppendIs
      <4>4. Good(n)
        BY <3>3, <3>6, <4>1, <4>2, <4>3
      <4> QED BY <2>1, <4>4
    <3> QED BY <3>5, <3>6
  <2> QED BY <2>2, <2>3
<1>6. Good(Len(s))
  <2>1. Len(s) \in 0..Len(s)
    BY <1>1
  <2> QED BY <1>5, <2>1
<1>7. ToSet(s) = {s[i] : i \in 1..Len(s)}
  BY <1>1 DEF ToSet
<1> QED BY <1>3, <1>6, <1>7

\* A conversation written to is the most recent on the shelf.
LEMMA ToFrontIs ==
    ASSUME NEW S, NEW s \in Seq(S), NEW c \in S
    PROVE  ToFront(s, c) \in Seq(S) /\ ToSet(ToFront(s, c)) = {c} \cup ToSet(s)
<1> DEFINE k == Keep(s, {c})
<1>1. k \in Seq(S) /\ ToSet(k) = ToSet(s) \ {c}
  BY KeepIs
<1> HIDE DEF k
<1>2. <<c>> \o k \in Seq(S) /\ ToSet(<<c>> \o k) = {c} \cup ToSet(k)
  <2> DEFINE one == <<c>>
  <2>1. one \in Seq(S) /\ Len(one) = 1 /\ one[1] = c
    OBVIOUS
  <2> HIDE DEF one
  <2>2. /\ one \o k \in Seq(S) /\ Len(one \o k) = 1 + Len(k) /\ Len(k) \in Nat
        /\ \A i \in 1..1 + Len(k) : (one \o k)[i] = IF i <= 1 THEN one[i] ELSE k[i - 1]
    <3>1. one \o k \in Seq(S)
      BY <1>1, <2>1, ConcatProperties
    <3>2. Len(one \o k) = Len(one) + Len(k)
      BY <1>1, <2>1, ConcatProperties
    <3>3. \A i \in 1..(Len(one) + Len(k)) :
            (one \o k)[i] = IF i <= Len(one) THEN one[i] ELSE k[i - Len(one)]
      BY <1>1, <2>1, ConcatProperties
    <3>4. Len(k) \in Nat
      BY <1>1, LenProperties
    <3> QED BY <2>1, <3>1, <3>2, <3>3, <3>4
  <2>3. DOMAIN (one \o k) = 1..1 + Len(k) /\ DOMAIN k = 1..Len(k)
    BY <1>1, <2>2, LenProperties
  <2>4. 1 \in 1..1 + Len(k) /\ \A i \in 1..Len(k) : i + 1 \in 1..1 + Len(k) /\ ~(i + 1 <= 1)
                                                   /\ i + 1 - 1 = i
    BY <2>2
  <2>5. (one \o k)[1] = c /\ \A i \in 1..Len(k) : (one \o k)[i + 1] = k[i]
    BY <2>1, <2>2, <2>4
  <2>6. \A i \in 1..1 + Len(k) : i = 1 \/ \E j \in 1..Len(k) : i = j + 1
    <3> SUFFICES ASSUME NEW i \in 1..1 + Len(k), i # 1
                 PROVE  \E j \in 1..Len(k) : i = j + 1
      OBVIOUS
    <3>1. i - 1 \in 1..Len(k) /\ i = (i - 1) + 1
      BY <2>2
    <3> QED BY <3>1
  <2> DEFINE w == one \o k
  <2>7. ToSet(w) = {c} \cup ToSet(k)
    <3> HIDE DEF w
    <3>1. \A x : x \in ToSet(w) <=> \E i \in 1..1 + Len(k) : x = w[i]
      BY <2>3 DEF ToSet, w
    <3>2. \A x : x \in ToSet(k) <=> \E i \in 1..Len(k) : x = k[i]
      BY <2>3 DEF ToSet
    <3>3. w[1] = c /\ \A i \in 1..Len(k) : w[i + 1] = k[i]
      BY <2>5 DEF w
    <3>4. \A x : x \in ToSet(w) => x = c \/ x \in ToSet(k)
      BY <2>6, <3>1, <3>2, <3>3
    <3>5. \A x : x = c \/ x \in ToSet(k) => x \in ToSet(w)
      BY <2>4, <3>1, <3>2, <3>3
    <3> QED BY <3>4, <3>5
  <2> QED BY <2>2, <2>7 DEF one
<1> QED BY <1>1, <1>2 DEF ToFront, k

\* No conversation has the number of none.
LEMMA ChatsAre == NoChat \notin Chats /\ Chats \subseteq Nat
<1>1. Cardinality(RunIds) \in Nat
  BY RunsAreFinite, FS_CardinalityType
<1> QED BY <1>1 DEF Chats, NoChat

\* Conversations are numbered as they open.
LEMMA FreshIs ==
    ASSUME Shelves, Fresh \in Chats
    PROVE  /\ of[Fresh] = "none"
           /\ \A f : f = [of EXCEPT ![Fresh] = f[Fresh]] /\ f[Fresh] # "none" =>
                 \E n \in Nat : {c \in Chats : f[c] # "none"} = 1..n
<1>1. PICK n \in Nat : Opened = 1..n
  BY DEF Shelves
<1>2. Fresh = n + 1
  <2>1. Cardinality(1..n) = n
    <3>1. 1 \in Int /\ n \in Int
      OBVIOUS
    <3>2. Cardinality(1..n) = IF 1 > n THEN 0 ELSE n - 1 + 1
      BY <3>1, FS_Interval
    <3> QED BY <3>2
  <2>2. Fresh = 1 + Cardinality(Opened)
    BY DEF Fresh, Opened
  <2> QED BY <1>1, <2>1, <2>2
<1>3. of[Fresh] = "none"
  <2>1. Fresh \notin Opened
    BY <1>1, <1>2
  <2> QED BY <2>1 DEF Opened
<1>4. ASSUME NEW f, f = [of EXCEPT ![Fresh] = f[Fresh]], f[Fresh] # "none"
      PROVE  {c \in Chats : f[c] # "none"} = 1..(n + 1)
  <2>1. \A c \in Chats : c # Fresh => f[c] = of[c]
    BY <1>4 DEF Shelves
  <2>2. \A c \in Chats : f[c] # "none" <=> c \in Opened \/ c = Fresh
    BY <1>4, <2>1 DEF Opened
  <2>3. \A c : c \in 1..(n + 1) <=> c \in 1..n \/ c = n + 1
    OBVIOUS
  <2>4. \A c : c \in Opened => c \in Chats
    BY DEF Opened
  <2> QED BY <1>1, <1>2, <2>2, <2>3, <2>4
<1>5. n + 1 \in Nat
  OBVIOUS
<1> QED BY <1>3, <1>4, <1>5

\* What writing a line does: it reaches the run's conversation, opened on first
\* use, and only what is pruned leaves the shelf.
LEMMA SayIs ==
    ASSUME Shelves, NEW r \in RunIds, NEW chat \in Chats \cup {NoChat}, NEW line \in Lines,
           Say(r, chat, line)
    PROVE  /\ Shelves'
           /\ ChatOf(r, chat) \in Chats \cup {NoChat}
           /\ Opens(r, chat) => /\ ChatOf(r, chat) \in Chats /\ of[ChatOf(r, chat)] = "none"
                                /\ of' = [of EXCEPT ![ChatOf(r, chat)] = r]
           /\ ~Opens(r, chat) => ChatOf(r, chat) = chat /\ of' = of
           /\ \A x \in Chats : x # ChatOf(r, chat) =>
                 said'[x] = said[x] /\ (x \in store' => x \in store)
           /\ ChatOf(r, chat) \in store' => said'[ChatOf(r, chat)] = line
           /\ ToSet(shelf) \ ToSet(shelf') \subseteq Pruned
<1> DEFINE opens == Opens(r, chat)
           c     == ChatOf(r, chat)
           gone  == IF opens THEN Pruned ELSE {}
           live  == (store \ gone) \cup (IF opens THEN {c} ELSE {})
           heard == c # NoChat /\ c \in live
           kept  == Keep(shelf, gone)
<1>1. /\ opens => c \in Chats
      /\ store' = live
      /\ shelf' = IF heard THEN ToFront(kept, c) ELSE kept
      /\ said' = IF heard THEN [said EXCEPT ![c] = line] ELSE said
      /\ of' = IF opens THEN [of EXCEPT ![c] = r] ELSE of
  BY DEF Say
<1>2. /\ opens => c = Fresh /\ r \in Owned /\ r # "none"
      /\ ~opens => c = chat
  BY NoneIsNoRun DEF ChatOf, Opens
<1>3. /\ store \subseteq Chats /\ shelf \in Seq(Chats) /\ ToSet(shelf) \subseteq store
      /\ said \in [Chats -> Lines] /\ of \in [Chats -> Owned \cup {"none"}]
  BY DEF Shelves
<1>4. kept \in Seq(Chats) /\ ToSet(kept) = ToSet(shelf) \ gone
  BY <1>3, KeepIs
<1>5. c \in Chats \cup {NoChat}
  BY <1>1, <1>2
<1>6. opens => /\ of[c] = "none"
               /\ \E n \in Nat : {x \in Chats : of'[x] # "none"} = 1..n
  <2> SUFFICES ASSUME opens PROVE of[c] = "none" /\ \E n \in Nat : {x \in Chats : of'[x] # "none"} = 1..n
    OBVIOUS
  <2>1. Fresh \in Chats /\ c = Fresh /\ of' = [of EXCEPT ![Fresh] = r]
    BY <1>1, <1>2
  <2>2. of'[Fresh] = r /\ r # "none"
    BY <1>2, <1>3, <2>1
  <2> DEFINE f == of'
  <2>3. f = [of EXCEPT ![Fresh] = f[Fresh]] /\ f[Fresh] # "none"
    BY <2>1, <2>2
  <2> HIDE DEF f
  <2>4. of[Fresh] = "none" /\ \E n \in Nat : {x \in Chats : f[x] # "none"} = 1..n
    BY <2>1, <2>3, FreshIs
  <2> QED BY <2>1, <2>4 DEF f
<1> HIDE DEF opens, c, gone, kept
<1>7. store' \subseteq Chats
  BY <1>1, <1>3
<1>8. shelf' \in Seq(Chats) /\ ToSet(shelf') \subseteq store' /\ ToSet(shelf) \ ToSet(shelf') \subseteq gone
  <2>1. CASE heard
    <3>1. c \in Chats
      BY <1>5, <2>1
    <3>2. ToFront(kept, c) \in Seq(Chats) /\ ToSet(ToFront(kept, c)) = {c} \cup ToSet(kept)
      BY <1>4, <3>1, ToFrontIs
    <3>3. shelf' = ToFront(kept, c)
      BY <1>1, <2>1
    <3> QED BY <1>1, <1>3, <1>4, <2>1, <3>2, <3>3
  <2>2. CASE ~heard
    <3>1. shelf' = kept
      BY <1>1, <2>2
    <3> QED BY <1>1, <1>3, <1>4, <3>1
  <2> QED BY <2>1, <2>2
<1>9. said' \in [Chats -> Lines] /\ of' \in [Chats -> Owned \cup {"none"}]
  <2>1. said' \in [Chats -> Lines]
    BY <1>1, <1>3
  <2>2. of' \in [Chats -> Owned \cup {"none"}]
    BY <1>1, <1>2, <1>3
  <2> QED BY <2>1, <2>2
<1>10. \E n \in Nat : Opened' = 1..n
  <2>1. CASE opens
    BY <1>6, <2>1 DEF Opened
  <2>2. CASE ~opens
    <3>1. of' = of
      BY <1>1, <2>2
    <3>2. PICK n \in Nat : Opened = 1..n
      BY DEF Shelves
    <3>3. Opened' = Opened
      BY <3>1 DEF Opened
    <3> QED BY <3>2, <3>3
  <2> QED BY <2>1, <2>2
<1>11. Shelves'
  BY <1>7, <1>8, <1>9, <1>10 DEF Shelves
<1>12. \A x \in Chats : x # c => said'[x] = said[x] /\ (x \in store' => x \in store)
  BY <1>1, <1>3
<1>13. c \in store' => said'[c] = line
  <2> SUFFICES ASSUME c \in store' PROVE said'[c] = line
    OBVIOUS
  <2>1. c \in live /\ c \in Chats
    BY <1>1, <1>7
  <2>2. heard
    BY <2>1, ChatsAre
  <2> QED BY <1>1, <1>3, <2>1, <2>2
<1>14. gone \subseteq Pruned
  BY DEF gone
<1>15. opens => c \in Chats /\ of[c] = "none" /\ of' = [of EXCEPT ![c] = r]
  BY <1>1, <1>6
<1>16. ~opens => c = chat /\ of' = of
  BY <1>1, <1>2
<1> QED BY <1>5, <1>8, <1>11, <1>12, <1>13, <1>14, <1>15, <1>16 DEF opens, c

\* A step of one drive: where it writes, and what it must have said.
LEMMA DriveTells ==
    ASSUME RunInv, RunInv', ThreadInv, NEW d \in Drivers, NEW r \in RunIds, drives[d].run = r,
           NEW c \in Chats \cup {NoChat},
           \A x \in Drivers \ {d} : drives'[x] = drives[x],
           \A y \in RunIds \ {r} : disk'[y] = disk[y],
           UNCHANGED <<started, muddled>>,
           Shelves',
           \/ c = drives[d].chat /\ of' = of
           \/ /\ drives[d].chat = NoChat /\ c \in Chats
              /\ of[c] = "none" /\ of' = [of EXCEPT ![c] = r],
           \A x \in Chats : x # c => said'[x] = said[x] /\ (x \in store' => x \in store),
           \/ drives'[d].run = r /\ drives'[d].chat = c
           \/ drives'[d].run = "none" /\ drives'[d].chat = NoChat,
           \/ disk'[r].chat = disk[r].chat /\ (disk'[r].snap \/ ~disk[r].snap)
           \/ disk'[r].chat = c /\ disk'[r].snap,
           drives'[d].phase = "paused" /\ r \notin muddled /\ c \in store' => said'[c] = "paused",
           drives'[d].run = "none" /\ r \notin muddled =>
              /\ disk'[r].status = "paused" => disk'[r].chat = c
              /\ disk'[r].status \in {"paused", "failed"} /\ c \in store' => said'[c] = disk'[r].status
    PROVE  ThreadInv'
<1>0. Shelves /\ Addressed /\ Followed /\ Unopened /\ PauseIsSaid /\ OneThread /\ BadEndsAreTold
  BY DEF ThreadInv, ThreadTells
<1>1. r # "none" /\ Busy(d) /\ r \in started
  BY NoneIsNoRun DEF Busy, RunInv, Begun
<1>2. \A x \in Drivers \ {d} : drives[x].run = r => r \in muddled
  BY <1>1 DEF RunInv, Alone
<1>3. \A x \in Drivers : drives[x].run \in RunIds \cup {"none"} /\ (drives[x].phase = "idle" <=> ~Busy(x))
  BY DEF RunInv, Sound, DriveOk, Busy
<1>4. NoChat \notin Chats /\ of \in [Chats -> Owned \cup {"none"}]
  BY <1>0, ChatsAre DEF Shelves
\* whom a conversation is for does not change, but for one that opens
<1>5. /\ \A x \in Chats : of[x] # "none" => of'[x] = of[x]
      /\ \A x \in Chats : of'[x] # of[x] => x = c /\ of'[x] = r
      /\ c \in Chats => of'[c] = r
  <2>1. IsChatOf(drives[d].chat, r)
    BY <1>0 DEF Addressed
  <2> QED BY <1>4, <2>1 DEF IsChatOf
<1>6. \A y : y # r /\ Mute(y) => Mute(y)'
  BY <1>5 DEF Mute
<1>7. Addressed'
  <2>1. ASSUME NEW x, NEW y, IsChatOf(x, y)
        PROVE  IsChatOf(x, y)'
    BY <1>5, <2>1 DEF IsChatOf
  <2>2. IsChatOf(c, r)'
    BY <1>1, <1>5 DEF IsChatOf
  <2>3. ASSUME NEW x \in Drivers
        PROVE  IsChatOf(drives[x].chat, drives[x].run)'
    <3>1. CASE x = d
      BY <2>2, <3>1 DEF IsChatOf
    <3>2. CASE x # d
      <4>1. IsChatOf(drives[x].chat, drives[x].run) /\ drives'[x] = drives[x]
        BY <1>0, <3>2 DEF Addressed
      <4> QED BY <2>1, <4>1 DEF IsChatOf
    <3> QED BY <3>1, <3>2
  <2>4. ASSUME NEW y \in RunIds
        PROVE  IsChatOf(disk[y].chat, y)' /\ (~disk'[y].snap => disk'[y].chat = NoChat)
    <3>1. IsChatOf(disk[y].chat, y) /\ (~disk[y].snap => disk[y].chat = NoChat)
      BY <1>0 DEF Addressed
    <3>2. CASE y = r
      BY <2>1, <2>2, <3>1, <3>2 DEF IsChatOf
    <3>3. CASE y # r
      <4>1. disk'[y] = disk[y]
        BY <3>3
      <4> QED BY <2>1, <3>1, <4>1 DEF IsChatOf
    <3> QED BY <3>2, <3>3
  <2> QED BY <2>3, <2>4 DEF Addressed
<1>8. r \notin muddled => disk[r].chat \in {NoChat, drives[d].chat}
  BY <1>0, <1>1 DEF Followed
<1>9. r \notin muddled => disk'[r].chat \in {NoChat, c}
  BY <1>8
<1>10. Followed'
  <2> SUFFICES ASSUME NEW x \in Drivers, drives'[x].run # "none", drives'[x].run \notin muddled
               PROVE  disk'[drives'[x].run].chat \in {NoChat, drives'[x].chat}
    BY DEF Followed, Busy
  <2>1. CASE x = d
    BY <1>9, <2>1
  <2>2. CASE x # d
    <3>1. drives'[x] = drives[x] /\ drives[x].run # r /\ drives[x].run \in RunIds
      BY <1>2, <1>3, <2>2
    <3> QED BY <1>0, <3>1 DEF Followed, Busy
  <2> QED BY <2>1, <2>2
\* the run of a drive that is in no conversation has none
<1>11. r \notin Legacy \cup muddled /\ drives[d].chat = NoChat => Mute(r)
  BY <1>0, <1>1 DEF Unopened
<1>12. r \notin Legacy \cup muddled /\ c = NoChat => Mute(r)'
  BY <1>4, <1>11 DEF Mute
<1>13. \A y \in RunIds \ {r} : DrivenNow(y)' = DrivenNow(y)
  BY NoneIsNoRun DEF DrivenNow
<1>14. DrivenNow(r)' = {} => drives'[d].run = "none"
  BY DEF DrivenNow
<1>15. Unopened'
  <2>1. ASSUME NEW y \in RunIds \ started'
        PROVE  Mute(y)'
    BY <1>0, <1>1, <1>6, <2>1 DEF Unopened
  <2>2. ASSUME NEW x \in Drivers, drives'[x].run # "none",
               drives'[x].run \notin Legacy \cup muddled, drives'[x].chat = NoChat
        PROVE  \A k \in Chats : of'[k] # drives'[x].run
    <3>1. CASE x = d
      BY <1>12, <2>2, <3>1 DEF Mute
    <3>2. CASE x # d
      <4>1. drives'[x] = drives[x] /\ drives[x].run # r
        BY <1>2, <2>2, <3>2
      <4>2. Mute(drives[x].run)
        BY <1>0, <2>2, <4>1 DEF Unopened, Busy
      <4> QED BY <1>6, <4>1, <4>2 DEF Mute
    <3> QED BY <3>1, <3>2
  <2>3. ASSUME NEW y \in RunIds \ (Legacy \cup muddled), DrivenNow(y)' = {},
               disk'[y].status = "paused", disk'[y].chat = NoChat
        PROVE  Mute(y)'
    <3>1. CASE y = r
      BY <1>12, <1>14, <2>3, <3>1
    <3>2. CASE y # r
      <4>1. DrivenNow(y) = {} /\ disk'[y] = disk[y]
        BY <1>13, <2>3, <3>2
      <4>2. Mute(y)
        BY <1>0, <2>3, <4>1 DEF Unopened
      <4> QED BY <1>6, <3>2, <4>2
    <3> QED BY <3>1, <3>2
  <2> QED BY <2>1, <2>2, <2>3 DEF Unopened, Busy, Mute, DrivenNow
<1>16. PauseIsSaid'
  <2> SUFFICES ASSUME NEW x \in Drivers, drives'[x].phase = "paused",
                      drives'[x].run \notin muddled, drives'[x].chat \in store'
               PROVE  said'[drives'[x].chat] = "paused"
    BY DEF PauseIsSaid, At
  <2>1. CASE x = d
    <3>1. drives'[d].run # "none"
      BY <2>1 DEF RunInv, Sound, DriveOk
    <3> QED BY <2>1, <3>1
  <2>2. CASE x # d
    <3>1. drives'[x] = drives[x] /\ Busy(x)
      BY <1>3, <2>2
    <3>2. drives[x].run # r
      BY <1>2, <2>2, <3>1
    <3>3. drives[x].chat \in Chats
      BY <3>1 DEF Shelves
    <3>4. drives[x].chat # c
      <4>1. IsChatOf(drives[x].chat, drives[x].run)
        BY <1>0 DEF Addressed
      <4>2. of'[drives[x].chat] = drives[x].run
        BY <1>4, <1>5, <3>3, <4>1 DEF IsChatOf
      <4> QED BY <1>5, <3>2, <3>3, <4>2
    <3> QED BY <1>0, <3>1, <3>3, <3>4 DEF PauseIsSaid, At
  <2> QED BY <2>1, <2>2
<1>17. OneThread'
  <2> SUFFICES ASSUME NEW a \in Chats, NEW b \in Chats, of'[a] = of'[b],
                      of'[a] \in RunIds \ (Legacy \cup muddled)
               PROVE  a = b
    BY DEF OneThread
  <2>1. CASE of'[a] = of[a] /\ of'[b] = of[b]
    <3>1. of[a] = of[b] /\ of[a] \in RunIds \ (Legacy \cup muddled)
      BY <2>1
    <3> QED BY <1>0, <3>1 DEF OneThread
  <2>2. CASE of'[a] # of[a] \/ of'[b] # of[b]
    <3>1. c \in Chats /\ of'[c] # of[c] /\ of'[a] = r
      BY <1>5, <2>2
    <3>2. drives[d].chat = NoChat
      BY <3>1
    <3>3. Mute(r)
      BY <1>11, <3>1, <3>2
    <3> QED BY <1>5, <3>1, <3>3 DEF Mute
  <2> QED BY <2>1, <2>2
<1>18. BadEndsAreTold'
  <2> SUFFICES ASSUME NEW y \in RunIds, NEW k \in store', DrivenNow(y)' = {}, y \notin muddled,
                      of'[k] = y, disk'[y].chat = k, disk'[y].status \in {"paused", "failed"}
               PROVE  said'[k] = disk'[y].status
    BY DEF BadEndsAreTold, Resting, DrivenNow
  <2>1. k \in Chats
    BY DEF Shelves
  <2>2. CASE y = r
    BY <1>4, <1>9, <1>14, <2>1, <2>2
  <2>3. CASE y # r
    <3>1. DrivenNow(y) = {} /\ disk'[y] = disk[y]
      BY <1>13, <2>3
    <3>2. k # c /\ of[k] = y
      BY <1>5, <2>1, <2>3
    <3>3. said'[k] = said[k] /\ k \in store
      BY <2>1, <3>2
    <3> QED BY <1>0, <3>1, <3>2, <3>3 DEF BadEndsAreTold, Resting
  <2> QED BY <2>2, <2>3
<1> QED BY <1>7, <1>10, <1>15, <1>16, <1>17, <1>18 DEF ThreadInv, ThreadTells

\* A step between which nothing is said and nobody drives.
LEMMA NothingSaid ==
    ASSUME RunInv, RunInv', ThreadInv, Shelves', UNCHANGED <<disk, drives, started, said, of>>,
           store' \subseteq store, muddled \subseteq muddled'
    PROVE  ThreadInv'
<1>0. Addressed /\ Followed /\ Unopened /\ PauseIsSaid /\ OneThread /\ BadEndsAreTold
  BY DEF ThreadInv, ThreadTells
<1>1. Addressed'
  BY <1>0 DEF Addressed, IsChatOf
<1>2. Followed'
  BY <1>0 DEF Followed, Busy
<1>3. Unopened'
  BY <1>0 DEF Unopened, Mute, Busy, DrivenNow
<1>4. PauseIsSaid'
  BY <1>0 DEF PauseIsSaid, At
<1>5. OneThread'
  BY <1>0 DEF OneThread
<1>6. BadEndsAreTold'
  BY <1>0 DEF BadEndsAreTold, Resting, DrivenNow
<1> QED BY <1>1, <1>2, <1>3, <1>4, <1>5, <1>6 DEF ThreadInv, ThreadTells

\* A drive sets off in the conversation the record names.
LEMMA SetOffTells ==
    ASSUME RunInv, RunInv', ThreadInv, NEW d \in Drivers, NEW r \in RunIds, At(d, "idle"), NEW e2,
           e2.run = r, e2.chat = disk[r].chat, e2.phase # "paused",
           drives' = [drives EXCEPT ![d] = e2], UNCHANGED disk, SayNothing,
           started \subseteq started', muddled \subseteq muddled',
           r \notin Legacy \cup muddled' /\ disk[r].chat = NoChat => Mute(r)
    PROVE  ThreadInv'
<1>0. Shelves /\ Addressed /\ Followed /\ Unopened /\ PauseIsSaid /\ OneThread /\ BadEndsAreTold
  BY DEF ThreadInv, ThreadTells
<1>1. /\ drives'[d] = e2 /\ \A x \in Drivers \ {d} : drives'[x] = drives[x]
      /\ r # "none"
  BY NoneIsNoRun DEF RunInv, Sound
<1>2. UNCHANGED <<store, shelf, said, of>>
  BY DEF SayNothing
<1>3. ~Busy(d)
  BY DEF RunInv, Sound, DriveOk, At, Busy
<1>4. Shelves'
  BY <1>0, <1>2 DEF Shelves, Opened
<1>5. Addressed'
  <2>1. ASSUME NEW x \in Drivers
        PROVE  IsChatOf(drives[x].chat, drives[x].run)'
    BY <1>0, <1>1, <1>2 DEF Addressed, IsChatOf
  <2>2. ASSUME NEW y \in RunIds
        PROVE  IsChatOf(disk[y].chat, y)' /\ (~disk'[y].snap => disk'[y].chat = NoChat)
    BY <1>0, <1>2 DEF Addressed, IsChatOf
  <2> QED BY <2>1, <2>2 DEF Addressed
<1>6. Followed'
  BY <1>0, <1>1 DEF Followed, Busy
<1>7. Unopened'
  <2>1. \A y \in RunIds \ started' : \A k \in Chats : of'[k] # y
    BY <1>0, <1>2 DEF Unopened, Mute
  <2>2. ASSUME NEW x \in Drivers, drives'[x].run # "none",
               drives'[x].run \notin Legacy \cup muddled', drives'[x].chat = NoChat
        PROVE  \A k \in Chats : of'[k] # drives'[x].run
    BY <1>0, <1>1, <1>2, <2>2 DEF Unopened, Mute, Busy
  <2>3. ASSUME NEW y \in RunIds \ (Legacy \cup muddled'), \A x \in Drivers : drives'[x].run # y,
               disk'[y].status = "paused", disk'[y].chat = NoChat
        PROVE  \A k \in Chats : of'[k] # y
    <3>1. y # r
      BY <1>1, <2>3
    <3>2. \A x \in Drivers : drives[x].run # y
      BY <1>1, <1>3, <2>3, NoneIsNoRun DEF Busy
    <3>3. DrivenNow(y) = {}
      BY <3>2 DEF DrivenNow
    <3> QED BY <1>0, <1>2, <2>3, <3>3 DEF Unopened, Mute
  <2> QED BY <2>1, <2>2, <2>3 DEF Unopened, Mute, Busy, DrivenNow
<1>8. PauseIsSaid'
  BY <1>0, <1>1, <1>2 DEF PauseIsSaid, At
<1>9. OneThread'
  BY <1>0, <1>2 DEF OneThread
<1>10. BadEndsAreTold'
  <2> SUFFICES ASSUME NEW y \in RunIds, NEW k \in store', DrivenNow(y)' = {}, y \notin muddled',
                      of'[k] = y, disk'[y].chat = k, disk'[y].status \in {"paused", "failed"}
               PROVE  said'[k] = disk'[y].status
    BY DEF BadEndsAreTold, Resting, DrivenNow
  <2>1. \A x \in Drivers : drives'[x].run # y
    BY DEF DrivenNow
  <2>2. \A x \in Drivers : drives[x].run # y
    BY <1>1, <1>3, <2>1, NoneIsNoRun DEF Busy
  <2>3. DrivenNow(y) = {}
    BY <2>2 DEF DrivenNow
  <2> QED BY <1>0, <1>2, <2>3 DEF BadEndsAreTold, Resting
<1> QED BY <1>4, <1>5, <1>6, <1>7, <1>8, <1>9, <1>10 DEF ThreadInv, ThreadTells

\* A new run has opened no conversation, and its record names none.
LEMMA StartTells ==
    ASSUME RunInv, RunInv', ThreadInv, NEW d \in Drivers, NEW r \in RunIds, StartRun(d, r)
    PROVE  ThreadInv'
<1> DEFINE e2 == [Idle EXCEPT !.run = r, !.phase = "node"]
<1>1. /\ At(d, "idle") /\ r \notin started /\ started' = started \cup {r}
      /\ drives' = [drives EXCEPT ![d] = e2] /\ UNCHANGED <<disk, muddled>> /\ SayNothing
  BY DEF StartRun
<1>2. e2.run = r /\ e2.chat = NoChat /\ e2.phase # "paused"
  BY DEF Idle
<1>3. Mute(r) /\ IsChatOf(disk[r].chat, r)
  BY <1>1 DEF ThreadInv, Unopened, Addressed
<1>4. disk[r].chat = NoChat
  BY <1>3 DEF Mute, IsChatOf
<1> HIDE DEF e2
<1> QED BY <1>1, <1>2, <1>3, <1>4, SetOffTells

\* A resume goes on in the record's conversation.
LEMMA ResumeTells ==
    ASSUME RunInv, RunInv', ThreadInv, NEW d \in Drivers, NEW r \in RunIds, NEW h, Resume(d, r, h)
    PROVE  ThreadInv'
<1> DEFINE rec == disk[r]
           exec == [Idle EXCEPT !.run = r, !.trace = Restored(rec), !.chat = rec.chat,
                                !.marked = (rec.chat # NoChat)]
<1>1. PICK e2 \in {[exec EXCEPT !.node = n, !.phase = "node"] : n \in NextNodes(rec.node, h)}
                    \cup {[exec EXCEPT !.node = rec.node, !.phase = "completed"]} :
        drives' = [drives EXCEPT ![d] = e2]
  BY DEF Resume
<1>2. /\ At(d, "idle") /\ rec.status = "paused"
      /\ UNCHANGED <<disk, started>> /\ SayNothing
      /\ muddled' = IF DrivenNow(r) # {} THEN muddled \cup {r} ELSE muddled
  BY DEF Resume, Resumable
<1>3. e2.run = r /\ e2.chat = rec.chat /\ e2.phase # "paused"
  <2>1. /\ DOMAIN exec = DriveFields /\ exec.run = r /\ exec.chat = rec.chat
    BY DEF Idle, DriveFields
  <2> HIDE DEF exec
  <2> QED BY <1>1, <2>1 DEF DriveFields
<1>4. r \notin Legacy \cup muddled' /\ rec.chat = NoChat => Mute(r)
  <2> SUFFICES ASSUME r \notin Legacy \cup muddled', rec.chat = NoChat PROVE Mute(r)
    OBVIOUS
  <2>1. DrivenNow(r) = {} /\ r \notin muddled
    BY <1>2
  <2> QED BY <1>2, <2>1 DEF ThreadInv, Unopened
<1>5. muddled \subseteq muddled' /\ started \subseteq started'
  BY <1>2
<1> HIDE DEF exec
<1> QED BY <1>1, <1>2, <1>3, <1>4, <1>5, SetOffTells

\* A run that is failed for want of a flow never had a conversation.
LEMMA DaemonFailsTells ==
    ASSUME RunInv, RunInv', ThreadInv, NEW r \in RunIds, DaemonFails(r)
    PROVE  ThreadInv'
<1>0. Shelves /\ Addressed /\ Followed /\ Unopened /\ PauseIsSaid /\ OneThread /\ BadEndsAreTold
  BY DEF ThreadInv, ThreadTells
<1>1. /\ disk[r].status = "paused" /\ ~disk[r].snap
      /\ disk' = [disk EXCEPT ![r].status = "failed", ![r].wake = "never"]
      /\ muddled \subseteq muddled'
      /\ UNCHANGED <<drives, started, store, shelf, said, of>>
  BY DEF DaemonFails, Orphaned, SayNothing
<1>2. /\ \A y \in RunIds \ {r} : disk'[y] = disk[y]
      /\ disk'[r] = [disk[r] EXCEPT !.status = "failed", !.wake = "never"]
      /\ DOMAIN disk[r] = RecFields
  BY <1>1 DEF RunInv, Sound, RecOk
<1>3. disk'[r].status = "failed" /\ disk'[r].chat = disk[r].chat /\ disk'[r].snap = disk[r].snap
  BY <1>2 DEF RecFields
<1>4. disk[r].chat = NoChat
  BY <1>0, <1>1 DEF Addressed
<1>5. \A y \in RunIds : disk'[y].chat = disk[y].chat /\ disk'[y].snap = disk[y].snap
  BY <1>2, <1>3
<1>6. Shelves'
  BY <1>0, <1>1 DEF Shelves, Opened
<1>7. Addressed'
  BY <1>0, <1>1, <1>5 DEF Addressed, IsChatOf
<1>8. Followed'
  <2>1. \A x \in Drivers : Busy(x) => drives[x].run \in RunIds
    BY DEF RunInv, Sound, DriveOk, Busy
  <2>2. ASSUME NEW x \in Drivers, Busy(x), drives[x].run \notin muddled'
        PROVE  disk'[drives[x].run].chat \in {NoChat, drives[x].chat}
    <3>1. drives[x].run \notin muddled /\ drives[x].run \in RunIds
      BY <1>1, <2>1, <2>2
    <3>2. disk[drives[x].run].chat \in {NoChat, drives[x].chat}
      BY <1>0, <2>2, <3>1 DEF Followed
    <3> QED BY <1>5, <3>1, <3>2
  <2>3. drives' = drives
    BY <1>1
  <2> QED BY <2>2, <2>3 DEF Followed, Busy
<1>9. Unopened'
  <2>1. ASSUME NEW y \in RunIds, disk'[y].status = "paused"
        PROVE  disk'[y] = disk[y]
    BY <1>2, <1>3, <2>1
  <2>2. ASSUME NEW y \in RunIds \ (Legacy \cup muddled'), DrivenNow(y) = {},
               disk'[y].status = "paused", disk'[y].chat = NoChat
        PROVE  Mute(y)
    <3>1. disk[y].status = "paused" /\ disk[y].chat = NoChat /\ y \notin muddled
      BY <1>1, <2>1, <2>2
    <3> QED BY <1>0, <2>2, <3>1 DEF Unopened
  <2>3. \A y \in RunIds \ started : Mute(y)
    BY <1>0 DEF Unopened
  <2>4. ASSUME NEW x \in Drivers, Busy(x), drives[x].run \notin Legacy \cup muddled',
               drives[x].chat = NoChat
        PROVE  Mute(drives[x].run)
    BY <1>0, <1>1, <2>4 DEF Unopened
  <2> QED BY <1>1, <2>2, <2>3, <2>4 DEF Unopened, Mute, Busy, DrivenNow
<1>10. PauseIsSaid'
  BY <1>0, <1>1 DEF PauseIsSaid, At
<1>11. OneThread'
  BY <1>0, <1>1 DEF OneThread
<1>12. BadEndsAreTold'
  <2> SUFFICES ASSUME NEW y \in RunIds, NEW k \in store', DrivenNow(y)' = {}, y \notin muddled',
                      of'[k] = y, disk'[y].chat = k, disk'[y].status \in {"paused", "failed"}
               PROVE  said'[k] = disk'[y].status
    BY DEF BadEndsAreTold, Resting, DrivenNow
  <2>1. k \in Chats
    BY <1>6 DEF Shelves
  <2>2. y # r
    BY <1>3, <1>4, <2>1, ChatsAre
  <2>3. disk'[y] = disk[y] /\ DrivenNow(y) = {}
    BY <1>1, <1>2, <2>2 DEF DrivenNow
  <2>4. k \in store /\ of[k] = y /\ said'[k] = said[k] /\ y \notin muddled
    BY <1>1
  <2>5. disk[y].chat = k /\ (disk[y].status = "paused" \/ disk[y].status = "failed")
    BY <2>3
  <2>6. said[k] = disk[y].status
    BY <1>0, <2>3, <2>4, <2>5 DEF BadEndsAreTold, Resting
  <2> QED BY <2>3, <2>4, <2>6
<1> QED BY <1>6, <1>7, <1>8, <1>9, <1>10, <1>11, <1>12 DEF ThreadInv, ThreadTells

\* The sweep of old conversations, and a restart.
LEMMA ReapTells ==
    ASSUME RunInv, RunInv', ThreadInv, Reap
    PROVE  ThreadInv'
<1>1. PICK c \in ToSet(shelf) \cap Reaped :
        /\ shelf' = Keep(shelf, {c}) /\ store' = store \ {c}
        /\ UNCHANGED <<disk, drives, started, said, of, muddled>>
  BY DEF Reap
<1>2. Shelves
  BY DEF ThreadInv
<1>3. shelf' \in Seq(Chats) /\ ToSet(shelf') = ToSet(shelf) \ {c}
  BY <1>1, <1>2, KeepIs DEF Shelves
<1>4. Shelves'
  BY <1>1, <1>2, <1>3 DEF Shelves, Opened
<1> QED BY <1>1, <1>4, NothingSaid

\* A restart forgets what was not on disk, and muddles what it cut short.
LEMMA CrashTells ==
    ASSUME RunInv, ThreadInv, Crash
    PROVE  ThreadInv'
<1>0. Shelves /\ Addressed /\ Followed /\ Unopened /\ PauseIsSaid /\ OneThread /\ BadEndsAreTold
  BY DEF ThreadInv, ThreadTells
<1>1. /\ muddled' = muddled \cup {drives[d].run : d \in {x \in Drivers : ~At(x, "idle")}}
      /\ drives' = [d \in Drivers |-> Idle]
      /\ store' = ToSet(shelf)
      /\ UNCHANGED <<disk, started, shelf, said, of>>
  BY DEF Crash
<1>2. Idle.run = "none" /\ Idle.chat = NoChat /\ Idle.phase = "idle"
  BY DEF Idle
<1>3. \A x \in Drivers : drives'[x].run = "none" /\ drives'[x].chat = NoChat /\ drives'[x].phase = "idle"
  BY <1>1, <1>2
<1>4. \A x \in Drivers : Busy(x) => ~At(x, "idle")
  BY DEF RunInv, Sound, DriveOk, Busy, At
<1>5. ASSUME NEW y \in RunIds, y \notin muddled'
      PROVE  y \notin muddled /\ DrivenNow(y) = {}
  <2>1. \A x \in Drivers : drives[x].run # y
    <3> SUFFICES ASSUME NEW x \in Drivers, drives[x].run = y PROVE FALSE
      OBVIOUS
    <3>1. Busy(x)
      BY NoneIsNoRun DEF Busy
    <3> QED BY <1>1, <1>4, <1>5, <3>1
  <2> QED BY <1>1, <1>5, <2>1 DEF DrivenNow
<1>6. Shelves'
  BY <1>0, <1>1 DEF Shelves, Opened
<1>7. Addressed'
  BY <1>0, <1>1, <1>3 DEF Addressed, IsChatOf
<1>8. Followed' /\ PauseIsSaid'
  BY <1>3 DEF Followed, Busy, PauseIsSaid, At
<1>9. Unopened'
  <2>1. \A y \in RunIds \ started' : Mute(y)
    BY <1>0, <1>1 DEF Unopened
  <2>2. ASSUME NEW y \in RunIds \ (Legacy \cup muddled'), disk'[y].status = "paused",
               disk'[y].chat = NoChat
        PROVE  Mute(y)
    BY <1>0, <1>1, <1>5, <2>2 DEF Unopened
  <2>3. of' = of
    BY <1>1
  <2> QED BY <1>3, <2>1, <2>2, <2>3 DEF Unopened, Mute, Busy
<1>10. OneThread'
  BY <1>0, <1>1 DEF OneThread
<1>11. BadEndsAreTold'
  <2> SUFFICES ASSUME NEW y \in RunIds, NEW k \in store', y \notin muddled',
                      of'[k] = y, disk'[y].chat = k, disk'[y].status \in {"paused", "failed"}
               PROVE  said'[k] = disk'[y].status
    BY DEF BadEndsAreTold, Resting
  <2>1. k \in store /\ DrivenNow(y) = {} /\ y \notin muddled
    BY <1>0, <1>1, <1>5 DEF Shelves
  <2> QED BY <1>0, <1>1, <2>1 DEF BadEndsAreTold, Resting
<1> QED BY <1>6, <1>7, <1>8, <1>9, <1>10, <1>11 DEF ThreadInv, ThreadTells

\* Nothing was said, and nothing opened.
LEMMA ThreadInit == Init => ThreadInv
<1> SUFFICES ASSUME Init PROVE ThreadInv
  OBVIOUS
<1>1. PICK n \in Nodes :
        disk = [r \in RunIds |->
                  IF r \in Legacy THEN [NoRecord EXCEPT !.status = "paused", !.node = n,
                                                        !.trace = <<n>>, !.wake = "timed"]
                  ELSE NoRecord]
  BY DEF Init
<1>2. /\ drives = [d \in Drivers |-> Idle] /\ started = Legacy
      /\ store = {} /\ shelf = <<>>
      /\ said = [c \in Chats |-> "nothing"]
      /\ of = [c \in Chats |-> "none"]
  BY DEF Init
<1>3. Idle.run = "none" /\ Idle.chat = NoChat /\ Idle.phase = "idle"
  BY DEF Idle
<1>4. ASSUME NEW r \in RunIds
      PROVE  disk[r].chat = NoChat
  <2>1. DOMAIN NoRecord = RecFields /\ NoRecord.chat = NoChat
    BY DEF NoRecord, RecFields
  <2>2. disk[r] \in {NoRecord, [NoRecord EXCEPT !.status = "paused", !.node = n,
                                                !.trace = <<n>>, !.wake = "timed"]}
    BY <1>1
  <2> QED BY <2>1, <2>2 DEF RecFields
<1>5. \A x \in Drivers : drives[x].run = "none" /\ drives[x].chat = NoChat /\ drives[x].phase = "idle"
  BY <1>2, <1>3
<1>6. \A r \in RunIds : Mute(r)
  BY <1>2, NoneIsNoRun DEF Mute
<1>7. Shelves
  <2>1. <<>> \in Seq(Chats) /\ DOMAIN <<>> = {}
    OBVIOUS
  <2>2. ToSet(shelf) = {} /\ shelf \in Seq(Chats)
    BY <1>2, <2>1 DEF ToSet
  <2>3. Opened = 1..0
    BY <1>2 DEF Opened
  <2>4. said \in [Chats -> Lines] /\ of \in [Chats -> Owned \cup {"none"}]
    BY <1>2 DEF Lines
  <2>5. \E k \in Nat : Opened = 1..k
    BY <2>3
  <2> QED BY <1>2, <2>2, <2>4, <2>5 DEF Shelves
<1>8. Addressed
  BY <1>4, <1>5 DEF Addressed, IsChatOf
<1>9. Followed /\ PauseIsSaid
  BY <1>5 DEF Followed, Busy, PauseIsSaid, At
<1>10. Unopened
  BY <1>5, <1>6 DEF Unopened, Busy
<1>11. OneThread /\ BadEndsAreTold
  BY <1>2, NoneIsNoRun DEF OneThread, BadEndsAreTold
<1> QED BY <1>7, <1>8, <1>9, <1>10, <1>11 DEF ThreadInv, ThreadTells

\* What a step of a drive starts from.
LEMMA DrivenFrom ==
    ASSUME RunInv, ThreadInv, NEW d \in Drivers, ~At(d, "idle")
    PROVE  /\ drives[d].run \in RunIds /\ DOMAIN drives = Drivers /\ DOMAIN disk = RunIds
           /\ DOMAIN drives[d] = DriveFields /\ DOMAIN disk[drives[d].run] = RecFields
           /\ drives[d].chat \in Chats \cup {NoChat}
           /\ drives[d].chat \in Chats => drives[d].run \in Owned
           /\ Shelves
<1>1. /\ drives[d].run \in RunIds /\ DOMAIN drives = Drivers /\ DOMAIN disk = RunIds
      /\ DOMAIN drives[d] = DriveFields
  BY DEF RunInv, Sound, DriveOk, At
<1>2. DOMAIN disk[drives[d].run] = RecFields
  BY <1>1 DEF RunInv, Sound, RecOk
<1>3. Shelves /\ IsChatOf(drives[d].chat, drives[d].run)
  BY DEF ThreadInv, Addressed
<1> QED BY <1>1, <1>2, <1>3, ChatsAre, NoneIsNoRun DEF IsChatOf, Shelves

\* mark_terminal leaves the conversation of the record alone.
LEMMA MarkedChat ==
    ASSUME NEW r \in RunIds, DOMAIN disk = RunIds, DOMAIN disk[r] = RecFields,
           NEW s, NEW t, MarkTerminal(r, s, t)
    PROVE  /\ \A y \in RunIds \ {r} : disk'[y] = disk[y]
           /\ disk'[r].chat = disk[r].chat /\ disk'[r].snap = disk[r].snap
           /\ disk[r].status # "none" => disk'[r].status = s
           /\ disk[r].status = "none" => disk'[r].status = "none"
<1>1. CASE disk[r].status = "none"
  BY <1>1 DEF MarkTerminal
<1>2. CASE disk[r].status # "none"
  <2>1. disk' = [disk EXCEPT ![r].status = s, ![r].trace = t, ![r].wake = "never"]
    BY <1>2 DEF MarkTerminal
  <2>2. /\ \A y \in RunIds \ {r} : disk'[y] = disk[y]
        /\ disk'[r] = [disk[r] EXCEPT !.status = s, !.trace = t, !.wake = "never"]
    BY <2>1
  <2> QED BY <1>2, <2>2 DEF RecFields
<1> QED BY <1>1, <1>2

\* A visit, spoken or not, that goes on to a node or comes to an end.
LEMMA VisitTells ==
    ASSUME RunInv, RunInv', ThreadInv, NEW d \in Drivers, ~At(d, "idle"), NEW e2,
           drives' = [drives EXCEPT ![d] = e2], e2.run = drives[d].run, e2.phase # "paused",
           UNCHANGED <<started, muddled>>,
           disk' = disk \/ \E s, t : MarkTerminal(drives[d].run, s, t),
           \/ SayNothing /\ e2.chat = drives[d].chat
           \/ /\ \E line \in Lines : Say(drives[d].run, drives[d].chat, line)
              /\ e2.chat = ChatOf(drives[d].run, drives[d].chat)
    PROVE  ThreadInv'
<1> DEFINE e == drives[d]
           r == e.run
           c == e2.chat
<1>1. /\ r \in RunIds /\ DOMAIN drives = Drivers /\ DOMAIN disk = RunIds
      /\ DOMAIN disk[r] = RecFields /\ e.chat \in Chats \cup {NoChat} /\ Shelves
  BY DrivenFrom
<1>2. r # "none" /\ drives'[d] = e2 /\ \A x \in Drivers \ {d} : drives'[x] = drives[x]
  BY <1>1, NoneIsNoRun
<1>3. /\ \A y \in RunIds \ {r} : disk'[y] = disk[y]
      /\ disk'[r].chat = disk[r].chat /\ disk'[r].snap = disk[r].snap
  BY <1>1, MarkedChat
<1>4. /\ c \in Chats \cup {NoChat} /\ Shelves'
      /\ \/ c = e.chat /\ of' = of
         \/ e.chat = NoChat /\ c \in Chats /\ of[c] = "none" /\ of' = [of EXCEPT ![c] = r]
      /\ \A x \in Chats : x # c => said'[x] = said[x] /\ (x \in store' => x \in store)
  <2>1. CASE SayNothing /\ e2.chat = e.chat
    <3>1. UNCHANGED <<store, shelf, said, of>>
      BY <2>1 DEF SayNothing
    <3>2. Shelves'
      BY <1>1, <3>1 DEF Shelves, Opened
    <3> QED BY <1>1, <2>1, <3>1, <3>2
  <2>2. CASE /\ \E line \in Lines : Say(r, e.chat, line)
             /\ e2.chat = ChatOf(r, e.chat)
    <3>1. PICK line \in Lines : Say(r, e.chat, line)
      BY <2>2
    <3> HIDE DEF r, e
    <3>2. Opens(r, e.chat) => e.chat = NoChat
      BY DEF Opens
    <3> QED BY <1>1, <2>2, <3>1, <3>2, SayIs
  <2> QED BY <2>1, <2>2
<1> HIDE DEF c
<1>5. drives'[d].run = r /\ drives'[d].chat = c /\ drives'[d].phase # "paused"
  BY <1>2 DEF c
<1> QED BY <1>1, <1>2, <1>3, <1>4, <1>5, DriveTells

\* Over budget: the ending is told by the step after.
LEMMA ExhaustTells ==
    ASSUME RunInv, RunInv', ThreadInv, NEW d \in Drivers, Exhaust(d)
    PROVE  ThreadInv'
<1> DEFINE e == drives[d]
           e2 == [e EXCEPT !.phase = "failed"]
<1>1. /\ ~At(d, "idle") /\ MarkTerminal(e.run, "failed", e.trace)
      /\ drives' = [drives EXCEPT ![d] = e2] /\ SayNothing
      /\ UNCHANGED <<started, muddled>>
  BY DEF Exhaust, Set, At
<1>2. DOMAIN e = DriveFields
  BY <1>1, DrivenFrom
<1>3. e2.run = e.run /\ e2.chat = e.chat /\ e2.phase # "paused"
  BY <1>2 DEF DriveFields
<1> HIDE DEF e2
<1> QED BY <1>1, <1>3, VisitTells

\* An answer may open the conversation.
LEMMA AdvanceTells ==
    ASSUME RunInv, RunInv', ThreadInv, NEW d \in Drivers, Advance(d)
    PROVE  ThreadInv'
<1> DEFINE e == drives[d]
           Told(a) ==
             [Stepped(e) EXCEPT !.chat = IF a.spoke THEN ChatOf(e.run, e.chat) ELSE e.chat,
                                !.marked = e.marked \/ (a.spoke /\ e.run \in Owned)]
<1>1. ~At(d, "idle") /\ At(d, "node") /\ UNCHANGED <<started, muddled>>
  BY DEF Advance, At
<1>2. PICK a \in Answers(e.node) :
        /\ IF a.spoke THEN Say(e.run, e.chat, "turn") ELSE SayNothing
        /\ \/ /\ \E n \in NextNodes(e.node, a.handle) : Set(d, [Told(a) EXCEPT !.node = n])
              /\ disk' = disk
           \/ \E ended \in Ended :
                /\ MarkTerminal(e.run, ended, Told(a).trace)
                /\ Set(d, [Told(a) EXCEPT !.phase = ended])
  BY DEF Advance, Ended
<1> DEFINE told == Told(a)
<1>3. DOMAIN e = DriveFields /\ e.phase = "node"
  BY <1>1, DrivenFrom DEF At
<1>4. /\ DOMAIN told = DriveFields /\ told.run = e.run /\ told.phase = "node"
      /\ told.chat = IF a.spoke THEN ChatOf(e.run, e.chat) ELSE e.chat
  BY <1>3 DEF DriveFields, Stepped
<1> HIDE DEF Told
<1>5. PICK e2 : /\ drives' = [drives EXCEPT ![d] = e2]
                /\ e2.run = e.run /\ e2.chat = told.chat /\ e2.phase # "paused"
                /\ disk' = disk \/ \E s, t : MarkTerminal(e.run, s, t)
  <2>1. CASE /\ \E n \in NextNodes(e.node, a.handle) : Set(d, [told EXCEPT !.node = n])
             /\ disk' = disk
    <3>1. PICK n : drives' = [drives EXCEPT ![d] = [told EXCEPT !.node = n]]
      BY <2>1 DEF Set
    <3> DEFINE e2 == [told EXCEPT !.node = n]
    <3>2. e2.run = e.run /\ e2.chat = told.chat /\ e2.phase # "paused"
      BY <1>4 DEF DriveFields
    <3> HIDE DEF e2
    <3> QED BY <2>1, <3>1, <3>2 DEF e2
  <2>2. CASE \E ended \in Ended :
                /\ MarkTerminal(e.run, ended, told.trace)
                /\ Set(d, [told EXCEPT !.phase = ended])
    <3>1. PICK ended \in Ended :
            /\ MarkTerminal(e.run, ended, told.trace)
            /\ drives' = [drives EXCEPT ![d] = [told EXCEPT !.phase = ended]]
      BY <2>2 DEF Set
    <3> DEFINE e2 == [told EXCEPT !.phase = ended]
    <3>2. e2.run = e.run /\ e2.chat = told.chat /\ e2.phase # "paused"
      BY <1>4 DEF DriveFields, Ended
    <3> HIDE DEF e2
    <3> QED BY <3>1, <3>2 DEF e2
  <2> QED BY <1>2, <2>1, <2>2
<1>6. \/ SayNothing /\ e2.chat = e.chat
      \/ /\ \E line \in Lines : Say(e.run, e.chat, line)
         /\ e2.chat = ChatOf(e.run, e.chat)
  <2>1. CASE a.spoke
    <3>1. Say(e.run, e.chat, "turn") /\ "turn" \in Lines
      BY <1>2, <2>1 DEF Lines
    <3> QED BY <1>4, <1>5, <2>1, <3>1
  <2>2. CASE ~a.spoke
    BY <1>2, <1>4, <1>5, <2>2
  <2> QED BY <2>1, <2>2
<1> HIDE DEF e
<1> QED BY <1>1, <1>5, <1>6, VisitTells DEF e

\* An end node says nothing yet.
LEMMA ReachEndTells ==
    ASSUME RunInv, RunInv', ThreadInv, NEW d \in Drivers, ReachEnd(d)
    PROVE  ThreadInv'
<1> DEFINE e == drives[d]
           status == EndStatus(e.node)
           e2 == [Stepped(e) EXCEPT !.phase = status]
<1>1. /\ ~At(d, "idle") /\ MarkTerminal(e.run, status, Stepped(e).trace)
      /\ drives' = [drives EXCEPT ![d] = e2] /\ SayNothing
      /\ UNCHANGED <<started, muddled>>
  BY DEF ReachEnd, Set, At
<1>2. DOMAIN e = DriveFields
  BY <1>1, DrivenFrom
<1>3. e2.run = e.run /\ e2.chat = e.chat /\ e2.phase # "paused"
  BY <1>2 DEF DriveFields, Stepped, EndStatus
<1> HIDE DEF e2, status
<1> QED BY <1>1, <1>3, VisitTells

\* record_outcome: the conversation it leaves the run in has the outcome for
\* its last line, but for a run that spoke and completed.
LEMMA OutcomeIs ==
    ASSUME RunInv, ThreadInv, NEW d \in Drivers, ~At(d, "idle"),
           NEW status \in {"paused", "completed", "failed"}, RecordOutcome(drives[d], status)
    PROVE  \E c \in Chats \cup {NoChat} :
              /\ status = "paused" => c = ChatOf(drives[d].run, drives[d].chat)
              /\ Shelves'
              /\ \/ c = drives[d].chat /\ of' = of
                 \/ /\ drives[d].chat = NoChat /\ c \in Chats
                    /\ of[c] = "none" /\ of' = [of EXCEPT ![c] = drives[d].run]
              /\ \A x \in Chats : x # c => said'[x] = said[x] /\ (x \in store' => x \in store)
              /\ status # "completed" /\ c \in store' => said'[c] = status
<1> DEFINE e == drives[d]
           r == e.run
<1>1. /\ r \in RunIds /\ e.chat \in Chats \cup {NoChat} /\ Shelves
      /\ e.chat \in Chats => r \in Owned
  BY DrivenFrom
<1>2. CASE (e.marked /\ status = "completed") \/ r \notin Owned
  <2>1. UNCHANGED <<store, shelf, said, of>>
    BY <1>2 DEF RecordOutcome, SayNothing
  <2>2. Shelves'
    BY <1>1, <2>1 DEF Shelves, Opened
  <2>3. status # "completed" => e.chat \notin Chats
    BY <1>1, <1>2
  <2>4. status = "paused" => e.chat = ChatOf(r, e.chat)
    BY <1>2 DEF ChatOf, Opens
  <2>5. store' \subseteq Chats
    BY <2>2 DEF Shelves
  <2> QED BY <1>1, <2>1, <2>2, <2>3, <2>4, <2>5
<1>3. CASE ~((e.marked /\ status = "completed") \/ r \notin Owned)
  <2>1. Say(r, e.chat, status) /\ status \in Lines
    BY <1>3 DEF RecordOutcome, Lines
  <2> DEFINE c == ChatOf(r, e.chat)
  <2>2. Opens(r, e.chat) => e.chat = NoChat
    BY DEF Opens
  <2>3. /\ c \in Chats \cup {NoChat} /\ Shelves'
        /\ \/ c = e.chat /\ of' = of
           \/ e.chat = NoChat /\ c \in Chats /\ of[c] = "none" /\ of' = [of EXCEPT ![c] = r]
        /\ \A x \in Chats : x # c => said'[x] = said[x] /\ (x \in store' => x \in store)
        /\ c \in store' => said'[c] = status
    <3> HIDE DEF e, r
    <3> QED BY <1>1, <2>1, <2>2, SayIs
  <2> HIDE DEF c
  <2> QED BY <2>3 DEF c
<1> QED BY <1>2, <1>3

\* A pause is said before the checkpoint names the conversation.
LEMMA ReachPauseTells ==
    ASSUME RunInv, RunInv', ThreadInv, NEW d \in Drivers, ReachPause(d)
    PROVE  ThreadInv'
<1> DEFINE e == drives[d]
           r == e.run
           e2 == [Stepped(e) EXCEPT !.chat = ChatOf(r, e.chat), !.marked = TRUE,
                                    !.phase = "paused"]
<1>1. /\ ~At(d, "idle") /\ RecordOutcome(e, "paused")
      /\ drives' = [drives EXCEPT ![d] = e2]
      /\ UNCHANGED <<disk, started, muddled>>
  BY DEF ReachPause, Set, At
<1>2. r \in RunIds /\ DOMAIN drives = Drivers /\ DOMAIN e = DriveFields
  BY <1>1, DrivenFrom
<1>3. PICK c \in Chats \cup {NoChat} :
        /\ c = ChatOf(r, e.chat)
        /\ Shelves'
        /\ \/ c = e.chat /\ of' = of
           \/ e.chat = NoChat /\ c \in Chats /\ of[c] = "none" /\ of' = [of EXCEPT ![c] = r]
        /\ \A x \in Chats : x # c => said'[x] = said[x] /\ (x \in store' => x \in store)
        /\ c \in store' => said'[c] = "paused"
  BY <1>1, OutcomeIs
<1>4. e2.run = r /\ e2.chat = c
  BY <1>2, <1>3 DEF DriveFields, Stepped
<1> HIDE DEF e2
<1>5. r # "none" /\ drives'[d] = e2 /\ \A x \in Drivers \ {d} : drives'[x] = drives[x]
  BY <1>1, <1>2, NoneIsNoRun
<1>6. drives'[d].run = r /\ drives'[d].chat = c
  BY <1>4, <1>5
<1>7. disk' = disk /\ UNCHANGED <<started, muddled>>
  BY <1>1
<1> QED BY <1>2, <1>3, <1>5, <1>6, <1>7, DriveTells

\* The checkpoint names the conversation that says the run waits.
LEMMA PersistTells ==
    ASSUME RunInv, RunInv', ThreadInv, NEW d \in Drivers, PersistPaused(d)
    PROVE  ThreadInv'
<1> DEFINE e == drives[d]
           r == e.run
           c == e.chat
<1>1. /\ At(d, "paused") /\ ~At(d, "idle")
      /\ disk' = [disk EXCEPT ![r] = Checkpoint(e)]
      /\ drives' = [drives EXCEPT ![d] = Idle]
      /\ UNCHANGED <<started, muddled, store, shelf, said, of>>
  BY DEF PersistPaused, Set, SayNothing, At
<1>2. /\ r \in RunIds /\ DOMAIN drives = Drivers /\ DOMAIN disk = RunIds
      /\ c \in Chats \cup {NoChat} /\ Shelves
  BY <1>1, DrivenFrom
<1>3. /\ drives'[d] = Idle /\ \A x \in Drivers \ {d} : drives'[x] = drives[x]
      /\ \A y \in RunIds \ {r} : disk'[y] = disk[y]
      /\ disk'[r] = Checkpoint(e)
  BY <1>1, <1>2
<1>4. Idle.run = "none" /\ Idle.chat = NoChat /\ Idle.phase # "paused"
  BY DEF Idle
<1>5. disk'[r].status = "paused" /\ disk'[r].chat = c /\ disk'[r].snap
  BY <1>3 DEF Checkpoint
<1>6. Shelves'
  BY <1>1, <1>2 DEF Shelves, Opened
<1>7. r \notin muddled /\ c \in store' => said'[c] = "paused"
  BY <1>1 DEF ThreadInv, PauseIsSaid
<1>8. /\ drives'[d].run = "none" /\ drives'[d].chat = NoChat /\ drives'[d].phase # "paused"
  BY <1>3, <1>4
<1>9. of' = of /\ \A x \in Chats : x # c => said'[x] = said[x] /\ (x \in store' => x \in store)
  BY <1>1
<1>10. UNCHANGED <<started, muddled>>
  BY <1>1
<1>11. c = drives[d].chat /\ drives[d].run = r
  OBVIOUS
<1> HIDE DEF c, r
<1> QED BY <1>2, <1>3, <1>5, <1>6, <1>7, <1>8, <1>9, <1>10, <1>11, DriveTells

\* The ending of a run that failed is told before its drive lets go.
LEMMA FinishTells ==
    ASSUME RunInv, RunInv', ThreadInv, NEW d \in Drivers, Finish(d)
    PROVE  ThreadInv'
<1> DEFINE e == drives[d]
           r == e.run
<1>1. PICK status \in Ended :
        /\ ~At(d, "idle") /\ MarkTerminal(r, status, e.trace)
        /\ RecordOutcome(e, status)
        /\ drives' = [drives EXCEPT ![d] = Idle]
        /\ UNCHANGED <<started, muddled>>
  BY DEF Finish, Set, At, Ended
<1>2. /\ r \in RunIds /\ DOMAIN drives = Drivers /\ DOMAIN disk = RunIds
      /\ DOMAIN disk[r] = RecFields
  BY <1>1, DrivenFrom
<1>3. PICK c \in Chats \cup {NoChat} :
        /\ Shelves'
        /\ \/ c = e.chat /\ of' = of
           \/ e.chat = NoChat /\ c \in Chats /\ of[c] = "none" /\ of' = [of EXCEPT ![c] = r]
        /\ \A x \in Chats : x # c => said'[x] = said[x] /\ (x \in store' => x \in store)
        /\ status # "completed" /\ c \in store' => said'[c] = status
  <2>1. status \in {"paused", "completed", "failed"}
    BY DEF Ended
  <2> QED BY <1>1, <2>1, OutcomeIs
<1>4. /\ \A y \in RunIds \ {r} : disk'[y] = disk[y]
      /\ disk'[r].chat = disk[r].chat /\ disk'[r].snap = disk[r].snap
      /\ disk[r].status # "none" => disk'[r].status = status
      /\ disk[r].status = "none" => disk'[r].status = "none"
  BY <1>1, <1>2, MarkedChat
<1>5. /\ disk'[r].status # "paused"
      /\ disk'[r].status \in {"paused", "failed"} => status # "completed" /\ disk'[r].status = status
  BY <1>4 DEF Ended
<1>6. Idle.run = "none" /\ Idle.chat = NoChat /\ Idle.phase # "paused"
  BY DEF Idle
<1>7. drives'[d] = Idle /\ \A x \in Drivers \ {d} : drives'[x] = drives[x]
  BY <1>1, <1>2
<1>8. drives'[d].run = "none" /\ drives'[d].chat = NoChat /\ drives'[d].phase # "paused"
  BY <1>6, <1>7
<1>9. disk'[r].status \in {"paused", "failed"} /\ c \in store' => said'[c] = disk'[r].status
  BY <1>3, <1>5
<1> QED BY <1>1, <1>2, <1>3, <1>4, <1>5, <1>7, <1>8, <1>9, DriveTells

\* Every step keeps the conversations as told.
LEMMA ThreadStep == RunInv /\ RunInv' /\ ThreadInv /\ [Next]_vars => ThreadInv'
<1> SUFFICES ASSUME RunInv, RunInv', ThreadInv, [Next]_vars
             PROVE  ThreadInv'
  OBVIOUS
<1>0. Shelves
  BY DEF ThreadInv
<1>1. CASE \E d \in Drivers, r \in RunIds : StartRun(d, r) \/ ResumeByHand(d, r)
  BY <1>1, StartTells, ResumeTells DEF ResumeByHand
<1>2. CASE \E r \in RunIds : DaemonFails(r) \/ DaemonWakes(r)
  <2>1. Daemon \in Drivers
    BY DEF Drivers
  <2> QED BY <1>2, <2>1, DaemonFailsTells, ResumeTells DEF DaemonWakes
<1>3. CASE \E d \in Drivers : DriveStep(d)
  BY <1>3, ExhaustTells, AdvanceTells, ReachEndTells, ReachPauseTells, PersistTells,
     FinishTells DEF DriveStep
<1>4. CASE Reap
  BY <1>4, ReapTells
<1>5. CASE DeleteFlow \/ UNCHANGED vars
  <2>1. UNCHANGED <<disk, drives, started, store, shelf, said, of, muddled>>
    BY <1>5 DEF DeleteFlow, SayNothing, vars
  <2>2. Shelves'
    BY <1>0, <2>1 DEF Shelves, Opened
  <2> QED BY <2>1, <2>2, NothingSaid
<1>6. CASE Crash
  BY <1>6, CrashTells
<1> QED BY <1>1, <1>2, <1>3, <1>4, <1>5, <1>6 DEF Next

\* And so they always are.
LEMMA ThreadAlways == Spec => []ThreadInv
<1> QED BY RunAlways, ThreadInit, ThreadStep, PTL DEF Spec

\* A run has one conversation, and as its last line it tells that the run waits
\* or failed (FlowExecutor::conversation, record_outcome, persist_paused).
THEOREM ThreadsTell == Spec => []ThreadTells
<1>1. ThreadInv => ThreadTells
  BY DEF ThreadInv
<1> QED BY <1>1, ThreadAlways, PTL

\* What a step takes off the shelf, no paused run will resume into.
LEMMA OnlyUnawaitedGo ==
    ASSUME RunInv, ThreadInv, [Next]_vars
    PROVE  \A c \in ToSet(shelf) \ ToSet(shelf') : c \notin Awaited
<1>1. Shelves
  BY DEF ThreadInv
<1>2. ASSUME NEW d \in Drivers, DriveStep(d)
      PROVE  ToSet(shelf) \ ToSet(shelf') \subseteq Pruned
  <2>1. CASE UNCHANGED shelf
    BY <2>1
  <2>2. ASSUME NEW line \in Lines, Say(drives[d].run, drives[d].chat, line), ~At(d, "idle")
        PROVE  ToSet(shelf) \ ToSet(shelf') \subseteq Pruned
    <3>1. drives[d].run \in RunIds /\ drives[d].chat \in Chats \cup {NoChat}
      BY <2>2, DrivenFrom
    <3> QED BY <1>1, <2>2, <3>1, SayIs
  <2>3. ASSUME NEW status \in {"paused", "completed", "failed"},
               RecordOutcome(drives[d], status), ~At(d, "idle")
        PROVE  ToSet(shelf) \ ToSet(shelf') \subseteq Pruned
    <3>1. status \in Lines
      BY DEF Lines
    <3> QED BY <2>1, <2>2, <2>3, <3>1 DEF RecordOutcome, SayNothing
  <2>4. CASE Exhaust(d) \/ ReachEnd(d) \/ PersistPaused(d)
    BY <2>1, <2>4 DEF Exhaust, ReachEnd, PersistPaused, SayNothing
  <2>5. CASE Advance(d)
    <3>1. ~At(d, "idle") /\ (SayNothing \/ Say(drives[d].run, drives[d].chat, "turn"))
      BY <2>5 DEF Advance, At
    <3>2. "turn" \in Lines
      BY DEF Lines
    <3> QED BY <2>1, <2>2, <3>1, <3>2 DEF SayNothing
  <2>6. CASE ReachPause(d)
    <3>1. ~At(d, "idle") /\ RecordOutcome(drives[d], "paused")
      BY <2>6 DEF ReachPause, At
    <3> QED BY <2>3, <3>1
  <2>7. CASE Finish(d)
    <3>1. PICK s \in Ended : ~At(d, "idle") /\ RecordOutcome(drives[d], s)
      BY <2>7 DEF Finish, At, Ended
    <3>2. s \in {"paused", "completed", "failed"}
      BY DEF Ended
    <3> QED BY <2>3, <3>1, <3>2
  <2> QED BY <1>2, <2>4, <2>5, <2>6, <2>7 DEF DriveStep
<1>3. CASE Reap
  <2>1. PICK c \in ToSet(shelf) \cap Reaped : shelf' = Keep(shelf, {c})
    BY <1>3 DEF Reap
  <2>2. ToSet(shelf') = ToSet(shelf) \ {c}
    BY <1>1, <2>1, KeepIs DEF Shelves
  <2> QED BY <2>1, <2>2 DEF Reaped
<1>4. CASE \E d \in Drivers : DriveStep(d)
  BY <1>2, <1>4 DEF Pruned
<1>5. CASE UNCHANGED shelf
  BY <1>5
<1>6. \/ UNCHANGED shelf
      \/ Reap
      \/ \E d \in Drivers : DriveStep(d)
  BY DEF Next, StartRun, ResumeByHand, DaemonFails, DaemonWakes, Resume, DeleteFlow, Crash,
         SayNothing, vars
<1> QED BY <1>3, <1>4, <1>5, <1>6

\* No sweep takes the conversation a paused run will resume into
\* (prune_run_conversations, reap_stale_chats).
THEOREM AwaitedStay == Spec => AwaitedThreadsKept
<1>1. RunInv /\ ThreadInv /\ [Next]_vars =>
        [\A c \in ToSet(shelf) \ ToSet(shelf') : c \notin Awaited]_vars
  BY OnlyUnawaitedGo
<1> QED BY <1>1, RunAlways, ThreadAlways, PTL DEF Spec, AwaitedThreadsKept
=============================================================================
