------------------------------ MODULE FlowRuns ------------------------------
(***************************************************************************)
(* Runs of a flow: src/src/flow_exec.rs walks the graph node by node,      *)
(* src/src/flow_runs.rs keeps a record of a run that paused, the daemon's  *)
(* poll resumes what is due, a person or a tool resumes what was asked, and*)
(* src/src/workshop_api.rs keeps the conversation a run writes itself into.*)
(*                                                                         *)
(* Several drives are in flight at once: the daemon's, one at a time, and  *)
(* those of requests and tools.  Nothing stops two of them from driving one*)
(* run: resume_flow tests the status on disk and changes it only when the  *)
(* run pauses again or ends.  Every await of a drive falls between two of  *)
(* its steps here, and a crash forgets every drive and every conversation  *)
(* that was not written.                                                   *)
(*                                                                         *)
(* Abstracted: what nodes compute (a run's variables), the wording of lines*)
(* and of errors, personas and models.  A node is known by its kind, an    *)
(* edge by the handle it leaves by, "" for an unlabelled one.              *)
(***************************************************************************)
EXTENDS Naturals, Sequences, SequencesExt, FiniteSets

CONSTANTS
    RunIds,       \* runs that may start
    Legacy,       \* those found paused on disk, in a record without a snapshot
    Owned,        \* runs that resolved an agent, and so open a conversation
    Hands,        \* requests and tools that drive runs beside the daemon
    Flow,         \* [kind: node -> kind, edges: set of <<from, handle, to>>]
    StepBudget,   \* max_steps of the entry node
    MaxConvs,     \* MAX_RUN_CONVERSATIONS_PER_AGENT
    MaxResumes,   \* bound: resumes by hand
    MaxCrashes    \* bound: restarts of the process

ASSUME BoundsAreNat == {StepBudget, MaxConvs, MaxResumes, MaxCrashes} \subseteq Nat
ASSUME RunsAreFinite == IsFiniteSet(RunIds)
ASSUME SomeAreRuns == Legacy \subseteq RunIds /\ Owned \subseteq RunIds
ASSUME NoneIsNoRun == "none" \notin RunIds
ASSUME FlowIsAGraph ==
    /\ \E n \in DOMAIN Flow.kind : Flow.kind[n] = "entry"
    /\ \A e \in Flow.edges : e[1] \in DOMAIN Flow.kind /\ e[3] \in DOMAIN Flow.kind

VARIABLES
    disk,      \* [RunIds -> record of runs/{id}.json, or NoRecord]
    drives,    \* [Drivers -> the executor in flight, or Idle]
    started,   \* runs whose id was drawn
    flowGone,  \* the flow's own file was deleted
    store,     \* conversations in memory
    shelf,     \* conversations on disk, the most recently written first
    said,      \* [Chats -> the last line written to it]
    of,        \* [Chats -> the run it was opened for]
    muddled,   \* runs driven by two at once, or cut short by a crash
    resumes, crashes

vars == <<disk, drives, started, flowGone, store, shelf, said, of,
          muddled, resumes, crashes>>

Nodes    == DOMAIN Flow.kind
Entry    == CHOOSE n \in Nodes : Flow.kind[n] = "entry"
Daemon   == "daemon"
Drivers  == Hands \cup {Daemon}
Chats    == 1..(2 * Cardinality(RunIds))   \* bound: conversations opened
NoChat   == 0
NoRecord == [status |-> "none", node |-> Entry, trace |-> <<>>, chat |-> NoChat,
             wake |-> "never", snap |-> FALSE]
Idle     == [run |-> "none", node |-> Entry, visits |-> 0, trace |-> <<>>,
             chat |-> NoChat, marked |-> FALSE, phase |-> "idle"]
Ended    == {"completed", "failed"}
Statuses == Ended \cup {"none", "paused"}
Wakes    == {"never", "timed"}
Lines    == {"nothing", "turn", "paused", "completed", "failed"}

-----------------------------------------------------------------------------
(* The graph                                                               *)

(* next_by_handle (metalcraft_flows): the edge labelled with the handle,   *)
(* else the node's unlabelled edge, else none: the empty set.              *)
Leaving(n, h) == {e[3] : e \in {x \in Flow.edges : x[1] = n /\ x[2] = h}}
NextNodes(n, h) == IF Leaving(n, h) # {} THEN Leaving(n, h) ELSE Leaving(n, "")

(* What running a node may come to: the handle it routes by, and whether a *)
(* turn of it goes into the conversation.  A prompt and a delegate speak   *)
(* when the model answered, also when the answer is then found unfit; a    *)
(* tool, a request and a branch never do.                                  *)
Labels(n) == {e[2] : e \in {x \in Flow.edges : x[1] = n}} \ {""}
Answers(n) ==
    CASE Flow.kind[n] = "entry"  -> {[handle |-> "", spoke |-> FALSE]}
      [] Flow.kind[n] = "prompt" -> {[handle |-> "ok", spoke |-> TRUE],
                                     [handle |-> "error", spoke |-> TRUE],
                                     [handle |-> "error", spoke |-> FALSE]}
      [] Flow.kind[n] = "tool"   -> {[handle |-> h, spoke |-> FALSE] : h \in {"ok", "error"}}
      [] Flow.kind[n] = "branch" -> {[handle |-> h, spoke |-> FALSE] :
                                        h \in Labels(n) \cup {"error"}}
      [] OTHER -> {}
Pauses(n) == Flow.kind[n] \in {"approval", "asking", "wait"}
EndStatus(n) == IF Flow.kind[n] = "end_failed" THEN "failed" ELSE "completed"

-----------------------------------------------------------------------------
(* Conversations                                                           *)

Awaited == {disk[r].chat : r \in {x \in RunIds : disk[x].status = "paused"}}

(* prune_run_conversations: past MaxConvs, the oldest on disk go, unless a *)
(* paused run will resume into one.                                        *)
Pruned_Slip == {shelf[i] : i \in (MaxConvs + 1)..Len(shelf)}
Pruned == {shelf[i] : i \in (MaxConvs + 1)..Len(shelf)} \ Awaited

(* What is left of a shelf, in its order (a function, for the proofs).     *)
Keep(s, gone) ==
    LET kept[i \in 0..Len(s)] ==
            IF i = 0 THEN <<>>
            ELSE IF s[i] \in gone THEN kept[i - 1] ELSE Append(kept[i - 1], s[i])
    IN  kept[Len(s)]
ToFront(s, c) == <<c>> \o Keep(s, {c})

(* FlowExecutor::conversation with the write that follows: a run with an   *)
(* agent opens its conversation on first use, which prunes older ones; the *)
(* line is written if the conversation is still in memory, and that write  *)
(* is what first puts it on disk.                                          *)
Opens(r, chat) == r \in Owned /\ chat = NoChat
Fresh == 1 + Cardinality({c \in Chats : of[c] # "none"})
ChatOf(r, chat) == IF Opens(r, chat) THEN Fresh ELSE chat
Say(r, chat, line) ==
    LET opens == Opens(r, chat)
        c     == ChatOf(r, chat)
        gone  == IF opens THEN Pruned ELSE {}
        live  == (store \ gone) \cup (IF opens THEN {c} ELSE {})
        heard == c # NoChat /\ c \in live
    IN  /\ opens => c \in Chats
        /\ store' = live
        /\ shelf' = IF heard THEN ToFront(Keep(shelf, gone), c) ELSE Keep(shelf, gone)
        /\ said' = IF heard THEN [said EXCEPT ![c] = line] ELSE said
        /\ of' = IF opens THEN [of EXCEPT ![c] = r] ELSE of
SayNothing == UNCHANGED <<store, shelf, said, of>>

-----------------------------------------------------------------------------
Init ==
    /\ \E n \in {x \in Nodes : Pauses(x)} :
          disk = [r \in RunIds |->
                    IF r \in Legacy THEN [NoRecord EXCEPT !.status = "paused", !.node = n,
                                                          !.trace = <<n>>, !.wake = "timed"]
                    ELSE NoRecord]
    /\ drives = [d \in Drivers |-> Idle]
    /\ started = Legacy
    /\ flowGone = FALSE
    /\ store = {} /\ shelf = <<>>
    /\ said = [c \in Chats |-> "nothing"]
    /\ of = [c \in Chats |-> "none"]
    /\ muddled = {}
    /\ resumes = 0 /\ crashes = 0

At(d, phase) == drives[d].phase = phase
DrivenNow(r) == {d \in Drivers : drives[d].run = r}

(* run_flow_v2_as: a fresh run, its trace empty and its record unwritten,  *)
(* from the entry node.  The daemon starts one when a schedule fires.      *)
StartRun(d, r) ==
    /\ At(d, "idle")
    /\ r \notin started /\ ~flowGone
    /\ started' = started \cup {r}
    /\ drives' = [drives EXCEPT ![d] = [Idle EXCEPT !.run = r, !.phase = "node"]]
    /\ SayNothing
    /\ UNCHANGED <<disk, flowGone, muddled, resumes, crashes>>

(* The trace a resumed executor goes on from is the one in the record.     *)
Restored_Slip(rec) == <<>>
Restored(rec) == rec.trace

(* resume_flow: refused unless the record says paused and there is a flow  *)
(* to walk, the snapshot or, for a legacy record, the file.  The record is *)
(* left as it is until the drive pauses or ends.  A handle without an edge *)
(* ends the run.                                                           *)
Resumable_Slip(r) == disk[r].status # "none" /\ (disk[r].snap \/ ~flowGone)
Resumable(r) == disk[r].status = "paused" /\ (disk[r].snap \/ ~flowGone)
Resume(d, r, h) ==
    /\ At(d, "idle")
    /\ Resumable(r)
    /\ LET rec   == disk[r]
           nexts == NextNodes(rec.node, h)
           exec  == [Idle EXCEPT !.run = r, !.trace = Restored(rec), !.chat = rec.chat,
                                 !.marked = (rec.chat # NoChat)]
       IN  \/ \E n \in nexts : drives' = [drives EXCEPT ![d] = [exec EXCEPT !.node = n, !.phase = "node"]]
           \/ /\ nexts = {}
              /\ drives' = [drives EXCEPT ![d] = [exec EXCEPT !.node = rec.node, !.phase = "completed"]]
    /\ muddled' = IF DrivenNow(r) # {} THEN muddled \cup {r} ELSE muddled
    /\ SayNothing
    /\ UNCHANGED <<disk, started, flowGone, crashes>>

(* POST /flow-runs/{id}/resume and the flow_resume tool: any handle.       *)
ResumeByHand(d, r) ==
    /\ d \in Hands
    /\ resumes < MaxResumes
    /\ resumes' = resumes + 1
    /\ \E h \in Labels(disk[r].node) \cup {"reject"} : Resume(d, r, h)

(* The daemon's poll: a paused run without a snapshot whose flow is gone   *)
(* is failed for good; one whose wake_at has come, which is some time or   *)
(* other, is resumed by "after" or by "timeout".                           *)
Orphaned_Slip(r) == FALSE
Orphaned(r) == disk[r].status = "paused" /\ ~disk[r].snap /\ flowGone
DaemonFails(r) ==
    /\ At(Daemon, "idle")
    /\ Orphaned(r)
    /\ disk' = [disk EXCEPT ![r].status = "failed", ![r].wake = "never"]
    /\ muddled' = IF DrivenNow(r) # {} THEN muddled \cup {r} ELSE muddled
    /\ SayNothing
    /\ UNCHANGED <<drives, started, flowGone, resumes, crashes>>
DaemonWakes(r) ==
    /\ ~Orphaned(r)
    /\ disk[r].wake = "timed"
    /\ Resume(Daemon, r, IF Flow.kind[disk[r].node] = "wait" THEN "after" ELSE "timeout")
    /\ UNCHANGED resumes

-----------------------------------------------------------------------------
(* One turn of FlowExecutor::drive                                         *)

Stepped(e) == [e EXCEPT !.visits = e.visits + 1, !.trace = Append(e.trace, e.node)]
OverBudget(e) == e.visits >= StepBudget
Set(d, e) == drives' = [drives EXCEPT ![d] = e]

(* mark_terminal: a run that has a record, because it paused once, has it  *)
(* say how the run ended; the rest of the ending is told in a later step.  *)
MarkTerminal(r, status, trace) ==
    disk' = IF disk[r].status = "none" THEN disk
            ELSE [disk EXCEPT ![r].status = status, ![r].trace = trace, ![r].wake = "never"]

(* A visit beyond the budget fails the run.                                *)
Exhaust(d) ==
    /\ At(d, "node") /\ OverBudget(drives[d])
    /\ MarkTerminal(drives[d].run, "failed", drives[d].trace)
    /\ Set(d, [drives[d] EXCEPT !.phase = "failed"])
    /\ SayNothing
    /\ UNCHANGED <<started, flowGone, muddled, resumes, crashes>>

(* A node answers.  Its handle names the next node; without one, "error"   *)
(* fails the run and any other handle completes it.                        *)
Advance(d) ==
    /\ At(d, "node") /\ ~OverBudget(drives[d])
    /\ \E a \in Answers(drives[d].node) :
        LET e     == drives[d]
            nexts == NextNodes(e.node, a.handle)
            told  == [Stepped(e) EXCEPT !.chat = IF a.spoke THEN ChatOf(e.run, e.chat) ELSE e.chat,
                                        !.marked = e.marked \/ (a.spoke /\ e.run \in Owned)]
            ended == IF a.handle = "error" THEN "failed" ELSE "completed"
        IN  /\ IF a.spoke THEN Say(e.run, e.chat, "turn") ELSE SayNothing
            /\ \/ /\ nexts # {}
                  /\ \E n \in nexts : Set(d, [told EXCEPT !.node = n])
                  /\ UNCHANGED disk
               \/ /\ nexts = {}
                  /\ MarkTerminal(e.run, ended, told.trace)
                  /\ Set(d, [told EXCEPT !.phase = ended])
    /\ UNCHANGED <<started, flowGone, muddled, resumes, crashes>>

(* An end node ends the run with the status it declares.                   *)
ReachEnd(d) ==
    /\ At(d, "node") /\ ~OverBudget(drives[d])
    /\ Flow.kind[drives[d].node] \in {"end", "end_failed"}
    /\ LET e == drives[d] IN
        /\ MarkTerminal(e.run, EndStatus(e.node), Stepped(e).trace)
        /\ Set(d, [Stepped(e) EXCEPT !.phase = EndStatus(e.node)])
    /\ SayNothing
    /\ UNCHANGED <<started, flowGone, muddled, resumes, crashes>>

(* record_outcome: the conversation, opened now if the run never spoke, is *)
(* told how it went; a run that spoke and succeeded has nothing added.     *)
RecordOutcome_Slip(e, status) == IF e.chat = NoChat THEN SayNothing ELSE Say(e.run, e.chat, status)
RecordOutcome(e, status) ==
    IF (e.marked /\ status = "completed") \/ (e.run \notin Owned)
    THEN SayNothing
    ELSE Say(e.run, e.chat, status)

(* An approval or a wait: the outcome is recorded first, so that the       *)
(* checkpoint carries the conversation.                                    *)
ReachPause(d) ==
    /\ At(d, "node") /\ ~OverBudget(drives[d])
    /\ Pauses(drives[d].node)
    /\ LET e == drives[d] IN
        /\ RecordOutcome(e, "paused")
        /\ Set(d, [Stepped(e) EXCEPT !.chat = ChatOf(e.run, e.chat), !.marked = TRUE,
                                     !.phase = "paused"])
    /\ UNCHANGED <<disk, started, flowGone, muddled, resumes, crashes>>

(* persist_paused: the whole record, snapshot of the flow included.        *)
Checkpoint(e) == [status |-> "paused", node |-> e.node, trace |-> e.trace,
    chat |-> e.chat, snap |-> TRUE,
    wake |-> IF Flow.kind[e.node] = "asking" THEN "never" ELSE "timed"]
PersistPaused(d) ==
    /\ At(d, "paused")
    /\ disk' = [disk EXCEPT ![drives[d].run] = Checkpoint(drives[d])]
    /\ Set(d, Idle)
    /\ SayNothing
    /\ UNCHANGED <<started, flowGone, muddled, resumes, crashes>>

(* finish: the record is marked (here when a resume had nowhere to go) and *)
(* the ending is told.                                                     *)
Finish(d) ==
    \E status \in Ended :
        /\ At(d, status)
        /\ MarkTerminal(drives[d].run, status, drives[d].trace)
        /\ RecordOutcome(drives[d], status)
        /\ Set(d, Idle)
        /\ UNCHANGED <<started, flowGone, muddled, resumes, crashes>>

-----------------------------------------------------------------------------
(* Surroundings                                                            *)

(* reap_stale_chats: conversations a month old, but none a paused run will *)
(* resume into.  A drive writes to its own far more often than that.       *)
Reaped == {c \in Chats : \A d \in Drivers : drives[d].chat # c} \ Awaited
Reap ==
    \E c \in ToSet(shelf) \cap Reaped :
        /\ shelf' = Keep(shelf, {c})
        /\ store' = store \ {c}
        /\ UNCHANGED <<disk, drives, started, flowGone, said, of, muddled, resumes, crashes>>

(* Bound: the flow is deleted once every run of it has started.            *)
DeleteFlow ==
    /\ started = RunIds
    /\ ~flowGone /\ flowGone' = TRUE
    /\ SayNothing
    /\ UNCHANGED <<disk, drives, started, muddled, resumes, crashes>>

(* A restart: what was in flight is gone, conversations are read from      *)
(* disk.  With nothing in flight there is nothing to lose.                 *)
Crash ==
    /\ \E d \in Drivers : ~At(d, "idle")
    /\ crashes < MaxCrashes /\ crashes' = crashes + 1
    /\ muddled' = muddled \cup {drives[d].run : d \in {x \in Drivers : ~At(x, "idle")}}
    /\ drives' = [d \in Drivers |-> Idle]
    /\ store' = ToSet(shelf)
    /\ UNCHANGED <<disk, started, flowGone, shelf, said, of, resumes>>

DriveStep(d) ==
    \/ Exhaust(d) \/ Advance(d) \/ ReachEnd(d) \/ ReachPause(d)
    \/ PersistPaused(d) \/ Finish(d)

Next ==
    \/ \E d \in Drivers, r \in RunIds : StartRun(d, r) \/ ResumeByHand(d, r)
    \/ \E r \in RunIds : DaemonFails(r) \/ DaemonWakes(r)
    \/ \E d \in Drivers : DriveStep(d)
    \/ Reap \/ DeleteFlow \/ Crash

Spec == Init /\ [][Next]_vars

(* Nodes have timeouts of their own, so the daemon's drive goes on, and    *)
(* between drives it polls.  Nothing is asked of requests and tools.       *)
DaemonPoll == \E r \in RunIds : DaemonFails(r) \/ DaemonWakes(r)
FairSpec == Spec /\ WF_vars(DriveStep(Daemon)) /\ WF_vars(DaemonPoll)

-----------------------------------------------------------------------------
(* Properties                                                              *)

TypeOK ==
    /\ disk \in [RunIds -> [status : Statuses, node : Nodes, trace : Seq(Nodes),
                            chat : Chats \cup {NoChat}, wake : Wakes, snap : BOOLEAN]]
    /\ drives \in [Drivers -> [run : RunIds \cup {"none"}, node : Nodes, visits : 0..StepBudget,
                    trace : Seq(Nodes), chat : Chats \cup {NoChat}, marked : BOOLEAN,
                    phase : {"idle", "node", "paused"} \cup Ended]]
    /\ started \subseteq RunIds /\ muddled \subseteq RunIds
    /\ store \subseteq Chats /\ shelf \in Seq(Chats)
    /\ said \in [Chats -> Lines] /\ of \in [Chats -> RunIds \cup {"none"}]
    /\ flowGone \in BOOLEAN /\ resumes \in Nat /\ crashes \in Nat

(* The trace of a run, in its record and in every drive, is a walk of the  *)
(* graph from where the run began: pauses, resumes by other processes,     *)
(* two drives at once and crashes never splice two walks.                  *)
IsWalk(t) == \A i \in 1..(Len(t) - 1) : \E e \in Flow.edges : e[1] = t[i] /\ e[3] = t[i + 1]
TraceIsAWalk ==
    /\ \A r \in RunIds : IsWalk(disk[r].trace) /\
           (disk[r].status # "none" /\ r \notin Legacy => disk[r].trace[1] = Entry)
    /\ \A d \in Drivers : At(d, "node") =>
           /\ IsWalk(Append(drives[d].trace, drives[d].node))
           /\ Head(Append(drives[d].trace, drives[d].node)) = Entry \/ drives[d].run \in Legacy

(* A run has one conversation for its whole life: a resume goes on in the  *)
(* one the approval was asked in, whichever process resumes it.            *)
OneThread ==
    \A c1, c2 \in Chats :
        of[c1] = of[c2] /\ of[c1] \in RunIds \ (Legacy \cup muddled) => c1 = c2

(* A run that stopped badly, or waits, says so as the last line of its     *)
(* conversation, unless two drives or a crash interfered.                  *)
Resting(r) == DrivenNow(r) = {} /\ r \notin muddled
BadEndsAreTold ==
    \A r \in RunIds : \A c \in store :
        Resting(r) /\ of[c] = r /\ disk[r].chat = c /\ disk[r].status \in {"paused", "failed"}
            => said[c] = disk[r].status

(* Both: one conversation, and it tells how the run stands.                *)
ThreadTells == OneThread /\ BadEndsAreTold

(* A run that ended stays ended, whatever is resumed and whenever, unless  *)
(* two drives were on it at once.                                          *)
EndedStaysEnded ==
    [][\A r \in RunIds : disk[r].status \in Ended /\ r \notin muddled
            => disk'[r].status = disk[r].status]_vars

(* No sweep removes the conversation a paused run will resume into.        *)
AwaitedThreadsKept ==
    [][\A c \in ToSet(shelf) \ ToSet(shelf') : c \notin Awaited]_vars

(* A pause with a deadline does not outlive it: with nobody there, the run *)
(* is resumed when its time comes and goes on to its end, through crashes  *)
(* in between, or is failed when there is nothing to resume it with.       *)
DeadlinesHonoured ==
    \A r \in RunIds : disk[r].wake = "timed" ~> disk[r].wake = "never"

(* flow_exec.rs:1424: "resuming it ends the run, and that ending belongs   *)
(* in the thread the approval was asked in": a run that completed does not *)
(* end its conversation on the line that says it is paused.                *)
EndingIsTold ==
    \A r \in RunIds : \A c \in store :
        Resting(r) /\ of[c] = r /\ disk[r].chat = c /\ disk[r].status = "completed"
            => said[c] # "paused"
=============================================================================
