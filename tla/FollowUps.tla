----------------------------- MODULE FollowUps -----------------------------
(***************************************************************************)
(* Follow-ups an agent arms for later: the store of                        *)
(* src/src/scheduled_tasks.rs, the poll of src/src/daemon.rs that claims   *)
(* what is due and delivers it, one after another, and the turn            *)
(* src/src/workshop_api.rs runs for it on its chat, beside the turns people*)
(* start there.                                                            *)
(*                                                                         *)
(* The store is one file, read and rewritten under a lock by each          *)
(* operation; a rewrite may fail, and claiming, requeuing and marking go on*)
(* then as if it had not.  What the poll has claimed it holds in memory.   *)
(* When a follow-up comes due is left open: any time after it was armed.   *)
(***************************************************************************)
EXTENDS Naturals, Sequences, SequencesExt, FiniteSets

CONSTANTS
    Chats,        \* Workshop chats
    Unbound,      \* the binding of a run that has no chat
    Texts,        \* instructions
    MaxPending,   \* MAX_PENDING_PER_CHAT
    MaxDepth,     \* MAX_RESCHEDULE_DEPTH
    MaxTasks,     \* bound: follow-ups ever armed
    MaxTurns,     \* bound: turns people start
    MaxFaults,    \* bound: rewrites that fail
    MaxCrashes    \* bound: restarts

ASSUME BoundsAreNat ==
    {MaxPending, MaxDepth, MaxTasks, MaxTurns, MaxFaults, MaxCrashes} \subseteq Nat
ASSUME UnboundIsNoChat == Unbound \notin Chats

VARIABLES
    tasks,     \* the file: a sequence of follow-ups, the id its index
    chats,     \* chats in the store
    busy,      \* [Chats -> what runs there: "no", "user" or "followup"]
    batch,     \* claimed follow-ups the poll has yet to deliver
    cur,       \* the one it delivers now, or none (0)
    phase,     \* of that delivery: "idle", "running", "ran"
    ran,       \* [follow-up -> turns run for it]
    chain,     \* [follow-up -> how many follow-ups led to it, itself included]
    lost,      \* claimed when the process died, or a rewrite of theirs failed
    turns, faults, crashes

vars == <<tasks, chats, busy, batch, cur, phase, ran, chain, lost, turns, faults, crashes>>
poll == <<batch, cur, phase>>
bounds == <<turns, faults, crashes>>

Ids       == 1..Len(tasks)
Bindings  == Chats \cup {Unbound}
Statuses  == {"pending", "running", "done", "failed", "cancelled"}
With(st)  == {i \in Ids : tasks[i].status = st}
NoTask    == 0

-----------------------------------------------------------------------------
Init ==
    /\ tasks = <<>> /\ ran = <<>> /\ chain = <<>>
    /\ chats = Chats
    /\ busy = [c \in Chats |-> "no"]
    /\ batch = <<>> /\ cur = NoTask /\ phase = "idle"
    /\ lost = {}
    /\ turns = 0 /\ faults = 0 /\ crashes = 0

(* A rewrite of the file for follow-ups is; it may fail, with nobody told.  *)
Rewrite(is, new) ==
    \/ /\ tasks' = new
       /\ UNCHANGED <<lost, faults>>
    \/ /\ faults < MaxFaults /\ faults' = faults + 1
       /\ lost' = lost \cup is
       /\ UNCHANGED tasks

(* add: refused too deep in a chain, and for a chat that has too many      *)
(* pending or the same one.                                                *)
PendingFor(c) == {i \in With("pending") : tasks[i].to = c}
Admits(c, text, depth) ==
    /\ depth <= MaxDepth
    /\ c \in Chats =>
        /\ Cardinality(PendingFor(c)) < MaxPending
        /\ \A i \in PendingFor(c) : tasks[i].text # text
Add(c, text, depth, links) ==
    /\ Len(tasks) < MaxTasks
    /\ Admits(c, text, depth)
    /\ tasks' = Append(tasks, [to |-> c, text |-> text, status |-> "pending", depth |-> depth])
    /\ ran' = Append(ran, 0)
    /\ chain' = Append(chain, links)

(* The tool, in a turn a person started: their turn has depth 0.           *)
ArmInTurn(c, text) ==
    /\ busy[c] = "user"
    /\ Add(c, text, 1, 1)
    /\ UNCHANGED <<chats, busy, poll, lost, bounds>>

(* The tool, in the turn of a follow-up: on its chat, or bound to nothing. *)
(* The turn is given depth 0 whatever the depth of the follow-up.          *)
DepthOfTurn(i) == 0
ArmInFollowUp(text) ==
    /\ phase = "running"
    /\ Add(tasks[cur].to, text, DepthOfTurn(cur) + 1, chain[cur] + 1)
    /\ UNCHANGED <<chats, busy, poll, lost, bounds>>

(* A one-shot command arms one that nobody will be told about.             *)
ArmUnbound(text) ==
    /\ turns < MaxTurns /\ turns' = turns + 1
    /\ Add(Unbound, text, 1, 1)
    /\ UNCHANGED <<chats, busy, poll, lost, faults, crashes>>

(* cancel: only what is still pending.                                     *)
Cancellable_Slip(i) == tasks[i].status \in {"pending", "running"}
Cancellable(i) == tasks[i].status = "pending"
Cancel(i) ==
    /\ Cancellable(i)
    /\ tasks' = [tasks EXCEPT ![i].status = "cancelled"]
    /\ UNCHANGED <<chats, busy, poll, ran, chain, lost, bounds>>

-----------------------------------------------------------------------------
(* Turns of people                                                         *)

StartTurn(c) ==
    /\ c \in chats /\ busy[c] = "no"
    /\ turns < MaxTurns /\ turns' = turns + 1
    /\ busy' = [busy EXCEPT ![c] = "user"]
    /\ UNCHANGED <<tasks, chats, poll, ran, chain, lost, faults, crashes>>
EndTurn(c) ==
    /\ busy[c] = "user"
    /\ busy' = [busy EXCEPT ![c] = "no"]
    /\ UNCHANGED <<tasks, chats, poll, ran, chain, lost, bounds>>
DeleteChat(c) ==
    /\ c \in chats
    /\ chats' = chats \ {c}
    /\ UNCHANGED <<tasks, busy, poll, ran, chain, lost, bounds>>

-----------------------------------------------------------------------------
(* The poll                                                                *)

(* claim_due: all that are pending and due become running at once.  When   *)
(* the rewrite fails they are delivered all the same.                      *)
Claimed_Slip(due) == tasks
Claimed(due) == [i \in Ids |-> IF i \in due THEN [tasks[i] EXCEPT !.status = "running"] ELSE tasks[i]]
OldestFirst(due) ==
    {q \in [1..Cardinality(due) -> due] :
        ToSet(q) = due /\ \A j, k \in DOMAIN q : j < k => q[j] < q[k]}
ClaimDue ==
    /\ batch = <<>> /\ phase = "idle"
    /\ \E due \in SUBSET With("pending") \ {{}} :
        /\ batch' \in OldestFirst(due)
        /\ Rewrite(due, Claimed(due))
    /\ UNCHANGED <<chats, busy, cur, phase, ran, chain, turns, crashes>>

Mark(i, st) == Rewrite({i}, [tasks EXCEPT ![i].status = st])
Next1 == Head(batch)
Taking == phase = "idle" /\ batch # <<>> /\ batch' = Tail(batch)

(* deliver_followup_to_chat: the chat is gone, or busy, or runs the turn.  *)
DropForMissingChat ==
    /\ Taking
    /\ tasks[Next1].to \in Chats \ chats
    /\ Mark(Next1, "failed")
    /\ UNCHANGED <<chats, busy, cur, phase, ran, chain, turns, crashes>>
Requeued_Slip == "running"
Requeued == "pending"
RequeueForBusyChat ==
    /\ Taking
    /\ tasks[Next1].to \in chats /\ busy[tasks[Next1].to] # "no"
    /\ Mark(Next1, Requeued)
    /\ UNCHANGED <<chats, busy, cur, phase, ran, chain, turns, crashes>>
RunFollowUp ==
    /\ Taking
    /\ \/ /\ tasks[Next1].to \in chats /\ busy[tasks[Next1].to] = "no"
          /\ busy' = [busy EXCEPT ![tasks[Next1].to] = "followup"]
       \/ tasks[Next1].to = Unbound /\ UNCHANGED busy
    /\ cur' = Next1 /\ phase' = "running"
    /\ ran' = [ran EXCEPT ![Next1] = @ + 1]
    /\ UNCHANGED <<tasks, chats, chain, lost, bounds>>

(* The turn is over and the chat free; the mark is a step of its own.      *)
Freed_Slip == busy
Freed == [c \in Chats |-> IF c = tasks[cur].to THEN "no" ELSE busy[c]]
EndFollowUp ==
    /\ phase = "running" /\ phase' = "ran"
    /\ busy' = Freed
    /\ UNCHANGED <<tasks, chats, batch, cur, ran, chain, lost, bounds>>
MarkFollowUp ==
    /\ phase = "ran" /\ phase' = "idle" /\ cur' = NoTask
    /\ \E st \in IF tasks[cur].to = Unbound THEN {"done", "failed"} ELSE {"done"} : Mark(cur, st)
    /\ UNCHANGED <<chats, busy, batch, ran, chain, turns, crashes>>

(* The process dies: turns and what was claimed are forgotten.             *)
Crash ==
    /\ crashes < MaxCrashes /\ crashes' = crashes + 1
    /\ busy' = [c \in Chats |-> "no"]
    /\ batch' = <<>> /\ cur' = NoTask /\ phase' = "idle"
    /\ lost' = lost \cup With("running")
    /\ UNCHANGED <<tasks, chats, ran, chain, turns, faults>>

Poll ==
    \/ ClaimDue \/ DropForMissingChat \/ RequeueForBusyChat \/ RunFollowUp
    \/ EndFollowUp \/ MarkFollowUp
Next ==
    \/ \E c \in Chats : StartTurn(c) \/ EndTurn(c) \/ DeleteChat(c)
    \/ \E c \in Chats, t \in Texts : ArmInTurn(c, t)
    \/ \E t \in Texts : ArmInFollowUp(t) \/ ArmUnbound(t)
    \/ \E i \in Ids : Cancel(i)
    \/ Poll \/ Crash

Spec == Init /\ [][Next]_vars

(* The poll goes on, what it waited for comes due, and turns end: a turn's *)
(* steps and its calls are bounded.                                        *)
FairSpec ==
    /\ Spec
    /\ WF_vars(Poll)
    /\ \A c \in Chats : WF_vars(EndTurn(c))

-----------------------------------------------------------------------------
(* Properties                                                              *)

TypeOK ==
    /\ tasks \in Seq([to : Bindings, text : Texts, status : Statuses, depth : 1..MaxDepth])
    /\ ran \in Seq(Nat) /\ chain \in Seq(Nat)
    /\ Len(ran) = Len(tasks) /\ Len(chain) = Len(tasks)
    /\ chats \subseteq Chats /\ busy \in [Chats -> {"no", "user", "followup"}]
    /\ batch \in Seq(Ids) /\ cur \in Ids \cup {NoTask}
    /\ phase \in {"idle", "running", "ran"} /\ (phase = "idle" <=> cur = NoTask)
    /\ lost \subseteq Ids
    /\ turns \in Nat /\ faults \in Nat /\ crashes \in Nat

(* A follow-up is run once at most, however often it found its chat busy,  *)
(* unless a rewrite of the file failed under it.                           *)
RunsOnce == \A i \in Ids \ lost : ran[i] <= 1

(* A cancel that was granted holds: that follow-up neither ran nor will,   *)
(* also when it was granted while the poll was working through a claim.    *)
CancelHolds ==
    \A i \in Ids : tasks[i].status = "cancelled" =>
        i \in lost \/ (ran[i] = 0 /\ i # cur /\ ~Contains(batch, i))

(* Outside a claim in progress, no follow-up is held as running but those  *)
(* a crash or a failed rewrite lost.                                       *)
RunningIsInHand ==
    With("running") \ lost \subseteq ToSet(batch) \cup {cur}

(* The turn of a follow-up takes its chat for itself and gives it back.    *)
ChatFreed ==
    \A c \in Chats : busy[c] = "followup" <=> (phase = "running" /\ tasks[cur].to = c)

(* Both: a claim in progress, and what it holds, are all there is to hold. *)
NothingHeldForNobody == RunningIsInHand /\ ChatFreed

(* A follow-up that is pending does not stay so: it runs, fails with its   *)
(* chat, is cancelled, or was lost.                                        *)
Settled(i) == i \in Ids /\ (i \in lost \/ tasks[i].status \in {"done", "failed", "cancelled"})
Settles == \A i \in 1..MaxTasks : (i \in Ids) ~> Settled(i)

(* scheduled_tasks.rs:29: "How many times a follow-up may itself schedule  *)
(* another follow-up. Bounds a task that keeps re-arming itself".          *)
ChainBounded == \A i \in Ids : chain[i] <= MaxDepth
=============================================================================
