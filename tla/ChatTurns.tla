------------------------------ MODULE ChatTurns ------------------------------
(***************************************************************************)
(* One conversation of the agent daemon and everything that may run a turn *)
(* on it: a person typing in a client, the queue that person's messages    *)
(* wait in, a text message arriving through the gateway, a scheduled       *)
(* follow-up, a flow or a project filing its record, a compaction, a       *)
(* reset, a stop button, a deletion and a restart of the process.          *)
(*                                                                         *)
(* A turn takes the context OUT of the session for as long as it runs and  *)
(* writes it back at the end (src/src/workshop_api.rs:564-581); the flag   *)
(* `busy' is what keeps two turns apart.  Every action below is one        *)
(* critical section of the session lock, or the stretch between two awaits.*)
(*                                                                         *)
(* Data is reduced to what the properties tell apart.  A message is a      *)
(* model value; what the agent itself says is left out, so a context is    *)
(* the sequence of the messages people, timers and recorders put into it.  *)
(* AgentState::new always starts from a message, so the code's `None' and  *)
(* the empty sequence are the same thing here.                             *)
(*                                                                         *)
(* A definition whose name ends in _Slip is the one after it with a bug    *)
(* somebody could write (several were once in the code); no specification  *)
(* uses it.  It shows that the property it is paired with can fail.        *)
(***************************************************************************)
EXTENDS Naturals, Sequences, FiniteSets

CONSTANTS
    Workers,        \* request handlers and spawned tasks working on the chat
    Typed,          \* messages a person types in a client
    Inbound,        \* text messages the gateway delivers
    Followups,      \* follow-ups the scheduler fires at this chat
    Records,        \* turns a flow or a project files in this chat
    Divider,        \* the mark a reset leaves in the transcript
    None,           \* no worker, no kind of turn
    MaxCompactions, \* bounds on how often the rarer operations happen
    MaxResets,
    MaxCrashes,
    SetupMayFail,   \* may the runtime context be unavailable (no API key)?
    ErrorsHappen,   \* may a turn end in a framework error (step limit)?
    PermitsRunOut,  \* may other senders hold every webhook permit?
    WriteIsAtomic   \* may nothing come between persist_chat's two halves?

Messages == Typed \cup Inbound \cup Followups \cup Records

ASSUME MessagesDisjoint ==
    /\ Typed \cap (Inbound \cup Followups \cup Records) = {}
    /\ Inbound \cap (Followups \cup Records) = {}
    /\ Followups \cap Records = {}
    /\ Divider \notin Messages
    /\ None \notin Workers

ASSUME BoundsAreNumbers ==
    /\ MaxCompactions \in Nat
    /\ MaxResets \in Nat
    /\ MaxCrashes \in Nat

ASSUME SwitchesAreBooleans ==
    /\ SetupMayFail \in BOOLEAN
    /\ ErrorsHappen \in BOOLEAN
    /\ PermitsRunOut \in BOOLEAN
    /\ WriteIsAtomic \in BOOLEAN

\* What can be working on the chat, by the code path it is on: a turn with a
\* mailbox (typed in a client or drained from the line), a follow-up's turn, a
\* turn of the gateway's loop, or an operation that runs no turn.
Kinds == {"chat", "followup", "gateway", "upkeep"}

ASSUME NoneIsNoKind == None \notin Kinds

\* Where a worker is in its path.
Places == {"off", "setup", "permit", "take", "run", "compact", "file",
           "persist", "write", "drain", "next"}

VARIABLES
    ctx,        \* the context a model still sees (ChatSession::state)
    archived,   \* everything closed off by a reset (ChatSession::archived)
    busy,       \* a turn is mid-flight (ChatSession::busy)
    pending,    \* messages waiting in line (ChatSession::pending)
    running,    \* the in-flight snapshot (ChatSession::running)
    interrupt,  \* the stop flag (ChatSession::interrupt)
    inStore,    \* the chat is in the process's chat store
    onDisk,     \* chats/<id>.json exists
    file,       \* the transcript in it
    task,       \* what each worker is doing
    seen,       \* inbound ids the dedup window holds
    \* History: read by the properties, never by the code's guards.
    posted,     \* messages this chat has accepted
    lost,       \* accepted messages a failure the code reports has cost
    via,        \* the kind of turn each message was run by
    lined,      \* the messages that went through the queue, in queue order
    stopTarget, \* the worker the last stop was pressed on
    compactions, resets, crashes

session == <<ctx, archived, busy, pending, running, interrupt, inStore>>
disk == <<onDisk, file>>
ghosts == <<posted, lost, via, lined, stopTarget>>
counts == <<compactions, resets, crashes>>
vars == <<session, disk, task, seen, ghosts, counts>>

-----------------------------------------------------------------------------
(* Helpers.                                                                *)

Elems(s) == {s[i] : i \in 1..Len(s)}

Off == [pc |-> "off", kind |-> "upkeep", st |-> <<>>, before |-> <<>>,
        snap |-> <<>>]

Idle(w) == task[w].pc = "off"

At(w, place) == task[w].pc = place

\* The path on which a worker owns the turn: from the claim to the end.
Holds(w) ==
    \/ task[w].pc \in {"setup", "permit", "take", "run", "compact"}
    \/ task[w].kind = "gateway" /\ task[w].pc \in {"persist", "write", "next"}

\* What a client is shown, and what persist_chat writes: the archived
\* segments, then the in-flight snapshot if a turn holds the context.
Transcript == archived \o (IF running # <<>> THEN running ELSE ctx)

\* Where a reset last cut a transcript, 0 if it never did.
LastCut(t) ==
    IF Divider \in Elems(t)
    THEN CHOOSE i \in 1..Len(t) :
            t[i] = Divider /\ \A j \in (i + 1)..Len(t) : t[j] # Divider
    ELSE 0

Fresh(m) == m \notin posted

Move(w, place) == task' = [task EXCEPT ![w].pc = place]

RunBy(ms, kind) == via' = [m \in Messages |-> IF m \in ms THEN kind ELSE via[m]]

\* Slip: the newest message is put at the front of the line.
queue_message_Slip(line, m) == <<m>> \o line

queue_message(line, m) == Append(line, m)

-----------------------------------------------------------------------------
Init ==
    /\ ctx = <<>> /\ archived = <<>> /\ running = <<>>
    /\ busy = FALSE /\ pending = <<>> /\ interrupt = FALSE
    /\ inStore = TRUE /\ onDisk = TRUE /\ file = <<>>
    /\ task = [w \in Workers |-> Off]
    /\ seen = {}
    /\ posted = {} /\ lost = {} /\ lined = <<>> /\ stopTarget = None
    /\ via = [m \in Messages |-> None]
    /\ compactions = 0 /\ resets = 0 /\ crashes = 0

-----------------------------------------------------------------------------
(* Taking a turn.                                                          *)

\* Slip: an old stop is not cleared.
Claim_Slip(w, kind, place, m) ==
    /\ busy' = TRUE
    /\ stopTarget' = None
    /\ ctx' = <<>>
    /\ running' = ctx \o <<m>>
    /\ task' = [task EXCEPT ![w] =
                 [pc |-> place, kind |-> kind, st |-> ctx \o <<m>>,
                  before |-> ctx \o <<m>>, snap |-> <<>>]]
    /\ RunBy({m}, kind)
    /\ UNCHANGED interrupt

\* Under the session lock: stamp the chat busy, clear an old stop, take the
\* context, append the message that starts the turn and publish the result.
Claim(w, kind, place, m) ==
    /\ busy' = TRUE
    /\ interrupt' = FALSE
    /\ stopTarget' = None
    /\ ctx' = <<>>
    /\ running' = ctx \o <<m>>
    /\ task' = [task EXCEPT ![w] =
                 [pc |-> place, kind |-> kind, st |-> ctx \o <<m>>,
                  before |-> ctx \o <<m>>, snap |-> <<>>]]
    /\ RunBy({m}, kind)

\* POST /chats/{id}/turn on an idle chat.
PostTurn(w, m) ==
    /\ inStore /\ ~busy /\ Idle(w) /\ Fresh(m)
    /\ Claim(w, "chat", "setup", m)
    /\ posted' = posted \cup {m}
    /\ UNCHANGED <<archived, pending, inStore, disk, seen, lost, lined, counts>>

\* The same while a turn is running: 202, the message waits in line.
QueueTurn(m) ==
    /\ inStore /\ busy /\ Fresh(m)
    /\ pending' = queue_message(pending, m)
    /\ lined' = Append(lined, m)
    /\ posted' = posted \cup {m}
    /\ UNCHANGED <<ctx, archived, busy, running, interrupt, inStore, disk,
                   task, seen, lost, via, stopTarget, counts>>

\* The handler builds the runtime context after the claim ...
SetupDone(w) ==
    /\ At(w, "setup")
    /\ Move(w, "run")
    /\ UNCHANGED <<session, disk, seen, ghosts, counts>>

\* ... and, when it cannot, releases the flag and answers 503.  Nothing puts
\* the context back and nothing drops the snapshot.
SetupFails(w) ==
    /\ At(w, "setup") /\ SetupMayFail
    /\ busy' = FALSE
    /\ task' = [task EXCEPT ![w] = Off]
    /\ lost' = lost \cup Elems(task[w].st)
    /\ UNCHANGED <<ctx, archived, pending, running, interrupt, inStore, disk,
                   seen, posted, via, lined, stopTarget, counts>>

\* A follow-up that comes due runs only on an idle chat; on a busy one the
\* scheduler puts it back, and on a missing one it is marked failed.
Followup(w, m) ==
    /\ inStore /\ ~busy /\ Idle(w) /\ Fresh(m)
    /\ Claim(w, "followup", "run", m)
    /\ posted' = posted \cup {m}
    /\ UNCHANGED <<archived, pending, inStore, disk, seen, lost, lined, counts>>

-----------------------------------------------------------------------------
(* While a turn runs.                                                      *)

\* At an agent step the mailbox hands the running turn everything queued.
\* Only turns a person started, or the queue did, are given a mailbox.
Inject(w) ==
    /\ At(w, "run") /\ task[w].kind = "chat" /\ pending # <<>>
    /\ task' = [task EXCEPT ![w].st = @ \o pending]
    /\ pending' = <<>>
    /\ RunBy(Elems(pending), task[w].kind)
    /\ UNCHANGED <<ctx, archived, busy, running, interrupt, inStore, disk,
                   seen, posted, lost, lined, stopTarget, counts>>

\* The step guard refreshes the in-flight snapshot.
RefreshSnapshot(w) ==
    /\ At(w, "run") /\ running # task[w].st
    /\ running' = task[w].st
    /\ UNCHANGED <<ctx, archived, busy, pending, interrupt, inStore, disk,
                   task, seen, ghosts, counts>>

\* POST /chats/{id}/interrupt.  On an idle chat it changes nothing.
PressStop ==
    /\ inStore /\ busy
    /\ interrupt' = TRUE
    /\ stopTarget' = IF \E w \in Workers : Holds(w)
                     THEN CHOOSE w \in Workers : Holds(w) ELSE None
    /\ UNCHANGED <<ctx, archived, busy, pending, running, inStore, disk, task,
                   seen, posted, lost, via, lined, counts>>

\* The end of a turn: the context goes back, the snapshot is dropped and,
\* except in the gateway's loop, the flag is released, in one lock.  A record
\* filed meanwhile is in `ctx', and is what the write-back replaces.
GiveBack(w, context, dropped) ==
    /\ ctx' = context
    /\ running' = <<>>
    /\ busy' = (task[w].kind = "gateway")
    /\ task' = [task EXCEPT ![w] = [Off EXCEPT !.pc = "persist",
                                              !.kind = task[w].kind]]
    /\ lost' = lost \cup Elems(ctx) \cup dropped
    /\ UNCHANGED <<archived, pending, interrupt, inStore, disk, seen,
                   posted, via, lined, stopTarget, counts>>

\* Completed, cancelled, or failed with a partial state: the state is kept.
TurnEnds(w) == At(w, "run") /\ GiveBack(w, task[w].st, {})

\* Slip: only a completed turn hands its state back.
TurnStops_Slip(w) == At(w, "run") /\ interrupt /\ GiveBack(w, <<>>, {})

\* The step guard saw the stop flag: interrupted, and the state is kept.
TurnStops(w) == At(w, "run") /\ interrupt /\ GiveBack(w, task[w].st, {})

\* A framework error hands no state back: the turn's starting state returns,
\* without what the mailbox added since.
TurnErrors(w) ==
    /\ At(w, "run") /\ ErrorsHappen
    /\ GiveBack(w, task[w].before, Elems(task[w].st) \ Elems(task[w].before))

-----------------------------------------------------------------------------
(* After a turn: persist, then look at the queue.                          *)

\* Slip: a follow-up leaves the line to whichever turn comes next.
Finish_Slip(w) ==
    CASE task[w].kind = "chat" ->
            [task EXCEPT ![w] = [Off EXCEPT !.pc = "drain"]]
      [] task[w].kind = "gateway" ->
            [task EXCEPT ![w] = [Off EXCEPT !.pc = "next", !.kind = "gateway"]]
      [] OTHER -> [task EXCEPT ![w] = Off]

\* Where a worker goes once its transcript is on disk.
Finish(w) ==
    CASE task[w].kind \in {"chat", "followup"} ->
            [task EXCEPT ![w] = [Off EXCEPT !.pc = "drain"]]
      [] task[w].kind = "gateway" ->
            [task EXCEPT ![w] = [Off EXCEPT !.pc = "next", !.kind = "gateway"]]
      [] OTHER -> [task EXCEPT ![w] = Off]

\* Slip: what is written is the context, without the archived segments.
PersistAtOnce_Slip(w) ==
    /\ At(w, "persist") /\ WriteIsAtomic
    /\ onDisk' = TRUE /\ file' = ctx
    /\ task' = Finish(w)
    /\ UNCHANGED <<session, seen, ghosts, counts>>

\* persist_chat: the transcript is collected under the lock ...
PersistAtOnce(w) ==
    /\ At(w, "persist") /\ WriteIsAtomic
    /\ onDisk' = TRUE /\ file' = Transcript
    /\ task' = Finish(w)
    /\ UNCHANGED <<session, seen, ghosts, counts>>

PersistSnapshot(w) ==
    /\ At(w, "persist") /\ ~WriteIsAtomic
    /\ task' = [task EXCEPT ![w].snap = Transcript, ![w].pc = "write"]
    /\ UNCHANGED <<session, disk, seen, ghosts, counts>>

\* ... and written after the lock is dropped.
PersistWrite(w) ==
    /\ At(w, "write")
    /\ onDisk' = TRUE /\ file' = task[w].snap
    /\ task' = Finish(w)
    /\ UNCHANGED <<session, seen, ghosts, counts>>

\* drain_queued_turns claims the next queued message under one lock.
DrainNext(w) ==
    /\ At(w, "drain") /\ inStore /\ ~busy /\ pending # <<>>
    /\ pending' = Tail(pending)
    /\ Claim(w, "chat", "run", Head(pending))
    /\ UNCHANGED <<archived, inStore, disk, seen, posted, lost, lined, counts>>

\* The chat is gone, another turn is running, or the line is empty.
DrainDone(w) ==
    /\ At(w, "drain") /\ (~inStore \/ busy \/ pending = <<>>)
    /\ task' = [task EXCEPT ![w] = Off]
    /\ UNCHANGED <<session, disk, seen, ghosts, counts>>

-----------------------------------------------------------------------------
(* The gateway: deduplicate, claim, get a permit, then loop over the line. *)

\* The id is recorded before anything else; with no runtime context the
\* answer is 500.
DeliverUnready(m) ==
    /\ inStore /\ m \notin seen /\ SetupMayFail
    /\ seen' = seen \cup {m}
    /\ posted' = posted \cup {m}
    /\ lost' = lost \cup {m}
    /\ UNCHANGED <<session, disk, task, via, lined, stopTarget, counts>>

\* Slip: a message that only waits in line is not recorded as seen.
DeliverQueued_Slip(m) ==
    /\ inStore /\ m \notin seen /\ busy
    /\ pending' = queue_message(pending, m)
    /\ lined' = Append(lined, m)
    /\ posted' = posted \cup {m}
    /\ UNCHANGED <<ctx, archived, busy, running, interrupt, inStore, disk,
                   task, seen, lost, via, stopTarget, counts>>

\* The chat is taken: the message waits in line.
DeliverQueued(m) ==
    /\ inStore /\ m \notin seen /\ busy
    /\ seen' = seen \cup {m}
    /\ pending' = queue_message(pending, m)
    /\ lined' = Append(lined, m)
    /\ posted' = posted \cup {m}
    /\ UNCHANGED <<ctx, archived, busy, running, interrupt, inStore, disk,
                   task, lost, via, stopTarget, counts>>

DeliverClaim(w, m) ==
    /\ inStore /\ m \notin seen /\ ~busy /\ Idle(w)
    /\ seen' = seen \cup {m}
    /\ posted' = posted \cup {m}
    /\ busy' = TRUE
    /\ task' = [task EXCEPT ![w] = [Off EXCEPT !.pc = "permit",
                                              !.kind = "gateway",
                                              !.st = <<m>>]]
    /\ UNCHANGED <<ctx, archived, pending, running, interrupt, inStore, disk,
                   lost, via, lined, stopTarget, counts>>

\* All permits are taken: release the claim, enqueue, answer 503.
PermitDenied(w) ==
    /\ At(w, "permit") /\ PermitsRunOut
    /\ busy' = FALSE
    /\ pending' = queue_message(pending, Head(task[w].st))
    /\ lined' = Append(lined, Head(task[w].st))
    /\ task' = [task EXCEPT ![w] = Off]
    /\ UNCHANGED <<ctx, archived, running, interrupt, inStore, disk, seen,
                   posted, lost, via, stopTarget, counts>>

\* The task is spawned and the provider is told 200.
PermitGranted(w) ==
    /\ At(w, "permit")
    /\ Move(w, "take")
    /\ UNCHANGED <<session, disk, seen, ghosts, counts>>

\* run_one_gateway_turn takes the context; `busy' is already set.
GatewayTake(w) ==
    /\ At(w, "take")
    /\ Claim(w, "gateway", "run", Head(task[w].st))
    /\ UNCHANGED <<archived, pending, inStore, disk, seen, posted, lost,
                   lined, counts>>

\* The loop keeps the claim while the line is not empty.
GatewayNext(w) ==
    /\ At(w, "next") /\ pending # <<>>
    /\ pending' = Tail(pending)
    /\ task' = [task EXCEPT ![w].pc = "take", ![w].st = <<Head(pending)>>]
    /\ UNCHANGED <<ctx, archived, busy, running, interrupt, inStore, disk,
                   seen, ghosts, counts>>

GatewayDone(w) ==
    /\ At(w, "next") /\ pending = <<>>
    /\ busy' = FALSE
    /\ task' = [task EXCEPT ![w] = Off]
    /\ UNCHANGED <<ctx, archived, pending, running, interrupt, inStore, disk,
                   seen, ghosts, counts>>

-----------------------------------------------------------------------------
(* Operations on the conversation itself.                                  *)

\* POST /chats/{id}/compact claims the chat as a turn does; the context stays
\* where it is, since a compaction only records a boundary in it.
StartCompact(w) ==
    /\ inStore /\ ~busy /\ ctx # <<>> /\ Idle(w)
    /\ compactions < MaxCompactions
    /\ compactions' = compactions + 1
    /\ busy' = TRUE
    /\ task' = [task EXCEPT ![w] = [Off EXCEPT !.pc = "compact"]]
    /\ UNCHANGED <<ctx, archived, pending, running, interrupt, inStore, disk,
                   seen, ghosts, resets, crashes>>

\* Compacted: release the chat and persist.
CompactDone(w) ==
    /\ At(w, "compact")
    /\ busy' = FALSE
    /\ Move(w, "persist")
    /\ UNCHANGED <<ctx, archived, pending, running, interrupt, inStore, disk,
                   seen, ghosts, counts>>

\* Slip: an early return leaves the chat claimed.
CompactFails_Slip(w) ==
    /\ At(w, "compact")
    /\ task' = [task EXCEPT ![w] = Off]
    /\ UNCHANGED <<session, disk, seen, ghosts, counts>>

\* Nothing to summarise, no runtime, or the summary call failed.
CompactFails(w) ==
    /\ At(w, "compact")
    /\ busy' = FALSE
    /\ task' = [task EXCEPT ![w] = Off]
    /\ UNCHANGED <<ctx, archived, pending, running, interrupt, inStore, disk,
                   seen, ghosts, counts>>

\* mark_reset: what the model was shown moves behind a divider.
Archive ==
    /\ archived' = archived \o ctx \o <<Divider>>
    /\ ctx' = <<>>

\* POST /chats/{id}/reset.
Reset(w) ==
    /\ inStore /\ ~busy /\ Idle(w) /\ resets < MaxResets
    /\ resets' = resets + 1
    /\ Archive
    /\ task' = [task EXCEPT ![w] = [Off EXCEPT !.pc = "persist"]]
    /\ UNCHANGED <<busy, pending, running, interrupt, inStore, disk, seen,
                   ghosts, compactions, crashes>>

\* A flow node's turn is filed in the chat, whoever is using it.
RecordFlow(w, m) ==
    /\ inStore /\ Idle(w) /\ Fresh(m)
    /\ posted' = posted \cup {m}
    /\ task' = [task EXCEPT ![w] = [Off EXCEPT !.pc = "file", !.st = <<m>>]]
    /\ UNCHANGED <<session, disk, seen, lost, via, lined, stopTarget,
                   counts>>

\* A project's tick resets the context first, if there is one.
RecordTick(w, m) ==
    /\ inStore /\ Idle(w) /\ Fresh(m) /\ resets < MaxResets
    /\ resets' = resets + 1
    /\ IF ctx # <<>> THEN Archive ELSE UNCHANGED <<ctx, archived>>
    /\ posted' = posted \cup {m}
    /\ task' = [task EXCEPT ![w] = [Off EXCEPT !.pc = "file", !.st = <<m>>]]
    /\ UNCHANGED <<busy, pending, running, interrupt, inStore, disk, seen,
                   lost, via, lined, stopTarget, compactions, crashes>>

\* record_flow_turn appends to the context it finds, or to a new one.
FileRecord(w) ==
    /\ At(w, "file")
    /\ ctx' = ctx \o task[w].st
    /\ task' = [task EXCEPT ![w] = [Off EXCEPT !.pc = "persist"]]
    /\ UNCHANGED <<archived, busy, pending, running, interrupt, inStore, disk,
                   seen, ghosts, counts>>

\* DELETE /chats/{id}: out of the store, and its file removed.
DeleteChat ==
    /\ inStore
    /\ inStore' = FALSE /\ onDisk' = FALSE /\ file' = <<>>
    /\ UNCHANGED <<ctx, archived, busy, pending, running, interrupt, task,
                   seen, ghosts, counts>>

\* The process stops and starts again: the chat is rebuilt from its file.
Restart ==
    /\ crashes < MaxCrashes
    /\ crashes' = crashes + 1
    /\ inStore' = onDisk
    /\ archived' = SubSeq(file, 1, LastCut(file))
    /\ ctx' = SubSeq(file, LastCut(file) + 1, Len(file))
    /\ busy' = FALSE /\ pending' = <<>> /\ running' = <<>>
    /\ interrupt' = FALSE
    /\ task' = [w \in Workers |-> Off]
    /\ lost' = lost \cup (posted \ Elems(file))
    /\ UNCHANGED <<disk, seen, posted, via, lined, stopTarget, compactions,
                   resets>>

-----------------------------------------------------------------------------
\* What a claimed or spawned path goes on to do by itself.
WorkerStep(w) ==
    \/ SetupDone(w) \/ SetupFails(w)
    \/ Inject(w) \/ RefreshSnapshot(w)
    \/ TurnEnds(w) \/ TurnStops(w) \/ TurnErrors(w)
    \/ PersistAtOnce(w) \/ PersistSnapshot(w) \/ PersistWrite(w)
    \/ DrainNext(w) \/ DrainDone(w)
    \/ PermitDenied(w) \/ PermitGranted(w)
    \/ GatewayTake(w) \/ GatewayNext(w) \/ GatewayDone(w)
    \/ CompactDone(w) \/ CompactFails(w)
    \/ FileRecord(w)

\* What people, the provider, timers and recorders ask for.
Request ==
    \/ \E m \in Typed : QueueTurn(m)
    \/ \E m \in Inbound : DeliverUnready(m) \/ DeliverQueued(m)
    \/ \E w \in Workers :
        \/ \E m \in Typed : PostTurn(w, m)
        \/ \E m \in Followups : Followup(w, m)
        \/ \E m \in Inbound : DeliverClaim(w, m)
        \/ \E m \in Records : RecordFlow(w, m) \/ RecordTick(w, m)
        \/ StartCompact(w) \/ Reset(w)
    \/ PressStop \/ DeleteChat

Next == Request \/ Restart \/ \E w \in Workers : WorkerStep(w)

Spec == Init /\ [][Next]_vars

\* A handler or spawned task the runtime has started is scheduled again; a
\* turn ends, because every one of them runs under a step limit and a timeout.
Fairness == \A w \in Workers : WF_vars(WorkerStep(w))

FairSpec == Spec /\ Fairness

-----------------------------------------------------------------------------
(* Properties.                                                             *)

Tasks == [pc : Places, kind : Kinds, st : Seq(Messages),
          before : Seq(Messages), snap : Seq(Messages \cup {Divider})]

\* The shape of the state: what each field of the session and of a worker
\* may hold.
TypeOK ==
    /\ ctx \in Seq(Messages) /\ running \in Seq(Messages)
    /\ pending \in Seq(Messages) /\ lined \in Seq(Messages)
    /\ archived \in Seq(Messages \cup {Divider})
    /\ file \in Seq(Messages \cup {Divider})
    /\ busy \in BOOLEAN /\ interrupt \in BOOLEAN
    /\ inStore \in BOOLEAN /\ onDisk \in BOOLEAN
    /\ task \in [Workers -> Tasks]
    /\ seen \subseteq Inbound
    /\ posted \subseteq Messages /\ lost \subseteq Messages
    /\ via \in [Messages -> Kinds \cup {None}]
    /\ stopTarget \in Workers \cup {None}
    /\ compactions \in 0..MaxCompactions /\ resets \in 0..MaxResets
    /\ crashes \in 0..MaxCrashes

\* Two turns never run on one context: at most one worker is on the path
\* between claiming the chat and releasing it (workshop_api.rs:534-536).
TurnsExclusive == \A w, v \in Workers : Holds(w) /\ Holds(v) => w = v

\* The busy flag is set exactly while some worker will release it: no exit
\* path leaves the chat wedged, none releases a turn it does not own
\* (workshop_api.rs:6055-6059).
BusyMeansHeld == busy <=> \E w \in Workers : Holds(w)

\* Both: the flag is a lock, and whoever took it gives it back.  A turn of a
\* client, of the drain, of the gateway or of a follow-up and a compaction
\* take and release it each in its own way (workshop_api.rs:5114-5124).
HeldByOne == TurnsExclusive /\ BusyMeansHeld

\* Where a message can be while it still counts: waiting, or in the hands of
\* a worker that has yet to give it back.
InHand(w) == IF task[w].pc \in {"setup", "permit", "take", "run", "file"}
             THEN Elems(task[w].st) ELSE {}

\* No message is lost silently: what the chat accepted is in line, in a
\* worker's hands, in the conversation, or was lost by a failure that the
\* code reports (503, 500, a framework error, a restart) or to a record
\* filed under a running turn.  Every end of a turn, the ones that fail
\* included, puts a context back (workshop_api.rs:7331-7335, 7512-7516).
MessagesKept ==
    posted \subseteq (lost \cup Elems(pending) \cup Elems(archived)
                       \cup Elems(ctx)
                       \cup UNION {InHand(w) : w \in Workers})

\* No message is run twice: whatever is queued, drained, injected, redelivered
\* by the provider or replayed by a restart is in one place only
\* (inbound_dedup.rs:4-10, workshop_api.rs:7161-7163).
RunOnce ==
    LET Where(m) ==
            {<<"pending", i>> : i \in {j \in 1..Len(pending) : pending[j] = m}}
            \cup {<<"archived", i>> : i \in {j \in 1..Len(archived) : archived[j] = m}}
            \cup {<<"ctx", i>> : i \in {j \in 1..Len(ctx) : ctx[j] = m}}
            \cup {<<w, i>> : w \in {v \in Workers : m \in InHand(v)},
                              i \in {0}}
    IN \A m \in Messages : Cardinality(Where(m)) <= 1

\* The line is first in, first out, whichever path empties it: the mailbox,
\* the drain after a turn or the gateway's own loop (workshop_api.rs:547).
QueueInOrder ==
    \A i, j \in 1..Len(lined) :
        i < j /\ via[lined[j]] # None
            => via[lined[i]] # None \/ lined[i] \in lost

\* A stop kills the turn it was pressed on and never the next one
\* (workshop_api.rs:537-541).
StopHitsItsTurn ==
    \A w \in Workers : At(w, "run") /\ interrupt => stopTarget = w

AllIdle == \A w \in Workers : Idle(w)

\* Once nothing is working on the chat, its file is the conversation a client
\* is shown (workshop_api.rs:5249-5251).
DiskCatchesUp == inStore /\ AllIdle => onDisk /\ file = Transcript

\* A queued message gets its turn, unless the chat is deleted under it
\* (workshop_api.rs:6424-6425, 7129-7131).
QueuedRuns ==
    \A m \in Typed \cup Inbound :
        (m \in Elems(pending)) ~> (m \notin Elems(pending) \/ ~inStore)

\* The same as a state: with nothing left working on the chat, nothing waits.
NothingStranded == inStore /\ AllIdle => pending = <<>>

\* A turn that cannot start leaves the conversation it started from: whatever
\* a client was shown, the model is still shown when nothing is running.
ContextSurvives == AllIdle /\ running # <<>> => ctx = running
=============================================================================
