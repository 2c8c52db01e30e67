----------------------------- MODULE ProjectTick -----------------------------
(***************************************************************************)
(* The heartbeat of long-lived projects: one loop of the daemon that ticks *)
(* every project that is due, one after the other, while people pause,     *)
(* answer, force and delete the same projects over HTTP.                   *)
(*                                                                         *)
(* A project is one JSON record, read and written whole.  Nothing locks    *)
(* it: the loop clones every due record at the start of a pass, a tick     *)
(* works on its clone across awaits that last minutes, re-reads it twice,  *)
(* and saves it up to six times; tools and handlers read, change and save  *)
(* it in one go (src/src/project_tick.rs:776-1119,                         *)
(* src/src/daemon.rs:724-763).  Each action below is what the tick does    *)
(* between two of its awaits.                                              *)
(*                                                                         *)
(* Left out: the compute-budget and deadline rails, the tier and persona a *)
(* tick runs on, the scratchpad, the ledger, the journal, and the runs the *)
(* tasks of the plan wait for on their own rows.                           *)
(*                                                                         *)
(* A definition whose name ends in _Slip is the one after it with a bug    *)
(* somebody could write; no specification uses it.                         *)
(***************************************************************************)
EXTENDS Naturals, Sequences, FiniteSets

CONSTANTS
    Projects,       \* the projects on this pod
    None,           \* no project
    MaxTicks,       \* Rails::max_ticks
    MaxStreak,      \* Rails::max_consecutive_no_progress
    Patience,       \* looks at a run that does not end before it is given up
    MaxActive,      \* MAX_ACTIVE_PROJECTS
    MaxActs,        \* bounds: what people do, ticks that panic, crashes
    MaxPanics,
    MaxCrashes

ASSUME BoundsAreNumbers ==
    /\ MaxTicks \in Nat /\ MaxStreak \in Nat /\ Patience \in Nat
    /\ MaxActive \in Nat /\ MaxActs \in Nat /\ MaxPanics \in Nat
    /\ MaxCrashes \in Nat

ASSUME NoneIsNoProject == None \notin Projects
ASSUME ProjectsAreFinite == IsFiniteSet(Projects)

Statuses == {"active", "blocked", "paused", "done", "gone"}

Records == [status : Statuses, requested : BOOLEAN, run : BOOLEAN,
            session : BOOLEAN, brief : BOOLEAN,
            ticks : 0..MaxTicks, streak : 0..MaxStreak]

\* Where the loop is: asleep, between projects, or at an await of a tick.
Places == {"sleep", "next", "preflight", "session", "brief", "conduct",
           "announce", "worker", "fold"}

VARIABLES
    disk,       \* the project records, "gone" for a deleted one
    due,        \* has the interval since the last tick passed?
    looks,      \* how often a run has been looked at while it was running
    pc, cur,    \* where the loop is, and which project's tick
    copy,       \* the tick's own copy of the record
    queue,      \* due records cloned at the start of the pass, still to tick
    \* History, and the counters the bounds are on.
    decided,    \* the status each project was last deliberately given
    told,       \* has the person been told of the stop the project is in?
    wrote,      \* what the agents' tools wrote that nobody has since undone
    owed,       \* where the project's tick was when a force was raised
    turns,      \* ticks that have spent model turns
    restarts,   \* times a person set the project going again
    acts, panics, crashes

loop == <<pc, cur, copy, queue>>
history == <<decided, told, wrote, owed, turns, restarts>>
counts == <<acts, panics, crashes>>
vars == <<disk, due, looks, loop, history, counts>>

-----------------------------------------------------------------------------
(* Helpers.                                                                *)

ticks(r) == r.status = "active"

is_due(p) == ticks(disk[p]) /\ (disk[p].requested \/ due[p])

rail_tripped(r) == r.ticks >= MaxTicks \/ r.streak >= MaxStreak

\* The orders the due records may come in: by bookmark, which is left open.
Passes == {s \in [1..Cardinality({p \in Projects : is_due(p)}) ->
                      {p \in Projects : is_due(p)}] :
              \A i, j \in DOMAIN s : i # j => s[i] # s[j]}

Saved(p, r) == disk' = [disk EXCEPT ![p] = r]

Decide(p, status) == decided' = [decided EXCEPT ![p] = status]

NextProject ==
    /\ pc' = "next" /\ cur' = None /\ copy' = None

-----------------------------------------------------------------------------
Init ==
    /\ disk = [p \in Projects |->
                 [status |-> "active", requested |-> FALSE, run |-> FALSE,
                  session |-> FALSE, brief |-> FALSE, ticks |-> 0, streak |-> 0]]
    /\ due = [p \in Projects |-> TRUE]
    /\ looks = [p \in Projects |-> 0]
    /\ pc = "sleep" /\ cur = None /\ copy = None /\ queue = <<>>
    /\ decided = [p \in Projects |-> "active"]
    /\ told = [p \in Projects |-> FALSE]
    /\ wrote = [p \in Projects |-> {}]
    /\ owed = [p \in Projects |-> "sleep"]
    /\ turns = [p \in Projects |-> 0]
    /\ restarts = [p \in Projects |-> 0]
    /\ acts = 0 /\ panics = 0 /\ crashes = 0

-----------------------------------------------------------------------------
(* The loop.                                                               *)

\* The interval passes.
Elapse(p) ==
    /\ ~due[p]
    /\ due' = [due EXCEPT ![p] = TRUE]
    /\ UNCHANGED <<disk, looks, loop, history, counts>>

\* A pass clones every due record before it runs the first tick.
Poll ==
    /\ pc = "sleep"
    /\ \E s \in Passes :
        /\ s # <<>>
        /\ queue' = [i \in DOMAIN s |-> [project |-> s[i], record |-> disk[s[i]]]]
    /\ pc' = "next"
    /\ UNCHANGED <<disk, due, looks, cur, copy, history, counts>>

PassEnds ==
    /\ pc = "next" /\ queue = <<>>
    /\ pc' = "sleep"
    /\ UNCHANGED <<disk, due, looks, cur, copy, queue, history, counts>>

\* A rail that has already tripped blocks the project and spends nothing.
TickRail ==
    /\ pc = "next" /\ queue # <<>> /\ rail_tripped(Head(queue).record)
    /\ LET p == Head(queue).project IN
        /\ Saved(p, [Head(queue).record EXCEPT !.status = "blocked"])
        /\ Decide(p, "blocked")
        /\ told' = [told EXCEPT ![p] = FALSE]
    /\ queue' = Tail(queue)
    /\ UNCHANGED <<due, looks, pc, cur, copy, wrote, owed, turns, restarts, counts>>

\* A tick takes the force down first, and saves its clone if there was one.
TickStart ==
    /\ pc = "next" /\ queue # <<>> /\ ~rail_tripped(Head(queue).record)
    /\ LET p == Head(queue).project
           r == Head(queue).record
       IN /\ cur' = p
          /\ copy' = [r EXCEPT !.requested = FALSE]
          /\ disk' = IF r.requested THEN [disk EXCEPT ![p] = copy'] ELSE disk
          /\ owed' = [owed EXCEPT ![p] = "sleep"]
    /\ queue' = Tail(queue)
    /\ pc' = "preflight"
    /\ UNCHANGED <<due, looks, decided, told, wrote, turns, restarts, counts>>

\* Slip: the age of the run is not counted from its start.
PreflightWait_Slip ==
    /\ pc = "preflight" /\ copy.run /\ looks[cur] < Patience
    /\ Saved(cur, copy)
    /\ due' = [due EXCEPT ![cur] = FALSE]
    /\ NextProject
    /\ UNCHANGED <<looks, queue, history, counts>>

\* The run it waits for is still going, and no task is ready: look again soon.
PreflightWait ==
    /\ pc = "preflight" /\ copy.run /\ looks[cur] < Patience
    /\ looks' = [looks EXCEPT ![cur] = @ + 1]
    /\ Saved(cur, copy)
    /\ due' = [due EXCEPT ![cur] = FALSE]
    /\ NextProject
    /\ UNCHANGED <<queue, history, counts>>

\* The run has landed, is gone or is given up, or there is work beside it.
PreflightSpend ==
    /\ pc = "preflight"
    /\ \E still \in (IF looks[cur] < Patience THEN BOOLEAN ELSE {FALSE}) :
        copy' = [copy EXCEPT !.run = copy.run /\ still]
    /\ wrote' = IF copy'.run THEN wrote ELSE [wrote EXCEPT ![cur] = @ \ {"run"}]
    /\ Saved(cur, copy')
    /\ pc' = "session"
    /\ UNCHANGED <<due, looks, cur, queue, decided, told, owed, turns, restarts,
                   counts>>

\* The tick's copy, and the file with it, unless nothing was learned.
Learned(r) ==
    /\ copy' = r
    /\ disk' = IF r = copy THEN disk ELSE [disk EXCEPT ![cur] = r]

\* The project's conversation is opened once.  From here the tick costs model
\* turns: the brief's, the conductor's, the worker's.
OpenSession ==
    /\ pc = "session"
    /\ Learned([copy EXCEPT !.session = TRUE])
    /\ turns' = [turns EXCEPT ![cur] = @ + 1]
    /\ pc' = "brief"
    /\ UNCHANGED <<due, looks, cur, queue, decided, told, wrote, owed, restarts,
                   counts>>

\* The worker's brief is composed once, unless the model is down; the conductor
\* starts either way.
ComposeBrief ==
    /\ pc = "brief"
    /\ \E composed \in BOOLEAN :
        Learned([copy EXCEPT !.brief = @ \/ composed])
    /\ pc' = "conduct"
    /\ UNCHANGED <<due, looks, cur, queue, history, counts>>

\* The record as it is now, or the tick's copy if somebody deleted it.
Reread(p) == IF disk[p].status = "gone" THEN copy ELSE disk[p]

\* The conductor is done.  A project it ended, or that somebody stopped, is
\* announced; an active one goes to the worker.
EndConduct ==
    /\ pc = "conduct"
    /\ copy' = Reread(cur)
    /\ IF ticks(copy')
       THEN pc' = "worker" /\ UNCHANGED told
       ELSE /\ pc' = "announce"
            /\ told' = [told EXCEPT ![cur] = copy'.status \in {"blocked", "done"}]
    /\ UNCHANGED <<disk, due, looks, cur, queue, decided, wrote, owed, turns,
                   restarts, counts>>

\* The announcement, a whole turn in the person's chat, is over; the record
\* read before it is saved.
EndedSave ==
    /\ pc = "announce"
    /\ Saved(cur, [copy EXCEPT !.ticks = @ + 1])
    /\ due' = [due EXCEPT ![cur] = FALSE]
    /\ NextProject
    /\ UNCHANGED <<looks, queue, history, counts>>

\* Slip: the copy the tick started from is kept.
EndWorker_Slip ==
    /\ pc = "worker"
    /\ pc' = "fold"
    /\ UNCHANGED <<disk, due, looks, cur, copy, queue, history, counts>>

\* The worker is done: re-read, then file the tick in the conversation.
EndWorker ==
    /\ pc = "worker"
    /\ copy' = Reread(cur)
    /\ pc' = "fold"
    /\ UNCHANGED <<disk, due, looks, cur, queue, history, counts>>

\* What a tick leaves in the record: its number, the streak, a rail it ran into.
Folded(r, progressed) ==
    LET counted == [r EXCEPT !.ticks = @ + 1,
                             !.streak = IF progressed THEN 0 ELSE @ + 1]
    IN IF ticks(counted) /\ rail_tripped(counted)
       THEN [counted EXCEPT !.status = "blocked"]
       ELSE counted

\* The tick's result is folded in and saved, and a stop is announced.
Fold ==
    /\ pc = "fold"
    /\ \E progressed \in BOOLEAN :
        LET r == Folded(copy, progressed)
        IN /\ Saved(cur, r)
           /\ told' = [told EXCEPT ![cur] = r.status \in {"blocked", "done"}]
           /\ IF r.status = copy.status
              THEN UNCHANGED decided
              ELSE Decide(cur, r.status)
    /\ due' = [due EXCEPT ![cur] = FALSE]
    /\ NextProject
    /\ UNCHANGED <<looks, queue, wrote, owed, turns, restarts, counts>>

\* Slip: the project is left active, to panic again.
Panic_Slip ==
    /\ cur # None /\ panics < MaxPanics
    /\ panics' = panics + 1
    /\ NextProject
    /\ UNCHANGED <<disk, due, looks, queue, history, acts, crashes>>

\* Slip: the panic takes the loop down with it.
Panic_Uncaught ==
    /\ cur # None /\ panics < MaxPanics
    /\ panics' = panics + 1
    /\ pc' = "down" /\ cur' = None /\ copy' = None
    /\ UNCHANGED <<disk, due, looks, queue, history, acts, crashes>>

\* Something in the tick panics: it is caught, and the project blocked.
Panic ==
    /\ cur # None /\ panics < MaxPanics
    /\ panics' = panics + 1
    /\ IF disk[cur].status = "gone"
       THEN UNCHANGED <<disk, decided, told, wrote>>
       ELSE /\ Saved(cur, [disk[cur] EXCEPT !.status = "blocked"])
            /\ Decide(cur, "blocked")
            /\ told' = [told EXCEPT ![cur] = FALSE]
            /\ UNCHANGED wrote
    /\ NextProject
    /\ UNCHANGED <<due, looks, queue, owed, turns, restarts, acts, crashes>>

\* The process dies and comes back to what is on disk.
Crash ==
    /\ crashes < MaxCrashes
    /\ crashes' = crashes + 1
    /\ pc' = "sleep" /\ cur' = None /\ copy' = None /\ queue' = <<>>
    /\ UNCHANGED <<disk, due, looks, history, acts, panics>>

-----------------------------------------------------------------------------
(* The agents' tools: read, change, save.                                  *)

Tool(places) == pc \in places /\ disk[cur].status # "gone"

Writes(what) == wrote' = [wrote EXCEPT ![cur] = @ \cup {what}]

\* project_block, by the conductor or the worker.
ProjectBlock ==
    /\ Tool({"conduct", "worker"}) /\ disk[cur].status # "blocked"
    /\ Saved(cur, [disk[cur] EXCEPT !.status = "blocked"])
    /\ Decide(cur, "blocked")
    /\ told' = [told EXCEPT ![cur] = FALSE]
    /\ Writes("stop")
    /\ UNCHANGED <<due, looks, loop, owed, turns, restarts, counts>>

\* project_complete, by the conductor; refused while plan steps are open.
ProjectComplete ==
    /\ Tool({"conduct"}) /\ disk[cur].status # "done"
    /\ Saved(cur, [disk[cur] EXCEPT !.status = "done"])
    /\ Decide(cur, "done")
    /\ told' = [told EXCEPT ![cur] = FALSE]
    /\ Writes("stop")
    /\ UNCHANGED <<due, looks, loop, owed, turns, restarts, counts>>

\* project_await_run, by the worker; one run at a time.
ProjectAwaitRun ==
    /\ Tool({"worker"}) /\ ~disk[cur].run
    /\ Saved(cur, [disk[cur] EXCEPT !.run = TRUE])
    /\ looks' = [looks EXCEPT ![cur] = 0]
    /\ Writes("run")
    /\ UNCHANGED <<due, loop, decided, told, owed, turns, restarts, counts>>

-----------------------------------------------------------------------------
(* People, over HTTP, at any moment.                                       *)

Act(p) ==
    /\ disk[p].status # "gone"
    /\ acts < MaxActs /\ acts' = acts + 1

\* What a person decides replaces what the agents had said about stopping.
Overrules(p, status) ==
    /\ Decide(p, status)
    /\ told' = [told EXCEPT ![p] = FALSE]
    /\ wrote' = [wrote EXCEPT ![p] = @ \ {"stop"}]
    /\ UNCHANGED owed

Pause(p) ==
    /\ Act(p) /\ disk[p].status # "paused"
    /\ Saved(p, [disk[p] EXCEPT !.status = "paused"])
    /\ Overrules(p, "paused")
    /\ UNCHANGED <<due, looks, loop, turns, restarts, panics, crashes>>

\* Resuming counts against the ceiling, clears the streak and starts the clock;
\* so does the same request for a project that is running.
Resume(p) ==
    /\ Act(p)
    /\ \/ ticks(disk[p])
       \/ Cardinality({q \in Projects : ticks(disk[q])}) < MaxActive
    /\ Saved(p, [disk[p] EXCEPT !.status = "active", !.streak = 0])
    /\ due' = [due EXCEPT ![p] = FALSE]
    /\ restarts' = [restarts EXCEPT ![p] = IF ticks(disk[p]) THEN @ ELSE @ + 1]
    /\ Overrules(p, "active")
    /\ UNCHANGED <<looks, loop, turns, panics, crashes>>

\* An answer unblocks by itself, and touches neither the streak nor the clock.
Answer(p) ==
    /\ Act(p) /\ disk[p].status = "blocked"
    /\ Saved(p, [disk[p] EXCEPT !.status = "active"])
    /\ restarts' = [restarts EXCEPT ![p] = @ + 1]
    /\ Overrules(p, "active")
    /\ UNCHANGED <<due, looks, loop, turns, panics, crashes>>

\* "Run now" is refused unless the project ticks.
ForceTick(p) ==
    /\ Act(p) /\ ticks(disk[p]) /\ ~disk[p].requested
    /\ Saved(p, [disk[p] EXCEPT !.requested = TRUE])
    /\ owed' = [owed EXCEPT ![p] = IF cur = p THEN pc ELSE "sleep"]
    /\ UNCHANGED <<due, looks, loop, decided, told, wrote, turns, restarts,
                   panics, crashes>>

Delete(p) ==
    /\ Act(p)
    /\ Saved(p, [disk[p] EXCEPT !.status = "gone"])
    /\ Decide(p, "gone")
    /\ told' = [told EXCEPT ![p] = FALSE]
    /\ wrote' = [wrote EXCEPT ![p] = {}]
    /\ owed' = [owed EXCEPT ![p] = "sleep"]
    /\ UNCHANGED <<due, looks, loop, turns, restarts, panics, crashes>>

-----------------------------------------------------------------------------
Loop == \/ Poll \/ PassEnds \/ TickRail \/ TickStart
        \/ PreflightWait \/ PreflightSpend \/ OpenSession \/ ComposeBrief
        \/ EndConduct \/ EndedSave \/ EndWorker \/ Fold

Tools == ProjectBlock \/ ProjectComplete \/ ProjectAwaitRun

People == \E p \in Projects :
              Pause(p) \/ Resume(p) \/ Answer(p) \/ ForceTick(p) \/ Delete(p)

Next == Loop \/ Tools \/ People \/ Panic \/ Crash \/ \E p \in Projects : Elapse(p)

Spec == Init /\ [][Next]_vars

\* The loop sleeps and polls for ever, an agent's turn ends by its own limits,
\* and time passes.  Nothing makes people, tools, panics or crashes happen.
FairSpec == Spec /\ WF_vars(Loop) /\ \A p \in Projects : WF_vars(Elapse(p))

-----------------------------------------------------------------------------
(* Properties.                                                             *)

TypeOK ==
    /\ disk \in [Projects -> Records]
    /\ due \in [Projects -> BOOLEAN]
    /\ looks \in [Projects -> 0..Patience]
    /\ pc \in Places
    /\ cur \in Projects \cup {None}
    /\ copy \in Records \cup {None}
    /\ queue \in Seq([project : Projects, record : Records])
    /\ decided \in [Projects -> Statuses]
    /\ told \in [Projects -> BOOLEAN]
    /\ wrote \in [Projects -> SUBSET {"stop", "run"}]
    /\ owed \in [Projects -> Places]
    /\ turns \in [Projects -> Nat]
    /\ restarts \in [Projects -> 0..MaxActs]
    /\ acts \in 0..MaxActs /\ panics \in 0..MaxPanics
    /\ crashes \in 0..MaxCrashes

\* What a project may spend is what its rails allow, whatever happens to its
\* ticks: a tick that is lost to a crash, or to a panic that somebody then
\* resumed, is the only one not counted (project_tick.rs:1049-1060,
\* daemon.rs:749-760).
SpendBound ==
    \A p \in Projects :
        turns[p] <= disk[p].ticks + crashes + restarts[p] + 1

\* What a tool wrote during a tick outlives the end of that tick: a stop stays
\* a stop, and a run handed to the heartbeat stays handed over
\* (project_tick.rs:913-915, 1019-1021).
ToolWritesStick ==
    \A p \in Projects :
        disk[p].status # "gone" =>
            /\ "stop" \in wrote[p] => ~ticks(disk[p])
            /\ "run" \in wrote[p] => disk[p].run

\* A force raised while the agents of a tick are at work fires when that tick
\* is over, and is not swallowed by it (project_tick.rs:802-805).
ForceOutlivesTick ==
    \A p \in Projects :
        owed[p] \in {"conduct", "worker"} /\ ticks(disk[p]) => disk[p].requested

\* Both: what is written while a tick's agents are at work outlives it.
OthersWritesStick == ToolWritesStick /\ ForceOutlivesTick

\* Every due project is ticked, or stopped, in the end: neither the projects
\* before it in a pass nor a panic in one of them keeps it waiting for ever
\* (daemon.rs:720-723).
DueIsServed ==
    \A p \in Projects : is_due(p) ~> (cur = p \/ ~is_due(p))

\* Every project runs out of rope: whatever its agents do, and however often a
\* run it waits for does not come back, it stops (project_tick.rs:288-312,
\* 320-326).
RunawayStops == <>[](\A p \in Projects : ~ticks(disk[p]))

\* A project that its person has answered, or resumed, and that nobody has
\* stopped since, runs (project_tick.rs:923-926).
AnswerSticks == \A p \in Projects : decided[p] = "active" => ticks(disk[p])

\* A force raised at any moment of a tick survives it and fires when it ends
\* (workshop_api.rs:10307-10308, projects.rs:309-312).
ForceSurvives ==
    \A p \in Projects : owed[p] # "sleep" /\ ticks(disk[p]) => disk[p].requested

\* A project that was stopped, and not by its person, has said so by the time
\* the loop sleeps (project_tick.rs:1070-1071).
NoSilentStop ==
    \A p \in Projects : disk[p].status = "blocked" /\ pc = "sleep" => told[p]
=============================================================================
