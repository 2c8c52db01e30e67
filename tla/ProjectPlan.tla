----------------------------- MODULE ProjectPlan -----------------------------
(***************************************************************************)
(* The plan of one project: tasks.json, a list of rows with dependencies,  *)
(* read and replaced whole (src/src/project_tasks.rs).  Nothing locks it.  *)
(* A tick polls the runs the rows wait for, one HTTP call each, and saves  *)
(* the list it read before the first; then its agents change rows through  *)
(* tools, and hand ready rows to delegates that take minutes; a person     *)
(* puts back a list edited from one read earlier.                          *)
(*                                                                         *)
(* A list is a function from ids to rows: the order of the rows is read by *)
(* people only.  Left out: titles, details, assignees, the scratchpad and  *)
(* the conductor's ledger, where the same events are told again.           *)
(*                                                                         *)
(* A definition whose name ends in _Slip is the one after it with a bug    *)
(* somebody could write; no specification uses it.                         *)
(***************************************************************************)
EXTENDS Naturals, FiniteSets

CONSTANTS
    MaxId,          \* bound: ids are 1..MaxId
    MaxTasks,       \* MAX_TASKS
    MaxParallel,    \* MAX_PARALLEL_DELEGATES
    Patience,       \* looks at a run that does not end before it is given up
    Kinds,          \* what a new row may be: [writes, gate]
    MaxCalls,       \* bounds: tool calls, lists put by people, crashes
    MaxPuts,
    MaxCrashes,
    PutWhilePolling \* may a person's list arrive while the tick polls?

ASSUME BoundsAreNumbers ==
    /\ MaxId \in Nat /\ MaxTasks \in Nat /\ MaxParallel \in Nat
    /\ Patience \in Nat /\ MaxCalls \in Nat /\ MaxPuts \in Nat
    /\ MaxCrashes \in Nat /\ PutWhilePolling \in BOOLEAN

ASSUME KindsAreKinds == Kinds \subseteq [writes : BOOLEAN, gate : BOOLEAN]

Ids == 1..MaxId

TaskStatuses == {"todo", "waiting", "blocked", "done", "dropped"}

\* born is history: which creation of the id this row is.
Rows == [status : TaskStatuses, deps : SUBSET Ids, kind : Kinds,
         run : BOOLEAN, green : BOOLEAN, tries : Nat, born : Nat]

IsList(T) == DOMAIN T \in SUBSET Ids /\ T \in [DOMAIN T -> Rows]

VARIABLES
    tasks,      \* tasks.json
    pc,         \* where the tick is
    held,       \* the list it read before an await
    flight,     \* rows the delegates of this dispatch work on
    age,        \* looks at each row's run since it was started
    view,       \* the list a person read
    born,       \* history: rows created
    calls, puts, crashes

counts == <<calls, puts, crashes>>
vars == <<tasks, pc, held, flight, age, view, born, counts>>

-----------------------------------------------------------------------------
(* Lists.                                                                  *)

satisfies_dependency(t) == t.status \in {"done", "dropped"}

is_ready(i, T) ==
    /\ T[i].status = "todo"
    /\ \A d \in T[i].deps \cap DOMAIN T : satisfies_dependency(T[d])

ready(T) == {i \in DOMAIN T : is_ready(i, T)}

\* find_cycle finds nothing: no rows that all wait within themselves.
Acyclic(T) ==
    \A S \in SUBSET DOMAIN T :
        S # {} => \E i \in S : T[i].deps \cap S = {}

\* Every dependency is a row of the list, and no row's own.
Closed(T) == \A i \in DOMAIN T : T[i].deps \subseteq DOMAIN T \ {i}

\* Slip: a list edited by hand is taken as it is.
validate_Slip(T) == Cardinality(DOMAIN T) <= MaxTasks

validate(T) == Cardinality(DOMAIN T) <= MaxTasks /\ Closed(T) /\ Acyclic(T)

\* The high-water mark of the ids in the list.
HighWater(T) ==
    IF DOMAIN T = {} THEN 0
    ELSE CHOOSE i \in DOMAIN T : \A j \in DOMAIN T : j <= i

next_id(T) == HighWater(T) + 1

NewRow(kind, deps, b) ==
    [status |-> "todo", deps |-> deps, kind |-> kind, run |-> FALSE,
     green |-> FALSE, tries |-> 0, born |-> b]

\* T with the rows of N, new or replaced.
With(T, N) ==
    [i \in DOMAIN T \cup DOMAIN N |-> IF i \in DOMAIN N THEN N[i] ELSE T[i]]

Without(T, i) ==
    [j \in DOMAIN T \ {i} |-> [T[j] EXCEPT !.deps = @ \ {i}]]

Plus(T, i, row) == With(T, [j \in {i} |-> row])

\* The lists one edit away from the one a person read.
Edits(T) ==
    {Without(T, i) : i \in DOMAIN T}
    \cup {[T EXCEPT ![i].status = s] :
             i \in DOMAIN T, s \in {"todo", "done", "dropped"}}
    \cup {[T EXCEPT ![i].deps = D] : i \in DOMAIN T, D \in SUBSET DOMAIN T}
    \cup {Plus(T, i, NewRow(k, {}, born + 1)) :
             i \in Ids \ DOMAIN T, k \in Kinds}

-----------------------------------------------------------------------------
NoRows == [i \in {} |-> 0]

Init ==
    /\ tasks = NoRows /\ held = NoRows /\ view = NoRows
    /\ pc = "idle" /\ flight = {}
    /\ age = [i \in Ids |-> 0]
    /\ born = 0 /\ calls = 0 /\ puts = 0 /\ crashes = 0

-----------------------------------------------------------------------------
(* The tick.                                                               *)

\* The pre-flight reads the list, then polls run by run.
PreflightRead ==
    /\ pc = "idle"
    /\ held' = tasks
    /\ pc' = "poll"
    /\ UNCHANGED <<tasks, flight, age, view, born, counts>>

Verdicts == {"still", "green", "red", "gone"}

\* Slip: only rows that still wait are polled.
Owed_Slip(T) == {i \in DOMAIN T : T[i].run /\ T[i].status = "waiting"}

\* The rows with a run to poll, whatever has become of them since.
Owed(T) == {i \in DOMAIN T : T[i].run}

\* What a poll can say of row i: a run too old is given up.
VerdictsOf(i) == IF age[i] < Patience THEN Verdicts ELSE Verdicts \ {"still"}

\* Slip: the row stays waiting for the run that has landed.
Landed_Slip(row, v) ==
    [row EXCEPT !.run = FALSE, !.green = @ \/ v = "green"]

\* A row whose run has landed, with that verdict, is back in the pool.
Landed(row, v) ==
    [row EXCEPT !.run = FALSE,
                !.status = IF @ = "waiting" THEN "todo" ELSE @,
                !.green = @ \/ v = "green"]

\* Every run has been polled: what landed is folded into the list that was
\* read, and that list is saved.  With nothing landed, something still running
\* and nothing ready, the tick ends here; else the agents' turns follow.  The
\* project may wait for a run of its own besides (own).
PreflightSave ==
    /\ pc = "poll"
    /\ LET owed == Owed(held) IN
       \E verdict \in [owed -> Verdicts], own \in {"none", "still", "landed"} :
        /\ \A i \in owed : verdict[i] \in VerdictsOf(i)
        /\ LET still == {i \in owed : verdict[i] = "still"}
               after == [i \in DOMAIN held |->
                           IF i \in owed \ still THEN Landed(held[i], verdict[i])
                           ELSE held[i]]
           IN /\ tasks' = IF still = owed THEN tasks ELSE after
              /\ age' = [i \in Ids |-> IF i \in still THEN age[i] + 1 ELSE age[i]]
              /\ pc' = IF /\ still = owed /\ own # "landed"
                          /\ still # {} \/ own = "still"
                          /\ ready(after) = {}
                       THEN "idle" ELSE "turn"
    /\ held' = NoRows
    /\ UNCHANGED <<flight, view, born, counts>>

\* The conductor's turn and the worker's are over.
EndTurn ==
    /\ pc = "turn"
    /\ pc' = "idle"
    /\ UNCHANGED <<tasks, held, flight, age, view, born, counts>>

\* The process dies and comes back to what is on disk.
Crash ==
    /\ crashes < MaxCrashes
    /\ crashes' = crashes + 1
    /\ pc' = "idle" /\ held' = NoRows /\ flight' = {}
    /\ UNCHANGED <<tasks, age, view, born, calls, puts>>

-----------------------------------------------------------------------------
(* The agents' tools.  Each reads the list, changes it and saves it.       *)

Tool ==
    /\ pc = "turn" /\ calls < MaxCalls
    /\ calls' = calls + 1
    /\ UNCHANGED <<view, puts, crashes>>

ToolOnly == Tool /\ UNCHANGED <<pc, held, flight>>

\* task_add: a batch whose rows may depend on each other and on older rows.
TaskAdd ==
    /\ ToolOnly
    /\ \E n \in 1..2 :
        LET first == next_id(tasks)
            minted == first..(first + n - 1)
        IN /\ minted \subseteq Ids
           /\ \E deps \in [minted -> SUBSET (DOMAIN tasks \cup minted)],
                 kind \in [minted -> Kinds] :
               LET added == [i \in minted |->
                               NewRow(kind[i], deps[i], born + 1 + i - first)]
                   list == With(tasks, added)
               IN /\ \A i \in minted : i \notin deps[i]
                  /\ Cardinality(DOMAIN tasks) + n <= MaxTasks
                  /\ Acyclic(list)
                  /\ tasks' = list
        /\ born' = born + n
    /\ UNCHANGED age

\* task_update: new dependencies.
TaskRedep(i) ==
    /\ ToolOnly
    /\ \E deps \in SUBSET (DOMAIN tasks \ {i}) :
        /\ tasks' = [tasks EXCEPT ![i].deps = deps]
        /\ Acyclic(tasks')
    /\ UNCHANGED <<age, born>>

\* task_update: whether it writes the workspace, whether it has a gate.
TaskRekind(i, kind) ==
    /\ ToolOnly
    /\ tasks' = [tasks EXCEPT ![i].kind = kind]
    /\ UNCHANGED <<age, born>>

\* task_update with reopen, task_block, task_drop.
TaskSet(i, status) ==
    /\ ToolOnly
    /\ tasks' = [tasks EXCEPT ![i].status = status]
    /\ UNCHANGED <<age, born>>

\* task_done: with a gate, only after a green run is on record.  The evidence
\* is the agent's own; a row without a gate may so come by a green run.
TaskDone(i) ==
    /\ ToolOnly
    /\ tasks[i].kind.gate => tasks[i].green
    /\ \E claim \in BOOLEAN :
        tasks' = [tasks EXCEPT ![i].status = "done", ![i].run = FALSE,
                               ![i].green = @ \/ claim]
    /\ UNCHANGED <<age, born>>

\* project_await_run for a row that has no run yet.
TaskAwaitRun(i) ==
    /\ ToolOnly
    /\ ~tasks[i].run
    /\ tasks' = [tasks EXCEPT ![i].status = "waiting", ![i].run = TRUE]
    /\ age' = [age EXCEPT ![i] = 0]
    /\ UNCHANGED born

\* task_dispatch: ready rows, at most one of which writes the workspace.
TaskDispatch(S) ==
    /\ Tool
    /\ S # {} /\ S \subseteq ready(tasks) /\ Cardinality(S) <= MaxParallel
    /\ \A i, j \in S : tasks[i].kind.writes /\ tasks[j].kind.writes => i = j
    /\ flight' = S /\ held' = tasks /\ pc' = "dispatch"
    /\ UNCHANGED <<tasks, age, born>>

Returned(T, undone) ==
    [i \in DOMAIN T |-> IF i \in undone THEN [T[i] EXCEPT !.tries = @ + 1] ELSE T[i]]

\* The delegates are back: an attempt is counted on the rows they left undone,
\* each read afresh.  No row is closed.
DispatchReturns ==
    /\ pc = "dispatch"
    /\ \E undone \in SUBSET flight : tasks' = Returned(tasks, undone)
    /\ flight' = {} /\ held' = NoRows /\ pc' = "turn"
    /\ UNCHANGED <<age, view, born, counts>>

-----------------------------------------------------------------------------
(* A person.                                                               *)

\* GET tasks.
ReadPlan ==
    /\ puts < MaxPuts /\ view # tasks
    /\ view' = tasks
    /\ UNCHANGED <<tasks, pc, held, flight, age, born, counts>>

\* PUT tasks: the whole list, edited from what was read.
PutTasks ==
    /\ puts < MaxPuts /\ (pc = "poll" => PutWhilePolling)
    /\ \E list \in Edits(view) :
        /\ validate(list)
        /\ tasks' = list
    /\ born' = born + 1
    /\ puts' = puts + 1
    /\ UNCHANGED <<pc, held, flight, age, view, calls, crashes>>

-----------------------------------------------------------------------------
Tick == PreflightRead \/ PreflightSave \/ DispatchReturns \/ EndTurn

UseTool ==
    \/ TaskAdd
    \/ \E i \in DOMAIN tasks :
        \/ TaskRedep(i) \/ TaskDone(i) \/ TaskAwaitRun(i)
        \/ \E kind \in Kinds : TaskRekind(i, kind)
        \/ \E s \in {"todo", "blocked", "dropped"} : TaskSet(i, s)
    \/ \E S \in SUBSET DOMAIN tasks : TaskDispatch(S)

Next == Tick \/ UseTool \/ ReadPlan \/ PutTasks \/ Crash

Spec == Init /\ [][Next]_vars

\* The heartbeat polls for ever, and a turn ends.
FairSpec == Spec /\ WF_vars(Tick)
-----------------------------------------------------------------------------
(* Properties.                                                             *)

\* Every variable has its type; what is held across an await is a list.
TypeOK ==
    /\ IsList(tasks) /\ IsList(held) /\ IsList(view)
    /\ pc \in {"idle", "poll", "turn", "dispatch"}
    /\ flight \in SUBSET Ids
    /\ age \in [Ids -> 0..Patience]
    /\ born \in Nat /\ calls \in Nat /\ puts \in Nat /\ crashes \in Nat

\* However tools, polls and lists put by people interleave, the plan on disk
\* has no cycle and names only its own rows: each write is checked against the
\* list it replaces, and the one write that is not (PreflightSave) keeps the
\* dependencies of a list that was (project_tasks.rs:399-430, :602-604).
PlanWellFormed == Acyclic(tasks) /\ Closed(tasks)

\* A plan with open rows is never stuck by its own shape: something is ready,
\* or something waits for a run or for a person.
NothingWedges ==
    (\E i \in DOMAIN tasks : tasks[i].status = "todo")
        => \/ ready(tasks) # {}
           \/ \E i \in DOMAIN tasks : tasks[i].status \in {"waiting", "blocked"}

\* A row that says it waits is owed a run: nothing would ever wake it otherwise
\* (project_tick.rs:460-497 polls rows with a run and looks at no other).
WaitingIsOwed ==
    \A i \in DOMAIN tasks : tasks[i].status = "waiting" => tasks[i].run

\* A run handed to the heartbeat is read in the end, or given up, whatever
\* else happens to its row.
RunsAreRead ==
    \A i \in Ids :
        (i \in DOMAIN tasks /\ tasks[i].run)
            ~> (i \notin DOMAIN tasks \/ ~tasks[i].run)
=============================================================================
