----------------------------- MODULE Delegates -----------------------------
(***************************************************************************)
(* Sub-agents: the turns of one agent, the delegates they run, and the     *)
(* directory that keeps what a delegate learned.                           *)
(*   - src/src/tools/sub_agent.rs: a delegation, alone or in a batch, its  *)
(*     attempts, its timeout and its end;                                  *)
(*   - src/src/tools/sub_agent_lifecycle.rs: the follow-up to a delegate;  *)
(*   - src/src/tools/sub_agent_registry.rs: the directory, under its lock; *)
(*   - src/src/turn_plan.rs, update_plan.rs, say_to_user.rs: the gate that *)
(*     holds a reply back while a delegate left work undone.               *)
(*                                                                         *)
(* Turns of two chats of one agent share the directory, its scope is the   *)
(* agent.  A run sits inside a tool call of its caller, so a caller goes on*)
(* when its runs are over; a run that times out takes those below with it, *)
(* for their futures are inside its own.  The tool calls of one reply of   *)
(* the model come one after another.                                       *)
(***************************************************************************)
EXTENDS Naturals, Sequences, SequencesExt, FiniteSets

CONSTANTS
    Turns,        \* chats of the agent; each has one turn at a time
    Personas,     \* the roster
    Writers,      \* those whose own tools write the workspace
    Splitters,    \* those that may delegate in their turn
    MaxNesting,   \* MAX_SUB_AGENT_DEPTH
    MaxParallel,  \* MAX_PARALLEL_DELEGATES
    MaxAttempts,  \* MAX_YIELD_ATTEMPTS
    MaxTracked,   \* MAX_TRACKED_DELEGATES
    MaxRefusals,  \* MAX_GATE_REFUSALS
    MaxOpened,    \* bound: turns ever started
    MaxRuns       \* bound: runs ever started

ASSUME Rosters == Writers \subseteq Personas /\ Splitters \subseteq Personas
DelegatesSizes ==
    /\ {MaxNesting, MaxRefusals, MaxOpened, MaxRuns} \subseteq Nat
    /\ {MaxParallel, MaxAttempts, MaxTracked} \subseteq Nat \ {0}
ASSUME Limits == DelegatesSizes

VARIABLES
    dir,      \* the directory: delegate id -> its record
    runs,     \* the runs in flight: number -> run
    started,  \* runs ever started
    dropped,  \* runs that ended with the future of a caller that timed out
    on,       \* [Turns -> a turn is going on]
    stop,     \* [Turns -> its stop button was pressed]
    plan,     \* [Turns -> the plan of the turn]
    refused,  \* [Turns -> replies held back in this turn]
    owing,    \* [Turns -> the turn replied over work that was owed]
    begun     \* turns ever started

delegatesVars == <<dir, runs, started, dropped, on, stop, plan, refused, owing, begun>>
turnVars == <<dropped, on, stop, plan, refused, owing, begun>>

States   == {"running", "idle", "parked", "aborted"}
Root     == 0                       \* the turn itself, as a caller
Live     == DOMAIN runs
Empty    == <<>>
NoPlan   == [open |-> FALSE, handoffs |-> {}, refusals |-> 0]

-----------------------------------------------------------------------------
(* The directory                                                           *)

(* sweep, first thing of open, check_out and list: of what is idle, all    *)
(* past the TTL keeps its transcript only.  Any of them may be past it.    *)
Idle == {i \in DOMAIN dir : dir[i].state = "idle"}
Sweep(past) ==
    [i \in DOMAIN dir |->
        IF i \in past THEN [dir[i] EXCEPT !.state = "parked", !.hist = <<>>] ELSE dir[i]]

(* evict_overflow: over the cap the oldest records go, but running ones.   *)
Evictable_Slip(d) == DOMAIN d
Evictable(d) == {i \in DOMAIN d : d[i].state # "running"}
Victims(d) ==
    {i \in Evictable(d) :
        Cardinality({j \in Evictable(d) : d[j].seq < d[i].seq})
            < Cardinality(DOMAIN d) - MaxTracked}
Evict(d) == [i \in DOMAIN d \ Victims(d) |-> d[i]]

(* next_free_id: the name, then the name with the first free suffix.       *)
NextFreeId(d, name) ==
    <<name, CHOOSE n \in 1..(Cardinality(DOMAIN d) + 1) :
                /\ <<name, n>> \notin DOMAIN d
                /\ \A m \in 1..(n - 1) : <<name, m>> \in DOMAIN d>>

Opened(d, id, r) ==
    Evict([i \in DOMAIN d \cup {id} |->
        IF i = id THEN [state |-> "running", seq |-> r, run |-> r, hist |-> <<>>, log |-> <<>>]
        ELSE d[i]])

(* settle, park, abort: nothing when the record is gone.                   *)
OnRecord(id, rec) == IF id \in DOMAIN dir THEN [dir EXCEPT ![id] = rec] ELSE dir
Settle(id, hist, r) ==
    OnRecord(id, [dir[id] EXCEPT !.state = "idle", !.hist = hist, !.log = Append(@, r)])
Parked_Slip(rec, says) == [rec EXCEPT !.state = "idle", !.log = @ \o says]
Parked(rec, says) == [rec EXCEPT !.state = "parked", !.hist = <<>>, !.log = @ \o says]
Park(id, says) == OnRecord(id, Parked(dir[id], says))
Abort(id) == OnRecord(id, [dir[id] EXCEPT !.state = "aborted", !.hist = <<>>])

(* check_out: what may be taken out for another run.                       *)
Revivable(d) == {i \in DOMAIN d : d[i].state \in {"idle", "parked"}}

-----------------------------------------------------------------------------
(* Delegations                                                             *)

DelegatesInit ==
    /\ dir = Empty /\ runs = Empty /\ started = 0 /\ dropped = {}
    /\ on = [t \in Turns |-> FALSE] /\ stop = [t \in Turns |-> FALSE]
    /\ plan = [t \in Turns |-> NoPlan]
    /\ refused = [t \in Turns |-> 0] /\ owing = [t \in Turns |-> FALSE]
    /\ begun = 0

Children(t, p) == {r \in Live : runs[r].turn = t /\ runs[r].parent = p}
DepthOf(p) == IF p = Root THEN 0 ELSE runs[p].depth

(* Who may delegate: the turn, or a run whose persona has the tool, until  *)
(* its last attempt, which has no tool but the one that ends it.           *)
Caller(t, p) ==
    /\ Children(t, p) = {}
    /\ \/ p = Root /\ on[t]
       \/ /\ p \in Live /\ runs[p].turn = t
          /\ runs[p].persona \in Splitters /\ runs[p].tries < MaxAttempts
(* Refused: after a stop, and at the bottom of the tree.                   *)
Refuses(t, p) == stop[t] \/ DepthOf(p) >= MaxNesting

NewRun(t, p, id, base) ==
    [turn |-> t, parent |-> p, id |-> id, persona |-> id[1],
     depth |-> DepthOf(p) + 1, tries |-> 1, base |-> base]

(* run_batch: at most MaxParallel, and one at most whose own tools write.  *)
(* run_one opens the record, then runs the child.                          *)
Batches == {ks \in UNION {[1..n -> Personas] : n \in 1..MaxParallel} :
                Cardinality({k \in DOMAIN ks : ks[k] \in Writers}) <= 1}
OpenOne(t, p, s, name) ==
    LET id == NextFreeId(s.dir, name)
        r  == s.started + 1
    IN [dir     |-> Opened(s.dir, id, r),
        runs    |-> [q \in DOMAIN s.runs \cup {r} |->
                        IF q = r THEN NewRun(t, p, id, <<>>) ELSE s.runs[q]],
        started |-> r]
OpenAll(t, p, s, names) ==
    LET opened[k \in 0..Len(names)] ==
            IF k = 0 THEN s ELSE OpenOne(t, p, opened[k - 1], names[k])
    IN opened[Len(names)]
Delegate(t, p) ==
    /\ Caller(t, p) /\ ~Refuses(t, p)
    /\ \E names \in Batches, past \in SUBSET Idle :
        /\ started + Len(names) <= MaxRuns
        /\ LET s == OpenAll(t, p, [dir |-> Sweep(past), runs |-> runs, started |-> started], names)
           IN dir' = s.dir /\ runs' = s.runs /\ started' = s.started
    /\ UNCHANGED turnVars

(* sub_agent_send: the delegate is taken out, with its history or, parked, *)
(* its transcript only; one the roster has dropped is parked again.        *)
Send(t, p) ==
    /\ Caller(t, p) /\ ~Refuses(t, p)
    /\ \E past \in SUBSET Idle : LET d == Sweep(past) IN
       \E id \in Revivable(d) :
        \/ /\ started < MaxRuns /\ started' = started + 1
           /\ dir' = [d EXCEPT ![id].state = "running", ![id].run = started', ![id].hist = <<>>]
           /\ runs' = [q \in Live \cup {started'} |->
                        IF q = started' THEN NewRun(t, p, id, d[id].hist) ELSE runs[q]]
        \/ /\ dir' = [d EXCEPT ![id] = Parked(@, <<>>)]
           /\ UNCHANGED <<runs, started>>
    /\ UNCHANGED turnVars

(* sub_agent_list.                                                         *)
List(t, p) ==
    /\ Caller(t, p) /\ DepthOf(p) < MaxNesting
    /\ \E past \in SUBSET Idle : dir' = Sweep(past)
    /\ UNCHANGED <<runs, started, turnVars>>

-----------------------------------------------------------------------------
(* run_child and settle_outcome                                            *)

Ancestors[q \in 0..MaxRuns] ==
    IF q = Root \/ q \notin Live THEN {} ELSE {runs[q].parent} \cup Ancestors[runs[q].parent]
Below(r) == {q \in Live : r \in Ancestors[q]}
RunsWithout(gone) == [q \in Live \ gone |-> runs[q]]
Returned(r) == r \in Live /\ Children(runs[r].turn, r) = {}

(* An attempt ends without yield_result: the child is asked again.         *)
Remind(r) ==
    /\ Returned(r) /\ runs[r].tries < MaxAttempts
    /\ runs' = [runs EXCEPT ![r].tries = @ + 1]
    /\ UNCHANGED <<dir, started, turnVars>>

(* It yields, or all attempts are spent and its prose stands for a report. *)
(* What a run of the turn itself left undone goes into the turn's plan.    *)
Finish(r, complete) ==
    LET t == runs[r].turn IN
    /\ Returned(r)
    /\ dir' = Settle(runs[r].id, Append(runs[r].base, r), r)
    /\ runs' = RunsWithout({r})
    /\ plan' = IF complete \/ runs[r].parent # Root THEN plan
               ELSE [plan EXCEPT ![t].handoffs = @ \cup {runs[r].id}]
    /\ UNCHANGED <<started, dropped, on, stop, refused, owing, begun>>

(* It fails, errs or is interrupted by anything but the stop.              *)
Suspend(r) ==
    /\ Returned(r)
    /\ dir' = Park(runs[r].id, <<r>>)
    /\ runs' = RunsWithout({r})
    /\ UNCHANGED <<started, turnVars>>

(* The stop, between two steps of it.                                      *)
KillStopped(r) ==
    /\ Returned(r) /\ stop[runs[r].turn]
    /\ dir' = Abort(runs[r].id)
    /\ runs' = RunsWithout({r})
    /\ UNCHANGED <<started, turnVars>>

(* The deadline, wherever it is: its future is dropped, and with it those  *)
(* of the runs below, which settle nothing.                                *)
TimeOut(r) ==
    /\ r \in Live
    /\ dir' = Abort(runs[r].id)
    /\ runs' = RunsWithout({r} \cup Below(r))
    /\ dropped' = dropped \cup Below(r)
    /\ UNCHANGED <<started, on, stop, plan, refused, owing, begun>>

-----------------------------------------------------------------------------
(* The turn                                                                *)

StartedPlan_Slip(t) == [NoPlan EXCEPT !.refusals = plan[t].refusals]
StartedPlan(t) == NoPlan
BeginTurn(t) ==
    /\ ~on[t] /\ begun < MaxOpened /\ begun' = begun + 1
    /\ on' = [on EXCEPT ![t] = TRUE]
    /\ plan' = [plan EXCEPT ![t] = StartedPlan(t)]
    /\ refused' = [refused EXCEPT ![t] = 0]
    /\ owing' = [owing EXCEPT ![t] = FALSE]
    /\ UNCHANGED <<dir, runs, started, dropped, stop>>

PressStop(t) ==
    /\ on[t] /\ ~stop[t]
    /\ stop' = [stop EXCEPT ![t] = TRUE]
    /\ UNCHANGED <<dir, runs, started, dropped, on, plan, refused, owing, begun>>

(* set_steps: a new plan, some of its steps open or none; what delegates   *)
(* left undone counts as read.                                             *)
UpdatePlan(t) ==
    /\ on[t] /\ Children(t, Root) = {}
    /\ \E open \in BOOLEAN :
        plan' = [plan EXCEPT ![t].open = open, ![t].handoffs = {}]
    /\ UNCHANGED <<dir, runs, started, dropped, on, stop, refused, owing, begun>>

(* The turn is over, and its stop button gone.                             *)
Over(t) ==
    /\ on' = [on EXCEPT ![t] = FALSE]
    /\ stop' = [stop EXCEPT ![t] = FALSE]

(* say_to_user: held back while work is owed, MaxRefusals times at most.   *)
Owes(t) == plan[t].open \/ plan[t].handoffs # {}
HeldBack_Slip(t) == Owes(t)
HeldBack(t) == Owes(t) /\ plan[t].refusals < MaxRefusals
Reply(t) ==
    /\ on[t] /\ Children(t, Root) = {}
    /\ \/ /\ HeldBack(t)
          /\ plan' = [plan EXCEPT ![t].refusals = IF @ < MaxRefusals THEN @ + 1 ELSE @]
          /\ refused' = [refused EXCEPT ![t] = IF @ < MaxRefusals THEN @ + 1 ELSE @]
          /\ UNCHANGED <<on, stop, owing>>
       \/ /\ ~HeldBack(t)
          /\ Over(t)
          /\ owing' = [owing EXCEPT ![t] = Owes(t)]
          /\ UNCHANGED <<plan, refused>>
    /\ UNCHANGED <<dir, runs, started, dropped, begun>>

(* A question, the stop, a failure or the last of its steps ends it too.   *)
LeaveTurn(t) ==
    /\ on[t] /\ Children(t, Root) = {}
    /\ Over(t)
    /\ UNCHANGED <<dir, runs, started, dropped, plan, refused, owing, begun>>

RunEnds(r) ==
    \/ \E complete \in BOOLEAN : Finish(r, complete)
    \/ Suspend(r) \/ KillStopped(r) \/ TimeOut(r)
DelegatesNext ==
    \/ \E t \in Turns : BeginTurn(t) \/ PressStop(t) \/ UpdatePlan(t) \/ Reply(t) \/ LeaveTurn(t)
    \/ \E t \in Turns, p \in Live \cup {Root} : Delegate(t, p) \/ Send(t, p) \/ List(t, p)
    \/ \E r \in Live : Remind(r) \/ RunEnds(r)

DelegatesSpec == DelegatesInit /\ [][DelegatesNext]_delegatesVars

(* Each run has a deadline; a model that believes it is done says so again.*)
DelegatesFairSpec ==
    /\ DelegatesSpec
    /\ WF_delegatesVars(\E r \in Live : RunEnds(r))
    /\ \A t \in Turns : WF_delegatesVars(Reply(t))

-----------------------------------------------------------------------------
(* Properties                                                              *)

Numbers == 1..MaxRuns
IdSet   == Personas \X (1..(MaxRuns + 1))

DelegatesTypeOK ==
    /\ DOMAIN dir \subseteq IdSet
    /\ \A i \in DOMAIN dir :
        dir[i] \in [state : States, seq : Numbers, run : Numbers,
                    hist : Seq(Numbers), log : Seq(Numbers)]
    /\ started \in 0..MaxRuns /\ Live \subseteq 1..started
    /\ dropped \subseteq Numbers \ Live
    /\ \A r \in Live :
        runs[r] \in [turn : Turns, parent : 0..MaxRuns, id : IdSet, persona : Personas,
                     depth : 1..MaxNesting, tries : 1..MaxAttempts, base : Seq(Numbers)]
    /\ on \in [Turns -> BOOLEAN] /\ stop \in [Turns -> BOOLEAN]
    /\ plan \in [Turns -> [open : BOOLEAN, handoffs : SUBSET IdSet, refusals : 0..MaxRefusals]]
    /\ refused \in [Turns -> 0..MaxRefusals]
    /\ owing \in [Turns -> BOOLEAN]
    /\ begun \in 0..MaxOpened

(* Every run in flight has its own record, marked running: no eviction, no *)
(* reuse of an id and no follow-up of another turn takes it away, so what  *)
(* it learned is filed under its own id.  And a record that says running   *)
(* has its run in flight, but those a caller's timeout dropped: nobody will*)
(* ever settle, revive or evict them.                                      *)
RunsAreTracked ==
    /\ \A r \in Live :
        /\ runs[r].id \in DOMAIN dir
        /\ dir[runs[r].id].state = "running" /\ dir[runs[r].id].run = r
    /\ \A i \in DOMAIN dir :
        dir[i].state = "running" => dir[i].run \in Live \cup dropped

(* An idle delegate holds, word for word, the last runs of its transcript; *)
(* in any other state it holds no history at all.                          *)
HistoryIsVerbatim ==
    \A i \in DOMAIN dir :
        IF dir[i].state = "idle"
        THEN dir[i].hist # <<>> /\ IsSuffix(dir[i].hist, dir[i].log)
        ELSE dir[i].hist = <<>>

(* A reply goes out over work that is still owed only when it was held back*)
(* MaxRefusals times in that very turn.                                    *)
GateHolds == \A t \in Turns : owing[t] => refused[t] = MaxRefusals

(* The gate cannot trap a turn: it ends, whatever its delegates do.        *)
TurnsEnd == \A t \in Turns : on[t] ~> ~on[t]
=============================================================================
