--------------------------- MODULE FlowSchedules ---------------------------
(***************************************************************************)
(* When flows fire: the documents of src/src/scheduled_flows.rs, the       *)
(* arithmetic and the bookmarks of src/src/schedule_timing.rs, and the loop*)
(* of src/src/daemon.rs that polls them.                                   *)
(*                                                                         *)
(* A pass of the loop reads every armed schedule once and then runs what is*)
(* due, one flow after another, while people arm, edit and disarm.  The    *)
(* bookmarks live in the daemon's memory and are written before each run;  *)
(* a crash keeps what was written, or nothing when it tears the file.  A   *)
(* start first lifts the schedules an old flow document carries into       *)
(* documents of their own.                                                 *)
(*                                                                         *)
(* Time is a small range of instants.  Face gives what the zone's clock    *)
(* reads at each: it repeats in autumn and skips in spring, and a cron     *)
(* names faces, not instants.                                              *)
(***************************************************************************)
EXTENDS Naturals, FiniteSets, FiniteSetsExt, Functions

CONSTANTS
    Slugs,        \* ids people choose, and may choose again
    Generated,    \* ids drawn at random, each used once
    Keys,         \* schedules inside the legacy flow document
    Triggers,     \* the triggers schedules are given
    Face,         \* [instant -> what the clock of the zone reads]
    MaxOps,       \* bound: requests to arm, edit and disarm
    MaxCrashes    \* bound: restarts

ASSUME BoundsAreNat == {MaxOps, MaxCrashes} \subseteq Nat
ASSUME FaceIsAClock ==
    Face \in [DOMAIN Face -> Nat] /\ 0 \in DOMAIN Face /\ DOMAIN Face \subseteq Nat
ASSUME IdsAreApart == Slugs \cap Generated = {}
ASSUME IntervalsAreNat == \A t \in Triggers : t.kind = "every" => t.n \in Nat

VARIABLES
    now,
    docs,      \* [SchedIds -> document, or NoDoc]
    legacy,    \* the old flow document still carries its schedules
    drawn,     \* generated ids in use or used
    up,        \* the daemon polls; before that it migrates
    book,      \* bookmarks in memory: [some SchedIds -> instant]
    bookDisk,  \* bookmarks as last written
    pass,      \* what this pass has yet to consider: [some SchedIds -> trigger]
    running,   \* the schedule whose flow the daemon runs, or "none"
    last,      \* [SchedIds -> its last firing, or NoFiring]
    reused,    \* schedules armed under an id the daemon still remembered
    late,      \* [SchedIds -> firings since it was switched off]
    made,      \* [Keys -> documents migrated from it]
    torn, ops, crashes

vars == <<now, docs, legacy, drawn, up, book, bookDisk, pass, running, last,
          reused, late, made, torn, ops, crashes>>
requests == <<docs, drawn, reused, ops>>
daemon   == <<book, bookDisk, pass, running, last, late>>
startup  == <<legacy, up, made>>

SchedIds == Slugs \cup Generated
Instants == DOMAIN Face
NoDoc    == [on |-> FALSE, trig |-> [kind |-> "none"], born |-> 0, key |-> "none"]
NoFiring == [occ |-> 0, trig |-> [kind |-> "none"], no |-> 0]
Exists(s) == docs[s] # NoDoc
(* new_id: some id never drawn before; which one makes no difference.      *)
Drawn == {CHOOSE s \in Generated \ drawn : TRUE : x \in {y \in {1} : Generated \ drawn # {}}}
Without(f, s) == Restrict(f, DOMAIN f \ {s})
With(f, s, v) == [x \in DOMAIN f \cup {s} |-> IF x = s THEN v ELSE f[x]]

-----------------------------------------------------------------------------
(* schedule_timing: a decision is an occurrence and whether it runs; no    *)
(* decision is the empty set.                                              *)

Seed_Slip(t) == {[occ |-> t, run |-> TRUE]}
Seed(t)      == {[occ |-> t, run |-> FALSE]}
Run(t)       == {[occ |-> t, run |-> TRUE]}

(* cron::Schedule::after: the next face the pattern names after the one the*)
(* clock read at t, at the first instant that reads it.                    *)
Later(t, at) == {i \in Instants : Face[i] \in at /\ Face[i] > Face[t]}
After(t, at) ==
    {Min({i \in Later(t, at) : \A j \in Later(t, at) : Face[i] <= Face[j]}) :
        x \in {y \in {1} : Later(t, at) # {}}}

Every(mark, n) ==
    IF mark = {} THEN Seed(now)
    ELSE UNION {Run(now) : m \in {x \in mark : now >= x + n}}
Cron_Slip(mark, at) ==
    IF mark = {} THEN Seed(now)
    ELSE UNION {Run(o) : o \in {x \in UNION {After(m, at) : m \in mark} : x < now}}
Cron(mark, at) ==
    IF mark = {} THEN Seed(now)
    ELSE UNION {Run(o) : o \in {x \in UNION {After(m, at) : m \in mark} : x <= now}}
Decide(mark, trig) ==
    CASE trig.kind = "every" -> Every(mark, trig.n)
      [] trig.kind = "cron"  -> Cron(mark, trig.at)
      [] OTHER -> {}
Mark(s) == {book[x] : x \in DOMAIN book \cap {s}}

-----------------------------------------------------------------------------
Init ==
    /\ now = 0
    /\ docs = [s \in SchedIds |-> NoDoc]
    /\ legacy \in {Keys # {}, FALSE}
    /\ drawn = {} /\ up = FALSE
    /\ book = <<>> /\ bookDisk = <<>> /\ pass = <<>>
    /\ running = "none"
    /\ last = [s \in SchedIds |-> NoFiring]
    /\ reused = {}
    /\ late = [s \in SchedIds |-> 0]
    /\ made = [k \in Keys |-> IF legacy THEN 0 ELSE 1]
    /\ torn = FALSE /\ ops = 0 /\ crashes = 0

(* migrate_one, at startup: a document for each schedule of the old flow   *)
(* that has none, and the flow itself rewritten last.  A key whose schedule*)
(* is manual and unarmed is not counted among Keys.                        *)
AlreadyMigrated(k) == \E s \in SchedIds : docs[s].key = k
MigrateKey(k, s) ==
    /\ ~up /\ legacy
    /\ ~AlreadyMigrated(k)
    /\ s \in Drawn
    /\ \E trig \in Triggers, on \in BOOLEAN :
          docs' = [docs EXCEPT ![s] = [on |-> on, trig |-> trig, born |-> now, key |-> k]]
    /\ drawn' = drawn \cup {s}
    /\ made' = [made EXCEPT ![k] = @ + 1]
    /\ UNCHANGED <<now, legacy, up, daemon, reused, torn, ops, crashes>>
RewriteFlow ==
    /\ ~up /\ legacy
    /\ \A k \in Keys : AlreadyMigrated(k)
    /\ legacy' = FALSE
    /\ UNCHANGED <<now, up, made, daemon, requests, torn, crashes>>

(* bookmarks::load: what the file says of schedules that still exist.      *)
Loaded == Restrict(bookDisk, {s \in DOMAIN bookDisk : Exists(s)})
StartDaemon ==
    /\ ~up /\ ~legacy
    /\ up' = TRUE
    /\ book' = Loaded
    /\ UNCHANGED <<now, legacy, made, bookDisk, pass, running, last, late, requests, torn, crashes>>

-----------------------------------------------------------------------------
(* Requests and tools.  Every one is served while the daemon is up.        *)

Serve == up /\ ops < MaxOps /\ ops' = ops + 1

(* arm: under a chosen id nobody uses, or a drawn one.                     *)
Arm(s) ==
    /\ Serve
    /\ s \in Drawn \cup {x \in Slugs : ~Exists(x)}
    /\ drawn' = drawn \cup ({s} \cap Generated)
    /\ \E trig \in Triggers, on \in BOOLEAN :
          docs' = [docs EXCEPT ![s] = [on |-> on, trig |-> trig, born |-> now, key |-> "none"]]
    /\ reused' = IF s \in DOMAIN book \cup DOMAIN bookDisk \cup DOMAIN pass
                 THEN reused \cup {s} ELSE reused \ {s}
    /\ last' = [last EXCEPT ![s] = NoFiring]
    /\ late' = [late EXCEPT ![s] = 0]
    /\ UNCHANGED <<now, startup, book, bookDisk, pass, running, torn, crashes>>

(* put_scheduled_flow, scheduled_flow_update: another trigger, or paused   *)
(* and resumed.  The bookmark is not touched.                              *)
Edit(s) ==
    /\ Serve
    /\ Exists(s)
    /\ \E trig \in Triggers, on \in BOOLEAN :
          /\ docs' = [docs EXCEPT ![s].trig = trig, ![s].on = on]
          /\ late' = IF on THEN [late EXCEPT ![s] = 0] ELSE late
    /\ UNCHANGED <<now, startup, book, bookDisk, pass, running, last, drawn, reused, torn, crashes>>

(* disarm, and delete_flow through forget_flow: one schedule, or all.      *)
Remove(ss) ==
    /\ Serve
    /\ ss # {} /\ \A s \in ss : Exists(s)
    /\ docs' = [s \in SchedIds |-> IF s \in ss THEN NoDoc ELSE docs[s]]
    /\ UNCHANGED <<now, startup, daemon, drawn, reused, torn, crashes>>
Disarm == \E s \in SchedIds : Remove({s})
DeleteFlow == Remove({s \in SchedIds : Exists(s)})

-----------------------------------------------------------------------------
(* The daemon's loop                                                       *)

(* load_due_candidates: every schedule switched on, with the trigger it    *)
(* has now.  Nothing is read again until the next pass.                    *)
Candidates_Slip == {s \in SchedIds : s \in DOMAIN book \/ docs[s].on}
Candidates == {s \in SchedIds : docs[s].on}
StartPass ==
    /\ up /\ pass = <<>> /\ running = "none"
    /\ Candidates # {}
    /\ pass' = [s \in Candidates |-> IF Exists(s) THEN docs[s].trig ELSE last[s].trig]
    /\ UNCHANGED <<now, startup, book, bookDisk, running, last, late, requests, torn, crashes>>

(* One candidate: the bookmark moves, and is written, before the flow runs.*)
Skip(s) ==
    /\ s \in DOMAIN pass /\ running = "none"
    /\ Decide(Mark(s), pass[s]) = {}
    /\ pass' = Without(pass, s)
    /\ UNCHANGED <<now, startup, book, bookDisk, running, last, late, requests, torn, crashes>>
Saved_Slip(b, d) == IF d.run THEN bookDisk ELSE b
Saved(b, d) == b
Consider(s) ==
    /\ s \in DOMAIN pass /\ running = "none"
    /\ \E d \in Decide(Mark(s), pass[s]) :
        /\ book' = With(book, s, d.occ)
        /\ bookDisk' = Saved(book', d)
        /\ running' = IF d.run THEN s ELSE "none"
        /\ last' = IF d.run THEN [last EXCEPT ![s] = [occ |-> d.occ, trig |-> pass[s], no |-> @.no + 1]]
                   ELSE last
        /\ late' = IF d.run /\ ~docs[s].on THEN [late EXCEPT ![s] = @ + 1] ELSE late
    /\ pass' = Without(pass, s)
    /\ UNCHANGED <<now, startup, requests, torn, crashes>>

(* The flow has run, well or badly.                                        *)
RunEnds ==
    /\ running # "none"
    /\ running' = "none"
    /\ UNCHANGED <<now, startup, book, bookDisk, pass, last, late, requests, torn, crashes>>

Tick ==
    /\ now + 1 \in Instants
    /\ now' = now + 1
    /\ UNCHANGED <<startup, daemon, requests, torn, crashes>>

(* The process dies, while it writes the bookmarks perhaps: the file is    *)
(* rewritten in place, and half of one is no file.                         *)
Saving == \E s \in DOMAIN pass : running = "none" /\ Decide(Mark(s), pass[s]) # {}
Crash ==
    /\ crashes < MaxCrashes /\ crashes' = crashes + 1
    /\ up' = FALSE
    /\ book' = <<>> /\ pass' = <<>> /\ running' = "none"
    /\ late' = [s \in SchedIds |-> 0]
    /\ \/ UNCHANGED <<bookDisk, torn>>
       \/ Saving /\ bookDisk' = <<>> /\ torn' = TRUE
    /\ UNCHANGED <<now, docs, legacy, drawn, reused, last, made, ops>>

DaemonStep == StartPass \/ (\E s \in SchedIds : Skip(s) \/ Consider(s)) \/ RunEnds
Startup == (\E k \in Keys, s \in Generated : MigrateKey(k, s)) \/ RewriteFlow \/ StartDaemon
Next ==
    \/ Startup
    \/ \E s \in SchedIds : Arm(s) \/ Edit(s)
    \/ Disarm \/ DeleteFlow
    \/ DaemonStep
    \/ Tick \/ Crash

Spec == Init /\ [][Next]_vars

(* The process is started again, and the loop has one thing to do at a time*)
(* and never stops: a flow's nodes have timeouts of their own.             *)
FairSpec == Spec /\ WF_vars(Startup) /\ WF_vars(DaemonStep)

-----------------------------------------------------------------------------
(* Properties                                                              *)

Firing == [occ : Instants, trig : Triggers \cup {NoFiring.trig}, no : Nat]
PartialOn(S, T) == UNION {[D -> T] : D \in SUBSET S}
TypeOK ==
    /\ now \in Instants
    /\ docs \in [SchedIds -> [on : BOOLEAN, trig : Triggers, born : Instants,
                              key : Keys \cup {"none"}] \cup {NoDoc}]
    /\ legacy \in BOOLEAN /\ up \in BOOLEAN /\ torn \in BOOLEAN
    /\ drawn \subseteq Generated /\ reused \subseteq SchedIds
    /\ book \in PartialOn(SchedIds, Instants) /\ bookDisk \in PartialOn(SchedIds, Instants)
    /\ pass \in PartialOn(SchedIds, Triggers)
    /\ \A s \in DOMAIN book : book[s] <= now
    /\ running \in SchedIds \cup {"none"}
    /\ last \in [SchedIds -> Firing] /\ late \in [SchedIds -> Nat]
    /\ made \in [Keys -> Nat] /\ ops \in Nat /\ crashes \in Nat

(* No occurrence is run twice, across restarts and crashes in the middle of*)
(* a run: a cron goes on to a later face of the clock, so an hour that     *)
(* comes back is not run again, and an interval is waited out in full.     *)
Follows(f, g) ==
    /\ f.trig.kind = "cron" /\ g.trig.kind = "cron" => Face[g.occ] > Face[f.occ]
    /\ g.trig.kind = "every" /\ f.trig.kind = "every" => g.occ >= f.occ + g.trig.n
NeverTwice ==
    [][\A s \in SchedIds :
        last[s] # NoFiring /\ last'[s] \notin {last[s], NoFiring} /\ ~torn
            => Follows(last[s], last'[s])]_vars

(* A schedule does not open by catching up: its first firing is for a face *)
(* after the one it was armed at, or a full interval later, whatever passes*)
(* and restarts come in between.  An id armed again while the daemon       *)
(* remembers it is excepted, and so is arming within a repeated hour.      *)
Unrepeated(t) == \A i \in Instants : i > t <=> Face[i] > Face[t]
Opened(s) ==
    LET f == last[s] IN
        /\ f.trig.kind = "cron" => Face[f.occ] > Face[docs[s].born]
        /\ f.trig.kind = "every" => f.occ >= docs[s].born + f.trig.n
NoBackfill ==
    \A s \in SchedIds :
        Exists(s) /\ last[s] # NoFiring /\ s \notin reused /\ Unrepeated(docs[s].born) => Opened(s)

(* A schedule that was paused or disarmed while a pass had it in hand fires*)
(* once more at most.                                                      *)
AtMostOneLateFiring == \A s \in SchedIds : late[s] <= 1

(* What a cron owes is run in the end, however many occurrences passed     *)
(* while the pod was down or busy with another flow.                       *)
Owes(s) == up /\ docs[s].on /\ docs[s].trig.kind = "cron" /\ s \in DOMAIN book
           /\ \E o \in After(book[s], docs[s].trig.at) : o <= now
CatchesUp == \A s \in SchedIds : Owes(s) ~> ~Owes(s)

(* schedule_timing.rs:90: "a cron schedule must not open by catching up on *)
(* occurrences that predate its existence", under any id.                  *)
CronOpensFresh ==
    \A s \in SchedIds :
        Exists(s) /\ last[s].trig.kind = "cron" /\ Unrepeated(docs[s].born)
            => Face[last[s].occ] > Face[docs[s].born]
=============================================================================
