----------------------------- MODULE MemoryStore -----------------------------
(***************************************************************************)
(* The memory of one agent: an index in RAM, a log that every change is    *)
(* appended to before it is applied, and a snapshot the log is folded      *)
(* into, by the nightly dream or when an agent with a long log is loaded   *)
(* (src/src/memory/wal.rs, index.rs, instance.rs, mod.rs, dream.rs).       *)
(*                                                                         *)
(* Turns remember and forget; the dream holds one handle for minutes,      *)
(* reads, asks a model, and writes what it made of what it had read.  The  *)
(* index leaves RAM when other agents push it out, and comes back from     *)
(* disk.  The process dies at any point, also half way through a line.     *)
(*                                                                         *)
(* Left out: search and ranking, links, importance and access counts, the  *)
(* memories a preset ships and the tombstones over them, failing writes.   *)
(*                                                                         *)
(* A definition whose name ends in _Slip is the one after it with a bug    *)
(* somebody could write; no specification uses it.                         *)
(***************************************************************************)
EXTENDS Naturals, Sequences, FiniteSets

CONSTANTS
    Ids,            \* memory ids, each handed out once
    Facts,          \* contents; equal contents have equal hashes
    None,
    Turns,          \* turns that may be using the memory at once
    CompactAfter,   \* COMPACT_AFTER_EVENTS
    MaxLoads,       \* bounds: loads since a start, events in the log, dreams,
    MaxEvents,      \* crashes, writes a crash cuts in the middle of a line
    MaxDreams,
    MaxCrashes,
    MaxTorn,
    EvictBusy,      \* may an agent in use be pushed out?
    CompactAlone,   \* do turns keep still while the dream folds the log?
    TornIsLast      \* is nothing appended to a torn line until the log is cut?

ASSUME BoundsAreNumbers ==
    /\ CompactAfter \in Nat /\ MaxLoads \in Nat /\ MaxEvents \in Nat
    /\ MaxDreams \in Nat /\ MaxCrashes \in Nat /\ MaxTorn \in Nat

ASSUME SwitchesAreBoolean ==
    EvictBusy \in BOOLEAN /\ CompactAlone \in BOOLEAN /\ TornIsLast \in BOOLEAN

States == {"live", "superseded", "archived"}

Memory == [fact : Facts, state : States]

ASSUME NoneIsNoValue == None \notin Ids \cup Facts \cup Memory

\* An id is a UUID.
ASSUME IdsAreFinite == IsFiniteSet(Ids)

Memories == [Ids -> Memory \cup {None}]

\* A line of the log.  A junk line does not parse.
Event == [op : {"put"}, id : Ids, mem : Memory]
         \cup [op : {"archive", "purge", "junk"}, id : Ids \cup {None}, mem : {None}]

Junk == [op |-> "junk", id |-> None, mem |-> None]

Put(id, fact, state) ==
    [op |-> "put", id |-> id, mem |-> [fact |-> fact, state |-> state]]

Archive(id) == [op |-> "archive", id |-> id, mem |-> None]

Purge(id) == [op |-> "purge", id |-> id, mem |-> None]

Handles == 1..MaxLoads

VARIABLES
    snap,       \* snapshot.json
    wal,        \* the lines of wal.jsonl,
    open,       \* and whether the last of them lacks its newline
    index,      \* the index behind each handle: memories, and ids by content
    resident,   \* the handle the registry gives out, 0 if the agent is not in RAM
    loads,      \* handles made since the process started
    holds,      \* the handle each turn is using, 0 when it is not
    dream,      \* the dream: where it is, its handle, what it read
    \* History, and the counters the bounds are on.
    used,       \* ids handed out
    told,       \* what turns were told is remembered, and nobody removed since
    removed,    \* ids purged, by a turn or by the dream
    dreams, crashes, torn

disk == <<snap, wal, open>>
ram == <<index, resident, loads>>
history == <<used, told, removed>>
counts == <<dreams, crashes, torn>>
vars == <<disk, ram, holds, dream, history, counts>>

-----------------------------------------------------------------------------
(* The index.                                                              *)

Nothing == [id \in Ids |-> None]

Empty == [mems |-> Nothing, byHash |-> [f \in Facts |-> None]]

\* Replacing a memory takes its hash out of the table, whoever holds it.
insert_memory(ix, id, m) ==
    LET freed == IF ix.mems[id] = None THEN ix.byHash
                 ELSE [ix.byHash EXCEPT ![ix.mems[id].fact] = None]
    IN [mems |-> [ix.mems EXCEPT ![id] = m],
        byHash |-> [freed EXCEPT ![m.fact] = id]]

purge(ix, id) ==
    IF ix.mems[id] = None THEN ix
    ELSE [mems |-> [ix.mems EXCEPT ![id] = None],
          byHash |-> [ix.byHash EXCEPT ![ix.mems[id].fact] = None]]

archive(ix, id) ==
    IF ix.mems[id] = None THEN ix ELSE [ix EXCEPT !.mems[id].state = "archived"]

apply(ix, e) == CASE e.op = "put" -> insert_memory(ix, e.id, e.mem)
                  [] e.op = "archive" -> archive(ix, e.id)
                  [] e.op = "purge" -> purge(ix, e.id)
                  [] e.op = "junk" -> ix

\* The log replayed over an index, in file order.
Replayed(ix, w) ==
    LET after[i \in 0..Len(w)] == IF i = 0 THEN ix ELSE apply(after[i - 1], w[i])
    IN after[Len(w)]

\* A snapshot is read in any order: of equal contents, one gets the hash.
FromSnapshot(s) ==
    {[mems |-> s, byHash |-> h] : h \in
        {h \in [Facts -> Ids \cup {None}] : \A f \in Facts :
            LET holders == {id \in Ids : s[id] # None /\ s[id].fact = f}
            IN h[f] \in (IF holders = {} THEN {None} ELSE holders)}}

live(ix, id) == ix.mems[id] # None /\ ix.mems[id].state = "live"

-----------------------------------------------------------------------------
(* The files.                                                              *)

\* Lines appended to one that lacks its newline: the first is glued to it, and
\* neither parses.  An empty batch writes nothing.
Glues(batch) == open /\ batch # <<>>

Lines(batch) ==
    IF Glues(batch) THEN [wal EXCEPT ![Len(wal)] = Junk] \o Tail(batch) ELSE wal \o batch

\* Appending comes before applying.
append(batch) ==
    /\ Len(wal) + Len(batch) <= MaxEvents
    /\ TornIsLast => ~Glues(batch)
    /\ wal' = Lines(batch)

append_whole(batch) == append(batch) /\ open' = (open /\ batch = <<>>)

replayed == Cardinality({i \in DOMAIN wal : wal[i].op # "junk"})

\* What the disk says is on record, one id at a time: what was last put or
\* purged under it, archived if that was said later.
Recovered(s, w) == [id \in Ids |->
    LET writes == {i \in DOMAIN w : w[i].op \in {"put", "purge"} /\ w[i].id = id}
        last == IF writes = {} THEN 0
                ELSE CHOOSE i \in writes : \A j \in writes : j <= i
        base == IF last = 0 THEN s[id] ELSE w[last].mem
    IN IF base # None
          /\ \E j \in DOMAIN w : j > last /\ w[j] = Archive(id)
       THEN [base EXCEPT !.state = "archived"]
       ELSE base]

-----------------------------------------------------------------------------
Init ==
    /\ snap = Nothing /\ wal = <<>> /\ open = FALSE
    /\ index = [h \in Handles |-> Empty]
    /\ resident = 0 /\ loads = 0
    /\ holds = [t \in Turns |-> 0]
    /\ dream = [pc |-> "awake", handle |-> 0, read |-> Nothing]
    /\ used = {} /\ told = {} /\ removed = {}
    /\ dreams = 0 /\ crashes = 0 /\ torn = 0

-----------------------------------------------------------------------------
(* Getting a handle.                                                       *)

\* Slip: the log is cut, and the snapshot is the old one.
Load_Slip(h) ==
    /\ resident = 0 /\ h = loads + 1 /\ loads < MaxLoads
    /\ \E ix \in FromSnapshot(snap) :
        index' = [index EXCEPT ![h] = Replayed(ix, wal)]
    /\ resident' = h /\ loads' = h
    /\ IF replayed >= CompactAfter
       THEN wal' = <<>> /\ open' = FALSE /\ UNCHANGED snap
       ELSE UNCHANGED disk

\* The agent is not in RAM: load it, and fold a long log into the snapshot,
\* snapshot first.
Load(h) ==
    /\ resident = 0 /\ h = loads + 1 /\ loads < MaxLoads
    /\ \E ix \in FromSnapshot(snap) :
        index' = [index EXCEPT ![h] = Replayed(ix, wal)]
    /\ resident' = h /\ loads' = h
    /\ IF replayed >= CompactAfter
       THEN snap' = index'[h].mems /\ wal' = <<>> /\ open' = FALSE
       ELSE UNCHANGED disk

handle_for(h) ==
    \/ resident # 0 /\ h = resident /\ UNCHANGED <<disk, ram>>
    \/ Load(h)

TakeHandle(t) ==
    /\ holds[t] = 0
    /\ \E h \in Handles :
        handle_for(h) /\ holds' = [holds EXCEPT ![t] = h]
    /\ UNCHANGED <<dream, history, counts>>

InUse(h) == dream.handle = h \/ \E t \in Turns : holds[t] = h

\* Enough other agents are used: this one leaves the registry, and the handles
\* that were given out live on.
Evict ==
    /\ resident # 0
    /\ InUse(resident) => EvictBusy
    /\ resident' = 0
    /\ index' = IF InUse(resident) THEN index
                ELSE [index EXCEPT ![resident] = Empty]
    /\ UNCHANGED <<disk, loads, holds, dream, history, counts>>

-----------------------------------------------------------------------------
(* Turns.  Each writes under the lock of the index behind its handle.      *)

MayWrite == CompactAlone => dream.pc \notin {"folded", "written"}

Release(t) == holds' = [holds EXCEPT ![t] = 0]

Applied(h, e) == index' = [index EXCEPT ![h] = apply(index[h], e)]

\* The event by which a fact is remembered: what is already live is reinforced.
Remembering(h, f, id) ==
    LET known == index[h].byHash[f]
    IN IF known # None /\ live(index[h], known)
       THEN id = known
       ELSE id \notin used

Remember(t, f) ==
    /\ holds[t] # 0 /\ MayWrite
    /\ \E id \in Ids :
        /\ Remembering(holds[t], f, id)
        /\ append_whole(<<Put(id, f, "live")>>)
        /\ Applied(holds[t], Put(id, f, "live"))
        /\ used' = used \cup {id} /\ told' = told \cup {id}
    /\ Release(t)
    /\ UNCHANGED <<snap, resident, loads, dream, removed, counts>>

\* Slip: the purge is not logged.
Forget_Slip(t, id) ==
    /\ holds[t] # 0 /\ MayWrite
    /\ index[holds[t]].mems[id] # None
    /\ Applied(holds[t], Purge(id))
    /\ told' = told \ {id} /\ removed' = removed \cup {id}
    /\ Release(t)
    /\ UNCHANGED <<snap, wal, open, resident, loads, dream, used, counts>>

\* Forgetting takes the memory out of RAM and records that.
Forget(t, id) ==
    /\ holds[t] # 0 /\ MayWrite
    /\ index[holds[t]].mems[id] # None
    /\ append_whole(<<Purge(id)>>)
    /\ Applied(holds[t], Purge(id))
    /\ told' = told \ {id} /\ removed' = removed \cup {id}
    /\ Release(t)
    /\ UNCHANGED <<snap, resident, loads, dream, used, counts>>

-----------------------------------------------------------------------------
(* The dream.                                                              *)

Sleep ==
    /\ dream.pc = "awake" /\ dreams < MaxDreams /\ dreams' = dreams + 1
    /\ \E h \in Handles :
        handle_for(h) /\ dream' = [pc |-> "asleep", handle |-> h, read |-> Nothing]
    /\ UNCHANGED <<holds, history, crashes, torn>>

Purged(batch) == {batch[i].id : i \in {i \in DOMAIN batch : batch[i].op = "purge"}}

Written(batch) == {batch[i].id : i \in {i \in DOMAIN batch : batch[i].op = "put"}}

Recorded(batch) ==
    /\ append_whole(batch)
    /\ used' = used \cup Written(batch)
    /\ told' = told \ Purged(batch) /\ removed' = removed \cup Purged(batch)

\* A batch is written under one lock, each line before it is applied.
Commit(batch) ==
    /\ Recorded(batch)
    /\ index' = [index EXCEPT ![dream.handle] = Replayed(@, batch)]

\* A conversation becomes a memory, unless one says the same.
Index ==
    /\ dream.pc = "asleep"
    /\ \E id \in Ids \ used, f \in Facts :
        /\ \A other \in Ids : index[dream.handle].mems[other] # None
                              => index[dream.handle].mems[other].fact # f
        /\ Commit(<<Put(id, f, "live")>>)
    /\ UNCHANGED <<snap, resident, loads, holds, dream, counts>>

\* Live memories are cloned, and put to a model.
Read ==
    /\ dream.pc = "asleep"
    /\ \E S \in SUBSET {id \in Ids : live(index[dream.handle], id)} :
        /\ S # {}
        /\ dream' = [dream EXCEPT !.pc = "thinking",
                       !.read = [id \in Ids |->
                           IF id \in S THEN index[dream.handle].mems[id] ELSE None]]
    /\ UNCHANGED <<disk, ram, holds, history, counts>>

\* The model has nothing to say of them, or does not answer.
LeaveAlone ==
    /\ dream.pc = "thinking"
    /\ dream' = [dream EXCEPT !.pc = "asleep", !.read = Nothing]
    /\ UNCHANGED <<disk, ram, holds, history, counts>>

\* The last stage reads every memory, lets the lock go and takes it to write.
ReadAll ==
    /\ dream.pc = "asleep"
    /\ dream' = [dream EXCEPT !.pc = "decaying", !.read = index[dream.handle].mems]
    /\ UNCHANGED <<disk, ram, holds, history, counts>>

PutBack(id, state) == Put(id, dream.read[id].fact, state)

Orders(S) == {s \in [1..Cardinality(S) -> S] : \A i, j \in DOMAIN s : i # j => s[i] # s[j]}

Clones == {id \in Ids : dream.read[id] # None}

\* Of a cluster: the survivor is put, then each of the clones, superseded.
Merged(survivor, f, s) ==
    <<Put(survivor, f, "live")>> \o [i \in DOMAIN s |-> PutBack(s[i], "superseded")]

MergeBatches ==
    IF Cardinality(Clones) < 2 THEN {}
    ELSE {Merged(survivor, f, s) :
            survivor \in Ids \ used, f \in Facts, s \in Orders(Clones)}

\* Of one conversation: its clone is put with a summary, and what was learned
\* from it.
DistilBatches ==
    IF Cardinality(Clones) # 1 THEN {}
    ELSE {<<PutBack(id, "live")>> : id \in Clones}
         \cup {<<PutBack(id, "live"), Put(new, f, "live")>> :
                  id \in Clones, new \in Ids \ used, f \in Facts}

\* Of two memories that disagree: the older is superseded, or trusted less.
AdjudicateBatches ==
    IF Cardinality(Clones) < 2 THEN {}
    ELSE {<<PutBack(older, state)>> : older \in Clones, state \in {"superseded", "live"}}

\* What has faded is archived, what has not faded so far is put with a lower
\* importance, what was archived long ago is purged.
Fading(id) ==
    CASE dream.read[id].state = "live" -> {Archive(id), PutBack(id, "live")}
      [] dream.read[id].state = "archived" -> {Purge(id)}
      [] OTHER -> {}

DecayBatches ==
    UNION {{b \in [DOMAIN s -> UNION {Fading(id) : id \in Clones}] :
              \A i \in DOMAIN s : b[i] \in Fading(s[i])} :
              s \in UNION {Orders(S) : S \in SUBSET Clones}}

Merge ==
    /\ dream.pc = "thinking"
    /\ \E batch \in MergeBatches : Commit(batch)
    /\ dream' = [dream EXCEPT !.pc = "asleep", !.read = Nothing]
    /\ UNCHANGED <<snap, resident, loads, holds, counts>>

Distil ==
    /\ dream.pc = "thinking"
    /\ \E batch \in DistilBatches : Commit(batch)
    /\ dream' = [dream EXCEPT !.pc = "asleep", !.read = Nothing]
    /\ UNCHANGED <<snap, resident, loads, holds, counts>>

Adjudicate ==
    /\ dream.pc = "thinking"
    /\ \E batch \in AdjudicateBatches : Commit(batch)
    /\ dream' = [dream EXCEPT !.pc = "asleep", !.read = Nothing]
    /\ UNCHANGED <<snap, resident, loads, holds, counts>>

Decay ==
    /\ dream.pc = "decaying"
    /\ \E batch \in DecayBatches : Commit(batch)
    /\ dream' = [dream EXCEPT !.pc = "decayed", !.read = Nothing]
    /\ UNCHANGED <<snap, resident, loads, holds, counts>>

\* Last, the log is folded: the snapshot is taken under the lock and written
\* without it, and then the log is truncated.
FoldLog ==
    /\ dream.pc \in {"asleep", "decayed"}
    /\ dream' = [dream EXCEPT !.pc = "folded", !.read = index[dream.handle].mems]
    /\ UNCHANGED <<disk, ram, holds, history, counts>>

\* Slip: the snapshot of the last dream is kept.
WriteSnapshot_Slip ==
    /\ dream.pc = "folded"
    /\ dream' = [dream EXCEPT !.pc = "written"]
    /\ UNCHANGED <<disk, ram, holds, history, counts>>

WriteSnapshot ==
    /\ dream.pc = "folded"
    /\ snap' = dream.read
    /\ dream' = [dream EXCEPT !.pc = "written"]
    /\ UNCHANGED <<wal, open, ram, holds, history, counts>>

Truncate ==
    /\ dream.pc = "written"
    /\ wal' = <<>> /\ open' = FALSE
    /\ dream' = [pc |-> "awake", handle |-> 0, read |-> Nothing]
    /\ UNCHANGED <<snap, ram, holds, history, counts>>

-----------------------------------------------------------------------------
(* The process dies and starts again; what is on disk stays.               *)

Restarted ==
    /\ crashes < MaxCrashes /\ crashes' = crashes + 1
    /\ index' = [h \in Handles |-> Empty]
    /\ resident' = 0 /\ loads' = 0
    /\ holds' = [t \in Turns |-> 0]
    /\ dream' = [pc |-> "awake", handle |-> 0, read |-> Nothing]
    /\ UNCHANGED dreams

Crash == Restarted /\ UNCHANGED <<disk, history, torn>>

\* It dies in a load that had written its snapshot and not yet cut the log.
CrashInLoad ==
    /\ resident = 0 /\ replayed >= CompactAfter
    /\ snap' = Recovered(snap, wal)
    /\ Restarted
    /\ UNCHANGED <<wal, open, history, torn>>

\* It dies between two lines of a batch,
CrashInBatch ==
    /\ \E batch \in IF dream.pc = "decaying" THEN DecayBatches
                    ELSE IF dream.pc = "thinking" THEN MergeBatches \cup DistilBatches
                    ELSE {} :
       \E n \in 1..(Len(batch) - 1) : Recorded(SubSeq(batch, 1, n))
    /\ Restarted
    /\ UNCHANGED <<snap, torn>>

\* or in the middle of one: part of it is there, or all but its newline.
CrashInLine(t, f) ==
    /\ torn < MaxTorn /\ torn' = torn + 1
    /\ holds[t] # 0 /\ MayWrite
    /\ \E id \in Ids :
        /\ Remembering(holds[t], f, id)
        /\ \E e \in {Junk, Put(id, f, "live")} : append(<<e>>)
        /\ used' = used \cup {id}
    /\ open' = TRUE
    /\ Restarted
    /\ UNCHANGED <<snap, told, removed>>

-----------------------------------------------------------------------------
TurnStep == \E t \in Turns :
    \/ TakeHandle(t)
    \/ \E f \in Facts : Remember(t, f)
    \/ \E id \in Ids : Forget(t, id)

DreamStep == Sleep \/ Index \/ Read \/ LeaveAlone \/ Merge \/ Distil \/ Adjudicate
             \/ ReadAll \/ Decay \/ FoldLog \/ WriteSnapshot \/ Truncate

Dies == Crash \/ CrashInLoad \/ CrashInBatch
        \/ \E t \in Turns, f \in Facts : CrashInLine(t, f)

Next == TurnStep \/ DreamStep \/ Evict \/ Dies

Spec == Init /\ [][Next]_vars

-----------------------------------------------------------------------------
(* Properties.                                                             *)

\* An entry of the hash table leads to a memory with that content.
HashesLead(ix) ==
    \A f \in Facts : ix.byHash[f] # None =>
        /\ ix.mems[ix.byHash[f]] # None
        /\ ix.mems[ix.byHash[f]].fact = f

TypeOK ==
    /\ snap \in Memories
    /\ wal \in Seq(Event) /\ Len(wal) <= MaxEvents
    /\ open \in BOOLEAN
    /\ index \in [Handles -> [mems : Memories, byHash : [Facts -> Ids \cup {None}]]]
    /\ \A h \in Handles : HashesLead(index[h])
    /\ resident \in 0..MaxLoads /\ loads \in 0..MaxLoads
    /\ holds \in [Turns -> 0..MaxLoads]
    /\ dream \in [pc : {"awake", "asleep", "thinking", "decaying", "decayed",
                        "folded", "written"},
                  handle : 0..MaxLoads, read : Memories]
    /\ used \subseteq Ids /\ told \subseteq Ids /\ removed \subseteq Ids
    /\ dreams \in 0..MaxDreams /\ crashes \in 0..MaxCrashes /\ torn \in 0..MaxTorn

\* Replaying the log over a snapshot that already has some of its events, which
\* is what a crash between a snapshot and a truncation leaves, gives what the
\* last word on each memory says (wal.rs:117-122).
ReplayIsLastWord ==
    Replayed([Empty EXCEPT !.mems = snap], wal).mems = Recovered(snap, wal)

\* The index in RAM and the files say the same (mod.rs:137-139).
RamMatchesDisk ==
    resident # 0 => index[resident].mems = Recovered(snap, wal)

\* Both: snapshot and log, read in any of the three ways, tell one story.
OneStory == ReplayIsLastWord /\ RamMatchesDisk

\* What a turn was told is remembered can be read back after a restart, until
\* somebody removes it (instance.rs:448-453, wal.rs:35-37).
RememberedStays == \A id \in told : Recovered(snap, wal)[id] # None

\* The store keeps the contract, whatever restarts and compactions happen.
Contract == INSTANCE MemoryContract WITH memory <- Recovered(snap, wal), removed <- removed

KeepsContract == Contract!Spec

\* A memory a turn was told is purged does not come back
\* (instance.rs:112-113, memory/tools.rs:330).
ForgetSticks == \A id \in removed : Recovered(snap, wal)[id] = None
=============================================================================
