----------------------------- MODULE AgentPacks -----------------------------
(***************************************************************************)
(* Agent packs on one pod: install, update and uninstall over a store of   *)
(* vendored integrations that the packs share, and the agents made from    *)
(* their presets (agent_packs/mod.rs, agent_packs/store.rs,                *)
(* agent_preset.rs, agent_instance.rs).                                    *)
(*                                                                         *)
(* Requests run on threads of their own.  One lock covers the body of an   *)
(* install and of an uninstall; what an update reads before its install    *)
(* and writes after it, and everything agents do, is outside it.           *)
(* The process may die, and a write may fail, between any two steps.       *)
(***************************************************************************)
EXTENDS Naturals, FiniteSets

CONSTANTS
    Packs,          \* ids of agent packs
    Bundles,        \* the archives that exist: one preset each
    Agents,         \* identities of agents
    Workers,        \* requests in flight
    None, Torn,     \* no file; a file that does not parse
    MaxRequests,    \* pack requests in all
    MaxCuts,        \* crashes and failed writes, together
    SnapshotsMayBeTorn  \* may an update read a directory that is half written
                        \* or half removed?

\* A preset and a persona live in directories of their own: their paths differ.
ASSUME BundlesAreArchives ==
    \A b \in Bundles :
        /\ b.pack \in Packs /\ b.version \in Nat
        /\ b.lead \in b.roster
        /\ \A c \in Bundles : b.preset \notin c.roster

ASSUME NobodyIsNone ==
    /\ None \notin Workers /\ None # Torn
    /\ \A b \in Bundles : b.version \notin {None, Torn}

VARIABLES
    man,        \* a pack's agent_pack.json: its version, None, or Torn
    refs,       \* a pack's integrations.json: hashes in the store
    tree,       \* the other files of a pack's directory
    store,      \* entries that have an integration.json
    torn,       \* those of them that lack some of their bytes
    state,      \* agent_packs.json: the version recorded as installed
    user,       \* the files of the user's own layer
    agent,      \* an agent's record
    lock,       \* who holds pack_mutex
    work,       \* what each request is at
    requests,
    cuts,
    whole,      \* packs whose last operation was an install that ended
    swept       \* was the store collected since the last cut?

disk == <<man, refs, tree, store, torn, state>>
vars == <<disk, user, agent, lock, work, requests, cuts, whole, swept>>

-----------------------------------------------------------------------------
(* What an archive carries, and what resolves.                             *)

\* A preset's file says which personas it may call; a persona's is itself.
PresetFile(b) == [path |-> b.preset, lead |-> b.lead, roster |-> b.roster]
PersonaFile(x) == [path |-> x, lead |-> x, roster |-> {x}]

FilesOf(b) == {PresetFile(b)} \cup {PersonaFile(x) : x \in b.roster}

Paths(files) == {f.path : f \in files}

Overwrite(files, f) == {g \in files : g.path # f.path} \cup {f}

\* A pack nobody can read is skipped by every listing.
Readable(p) == man[p] \notin {None, Torn}

Provided(p) == {b \in Bundles : b.pack = p /\ b.version = man[p]}

manifests_all_readable == \A p \in Packs : man[p] # Torn

Installed == {p \in Packs : Readable(p)}

live_refs == UNION {refs[p] : p \in Installed}

\* Every file that provides a preset, and where it comes from.
providers(slug) ==
    LET of(files, place) ==
            {[from |-> place, file |-> f] :
                f \in {g \in files : g.path = slug}}
    IN  of(user, "user") \cup UNION {of(tree[p], p) : p \in Installed}

\* The user's own copy wins; two packs that both provide a preset lose it.
load(slug) ==
    LET found == providers(slug)
        local == {one \in found : one.from = "user"}
        choice == IF local # {} THEN local ELSE found
    IN  IF Cardinality(choice) # 1 THEN None
        ELSE (CHOOSE one \in choice : TRUE).file

-----------------------------------------------------------------------------
Idle == [op |-> "idle", at |-> "idle", bundle |-> None, todo |-> {},
         previous |-> {}, old_preset |-> None, old_tree |-> {}]

Init ==
    /\ man = [p \in Packs |-> None]
    /\ refs = [p \in Packs |-> {}]
    /\ tree = [p \in Packs |-> {}]
    /\ store = {} /\ torn = {}
    /\ state = [p \in Packs |-> None]
    /\ user = {}
    /\ agent = [i \in Agents |-> None]
    /\ lock = None
    /\ work = [w \in Workers |-> Idle]
    /\ requests = 0 /\ cuts = 0
    /\ whole = {}
    /\ swept = TRUE

At(w, place) == work[w].at = place

Asked == requests < MaxRequests /\ requests' = requests + 1

Goes(w, place) == work' = [work EXCEPT ![w].at = place]

-----------------------------------------------------------------------------
(* Installing.                                                             *)

Older(b) == Readable(b.pack) /\ b.version < man[b.pack]

\* Slip: nobody waits for the lock.
Begin_Slip(w, op, b, old) ==
    /\ ~Older(b)
    /\ lock' = w
    /\ work' = [work EXCEPT ![w] = [old EXCEPT
                    !.op = op, !.at = "put", !.bundle = b, !.todo = b.shas]]
    /\ whole' = whole \ {b.pack}
    /\ UNCHANGED <<disk, user, agent, cuts, swept>>

\* The archive is read before the lock, and a downgrade is refused under it.
Begin(w, op, b, old) ==
    /\ lock = None /\ ~Older(b)
    /\ lock' = w
    /\ work' = [work EXCEPT ![w] = [old EXCEPT
                    !.op = op, !.at = "put", !.bundle = b, !.todo = b.shas]]
    /\ whole' = whole \ {b.pack}
    /\ UNCHANGED <<disk, user, agent, cuts, swept>>

Install(w, b) == At(w, "idle") /\ Asked /\ Begin(w, "install", b, Idle)

\* Of an old version's files, those its agents would need to go on.
Needed(files, slug) ==
    LET preset == {f \in files : f.path = slug}
    IN  preset \cup {f \in files : \E g \in preset : f.path \in g.roster}

\* A directory holds the preset its manifest names, and every persona that
\* names: one being written, or left by a cut, need not.
Coherent(b) ==
    \E f \in tree[b.pack] :
        f.path = b.preset /\ f.roster \subseteq Paths(tree[b.pack])

\* An update takes its snapshot of the installed version first, outside the
\* lock, and is refused when there is none.
Update(w, b) ==
    /\ At(w, "idle") /\ Asked /\ Readable(b.pack)
    /\ \E old \in Provided(b.pack) :
           /\ SnapshotsMayBeTorn \/ Coherent(old)
           /\ work' = [work EXCEPT ![w] =
                         [Idle EXCEPT !.op = "update", !.at = "snapshot",
                             !.bundle = b,
                             !.old_preset = old.preset,
                             !.old_tree = Needed(tree[b.pack], old.preset)]]
    /\ UNCHANGED <<disk, user, agent, lock, cuts, whole, swept>>

UpdateInstalls(w) ==
    /\ At(w, "snapshot") /\ Begin(w, "update", work[w].bundle, work[w])
    /\ UNCHANGED requests

UpdateRefused(w) ==
    /\ At(w, "snapshot") /\ lock = None /\ Older(work[w].bundle)
    /\ work' = [work EXCEPT ![w] = Idle]
    /\ UNCHANGED <<disk, user, agent, lock, requests, cuts, whole, swept>>

\* An entry that is there already is left alone, whatever it holds.
put(w) ==
    /\ At(w, "put")
    /\ \E sha \in work[w].todo :
           /\ store' = store \cup {sha}
           /\ work' = [work EXCEPT ![w].todo = @ \ {sha}]
    /\ UNCHANGED <<man, refs, tree, torn, state, user, agent, lock, requests,
                   cuts, whole, swept>>

\* What the previous version left is listed by the reader meant for exports,
\* which passes over personas and skills.
Personas == UNION {b.roster : b \in Bundles}

read_tree(p) == {path \in Paths(tree[p]) : path \notin Personas}

ListPrevious(w) ==
    /\ At(w, "put") /\ work[w].todo = {}
    /\ work' = [work EXCEPT ![w].at = "files",
                    ![w].previous = read_tree(work[w].bundle.pack),
                    ![w].todo = FilesOf(work[w].bundle)]
    /\ UNCHANGED <<disk, user, agent, lock, requests, cuts, whole, swept>>

\* In the order of their paths: presets come before personas.
First(files) ==
    LET presets == {f \in files : f.path \notin Personas}
    IN  IF presets # {} THEN presets ELSE files

\* The first file makes the directory, which has no manifest yet.
WriteFile(w) ==
    LET p == work[w].bundle.pack
    IN  /\ At(w, "files")
        /\ \E f \in First(work[w].todo) :
               /\ tree' = [tree EXCEPT ![p] = Overwrite(@, f)]
               /\ work' = [work EXCEPT ![w].todo = @ \ {f}]
        /\ man' = [man EXCEPT ![p] = IF @ = None THEN Torn ELSE @]
        /\ UNCHANGED <<refs, store, torn, state, user, agent, lock, requests,
                       cuts, whole, swept>>

WriteManifest(w) ==
    /\ At(w, "files") /\ work[w].todo = {}
    /\ man' = [man EXCEPT ![work[w].bundle.pack] = work[w].bundle.version]
    /\ Goes(w, "refs")
    /\ UNCHANGED <<refs, tree, store, torn, state, user, agent, lock,
                   requests, cuts, whole, swept>>

write_refs(w) ==
    /\ At(w, "refs")
    /\ refs' = [refs EXCEPT ![work[w].bundle.pack] = work[w].bundle.shas]
    /\ Goes(w, "retire")
    /\ UNCHANGED <<man, tree, store, torn, state, user, agent, lock, requests,
                   cuts, whole, swept>>

\* What this version no longer ships goes, now that what it ships is there.
Retire(w) ==
    LET b == work[w].bundle
        gone == work[w].previous \ Paths(FilesOf(b))
    IN  /\ At(w, "retire")
        /\ tree' = [tree EXCEPT ![b.pack] = {f \in @ : f.path \notin gone}]
        /\ work' = [work EXCEPT ![w].at = "collect", ![w].previous = {}]
        /\ UNCHANGED <<man, refs, store, torn, state, user, agent, lock,
                       requests, cuts, whole, swept>>

\* Garbage is what no installed pack refers to, and a pack that cannot be read
\* refers to nothing: while there is one, nothing is collected.
gc ==
    IF manifests_all_readable
    THEN /\ store' = store \cap live_refs
         /\ torn' = torn \cap live_refs
         /\ swept' = TRUE
    ELSE UNCHANGED <<store, torn, swept>>

\* Slip: only an uninstall collects.
Collect_Slip(w) ==
    /\ At(w, "collect")
    /\ swept' = manifests_all_readable
    /\ Goes(w, "record")
    /\ UNCHANGED <<man, refs, tree, store, torn, state, user, agent, lock,
                   requests, cuts, whole>>

Collect(w) ==
    /\ At(w, "collect")
    /\ gc
    /\ Goes(w, "record")
    /\ UNCHANGED <<man, refs, tree, state, user, agent, lock, requests, cuts,
                   whole>>

\* The install is recorded, and the lock released.
Record(w) ==
    LET b == work[w].bundle
    IN  /\ At(w, "record")
        /\ state' = [state EXCEPT ![b.pack] = b.version]
        /\ lock' = None
        /\ whole' = whole \cup {b.pack}
        /\ work' = [work EXCEPT ![w] =
                       IF @.op = "update" THEN [@ EXCEPT !.at = "list"]
                       ELSE Idle]
        /\ UNCHANGED <<man, refs, tree, store, torn, user, agent, requests,
                       cuts, swept>>

-----------------------------------------------------------------------------
(* An update goes on to the agents, with the lock released.                *)

\* The records are read once; each is saved whole later.
ListAgents(w) ==
    /\ At(w, "list")
    /\ work' = [work EXCEPT ![w].at = "agents",
                    ![w].todo = {<<i, agent[i]>> :
                        i \in {j \in Agents :
                                  agent[j] # None
                                  /\ agent[j].preset = work[w].old_preset}}]
    /\ UNCHANGED <<disk, user, agent, lock, requests, cuts, whole, swept>>

Done(w, item) == work' = [work EXCEPT ![w].todo = @ \ {item}]

\* The preset survived: an agent whose persona did not falls back.
Follow(w) ==
    /\ At(w, "agents")
    /\ \E item \in work[w].todo :
           LET record == item[2]
               preset == load(record.preset)
           IN  /\ record.preset = work[w].bundle.preset
               /\ agent' = IF preset = None \/ record.persona \in preset.roster
                           THEN agent
                           ELSE [agent EXCEPT ![item[1]] =
                                    [record EXCEPT !.persona = preset.lead]]
               /\ Done(w, item)
    /\ UNCHANGED <<disk, user, lock, requests, cuts, whole, swept>>

\* The preset is copied to the user's layer, and the personas it names, each
\* unless the user has one of that name.
freeze_preset(old_tree) ==
    user \cup {f \in old_tree : f.path \notin Paths(user)}

\* Slip: the files are copied from where the old version had them.
Orphan_Slip(w) ==
    /\ At(w, "agents")
    /\ \E item \in work[w].todo :
           LET record == item[2]
               left == tree[work[w].bundle.pack]
           IN  /\ record.preset # work[w].bundle.preset
               /\ user' = freeze_preset(Needed(left, record.preset))
               /\ agent' = [agent EXCEPT ![item[1]] =
                               [record EXCEPT !.orphaned = TRUE]]
               /\ Done(w, item)
    /\ UNCHANGED <<disk, lock, requests, cuts, whole, swept>>

Orphan(w) ==
    /\ At(w, "agents")
    /\ \E item \in work[w].todo :
           LET record == item[2]
           IN  /\ record.preset # work[w].bundle.preset
               /\ user' = freeze_preset(work[w].old_tree)
               /\ agent' = [agent EXCEPT ![item[1]] =
                               [record EXCEPT !.orphaned = TRUE]]
               /\ Done(w, item)
    /\ UNCHANGED <<disk, lock, requests, cuts, whole, swept>>

EndUpdate(w) ==
    /\ At(w, "agents") /\ work[w].todo = {}
    /\ work' = [work EXCEPT ![w] = Idle]
    /\ UNCHANGED <<disk, user, agent, lock, requests, cuts, whole, swept>>

-----------------------------------------------------------------------------
(* Uninstalling.                                                           *)

\* Refused while an agent uses the pack's preset, unless it is forced.
Uninstall(w, b, force) ==
    /\ At(w, "idle") /\ Asked /\ lock = None /\ b \in Provided(b.pack)
    /\ force \/ \A i \in Agents : agent[i] # None => agent[i].preset # b.preset
    /\ lock' = w
    /\ work' = [work EXCEPT ![w] = [Idle EXCEPT !.op = "uninstall",
                                        !.at = "remove", !.bundle = b]]
    /\ whole' = whole \ {b.pack}
    /\ UNCHANGED <<disk, user, agent, cuts, swept>>

RemoveDir(w) ==
    LET p == work[w].bundle.pack
    IN  /\ At(w, "remove")
        /\ man' = [man EXCEPT ![p] = None]
        /\ refs' = [refs EXCEPT ![p] = {}]
        /\ tree' = [tree EXCEPT ![p] = {}]
        /\ Goes(w, "clean")
        /\ UNCHANGED <<store, torn, state, user, agent, lock, requests, cuts,
                       whole, swept>>

\* Only now can the store tell what nobody refers to.
Clean(w) ==
    LET b == work[w].bundle
    IN  /\ At(w, "clean")
        /\ state' = [state EXCEPT ![b.pack] = None]
        /\ gc
        /\ lock' = None
        /\ work' = [work EXCEPT ![w] = Idle]
        /\ UNCHANGED <<man, refs, tree, user, agent, requests, cuts, whole>>

-----------------------------------------------------------------------------
(* Agents.                                                                 *)

Mint(i, slug) ==
    /\ agent[i] = None /\ load(slug) # None
    /\ agent' = [agent EXCEPT ![i] =
                    [preset |-> slug, persona |-> load(slug).lead,
                     orphaned |-> FALSE]]
    /\ UNCHANGED <<disk, user, lock, work, requests, cuts, whole, swept>>

\* A preset that does not resolve does not lock its agent out.
Move(i, x) ==
    /\ agent[i] # None
    /\ LET preset == load(agent[i].preset)
       IN  preset # None => x \in preset.roster
    /\ agent' = [agent EXCEPT ![i].persona = x]
    /\ UNCHANGED <<disk, user, lock, work, requests, cuts, whole, swept>>

DeleteAgent(i) ==
    /\ agent[i] # None
    /\ agent' = [agent EXCEPT ![i] = None]
    /\ UNCHANGED <<disk, user, lock, work, requests, cuts, whole, swept>>

-----------------------------------------------------------------------------
(* A crash, or a write that fails, in the middle of what is being written. *)

\* Files are written in place: an entry of the store is there once its
\* integration.json is, a manifest may be cut short, a directory half removed.
HalfDone(w) ==
    LET p == work[w].bundle.pack
    IN  \/ UNCHANGED disk
        \/ /\ At(w, "put")
           /\ \E sha \in work[w].todo \ store :
                  store' = store \cup {sha} /\ torn' = torn \cup {sha}
           /\ UNCHANGED <<man, refs, tree, state>>
        \/ /\ At(w, "files") /\ work[w].todo = {}
           /\ man' = [man EXCEPT ![p] = Torn]
           /\ UNCHANGED <<refs, tree, store, torn, state>>
        \/ /\ At(w, "remove")
           /\ \E left \in SUBSET tree[p], r \in {refs[p], {}},
                 m \in {man[p], Torn} :
                  /\ tree' = [tree EXCEPT ![p] = left]
                  /\ refs' = [refs EXCEPT ![p] = r]
                  /\ man' = [man EXCEPT ![p] = m]
           /\ UNCHANGED <<store, torn, state>>

Cut == /\ cuts < MaxCuts /\ cuts' = cuts + 1
       /\ lock' = None /\ swept' = FALSE
       /\ UNCHANGED <<user, agent, requests, whole>>

Crash ==
    /\ Cut
    /\ IF lock = None THEN UNCHANGED disk ELSE HalfDone(lock)
    /\ work' = [w \in Workers |-> Idle]

\* The request that fails lets go of the lock; the others go on.
Fail(w) ==
    /\ lock = w /\ work[w].at \notin {"collect", "clean"}
    /\ Cut /\ HalfDone(w)
    /\ work' = [work EXCEPT ![w] = Idle]

-----------------------------------------------------------------------------
Step(w) ==
    \/ \E b \in Bundles : Install(w, b) \/ Update(w, b)
    \/ UpdateInstalls(w) \/ UpdateRefused(w)
    \/ put(w) \/ ListPrevious(w) \/ WriteFile(w) \/ WriteManifest(w)
    \/ write_refs(w) \/ Retire(w) \/ Collect(w) \/ Record(w)
    \/ ListAgents(w) \/ Follow(w) \/ Orphan(w) \/ EndUpdate(w)
    \/ \E b \in Bundles, force \in BOOLEAN : Uninstall(w, b, force)
    \/ RemoveDir(w) \/ Clean(w) \/ Fail(w)

People(i) ==
    \/ \E b \in Bundles : Mint(i, b.preset)
    \/ \E x \in Personas : Move(i, x)
    \/ DeleteAgent(i)

Next == (\E w \in Workers : Step(w)) \/ (\E i \in Agents : People(i)) \/ Crash

Spec == Init /\ [][Next]_vars

-----------------------------------------------------------------------------
(* Properties.                                                             *)

\* Types, in brief.
TypeOK ==
    /\ refs \in [Packs -> SUBSET UNION {b.shas : b \in Bundles}]
    /\ torn \subseteq store
    /\ lock \in Workers \cup {None}
    /\ cuts \in 0..MaxCuts
    /\ whole \subseteq Packs
    /\ \A w \in Workers :
           (lock = w) = (work[w].at \in {"put", "files", "refs", "retire",
                                         "collect", "record", "remove",
                                         "clean"})

\* A pack has the integrations it vendors: whatever other packs do, and
\* wherever an install was cut short, what a pack that can be read refers to
\* is in the store, and a pack whose install came to its end has all of its
\* version (mod.rs:174-184, 311-315, 331-337).
ToolsStay ==
    \A p \in Packs :
        /\ Readable(p) => refs[p] \subseteq store
        /\ p \in whole =>
               \E b \in Provided(p) :
                   /\ state[p] = b.version /\ refs[p] = b.shas
                   /\ FilesOf(b) \subseteq tree[p]

\* Nothing is left behind for ever: with nobody at work, and every pack
\* readable since the last cut, the store holds what packs refer to and no
\* more (mod.rs:327-333).
StoreIsSwept ==
    lock = None /\ swept => store \subseteq live_refs

\* An agent whose preset was withdrawn goes on: the preset it was made from
\* and every persona that names are the user's own from then on, whatever
\* becomes of the pack (mod.rs:554-567).
OrphansStand ==
    \A i \in Agents :
        agent[i] # None /\ agent[i].orphaned =>
            \E f \in user :
                f.path = agent[i].preset /\ f.roster \subseteq Paths(user)

\* A pack whose install came to its end has the files of its version and no
\* others (mod.rs:253-258).
WithdrawnGoes ==
    \A p \in whole : \A b \in Provided(p) : tree[p] = FilesOf(b)

\* An entry of the store holds all the bytes it is named for (store.rs:36-39).
EntriesAreWhole ==
    \A p \in Packs : Readable(p) => refs[p] \cap torn = {}
=============================================================================
