------------------------- MODULE AgentPacks_proofs -------------------------
(***************************************************************************)
(* Proofs about AgentPacks, for any packs, archives, agents and requests,  *)
(* and any number of crashes and failed writes.                            *)
(*                                                                         *)
(* None of the three properties is inductive.  What packs refer to is in   *)
(* the store because the lock's holder alone changes either, and has       *)
(* stored what it is about to refer to (Progress); a pack that cannot be   *)
(* read keeps its entries because nothing is collected meanwhile, so the   *)
(* invariant says it of every pack (RefsKept).  That garbage goes needs    *)
(* that nobody but the holder leaves a pack unreadable after a collection  *)
(* (Swept).  Orphans stand because a snapshot has the preset and all it    *)
(* names (SnapshotsHold), and the user's layer only grows.                 *)
(***************************************************************************)
EXTENDS AgentPacks, TLAPS

Locked == {"put", "files", "refs", "retire", "collect", "record", "remove",
           "clean"}
Fields == {"op", "at", "bundle", "todo", "previous", "old_preset", "old_tree"}

Shas == UNION {b.shas : b \in Bundles}
Files == UNION {FilesOf(b) : b \in Bundles}
Versions == {b.version : b \in Bundles}

Shape ==
    /\ man \in [Packs -> Versions \cup {None, Torn}]
    /\ refs \in [Packs -> SUBSET Shas]
    /\ tree \in [Packs -> SUBSET Files]
    /\ state \in [Packs -> Versions \cup {None}]
    /\ DOMAIN work = Workers
    /\ \A w \in Workers : DOMAIN work[w] = Fields
    /\ lock \in Workers \cup {None}

\* Whoever is in the locked part of a request holds the lock, and nobody else.
LockIsHeld ==
    \A w \in Workers :
        /\ (lock = w) <=> (work[w].at \in Locked)
        /\ work[w].at # "idle" => work[w].bundle \in Bundles

\* Even a pack that cannot be read has what it last referred to, and a
\* directory that is not there refers to nothing.
RefsKept ==
    \A p \in Packs : refs[p] \subseteq store /\ (man[p] = None => refs[p] = {})

Stored(w) ==
    LET b == work[w].bundle
    IN  /\ work[w].at = "put" => b.shas \subseteq store \cup work[w].todo
        /\ work[w].at \in {"files", "refs"} => b.shas \subseteq store

Written(w) ==
    LET b == work[w].bundle
    IN  /\ work[w].at = "files" =>
               /\ work[w].todo \subseteq FilesOf(b)
               /\ FilesOf(b) \subseteq tree[b.pack] \cup work[w].todo
        /\ work[w].at \in {"refs", "retire", "collect", "record"} =>
               FilesOf(b) \subseteq tree[b.pack] /\ man[b.pack] = b.version
        /\ work[w].at \in {"retire", "collect", "record"} =>
               refs[b.pack] = b.shas

\* How far the holder of the lock has come.
Progress ==
    \A w \in Workers :
        work[w].at \in Locked =>
            work[w].bundle.pack \notin whole /\ Stored(w) /\ Written(w)

WholeStays ==
    \A p \in Packs :
        p \in whole =>
            \E b \in Provided(p) :
                /\ state[p] = b.version /\ refs[p] = b.shas
                /\ FilesOf(b) \subseteq tree[p]

\* Since the last collection only the pack being written can be unreadable,
\* and nothing is left over once the holder has collected.
Swept ==
    swept =>
        /\ \A p \in Packs : man[p] = Torn =>
               \E w \in Workers : At(w, "files") /\ work[w].bundle.pack = p
        /\ lock = None \/ (\E w \in Workers : At(w, "record")) =>
               store \subseteq live_refs

PackInv == Shape /\ LockIsHeld /\ RefsKept /\ Progress /\ WholeStays /\ Swept

LEMMA PathsDiffer ==
    ASSUME NEW b \in Bundles, NEW f \in FilesOf(b), NEW g \in FilesOf(b),
           f.path = g.path
    PROVE  f = g
BY BundlesAreArchives DEF FilesOf, PresetFile, PersonaFile

LEMMA PackInit == Init => PackInv
BY BundlesAreArchives, NobodyIsNone
DEF Init, PackInv, Shape, LockIsHeld, RefsKept, Progress, WholeStays, Swept,
    Idle, Fields, Locked, At, live_refs, Installed, Readable

LEMMA BeginKeeps ==
    ASSUME PackInv, NEW w \in Workers, NEW b \in Bundles, NEW op, NEW old,
           DOMAIN old = Fields, work[w].at \notin Locked,
           Begin(w, op, b, old)
    PROVE  PackInv'
<1> USE NobodyIsNone, BundlesAreArchives DEF PackInv
<1>0. /\ work' = [work EXCEPT ![w] = work'[w]] /\ DOMAIN work' = Workers
      /\ work'[w].at = "put" /\ work'[w].bundle = b /\ work'[w].todo = b.shas
      /\ DOMAIN work'[w] = Fields
      /\ \A v \in Workers \ {w} : work'[v] = work[v]
  BY DEF Begin, Shape, Fields
<1>1. lock = None /\ lock' = w /\ whole' = whole \ {b.pack} /\ swept' = swept
      /\ UNCHANGED <<man, refs, tree, store, torn, state>>
  BY DEF Begin, disk
<1>2. Shape'
  BY <1>0, <1>1 DEF Shape
<1>3. LockIsHeld'
  BY <1>0, <1>1 DEF LockIsHeld, Locked
<1>4. RefsKept'
  BY <1>1 DEF RefsKept
<1>5. Progress'
  BY <1>0, <1>1, <1>3 DEF LockIsHeld, Progress, Stored, Written, Locked
<1>6. WholeStays'
  BY <1>1 DEF WholeStays, Provided
<1>7. Swept'
  BY <1>0, <1>1
  DEF Swept, At, live_refs, Installed, Readable, LockIsHeld, Locked
<1> QED BY <1>2, <1>3, <1>4, <1>5, <1>6, <1>7

\* What a request does outside the lock.
LEMMA UnlockedKeeps ==
    ASSUME PackInv, NEW w \in Workers,
           work' = [work EXCEPT ![w] = work'[w]], DOMAIN work'[w] = Fields,
           work[w].at \notin Locked, work'[w].at \notin Locked,
           work'[w].at # "idle" => work'[w].bundle \in Bundles,
           UNCHANGED <<disk, lock, whole, swept>>
    PROVE  PackInv'
<1> USE DEF PackInv
<1>0. /\ DOMAIN work' = Workers
      /\ \A v \in Workers \ {w} : work'[v] = work[v]
      /\ UNCHANGED <<man, refs, tree, store, torn, state, lock, whole, swept>>
  BY DEF Shape, disk
<1>1. Shape'
  BY <1>0 DEF Shape
<1>2. LockIsHeld'
  BY <1>0 DEF LockIsHeld
<1>3. RefsKept' /\ WholeStays'
  BY <1>0 DEF RefsKept, WholeStays, Provided
<1>4. Progress'
  BY <1>0 DEF Progress, Stored, Written
<1>5. Swept'
  BY <1>0 DEF Swept, At, live_refs, Installed, Readable, Locked
<1> QED BY <1>1, <1>2, <1>3, <1>4, <1>5

\* What the holder of the lock does to its own pack.
LEMMA HolderKeeps ==
    ASSUME PackInv, NEW w \in Workers, NEW p \in Packs,
           work' = [work EXCEPT ![w] = work'[w]], DOMAIN work'[w] = Fields,
           lock = w, lock' = w, work'[w].at \in Locked,
           work'[w].bundle = work[w].bundle, p = work[w].bundle.pack,
           UNCHANGED <<state, whole>>,
           man' = [man EXCEPT ![p] = man'[p]],
           refs' = [refs EXCEPT ![p] = refs'[p]],
           tree' = [tree EXCEPT ![p] = tree'[p]],
           man'[p] \in Versions \cup {None, Torn},
           refs'[p] \subseteq Shas, tree'[p] \subseteq Files,
           RefsKept', Stored(w)', Written(w)', Swept'
    PROVE  PackInv'
<1> USE DEF PackInv
<1>0. /\ DOMAIN work' = Workers
      /\ \A v \in Workers \ {w} : work'[v] = work[v]
  BY DEF Shape
<1>1. Shape'
  BY <1>0 DEF Shape
<1>2. LockIsHeld'
  BY <1>0 DEF LockIsHeld, Locked
<1>3. Progress'
  BY <1>0, <1>2, NobodyIsNone DEF Progress, LockIsHeld
<1>4. WholeStays'
  <2>1. p \notin whole
    BY DEF LockIsHeld, Progress
  <2>2. \A q \in Packs \ {p} :
            man'[q] = man[q] /\ refs'[q] = refs[q] /\ tree'[q] = tree[q]
    BY DEF Shape
  <2> QED BY <2>1, <2>2 DEF WholeStays, Provided
<1> QED BY <1>1, <1>2, <1>3, <1>4

LEMMA HolderFacts ==
    ASSUME PackInv, NEW w \in Workers, work[w].at \in Locked
    PROVE  /\ lock = w /\ work[w].bundle \in Bundles
           /\ work[w].bundle.pack \in Packs /\ w # None
           /\ work[w].bundle.pack \notin whole
           /\ work[w].bundle.shas \subseteq Shas
           /\ FilesOf(work[w].bundle) \subseteq Files
           /\ Stored(w) /\ Written(w)
           /\ \A v \in Workers \ {w} : work[v].at \notin Locked
BY BundlesAreArchives, NobodyIsNone
DEF PackInv, LockIsHeld, Progress, Locked, Shas, Files

LEMMA PutKeeps ==
    ASSUME PackInv, NEW w \in Workers, put(w)
    PROVE  PackInv'
<1> DEFINE p == work[w].bundle.pack
<1>0. work[w].at = "put" /\ work[w].at \in Locked
  BY DEF put, At, Locked
<1>1. /\ lock = w /\ p \in Packs /\ w # None
      /\ work[w].bundle.shas \subseteq store \cup work[w].todo
      /\ \A v \in Workers \ {w} : work[v].at \notin Locked
  BY <1>0, HolderFacts DEF Stored
<1>2. PICK sha \in work[w].todo :
          /\ store' = store \cup {sha}
          /\ work' = [work EXCEPT ![w].todo = @ \ {sha}]
  BY DEF put
<1>3. /\ work' = [work EXCEPT ![w] = work'[w]] /\ DOMAIN work'[w] = Fields
      /\ work'[w].at = "put" /\ work'[w].bundle = work[w].bundle
      /\ work'[w].todo = work[w].todo \ {sha}
      /\ \A v \in Workers \ {w} : work'[v] = work[v]
  BY <1>0, <1>2 DEF PackInv, Shape, Fields
<1>4. UNCHANGED <<man, refs, tree, state, lock, whole, swept>>
  BY DEF put
<1>5. RefsKept'
  BY <1>2, <1>4 DEF PackInv, RefsKept
<1>6. Stored(w)' /\ Written(w)'
  BY <1>1, <1>2, <1>3 DEF Stored, Written
<1>7. Swept'
  BY <1>0, <1>1, <1>3, <1>4 DEF PackInv, Swept, At, Locked
<1>8. Shape
  BY DEF PackInv
<1> QED
  BY <1>0, <1>1, <1>3, <1>4, <1>5, <1>6, <1>7, <1>8, HolderKeeps
  DEF Shape, Locked

LEMMA ListPreviousKeeps ==
    ASSUME PackInv, NEW w \in Workers, ListPrevious(w)
    PROVE  PackInv'
<1> DEFINE b == work[w].bundle
           p == b.pack
<1>0. work[w].at = "put" /\ work[w].at \in Locked /\ work[w].todo = {}
  BY DEF ListPrevious, At, Locked
<1>1. /\ lock = w /\ p \in Packs /\ w # None /\ b.shas \subseteq store
      /\ \A v \in Workers \ {w} : work[v].at \notin Locked
  BY <1>0, HolderFacts DEF Stored
<1>2. Shape /\ RefsKept /\ Swept
  BY DEF PackInv
<1>3. /\ work' = [work EXCEPT ![w] = work'[w]] /\ DOMAIN work'[w] = Fields
      /\ work'[w].at = "files" /\ work'[w].bundle = b
      /\ work'[w].todo = FilesOf(b)
      /\ \A v \in Workers \ {w} : work'[v] = work[v]
  BY <1>2 DEF ListPrevious, Shape, Fields
<1>4. UNCHANGED <<man, refs, tree, store, state, lock, whole, swept>>
  BY DEF ListPrevious, disk
<1>5. RefsKept' /\ Stored(w)' /\ Written(w)'
  BY <1>1, <1>2, <1>3, <1>4 DEF RefsKept, Stored, Written
<1>6. Swept'
  BY <1>0, <1>1, <1>2, <1>3, <1>4 DEF Swept, At, Locked
<1> QED
  BY <1>1, <1>2, <1>3, <1>4, <1>5, <1>6, HolderKeeps DEF Shape, Locked

LEMMA WriteFileKeeps ==
    ASSUME PackInv, NEW w \in Workers, WriteFile(w)
    PROVE  PackInv'
<1> DEFINE b == work[w].bundle
           p == b.pack
<1>0. work[w].at = "files" /\ work[w].at \in Locked
  BY DEF WriteFile, At, Locked
<1>1. /\ lock = w /\ p \in Packs /\ w # None /\ b \in Bundles
      /\ b.shas \subseteq store /\ work[w].todo \subseteq FilesOf(b)
      /\ FilesOf(b) \subseteq tree[p] \cup work[w].todo
      /\ FilesOf(b) \subseteq Files
      /\ \A v \in Workers \ {w} : work[v].at \notin Locked
  BY <1>0, HolderFacts DEF Stored, Written
<1>2. Shape /\ RefsKept /\ Swept
  BY DEF PackInv
<1>3. PICK f \in work[w].todo :
          /\ tree' = [tree EXCEPT ![p] = Overwrite(@, f)]
          /\ work' = [work EXCEPT ![w].todo = @ \ {f}]
  BY DEF WriteFile, First
<1>4. /\ work' = [work EXCEPT ![w] = work'[w]] /\ DOMAIN work'[w] = Fields
      /\ work'[w].at = "files" /\ work'[w].bundle = b
      /\ work'[w].todo = work[w].todo \ {f}
      /\ \A v \in Workers \ {w} : work'[v] = work[v]
  BY <1>0, <1>2, <1>3 DEF Shape, Fields
<1>5. /\ UNCHANGED <<refs, store, state, lock, whole, swept>>
      /\ man' = [man EXCEPT ![p] = IF @ = None THEN Torn ELSE @]
  BY DEF WriteFile
<1>6. /\ man' = [man EXCEPT ![p] = man'[p]]
      /\ man'[p] = (IF man[p] = None THEN Torn ELSE man[p])
      /\ tree' = [tree EXCEPT ![p] = tree'[p]]
      /\ tree'[p] = Overwrite(tree[p], f)
      /\ \A q \in Packs \ {p} : man'[q] = man[q]
  BY <1>1, <1>2, <1>3, <1>5 DEF Shape
<1>7. tree'[p] \subseteq Files
  BY <1>1, <1>2, <1>6 DEF Shape, Overwrite
<1>8. FilesOf(b) \subseteq tree'[p] \cup work'[w].todo
  BY <1>1, <1>4, <1>6, PathsDiffer DEF Overwrite
<1>9. RefsKept'
  BY <1>2, <1>5, <1>6, NobodyIsNone DEF RefsKept
<1>10. Stored(w)' /\ Written(w)'
  BY <1>1, <1>4, <1>5, <1>8 DEF Stored, Written
<1>11. Swept'
  BY <1>0, <1>1, <1>2, <1>4, <1>5, <1>6 DEF Swept, At, Locked
<1>12. man'[p] \in Versions \cup {None, Torn} /\ refs'[p] \subseteq Shas
  BY <1>1, <1>2, <1>5, <1>6 DEF Shape
<1>13. refs' = [refs EXCEPT ![p] = refs'[p]]
  BY <1>2, <1>5 DEF Shape
<1> QED
  BY <1>1, <1>4, <1>5, <1>6, <1>7, <1>9, <1>10, <1>11, <1>12, <1>13,
     HolderKeeps DEF Locked

LEMMA WriteManifestKeeps ==
    ASSUME PackInv, NEW w \in Workers, WriteManifest(w)
    PROVE  PackInv'
<1> DEFINE b == work[w].bundle
           p == b.pack
<1>0. work[w].at = "files" /\ work[w].at \in Locked /\ work[w].todo = {}
  BY DEF WriteManifest, At, Locked
<1>1. /\ lock = w /\ p \in Packs /\ w # None /\ b \in Bundles
      /\ b.shas \subseteq store /\ FilesOf(b) \subseteq tree[p]
      /\ \A v \in Workers \ {w} : work[v].at \notin Locked
  BY <1>0, HolderFacts DEF Stored, Written
<1>2. Shape /\ RefsKept /\ Swept
  BY DEF PackInv
<1>3. /\ work' = [work EXCEPT ![w] = work'[w]] /\ DOMAIN work'[w] = Fields
      /\ work'[w].at = "refs" /\ work'[w].bundle = b
      /\ \A v \in Workers \ {w} : work'[v] = work[v]
  BY <1>2 DEF WriteManifest, Goes, Shape, Fields
<1>4. /\ UNCHANGED <<refs, tree, store, state, lock, whole, swept>>
      /\ man' = [man EXCEPT ![p] = b.version]
  BY DEF WriteManifest
<1>5. /\ man' = [man EXCEPT ![p] = man'[p]] /\ man'[p] = b.version
      /\ b.version \in Versions /\ b.version \notin {None, Torn}
      /\ \A q \in Packs \ {p} : man'[q] = man[q]
  BY <1>1, <1>2, <1>4, NobodyIsNone DEF Shape, Versions
<1>6. RefsKept' /\ Stored(w)' /\ Written(w)'
  BY <1>1, <1>2, <1>3, <1>4, <1>5 DEF RefsKept, Stored, Written
<1>7. Swept'
  BY <1>0, <1>1, <1>2, <1>3, <1>4, <1>5 DEF Swept, At, Locked
<1>8. /\ refs' = [refs EXCEPT ![p] = refs'[p]] /\ refs'[p] \subseteq Shas
      /\ tree' = [tree EXCEPT ![p] = tree'[p]] /\ tree'[p] \subseteq Files
      /\ man'[p] \in Versions \cup {None, Torn}
  BY <1>1, <1>2, <1>4, <1>5 DEF Shape
<1> QED
  BY <1>1, <1>3, <1>4, <1>5, <1>6, <1>7, <1>8, HolderKeeps DEF Locked

LEMMA WriteRefsKeeps ==
    ASSUME PackInv, NEW w \in Workers, write_refs(w)
    PROVE  PackInv'
<1> DEFINE b == work[w].bundle
           p == b.pack
<1>0. work[w].at = "refs" /\ work[w].at \in Locked
  BY DEF write_refs, At, Locked
<1>1. /\ lock = w /\ p \in Packs /\ w # None /\ b \in Bundles
      /\ b.shas \subseteq store /\ b.shas \subseteq Shas
      /\ FilesOf(b) \subseteq tree[p] /\ man[p] = b.version
      /\ \A v \in Workers \ {w} : work[v].at \notin Locked
  BY <1>0, HolderFacts DEF Stored, Written
<1>2. Shape /\ RefsKept /\ Swept
  BY DEF PackInv
<1>3. /\ work' = [work EXCEPT ![w] = work'[w]] /\ DOMAIN work'[w] = Fields
      /\ work'[w].at = "retire" /\ work'[w].bundle = b
      /\ \A v \in Workers \ {w} : work'[v] = work[v]
  BY <1>2 DEF write_refs, Goes, Shape, Fields
<1>4. /\ UNCHANGED <<man, tree, store, state, lock, whole, swept>>
      /\ refs' = [refs EXCEPT ![p] = b.shas]
  BY DEF write_refs
<1>5. /\ refs' = [refs EXCEPT ![p] = refs'[p]] /\ refs'[p] = b.shas
      /\ \A q \in Packs \ {p} : refs'[q] = refs[q]
  BY <1>1, <1>2, <1>4 DEF Shape
<1>6. RefsKept' /\ Stored(w)' /\ Written(w)'
  BY <1>1, <1>2, <1>3, <1>4, <1>5, NobodyIsNone DEF RefsKept, Stored, Written
<1>7. Swept'
  BY <1>0, <1>1, <1>2, <1>3, <1>4 DEF Swept, At, Locked
<1>8. /\ man' = [man EXCEPT ![p] = man'[p]]
      /\ man'[p] \in Versions \cup {None, Torn}
      /\ tree' = [tree EXCEPT ![p] = tree'[p]] /\ tree'[p] \subseteq Files
      /\ refs'[p] \subseteq Shas
  BY <1>1, <1>2, <1>4, <1>5 DEF Shape
<1> QED
  BY <1>1, <1>3, <1>4, <1>5, <1>6, <1>7, <1>8, HolderKeeps DEF Locked

LEMMA RetireKeeps ==
    ASSUME PackInv, NEW w \in Workers, Retire(w)
    PROVE  PackInv'
<1> DEFINE b == work[w].bundle
           p == b.pack
           gone == work[w].previous \ Paths(FilesOf(b))
<1>0. work[w].at = "retire" /\ work[w].at \in Locked
  BY DEF Retire, At, Locked
<1>1. /\ lock = w /\ p \in Packs /\ w # None /\ b \in Bundles
      /\ FilesOf(b) \subseteq tree[p] /\ man[p] = b.version
      /\ refs[p] = b.shas
      /\ \A v \in Workers \ {w} : work[v].at \notin Locked
  BY <1>0, HolderFacts DEF Stored, Written
<1>2. Shape /\ RefsKept /\ Swept
  BY DEF PackInv
<1>3. /\ work' = [work EXCEPT ![w] = work'[w]] /\ DOMAIN work'[w] = Fields
      /\ work'[w].at = "collect" /\ work'[w].bundle = b
      /\ \A v \in Workers \ {w} : work'[v] = work[v]
  BY <1>2 DEF Retire, Shape, Fields
<1>4. /\ UNCHANGED <<man, refs, store, state, lock, whole, swept>>
      /\ tree' = [tree EXCEPT ![p] = {f \in @ : f.path \notin gone}]
  BY DEF Retire
<1>5. /\ tree' = [tree EXCEPT ![p] = tree'[p]]
      /\ tree'[p] = {f \in tree[p] : f.path \notin gone}
  BY <1>1, <1>2, <1>4 DEF Shape
<1>6. FilesOf(b) \subseteq tree'[p] /\ tree'[p] \subseteq Files
  BY <1>1, <1>2, <1>5 DEF Paths, Shape
<1>7. RefsKept' /\ Stored(w)' /\ Written(w)'
  BY <1>1, <1>2, <1>3, <1>4, <1>6 DEF RefsKept, Stored, Written
<1>8. Swept'
  BY <1>0, <1>1, <1>2, <1>3, <1>4 DEF Swept, At, Locked
<1> QED
  BY <1>1, <1>2, <1>3, <1>4, <1>5, <1>6, <1>7, <1>8, HolderKeeps
  DEF Shape, Locked

\* The collection keeps what any pack refers to.
LEMMA GcKeeps ==
    ASSUME RefsKept, gc, UNCHANGED <<man, refs>>
    PROVE  RefsKept' /\ (manifests_all_readable => store' \subseteq live_refs')
<1>1. CASE manifests_all_readable
  <2>1. \A p \in Packs : refs[p] \subseteq live_refs
    BY <1>1
    DEF RefsKept, live_refs, Installed, Readable, manifests_all_readable
  <2> QED BY <1>1, <2>1 DEF gc, RefsKept, live_refs, Installed, Readable
<1>2. CASE ~manifests_all_readable
  BY <1>2 DEF gc, RefsKept
<1> QED BY <1>1, <1>2

LEMMA CollectKeeps ==
    ASSUME PackInv, NEW w \in Workers, Collect(w)
    PROVE  PackInv'
<1> DEFINE b == work[w].bundle
           p == b.pack
<1>0. work[w].at = "collect" /\ work[w].at \in Locked
  BY DEF Collect, At, Locked
<1>1. /\ lock = w /\ p \in Packs /\ w # None /\ b \in Bundles
      /\ FilesOf(b) \subseteq tree[p] /\ man[p] = b.version
      /\ refs[p] = b.shas
      /\ \A v \in Workers \ {w} : work[v].at \notin Locked
  BY <1>0, HolderFacts DEF Stored, Written
<1>2. Shape /\ RefsKept /\ Swept
  BY DEF PackInv
<1>3. /\ work' = [work EXCEPT ![w] = work'[w]] /\ DOMAIN work'[w] = Fields
      /\ work'[w].at = "record" /\ work'[w].bundle = b
      /\ \A v \in Workers \ {w} : work'[v] = work[v]
  BY <1>2 DEF Collect, Goes, Shape, Fields
<1>4. UNCHANGED <<man, refs, tree, state, lock, whole>> /\ gc
  BY DEF Collect
<1>5. RefsKept' /\ (manifests_all_readable => store' \subseteq live_refs')
  BY <1>2, <1>4, GcKeeps
<1>6. Stored(w)' /\ Written(w)'
  BY <1>1, <1>3, <1>4 DEF Stored, Written
<1>7. Swept'
  <2>1. CASE manifests_all_readable
    BY <1>4, <1>5, <2>1 DEF Swept, manifests_all_readable
  <2>2. CASE ~manifests_all_readable
    <3>1. swept' = swept
      BY <1>4, <2>2 DEF gc
    <3>2. \A v \in Workers : ~At(v, "files")
      BY <1>0, <1>1 DEF At, Locked
    <3>3. ~swept
      BY <1>2, <2>2, <3>2 DEF Swept, manifests_all_readable
    <3> QED BY <3>1, <3>3 DEF Swept
  <2> QED BY <2>1, <2>2
<1> QED
  BY <1>1, <1>2, <1>3, <1>4, <1>5, <1>6, <1>7, HolderKeeps
  DEF Shape, Locked

\* The lock is let go of, by a request that ended or by a cut.
LEMMA ReleaseKeeps ==
    ASSUME Shape', RefsKept', WholeStays', Swept',
           lock' = None, DOMAIN work' = Workers,
           \A v \in Workers :
               /\ work'[v].at \notin Locked
               /\ work'[v].at # "idle" => work'[v].bundle \in Bundles
    PROVE  PackInv'
<1>1. LockIsHeld'
  BY NobodyIsNone DEF LockIsHeld
<1>2. Progress'
  BY DEF Progress
<1> QED BY <1>1, <1>2 DEF PackInv

LEMMA RecordKeeps ==
    ASSUME PackInv, NEW w \in Workers, Record(w)
    PROVE  PackInv'
<1> DEFINE b == work[w].bundle
           p == b.pack
<1>0. work[w].at = "record" /\ work[w].at \in Locked
  BY DEF Record, At, Locked
<1>1. /\ lock = w /\ p \in Packs /\ w # None /\ b \in Bundles
      /\ FilesOf(b) \subseteq tree[p] /\ man[p] = b.version
      /\ refs[p] = b.shas
      /\ \A v \in Workers \ {w} : work[v].at \notin Locked
  BY <1>0, HolderFacts DEF Written
<1>2. Shape /\ RefsKept /\ Swept /\ LockIsHeld /\ WholeStays
  BY DEF PackInv
<1>3. /\ DOMAIN work' = Workers /\ DOMAIN work'[w] = Fields
      /\ work'[w].at \in {"idle", "list"}
      /\ work'[w].at # "idle" => work'[w].bundle = b
      /\ \A v \in Workers \ {w} : work'[v] = work[v]
  <2>1. CASE work[w].op = "update"
    BY <1>2, <2>1 DEF Record, Shape, Fields
  <2>2. CASE work[w].op # "update"
    BY <1>2, <2>2 DEF Record, Shape, Fields, Idle
  <2> QED BY <2>1, <2>2
<1>4. /\ UNCHANGED <<man, refs, tree, store, swept>> /\ lock' = None
      /\ whole' = whole \cup {p}
      /\ state' = [state EXCEPT ![p] = b.version]
  BY DEF Record
<1>5. b.version \in Versions /\ b \in Provided(p)
  BY <1>1 DEF Versions, Provided
<1>6. Shape'
  BY <1>1, <1>2, <1>3, <1>4, <1>5 DEF Shape
<1>7. WholeStays'
  <2>1. state'[p] = b.version /\ \A q \in Packs \ {p} : state'[q] = state[q]
    BY <1>1, <1>2, <1>4 DEF Shape
  <2> QED BY <1>1, <1>2, <1>4, <1>5, <2>1 DEF WholeStays, Provided
<1>8. RefsKept'
  BY <1>2, <1>4 DEF RefsKept
<1>9. Swept'
  <2>1. \A v \in Workers : ~At(v, "files")
    BY <1>0, <1>1 DEF At, Locked
  <2>2. live_refs' = live_refs
    BY <1>4 DEF live_refs, Installed, Readable
  <2> QED BY <1>0, <1>2, <1>4, <2>1, <2>2 DEF Swept, At
<1>10. \A v \in Workers :
           /\ work'[v].at \notin Locked
           /\ work'[v].at # "idle" => work'[v].bundle \in Bundles
  BY <1>1, <1>2, <1>3 DEF LockIsHeld, Locked
<1> QED BY <1>2, <1>3, <1>4, <1>6, <1>7, <1>8, <1>9, <1>10, ReleaseKeeps

LEMMA UninstallKeeps ==
    ASSUME PackInv, NEW w \in Workers, NEW b \in Bundles, NEW force,
           Uninstall(w, b, force)
    PROVE  PackInv'
<1>1. Shape /\ RefsKept /\ Swept /\ LockIsHeld /\ WholeStays
  BY DEF PackInv
<1>2. /\ DOMAIN work' = Workers /\ DOMAIN work'[w] = Fields
      /\ work'[w].at = "remove" /\ work'[w].bundle = b
      /\ \A v \in Workers \ {w} : work'[v] = work[v]
  BY <1>1 DEF Uninstall, Shape, Fields, Idle
<1>3. /\ lock = None /\ lock' = w /\ whole' = whole \ {b.pack}
      /\ UNCHANGED <<man, refs, tree, store, torn, state, swept>>
  BY DEF Uninstall, disk
<1>4. \A v \in Workers : work[v].at \notin Locked
  BY <1>1, <1>3, NobodyIsNone DEF LockIsHeld
<1>5. Shape' /\ LockIsHeld' /\ RefsKept'
  BY <1>1, <1>2, <1>3, <1>4 DEF Shape, LockIsHeld, RefsKept, Locked
<1>6. Progress'
  BY <1>2, <1>3, <1>4 DEF Progress, Stored, Written
<1>7. WholeStays'
  BY <1>1, <1>3 DEF WholeStays, Provided
<1>8. Swept'
  BY <1>1, <1>2, <1>3, <1>4, NobodyIsNone DEF Swept, At, Locked
<1> QED BY <1>5, <1>6, <1>7, <1>8 DEF PackInv

LEMMA RemoveDirKeeps ==
    ASSUME PackInv, NEW w \in Workers, RemoveDir(w)
    PROVE  PackInv'
<1> DEFINE b == work[w].bundle
           p == b.pack
<1>0. work[w].at = "remove" /\ work[w].at \in Locked
  BY DEF RemoveDir, At, Locked
<1>1. /\ lock = w /\ p \in Packs /\ w # None /\ b \in Bundles
      /\ \A v \in Workers \ {w} : work[v].at \notin Locked
  BY <1>0, HolderFacts
<1>2. Shape /\ RefsKept /\ Swept
  BY DEF PackInv
<1>3. /\ work' = [work EXCEPT ![w] = work'[w]] /\ DOMAIN work'[w] = Fields
      /\ work'[w].at = "clean" /\ work'[w].bundle = b
      /\ \A v \in Workers \ {w} : work'[v] = work[v]
  BY <1>2 DEF RemoveDir, Goes, Shape, Fields
<1>4. /\ UNCHANGED <<store, state, lock, whole, swept>>
      /\ man' = [man EXCEPT ![p] = None]
      /\ refs' = [refs EXCEPT ![p] = {}]
      /\ tree' = [tree EXCEPT ![p] = {}]
  BY DEF RemoveDir
<1>5. /\ man' = [man EXCEPT ![p] = man'[p]] /\ man'[p] = None
      /\ refs' = [refs EXCEPT ![p] = refs'[p]] /\ refs'[p] = {}
      /\ tree' = [tree EXCEPT ![p] = tree'[p]] /\ tree'[p] = {}
      /\ \A q \in Packs \ {p} : man'[q] = man[q] /\ refs'[q] = refs[q]
  BY <1>1, <1>2, <1>4 DEF Shape
<1>6. RefsKept' /\ Stored(w)' /\ Written(w)'
  BY <1>2, <1>3, <1>4, <1>5 DEF RefsKept, Stored, Written
<1>7. Swept'
  <2>1. \A v \in Workers : ~At(v, "files")
    BY <1>0, <1>1 DEF At, Locked
  <2>2. swept => \A q \in Packs : man'[q] # Torn
    BY <1>2, <1>5, <2>1, NobodyIsNone DEF Swept
  <2>3. \A v \in Workers : ~At(v, "record")'
    BY <1>1, <1>3 DEF At, Locked
  <2> QED BY <1>1, <1>4, <2>2, <2>3 DEF Swept
<1> QED
  BY <1>1, <1>3, <1>4, <1>5, <1>6, <1>7, HolderKeeps DEF Locked

LEMMA CleanKeeps ==
    ASSUME PackInv, NEW w \in Workers, Clean(w)
    PROVE  PackInv'
<1> DEFINE b == work[w].bundle
           p == b.pack
<1>0. work[w].at = "clean" /\ work[w].at \in Locked
  BY DEF Clean, At, Locked
<1>1. /\ lock = w /\ p \in Packs /\ p \notin whole
      /\ \A v \in Workers \ {w} : work[v].at \notin Locked
  BY <1>0, HolderFacts
<1>2. Shape /\ RefsKept /\ Swept /\ LockIsHeld /\ WholeStays
  BY DEF PackInv
<1>3. /\ DOMAIN work' = Workers /\ DOMAIN work'[w] = Fields
      /\ work'[w].at = "idle"
      /\ \A v \in Workers \ {w} : work'[v] = work[v]
  BY <1>2 DEF Clean, Shape, Fields, Idle
<1>4. /\ UNCHANGED <<man, refs, tree, whole>> /\ lock' = None /\ gc
      /\ state' = [state EXCEPT ![p] = None]
  BY DEF Clean
<1>5. RefsKept' /\ (manifests_all_readable => store' \subseteq live_refs')
  BY <1>2, <1>4, GcKeeps
<1>6. Shape'
  BY <1>1, <1>2, <1>3, <1>4 DEF Shape
<1>7. WholeStays'
  <2>1. \A q \in whole : q # p /\ (q \in Packs => state'[q] = state[q])
    BY <1>1, <1>2, <1>4 DEF Shape
  <2> QED BY <1>2, <1>4, <2>1 DEF WholeStays, Provided
<1>8. Swept'
  <2>1. CASE manifests_all_readable
    BY <1>4, <1>5, <2>1 DEF Swept, manifests_all_readable
  <2>2. CASE ~manifests_all_readable
    <3>1. swept' = swept
      BY <1>4, <2>2 DEF gc
    <3>2. \A v \in Workers : ~At(v, "files")
      BY <1>0, <1>1 DEF At, Locked
    <3>3. ~swept
      BY <1>2, <2>2, <3>2 DEF Swept, manifests_all_readable
    <3> QED BY <3>1, <3>3 DEF Swept
  <2> QED BY <2>1, <2>2
<1>9. \A v \in Workers :
           /\ work'[v].at \notin Locked
           /\ work'[v].at # "idle" => work'[v].bundle \in Bundles
  BY <1>1, <1>2, <1>3 DEF LockIsHeld, Locked
<1> QED BY <1>2, <1>3, <1>4, <1>5, <1>6, <1>7, <1>8, <1>9, ReleaseKeeps

\* What a cut leaves of a write is the holder's own pack, and entries more.
LEMMA HalfDoneKeeps ==
    ASSUME PackInv, NEW w \in Workers, lock = w, HalfDone(w), whole' = whole
    PROVE  /\ man' \in [Packs -> Versions \cup {None, Torn}]
           /\ refs' \in [Packs -> SUBSET Shas]
           /\ tree' \in [Packs -> SUBSET Files]
           /\ state' = state /\ RefsKept' /\ WholeStays'
<1> DEFINE p == work[w].bundle.pack
<1>1. p \in Packs /\ p \notin whole
  BY HolderFacts DEF PackInv, LockIsHeld
<1>2. Shape /\ RefsKept /\ WholeStays
  BY DEF PackInv
<1>3. /\ state' = state /\ store \subseteq store'
      /\ \/ UNCHANGED <<man, refs, tree>>
         \/ man' = [man EXCEPT ![p] = Torn] /\ UNCHANGED <<refs, tree>>
         \/ \E left \in SUBSET tree[p], r \in {refs[p], {}},
               m \in {man[p], Torn} :
                /\ tree' = [tree EXCEPT ![p] = left]
                /\ refs' = [refs EXCEPT ![p] = r]
                /\ man' = [man EXCEPT ![p] = m]
  BY DEF HalfDone, disk
<1>4. CASE UNCHANGED <<man, refs, tree>>
  BY <1>2, <1>3, <1>4 DEF Shape, RefsKept, WholeStays, Provided
<1>5. CASE man' = [man EXCEPT ![p] = Torn] /\ UNCHANGED <<refs, tree>>
  <2>1. man'[p] = Torn /\ \A q \in Packs \ {p} : man'[q] = man[q]
    BY <1>1, <1>2, <1>5 DEF Shape
  <2> QED
    BY <1>1, <1>2, <1>3, <1>5, <2>1, NobodyIsNone
    DEF Shape, RefsKept, WholeStays, Provided
<1>6. ASSUME NEW left \in SUBSET tree[p], NEW r \in {refs[p], {}},
             NEW m \in {man[p], Torn},
             tree' = [tree EXCEPT ![p] = left],
             refs' = [refs EXCEPT ![p] = r], man' = [man EXCEPT ![p] = m]
      PROVE  /\ man' \in [Packs -> Versions \cup {None, Torn}]
             /\ refs' \in [Packs -> SUBSET Shas]
             /\ tree' \in [Packs -> SUBSET Files]
             /\ RefsKept' /\ WholeStays'
  <2>1. /\ man'[p] = m /\ refs'[p] = r /\ tree'[p] = left
        /\ \A q \in Packs \ {p} :
              man'[q] = man[q] /\ refs'[q] = refs[q] /\ tree'[q] = tree[q]
    BY <1>1, <1>2, <1>6 DEF Shape
  <2>2. /\ man' \in [Packs -> Versions \cup {None, Torn}]
        /\ refs' \in [Packs -> SUBSET Shas]
        /\ tree' \in [Packs -> SUBSET Files]
    BY <1>1, <1>2, <1>6 DEF Shape
  <2>3. RefsKept'
    BY <1>1, <1>2, <1>3, <2>1, NobodyIsNone DEF RefsKept
  <2>4. WholeStays'
    BY <1>1, <1>2, <1>3, <2>1 DEF WholeStays, Provided
  <2> QED BY <2>2, <2>3, <2>4
<1> QED BY <1>3, <1>4, <1>5, <1>6

LEMMA FailKeeps ==
    ASSUME PackInv, NEW w \in Workers, Fail(w)
    PROVE  PackInv'
<1>1. /\ lock = w /\ HalfDone(w) /\ lock' = None /\ swept' = FALSE
      /\ whole' = whole /\ work' = [work EXCEPT ![w] = Idle]
  BY DEF Fail, Cut
<1>2. Shape /\ LockIsHeld
  BY DEF PackInv
<1>3. /\ DOMAIN work' = Workers /\ work'[w] = Idle
      /\ \A v \in Workers \ {w} : work'[v] = work[v]
  BY <1>1, <1>2 DEF Shape
<1>4. Shape' /\ RefsKept' /\ WholeStays'
  BY <1>1, <1>2, <1>3, HalfDoneKeeps DEF Shape, Idle, Fields
<1>5. Swept'
  BY <1>1 DEF Swept
<1>6. \A v \in Workers :
           /\ work'[v].at \notin Locked
           /\ work'[v].at # "idle" => work'[v].bundle \in Bundles
  BY <1>1, <1>2, <1>3 DEF LockIsHeld, Locked, Idle
<1> QED BY <1>1, <1>3, <1>4, <1>5, <1>6, ReleaseKeeps

LEMMA CrashKeeps == ASSUME PackInv, Crash PROVE PackInv'
<1>1. /\ lock' = None /\ swept' = FALSE /\ whole' = whole
      /\ work' = [w \in Workers |-> Idle]
      /\ IF lock = None THEN UNCHANGED disk ELSE HalfDone(lock)
  BY DEF Crash, Cut
<1>2. Shape /\ RefsKept /\ WholeStays
  BY DEF PackInv
<1>3. Shape' /\ RefsKept' /\ WholeStays'
  <2>1. CASE lock = None
    BY <1>1, <1>2, <2>1
    DEF disk, Shape, RefsKept, WholeStays, Provided, Idle, Fields
  <2>2. CASE lock # None
    <3>1. lock \in Workers
      BY <1>2, <2>2 DEF Shape
    <3> QED BY <1>1, <1>2, <2>2, <3>1, HalfDoneKeeps DEF Shape, Idle, Fields
  <2> QED BY <2>1, <2>2
<1>4. Swept'
  BY <1>1 DEF Swept
<1> QED BY <1>1, <1>3, <1>4, ReleaseKeeps DEF Idle, Locked

\* Outside the lock: an update before and after its install, and refusals.
LEMMA UpdateKeeps ==
    ASSUME PackInv, NEW w \in Workers,
           \/ \E b \in Bundles : Update(w, b)
           \/ UpdateRefused(w) \/ ListAgents(w) \/ EndUpdate(w)
           \/ Follow(w) \/ Orphan(w)
    PROVE  PackInv'
<1>1. Shape /\ LockIsHeld
  BY DEF PackInv
<1>2. DOMAIN work = Workers /\ DOMAIN work[w] = Fields
      /\ (work[w].at # "idle" => work[w].bundle \in Bundles)
  BY <1>1 DEF Shape, LockIsHeld
<1>3. ASSUME NEW b \in Bundles, Update(w, b) PROVE PackInv'
  <2>1. PICK old \in Provided(b.pack) :
            work' = [work EXCEPT ![w] =
                      [Idle EXCEPT !.op = "update", !.at = "snapshot",
                             !.bundle = b, !.old_preset = old.preset,
                             !.old_tree = Needed(tree[b.pack], old.preset)]]
    BY <1>3 DEF Update
  <2>2. /\ work' = [work EXCEPT ![w] = work'[w]] /\ DOMAIN work'[w] = Fields
        /\ work'[w].at = "snapshot" /\ work'[w].bundle = b
    BY <1>2, <2>1 DEF Idle, Fields
  <2>3. work[w].at = "idle" /\ UNCHANGED <<disk, lock, whole, swept>>
    BY <1>3 DEF Update, At
  <2> QED BY <2>2, <2>3, UnlockedKeeps DEF Locked
<1>4. CASE UpdateRefused(w) \/ EndUpdate(w)
  BY <1>2, <1>4, UnlockedKeeps
  DEF UpdateRefused, EndUpdate, At, Idle, Fields, Locked
<1>5. CASE ListAgents(w)
  <2>1. /\ work' = [work EXCEPT ![w] = work'[w]] /\ DOMAIN work'[w] = Fields
        /\ work'[w].at = "agents" /\ work'[w].bundle = work[w].bundle
    BY <1>2, <1>5 DEF ListAgents, Fields
  <2> QED BY <1>2, <1>5, <2>1, UnlockedKeeps DEF ListAgents, At, Locked
<1>6. CASE Follow(w) \/ Orphan(w)
  <2>1. PICK item : work' = [work EXCEPT ![w].todo = @ \ {item}]
    BY <1>6 DEF Follow, Orphan, Done
  <2>2. work[w].at = "agents" /\ UNCHANGED <<disk, lock, whole, swept>>
    BY <1>6 DEF Follow, Orphan, At
  <2>3. /\ work' = [work EXCEPT ![w] = work'[w]] /\ DOMAIN work'[w] = Fields
        /\ work'[w].at = "agents" /\ work'[w].bundle = work[w].bundle
    BY <1>2, <2>1, <2>2 DEF Fields
  <2> QED BY <1>2, <2>2, <2>3, UnlockedKeeps DEF Locked
<1> QED BY <1>3, <1>4, <1>5, <1>6

LEMMA PackStep == PackInv /\ [Next]_vars => PackInv'
<1> SUFFICES ASSUME PackInv, [Next]_vars PROVE PackInv'
  OBVIOUS
<1>1. ASSUME NEW w \in Workers, Step(w) PROVE PackInv'
  <2>1. ASSUME NEW b \in Bundles, Install(w, b) PROVE PackInv'
    <3>1. DOMAIN Idle = Fields /\ work[w].at \notin Locked
      BY <2>1 DEF Install, At, Idle, Fields, Locked
    <3> QED BY <2>1, <3>1, BeginKeeps DEF Install
  <2>2. CASE UpdateInstalls(w)
    <3>1. /\ DOMAIN work[w] = Fields /\ work[w].bundle \in Bundles
          /\ work[w].at \notin Locked
      BY <2>2 DEF PackInv, Shape, LockIsHeld, UpdateInstalls, At, Locked
    <3> QED BY <2>2, <3>1, BeginKeeps DEF UpdateInstalls
  <2>3. CASE put(w)
    BY <2>3, PutKeeps
  <2>4. CASE ListPrevious(w)
    BY <2>4, ListPreviousKeeps
  <2>5. CASE WriteFile(w)
    BY <2>5, WriteFileKeeps
  <2>6. CASE WriteManifest(w)
    BY <2>6, WriteManifestKeeps
  <2>7. CASE write_refs(w)
    BY <2>7, WriteRefsKeeps
  <2>8. CASE Retire(w)
    BY <2>8, RetireKeeps
  <2>9. CASE Collect(w)
    BY <2>9, CollectKeeps
  <2>10. CASE Record(w)
    BY <2>10, RecordKeeps
  <2>11. ASSUME NEW b \in Bundles, NEW force \in BOOLEAN,
                Uninstall(w, b, force)
         PROVE  PackInv'
    BY <2>11, UninstallKeeps
  <2>12. CASE RemoveDir(w)
    BY <2>12, RemoveDirKeeps
  <2>13. CASE Clean(w)
    BY <2>13, CleanKeeps
  <2>14. CASE Fail(w)
    BY <2>14, FailKeeps
  <2>15. CASE \/ \E b \in Bundles : Update(w, b)
              \/ UpdateRefused(w) \/ ListAgents(w) \/ EndUpdate(w)
              \/ Follow(w) \/ Orphan(w)
    BY <2>15, UpdateKeeps
  <2> QED
    BY <1>1, <2>1, <2>2, <2>3, <2>4, <2>5, <2>6, <2>7, <2>8, <2>9, <2>10,
       <2>11, <2>12, <2>13, <2>14, <2>15
    DEF Step
<1>2. CASE \/ \E i \in Agents : People(i)
           \/ UNCHANGED vars
  <2>1. UNCHANGED <<disk, lock, work, whole, swept>>
    BY <1>2 DEF People, Mint, Move, DeleteAgent, vars
  <2> QED
    BY <2>1
    DEF disk, PackInv, Shape, LockIsHeld, RefsKept, Progress, Stored, Written,
        WholeStays, Provided, Swept, At, live_refs, Installed, Readable
<1>3. CASE Crash
  BY <1>3, CrashKeeps
<1> QED BY <1>1, <1>2, <1>3 DEF Next

LEMMA PacksInvariant == Spec => []PackInv
BY PackInit, PackStep, PTL DEF Spec

\* A pack that can be read has the integrations it refers to, and one whose
\* install came to its end has all of its version, whatever other requests do
\* and wherever a crash or a failed write cut one short.
THEOREM ToolsAreKept == Spec => []ToolsStay
<1>1. PackInv => ToolsStay
  BY DEF PackInv, RefsKept, WholeStays, ToolsStay, Readable
<1> QED BY <1>1, PacksInvariant, PTL

\* With nobody at work and a collection since the last cut, the store holds
\* what the packs refer to and nothing else.
THEOREM StoreHasNoGarbage == Spec => []StoreIsSwept
<1>1. PackInv => StoreIsSwept
  BY DEF PackInv, Swept, StoreIsSwept
<1> QED BY <1>1, PacksInvariant, PTL

(***************************************************************************)
(* Orphans.                                                                *)
(***************************************************************************)

\* Every persona a file names is among the files.
Closed(files) == \A f \in files : f.roster \subseteq Paths(files)

OnePerPath(files) == \A f, g \in files : f.path = g.path => f = g

RecordFields == {"preset", "persona", "orphaned"}

\* A directory has one file to a path.
TreesAreTrees == \A p \in Packs : OnePerPath(tree[p])

\* An update holds the preset it replaces and all that it names.
SnapshotsHold ==
    \A w \in Workers :
        /\ work[w].at \in {"snapshot", "list", "agents"} =>
               work[w].op = "update"
        /\ work[w].op = "update" =>
               /\ Closed(work[w].old_tree)
               /\ \E f \in work[w].old_tree : f.path = work[w].old_preset

IsRecord(r, files) ==
    /\ DOMAIN r = RecordFields /\ r.orphaned \in BOOLEAN
    /\ r.orphaned => r.preset \in Paths(files)

\* The records an update has listed are those of agents of the old preset.
ListedRecords ==
    \A w \in Workers :
        work[w].at = "agents" =>
            \A item \in work[w].todo :
                IsRecord(item[2], user) /\ item[2].preset = work[w].old_preset

Records == DOMAIN agent = Agents
           /\ \A i \in Agents : agent[i] # None => IsRecord(agent[i], user)

OrphanInv ==
    TreesAreTrees /\ Closed(user) /\ SnapshotsHold /\ ListedRecords /\ Records

LEMMA FileKinds ==
    ASSUME NEW f \in Files
    PROVE  \/ \E b \in Bundles : f.path = b.preset /\ f.roster = b.roster
           \/ \E b \in Bundles : f.path \in b.roster /\ f.roster = {f.path}
BY DEF Files, FilesOf, PresetFile, PersonaFile

\* What an update keeps of a directory that holds its preset is closed.
LEMMA NeededIsClosed ==
    ASSUME NEW files \in SUBSET Files, OnePerPath(files), NEW slug,
           \E f \in files : f.path = slug /\ f.roster \subseteq Paths(files)
    PROVE  /\ Closed(Needed(files, slug))
           /\ \E f \in Needed(files, slug) : f.path = slug
<1> DEFINE kept == Needed(files, slug)
<1>1. PICK f \in files : f.path = slug /\ f.roster \subseteq Paths(files)
  OBVIOUS
<1>2. \A g \in files : g.path = slug => g = f
  BY <1>1 DEF OnePerPath
<1>3. kept = {f} \cup {g \in files : g.path \in f.roster}
  BY <1>1, <1>2 DEF Needed
<1>4. f.roster \subseteq Paths(kept)
  BY <1>1, <1>3 DEF Paths
<1>5. ASSUME NEW g \in files, g.path \in f.roster
      PROVE  g.roster \subseteq Paths(kept)
  <2>1. g.path \in Paths(kept)
    BY <1>3, <1>5 DEF Paths
  <2>2. \E b \in Bundles : f.roster \subseteq b.roster
    BY FileKinds, <1>1
  <2>3. g.roster = {g.path}
    BY FileKinds, <1>5, <2>2, BundlesAreArchives
  <2> QED BY <2>1, <2>3
<1> QED BY <1>1, <1>3, <1>4, <1>5 DEF Closed

LEMMA FreezeCloses ==
    ASSUME Closed(user), NEW old_tree, Closed(old_tree),
           user' = freeze_preset(old_tree)
    PROVE  /\ Closed(user)' /\ user \subseteq user'
           /\ \A f \in old_tree : f.path \in Paths(user')
<1>1. /\ Paths(user) \subseteq Paths(user')
      /\ Paths(old_tree) \subseteq Paths(user')
  BY DEF freeze_preset, Paths
<1>2. user' \subseteq user \cup old_tree /\ user \subseteq user'
  BY DEF freeze_preset
<1>3. \A f \in user' : f.roster \subseteq Paths(user')
  BY <1>1, <1>2 DEF Closed
<1>4. \A f \in old_tree : f.path \in Paths(user')
  BY <1>1 DEF Paths
<1> QED BY <1>2, <1>3, <1>4 DEF Closed

LEMMA OrphanInit == Init => OrphanInv
BY DEF Init, OrphanInv, TreesAreTrees, OnePerPath, Closed, SnapshotsHold,
       ListedRecords, Records, Idle

\* The user's layer only grows, so what stands goes on standing.
LEMMA RecordsStay ==
    ASSUME user \subseteq user', NEW r, IsRecord(r, user)
    PROVE  IsRecord(r, user')
BY DEF IsRecord, Paths

\* Steps of the locked part: files and manifests, and no agent.
LEMMA InstallStepsKeepOrphans ==
    ASSUME PackInv, OrphanInv, NEW w \in Workers,
           user' = user, agent' = agent, TreesAreTrees',
           \A v \in Workers \ {w} : work'[v] = work[v],
           work'[w].at \notin {"snapshot", "agents"},
           work'[w].op = "update" =>
               work[w].op = "update" /\ work'[w].old_tree = work[w].old_tree
               /\ work'[w].old_preset = work[w].old_preset,
           work'[w].at = "list" => work'[w].op = "update"
    PROVE  OrphanInv'
<1>1. SnapshotsHold'
  BY DEF OrphanInv, SnapshotsHold
<1>2. ListedRecords'
  BY DEF OrphanInv, ListedRecords, IsRecord, Paths
<1>3. Records'
  BY DEF OrphanInv, Records, IsRecord, Paths
<1>4. Closed(user)'
  BY DEF OrphanInv, Closed, Paths
<1> QED BY <1>1, <1>2, <1>3, <1>4 DEF OrphanInv

LEMMA TreesStay ==
    ASSUME PackInv, TreesAreTrees,
           \/ tree' = tree
           \/ \E p \in Packs : \E f :
                  tree' = [tree EXCEPT ![p] = Overwrite(@, f)]
           \/ \A q \in Packs : tree'[q] \subseteq tree[q]
    PROVE  TreesAreTrees'
<1>1. ASSUME NEW p \in Packs, NEW f,
             tree' = [tree EXCEPT ![p] = Overwrite(@, f)]
      PROVE  TreesAreTrees'
  <2>1. /\ tree'[p] = Overwrite(tree[p], f)
        /\ \A q \in Packs \ {p} : tree'[q] = tree[q]
    BY <1>1 DEF PackInv, Shape
  <2> QED BY <2>1 DEF TreesAreTrees, OnePerPath, Overwrite
<1> QED BY <1>1 DEF TreesAreTrees, OnePerPath

LEMMA HalfDoneTrees ==
    ASSUME PackInv, NEW w \in Workers, HalfDone(w)
    PROVE  \A q \in Packs : tree'[q] \subseteq tree[q]
<1> DEFINE p == work[w].bundle.pack
<1>1. \/ tree' = tree
      \/ \E left \in SUBSET tree[p] : tree' = [tree EXCEPT ![p] = left]
  BY DEF HalfDone, disk
<1> QED BY <1>1 DEF PackInv, Shape

\* An install or an uninstall, and the installing part of an update.
LEMMA LockedKeepsOrphans ==
    ASSUME PackInv, OrphanInv, NEW w \in Workers,
           \/ \E b \in Bundles : Install(w, b)
           \/ UpdateInstalls(w) \/ put(w) \/ ListPrevious(w) \/ WriteFile(w)
           \/ WriteManifest(w) \/ write_refs(w) \/ Retire(w) \/ Collect(w)
           \/ Record(w) \/ RemoveDir(w) \/ Clean(w) \/ Fail(w)
           \/ \E b \in Bundles, force \in BOOLEAN : Uninstall(w, b, force)
    PROVE  OrphanInv'
<1>0. DOMAIN work = Workers /\ DOMAIN work[w] = Fields /\ DOMAIN tree = Packs
  BY DEF PackInv, Shape
<1>1. TreesAreTrees
  BY DEF OrphanInv
<1>2. ASSUME NEW b \in Bundles, Install(w, b) PROVE OrphanInv'
  <2>1. work' = [work EXCEPT ![w] = [Idle EXCEPT
                    !.op = "install", !.at = "put", !.bundle = b,
                    !.todo = b.shas]]
        /\ UNCHANGED <<tree, user, agent>>
    BY <1>2 DEF Install, Begin, disk
  <2>2. work'[w].op = "install" /\ work'[w].at = "put"
        /\ \A v \in Workers \ {w} : work'[v] = work[v]
    BY <1>0, <2>1 DEF Idle
  <2> QED BY <1>1, <2>1, <2>2, TreesStay, InstallStepsKeepOrphans
<1>3. CASE UpdateInstalls(w)
  <2>1. /\ work' = [work EXCEPT ![w] = [work[w] EXCEPT
                    !.op = "update", !.at = "put", !.bundle = work[w].bundle,
                    !.todo = work[w].bundle.shas]]
        /\ UNCHANGED <<tree, user, agent>> /\ work[w].at = "snapshot"
    BY <1>3 DEF UpdateInstalls, Begin, disk, At
  <2>2. /\ work'[w].at = "put" /\ work'[w].old_tree = work[w].old_tree
        /\ work'[w].old_preset = work[w].old_preset
        /\ \A v \in Workers \ {w} : work'[v] = work[v]
    BY <1>0, <2>1 DEF Fields
  <2>3. work[w].op = "update"
    BY <2>1 DEF OrphanInv, SnapshotsHold
  <2> QED BY <1>1, <2>1, <2>2, <2>3, TreesStay, InstallStepsKeepOrphans
<1>4. CASE \/ put(w) \/ ListPrevious(w) \/ WriteFile(w) \/ WriteManifest(w)
           \/ write_refs(w) \/ Retire(w) \/ Collect(w) \/ RemoveDir(w)
  <2>1. user' = user /\ agent' = agent
    BY <1>4 DEF put, ListPrevious, WriteFile, WriteManifest, write_refs,
                Retire, Collect, RemoveDir
  <2>2. \/ tree' = tree
        \/ \E p \in Packs : \E f : tree' = [tree EXCEPT ![p] = Overwrite(@, f)]
        \/ \A q \in Packs : tree'[q] \subseteq tree[q]
    <3>1. CASE WriteFile(w)
      <4>1. work[w].at \in Locked
        BY <3>1 DEF WriteFile, At, Locked
      <4> QED BY <3>1, <4>1, HolderFacts DEF WriteFile
    <3>2. CASE Retire(w)
      BY <1>0, <3>2 DEF Retire
    <3>3. CASE RemoveDir(w)
      BY <1>0, <3>3 DEF RemoveDir
    <3> QED
      BY <1>4, <3>1, <3>2, <3>3
      DEF put, ListPrevious, WriteManifest, write_refs, Collect, disk
  <2>3. /\ work'[w].op = work[w].op /\ work'[w].old_tree = work[w].old_tree
        /\ work'[w].old_preset = work[w].old_preset
        /\ work'[w].at \in Locked
        /\ \A v \in Workers \ {w} : work'[v] = work[v]
    <3>1. CASE put(w)
      BY <1>0, <3>1 DEF put, At, Fields, Locked
    <3>2. CASE ListPrevious(w)
      BY <1>0, <3>2 DEF ListPrevious, Fields, Locked
    <3>3. CASE WriteFile(w)
      BY <1>0, <3>3 DEF WriteFile, At, Fields, Locked
    <3>4. CASE WriteManifest(w) \/ write_refs(w) \/ Collect(w) \/ RemoveDir(w)
      BY <1>0, <3>4
      DEF WriteManifest, write_refs, Collect, RemoveDir, Goes, Fields, Locked
    <3>5. CASE Retire(w)
      BY <1>0, <3>5 DEF Retire, Fields, Locked
    <3> QED BY <1>4, <3>1, <3>2, <3>3, <3>4, <3>5
  <2> QED
    BY <1>1, <2>1, <2>2, <2>3, TreesStay, InstallStepsKeepOrphans DEF Locked
<1>5. CASE Record(w)
  <2>1. UNCHANGED <<tree, user, agent>>
    BY <1>5 DEF Record
  <2>2. CASE work[w].op = "update"
    <3>1. work' = [work EXCEPT ![w] = [work[w] EXCEPT !.at = "list"]]
      BY <1>5, <2>2 DEF Record
    <3>2. /\ work'[w].at = "list" /\ work'[w].op = "update"
          /\ work'[w].old_tree = work[w].old_tree
          /\ work'[w].old_preset = work[w].old_preset
          /\ \A v \in Workers \ {w} : work'[v] = work[v]
      BY <1>0, <2>2, <3>1 DEF Fields
    <3> QED BY <1>1, <2>1, <2>2, <3>2, TreesStay, InstallStepsKeepOrphans
  <2>3. CASE work[w].op # "update"
    <3>1. work' = [work EXCEPT ![w] = Idle]
      BY <1>5, <2>3 DEF Record
    <3>2. work'[w] = Idle /\ \A v \in Workers \ {w} : work'[v] = work[v]
      BY <1>0, <3>1
    <3> QED
      BY <1>1, <2>1, <3>2, TreesStay, InstallStepsKeepOrphans DEF Idle
  <2> QED BY <2>2, <2>3
<1>6. CASE Clean(w) \/ Fail(w)
  <2>1. user' = user /\ agent' = agent
    BY <1>6 DEF Clean, Fail, Cut
  <2>2. work'[w] = Idle /\ \A v \in Workers \ {w} : work'[v] = work[v]
    BY <1>0, <1>6 DEF Clean, Fail
  <2>3. TreesAreTrees'
    <3>1. tree' = tree \/ \A q \in Packs : tree'[q] \subseteq tree[q]
      BY <1>6, HalfDoneTrees DEF Clean, Fail
    <3> QED BY <1>1, <3>1, TreesStay
  <2> QED BY <2>1, <2>2, <2>3, InstallStepsKeepOrphans DEF Idle
<1>7. ASSUME NEW b \in Bundles, NEW force, Uninstall(w, b, force)
      PROVE  OrphanInv'
  <2>1. UNCHANGED <<tree, user, agent>>
        /\ work' = [work EXCEPT ![w] = [Idle EXCEPT !.op = "uninstall",
                                        !.at = "remove", !.bundle = b]]
    BY <1>7 DEF Uninstall, disk
  <2>2. work'[w].op = "uninstall" /\ work'[w].at = "remove"
        /\ \A v \in Workers \ {w} : work'[v] = work[v]
    BY <1>0, <2>1 DEF Idle
  <2> QED BY <1>1, <2>1, <2>2, TreesStay, InstallStepsKeepOrphans
<1> QED BY <1>2, <1>3, <1>4, <1>5, <1>6, <1>7

\* An update outside the lock.
LEMMA UpdateKeepsOrphans ==
    ASSUME ~SnapshotsMayBeTorn, PackInv, OrphanInv, NEW w \in Workers,
           \/ \E b \in Bundles : Update(w, b)
           \/ UpdateRefused(w) \/ ListAgents(w) \/ EndUpdate(w)
           \/ Follow(w) \/ Orphan(w)
    PROVE  OrphanInv'
<1>0. DOMAIN work = Workers /\ DOMAIN work[w] = Fields /\ DOMAIN tree = Packs
  BY DEF PackInv, Shape
<1>1. TreesAreTrees' /\ TreesAreTrees
  BY TreesStay
  DEF OrphanInv, Update, UpdateRefused, ListAgents, EndUpdate, Follow, Orphan,
      disk
<1>2. ASSUME NEW b \in Bundles, Update(w, b) PROVE OrphanInv'
  <2>1. PICK old \in Provided(b.pack) :
            /\ Coherent(old)
            /\ work' = [work EXCEPT ![w] =
                      [Idle EXCEPT !.op = "update", !.at = "snapshot",
                             !.bundle = b, !.old_preset = old.preset,
                             !.old_tree = Needed(tree[b.pack], old.preset)]]
    BY <1>2 DEF Update
  <2>2. /\ work'[w].op = "update" /\ work'[w].at = "snapshot"
        /\ work'[w].old_preset = old.preset
        /\ work'[w].old_tree = Needed(tree[b.pack], old.preset)
        /\ \A v \in Workers \ {w} : work'[v] = work[v]
    BY <1>0, <2>1 DEF Idle
  <2>3. /\ Closed(Needed(tree[b.pack], old.preset))
        /\ \E f \in Needed(tree[b.pack], old.preset) : f.path = old.preset
    <3>1. old.pack = b.pack /\ b.pack \in Packs
      BY BundlesAreArchives DEF Provided
    <3>2. tree[b.pack] \in SUBSET Files /\ OnePerPath(tree[b.pack])
      BY <1>1, <3>1 DEF PackInv, Shape, TreesAreTrees
    <3> QED BY <2>1, <3>1, <3>2, NeededIsClosed DEF Coherent
  <2>4. UNCHANGED <<user, agent>>
    BY <1>2 DEF Update
  <2>5. SnapshotsHold'
    BY <2>2, <2>3 DEF OrphanInv, SnapshotsHold, Closed, Paths
  <2>6. ListedRecords' /\ Records' /\ Closed(user)'
    BY <2>2, <2>4
    DEF OrphanInv, ListedRecords, Records, IsRecord, Closed, Paths
  <2> QED BY <1>1, <2>5, <2>6 DEF OrphanInv
<1>3. CASE UpdateRefused(w) \/ EndUpdate(w)
  <2>1. /\ work'[w] = Idle /\ UNCHANGED <<user, agent>>
        /\ \A v \in Workers \ {w} : work'[v] = work[v]
    BY <1>0, <1>3 DEF UpdateRefused, EndUpdate
  <2> QED BY <1>1, <2>1, InstallStepsKeepOrphans DEF Idle
<1>4. CASE ListAgents(w)
  <2>1. /\ work'[w].op = work[w].op /\ work'[w].old_tree = work[w].old_tree
        /\ work'[w].old_preset = work[w].old_preset /\ work'[w].at = "agents"
        /\ work'[w].todo = {<<i, agent[i]>> :
                        i \in {j \in Agents :
                                  agent[j] # None
                                  /\ agent[j].preset = work[w].old_preset}}
        /\ \A v \in Workers \ {w} : work'[v] = work[v]
        /\ work[w].at = "list" /\ UNCHANGED <<user, agent>>
    BY <1>0, <1>4 DEF ListAgents, At, Fields
  <2>2. SnapshotsHold'
    BY <2>1 DEF OrphanInv, SnapshotsHold, Closed, Paths
  <2>3. \A item \in work'[w].todo :
            IsRecord(item[2], user) /\ item[2].preset = work'[w].old_preset
    BY <2>1 DEF OrphanInv, Records
  <2>4. ListedRecords'
    BY <2>1, <2>3 DEF OrphanInv, ListedRecords, IsRecord, Paths
  <2>5. Records' /\ Closed(user)'
    BY <2>1 DEF OrphanInv, Records, IsRecord, Closed, Paths
  <2> QED BY <1>1, <2>2, <2>4, <2>5 DEF OrphanInv
<1>5. ASSUME Follow(w) \/ Orphan(w) PROVE OrphanInv'
  <2>1. /\ work[w].at = "agents" /\ work[w].op = "update"
        /\ Closed(work[w].old_tree)
        /\ \E f \in work[w].old_tree : f.path = work[w].old_preset
    BY <1>5 DEF Follow, Orphan, At, OrphanInv, SnapshotsHold
  <2>2. PICK item \in work[w].todo :
            /\ Done(w, item)
            /\ \/ /\ user' = user
                  /\ \/ agent' = agent
                     \/ \E x : agent' = [agent EXCEPT ![item[1]] =
                                            [item[2] EXCEPT !.persona = x]]
               \/ /\ user' = freeze_preset(work[w].old_tree)
                  /\ agent' = [agent EXCEPT ![item[1]] =
                                   [item[2] EXCEPT !.orphaned = TRUE]]
    BY <1>5 DEF Follow, Orphan
  <2>3. /\ work'[w].op = work[w].op /\ work'[w].old_tree = work[w].old_tree
        /\ work'[w].old_preset = work[w].old_preset /\ work'[w].at = "agents"
        /\ work'[w].todo \subseteq work[w].todo
        /\ \A v \in Workers \ {w} : work'[v] = work[v]
    BY <1>0, <2>1, <2>2 DEF Done, Fields
  <2>4. /\ user \subseteq user' /\ Closed(user)'
        /\ user' # user => work[w].old_preset \in Paths(user')
    <3>1. CASE user' = user
      BY <3>1 DEF OrphanInv, Closed, Paths
    <3>2. CASE user' = freeze_preset(work[w].old_tree)
      BY <2>1, <3>2, FreezeCloses DEF OrphanInv
    <3> QED BY <2>2, <3>1, <3>2
  <2>5. user' = freeze_preset(work[w].old_tree) =>
            work[w].old_preset \in Paths(user')
    BY <2>1, FreezeCloses DEF OrphanInv
  <2>6. IsRecord(item[2], user) /\ item[2].preset = work[w].old_preset
    BY <2>1 DEF OrphanInv, ListedRecords
  <2>7. SnapshotsHold'
    <3>1. \A v \in Workers :
              /\ work'[v].op = work[v].op
              /\ work'[v].old_tree = work[v].old_tree
              /\ work'[v].old_preset = work[v].old_preset
              /\ work'[v].at = "agents" => work[v].at = "agents"
              /\ work'[v].at # "agents" => work'[v].at = work[v].at
      BY <2>1, <2>3
    <3> QED BY <3>1 DEF OrphanInv, SnapshotsHold, Closed, Paths
  <2>8. ListedRecords'
    <3>1. ASSUME NEW v \in Workers, work'[v].at = "agents",
                 NEW one \in work'[v].todo
          PROVE  IsRecord(one[2], user') /\ one[2].preset = work'[v].old_preset
      <4>1. /\ work[v].at = "agents" /\ one \in work[v].todo
            /\ work'[v].old_preset = work[v].old_preset
        BY <2>1, <2>3, <3>1
      <4>2. IsRecord(one[2], user) /\ one[2].preset = work[v].old_preset
        BY <4>1 DEF OrphanInv, ListedRecords
      <4> QED BY <2>4, <4>1, <4>2 DEF IsRecord, Paths
    <3> QED BY <3>1 DEF ListedRecords, IsRecord, Paths
  <2>9. Records'
    <3>1. DOMAIN agent = Agents /\ DOMAIN agent' = Agents
      BY <2>2 DEF OrphanInv, Records
    <3>2. ASSUME NEW i \in Agents, agent'[i] # None
          PROVE  IsRecord(agent'[i], user')
      <4>1. CASE agent'[i] = agent[i]
        BY <2>4, <3>2, <4>1 DEF OrphanInv, Records, IsRecord, Paths
      <4>2. ASSUME NEW x, agent'[i] = [item[2] EXCEPT !.persona = x]
            PROVE  IsRecord(agent'[i], user')
        <5>1. /\ DOMAIN agent'[i] = RecordFields
              /\ agent'[i].orphaned = item[2].orphaned
              /\ agent'[i].preset = item[2].preset
          BY <2>6, <4>2 DEF IsRecord, RecordFields
        <5> QED BY <2>4, <2>6, <5>1 DEF IsRecord, Paths
      <4>3. CASE /\ agent'[i] = [item[2] EXCEPT !.orphaned = TRUE]
                 /\ user' = freeze_preset(work[w].old_tree)
        <5>1. /\ DOMAIN agent'[i] = RecordFields
              /\ agent'[i].orphaned = TRUE
              /\ agent'[i].preset = work[w].old_preset
          BY <2>6, <4>3 DEF IsRecord, RecordFields
        <5> QED BY <2>5, <4>3, <5>1 DEF IsRecord
      <4> QED BY <2>2, <3>1, <4>1, <4>2, <4>3
    <3> QED BY <3>1, <3>2 DEF Records, IsRecord, Paths
  <2> QED BY <1>1, <2>4, <2>7, <2>8, <2>9 DEF OrphanInv
<1> QED BY <1>2, <1>3, <1>4, <1>5

LEMMA PeopleKeepOrphans ==
    ASSUME OrphanInv, NEW i \in Agents, People(i)
    PROVE  OrphanInv'
<1>1. UNCHANGED <<disk, user, work>>
  BY DEF People, Mint, Move, DeleteAgent
<1>2. /\ DOMAIN agent = Agents
      /\ \/ \E slug : agent' = [agent EXCEPT ![i] =
                    [preset |-> slug, persona |-> load(slug).lead,
                     orphaned |-> FALSE]]
         \/ \E x : agent[i] # None /\ agent' = [agent EXCEPT ![i].persona = x]
         \/ agent' = [agent EXCEPT ![i] = None]
  BY DEF People, Mint, Move, DeleteAgent, OrphanInv, Records
<1>3. Records'
  <2>1. DOMAIN agent' = Agents
        /\ \A j \in Agents \ {i} : agent'[j] = agent[j]
    BY <1>2
  <2>2. agent'[i] # None => IsRecord(agent'[i], user)
    <3>1. ASSUME NEW slug, NEW x,
                 agent'[i] = [preset |-> slug, persona |-> x,
                              orphaned |-> FALSE]
          PROVE  IsRecord(agent'[i], user)
      BY <3>1 DEF IsRecord, RecordFields
    <3>2. ASSUME NEW x, agent[i] # None,
                 agent' = [agent EXCEPT ![i].persona = x]
          PROVE  IsRecord(agent'[i], user)
      <4>1. IsRecord(agent[i], user)
        BY <3>2 DEF OrphanInv, Records
      <4> QED BY <1>2, <3>2, <4>1 DEF IsRecord, RecordFields
    <3> QED BY <1>2, <3>1, <3>2
  <2> QED BY <1>1, <2>1, <2>2 DEF OrphanInv, Records, IsRecord, Paths
<1> QED
  BY <1>1, <1>3
  DEF disk, OrphanInv, TreesAreTrees, Closed, Paths, SnapshotsHold,
      ListedRecords, IsRecord, Paths

LEMMA CrashKeepsOrphans ==
    ASSUME PackInv, OrphanInv, Crash
    PROVE  OrphanInv'
<1>1. /\ work' = [w \in Workers |-> Idle] /\ UNCHANGED <<user, agent>>
      /\ IF lock = None THEN UNCHANGED disk ELSE HalfDone(lock)
  BY DEF Crash, Cut
<1>2. TreesAreTrees'
  <2>1. tree' = tree \/ \A q \in Packs : tree'[q] \subseteq tree[q]
    BY <1>1, HalfDoneTrees DEF disk, PackInv, Shape
  <2> QED BY <2>1, TreesStay DEF OrphanInv
<1> QED
  BY <1>1, <1>2
  DEF Idle, OrphanInv, Closed, Paths, SnapshotsHold, ListedRecords, Records,
      IsRecord, Paths

LEMMA OrphanStep ==
    ASSUME ~SnapshotsMayBeTorn
    PROVE  PackInv /\ OrphanInv /\ [Next]_vars => OrphanInv'
<1> SUFFICES ASSUME PackInv, OrphanInv, [Next]_vars PROVE OrphanInv'
  OBVIOUS
<1>1. ASSUME NEW w \in Workers, Step(w) PROVE OrphanInv'
  BY <1>1, LockedKeepsOrphans, UpdateKeepsOrphans DEF Step
<1>2. ASSUME NEW i \in Agents, People(i) PROVE OrphanInv'
  BY <1>2, PeopleKeepOrphans
<1>3. CASE Crash
  BY <1>3, CrashKeepsOrphans
<1>4. CASE UNCHANGED vars
  BY <1>4
  DEF vars, disk, OrphanInv, TreesAreTrees, Closed, Paths, SnapshotsHold,
      ListedRecords, Records, IsRecord, Paths
<1> QED BY <1>1, <1>2, <1>3, <1>4 DEF Next

\* An agent whose preset was withdrawn keeps it, and every persona it names,
\* in the user's own layer, if updates read whole directories.
THEOREM OrphansGoOn == ASSUME ~SnapshotsMayBeTorn PROVE Spec => []OrphansStand
<1>1. OrphanInv => OrphansStand
  BY DEF OrphanInv, Records, IsRecord, Paths, Closed, OrphansStand
<1> QED BY <1>1, OrphanInit, OrphanStep, PacksInvariant, PTL DEF Spec
=============================================================================
