------------------------ MODULE FlowSchedules_proofs ------------------------
(***************************************************************************)
(* Proofs about FlowSchedules, for any ids, triggers, clock and bounds.    *)
(*                                                                         *)
(* That no occurrence runs twice and that none is caught up rest on the    *)
(* bookmark: while the daemon is up the one in memory, while it is down    *)
(* the one on disk, is the occurrence last run (Remembered), and none is   *)
(* older than its schedule (BornBefore).  A schedule whose bookmark is not *)
(* loaded, because its document was gone, is fired by nobody until it is   *)
(* armed anew.                                                             *)
(***************************************************************************)
EXTENDS FlowSchedules, WellFoundedInduction, TLAPS

DocFields == {"on", "trig", "born", "key"}

Shape ==
    /\ now \in Instants
    /\ DOMAIN docs = SchedIds /\ DOMAIN last = SchedIds
    /\ late \in [SchedIds -> Nat]
    /\ \A s \in SchedIds :
           /\ DOMAIN docs[s] = DocFields
           /\ docs[s].on \in BOOLEAN
           /\ docs[s].born \in Instants /\ docs[s].born <= now
           /\ Exists(s) => docs[s].trig \in Triggers
    /\ \A s \in DOMAIN book : book[s] \in Instants
    /\ \A s \in DOMAIN bookDisk : bookDisk[s] \in Instants
    /\ DOMAIN pass \subseteq SchedIds
    /\ \A s \in DOMAIN pass : pass[s] \in Triggers
    /\ up \in BOOLEAN /\ torn \in BOOLEAN

\* A process that is not up yet remembers nothing.
Down ==
    ~up => /\ DOMAIN book = {} /\ DOMAIN pass = {} /\ running = "none"
           /\ \A s \in SchedIds : late[s] = 0

\* Nothing is known of an id before it is drawn.
Fresh ==
    \A s \in Generated \ drawn :
        /\ s \notin DOMAIN book \cup DOMAIN bookDisk \cup DOMAIN pass
        /\ last[s] = NoFiring /\ ~Exists(s)

\* What the daemon remembers is on disk.
OnDisk ==
    \A s \in DOMAIN book : s \in DOMAIN bookDisk /\ bookDisk[s] = book[s]

\* A schedule that ran is bookmarked at the occurrence it ran, or is gone.
Remembered ==
    ~torn =>
        \A s \in SchedIds :
            last[s] # NoFiring =>
                \/ up /\ s \in DOMAIN book /\ book[s] = last[s].occ
                \/ ~up /\ s \in DOMAIN bookDisk /\ bookDisk[s] = last[s].occ
                \/ ~Exists(s) /\ s \notin DOMAIN pass

\* No bookmark is older than its schedule.
BornBefore ==
    \A s \in SchedIds :
        Exists(s) /\ s \notin reused /\ Unrepeated(docs[s].born) =>
            /\ s \in DOMAIN book => book[s] >= docs[s].born
            /\ s \in DOMAIN bookDisk => bookDisk[s] >= docs[s].born

\* A schedule that fired after it was switched off is in no pass.
LateIsOut ==
    \A s \in SchedIds :
        late[s] # 0 => late[s] = 1 /\ ~docs[s].on /\ s \notin DOMAIN pass

SchedInv ==
    /\ Shape /\ Down /\ Fresh /\ OnDisk
    /\ Remembered /\ BornBefore /\ NoBackfill /\ LateIsOut

(***************************************************************************)
(* Decisions.                                                              *)
(***************************************************************************)

LEMMA LeastExists ==
    ASSUME NEW S \in SUBSET Nat, S # {}
    PROVE  \E n \in S : \A m \in S : n <= m
<1> DEFINE less == OpToRel(<, Nat)
<1>1. PICK n \in S : \A m \in S : <<m, n>> \notin less
  <2>1. IsWellFoundedOn(less, Nat)
    BY NatLessThanWellFounded
  <2> QED BY <2>1, WFMin
<1>2. \A m, k \in Nat : m < k => <<m, k>> \in less
  BY DEF OpToRel
<1>3. ASSUME NEW m \in S
      PROVE  n <= m
  <2>1. m \in Nat /\ n \in Nat
    OBVIOUS
  <2>2. ~(m < n)
    BY <1>1, <1>2, <2>1
  <2> QED BY <2>1, <2>2
<1> QED BY <1>3

\* What a cron owes after t reads a later face than t does.
LEMMA AfterIsLater ==
    ASSUME NEW t \in Instants, NEW at, NEW o \in After(t, at)
    PROVE  o \in Instants /\ Face[o] > Face[t]
<1> DEFINE L == Later(t, at)
           S == {i \in L : \A j \in L : Face[i] <= Face[j]}
<1>1. L # {} /\ o = Min(S)
  BY DEF After
<1>2. L \subseteq Instants /\ \A i \in L : Face[i] \in Nat /\ Face[i] > Face[t]
  BY FaceIsAClock DEF Later, Instants
<1>3. S # {}
  <2> DEFINE F == {Face[i] : i \in L}
  <2>1. F \in SUBSET Nat /\ F # {}
    BY <1>1, <1>2
  <2> HIDE DEF F
  <2>2. PICK n \in F : \A m \in F : n <= m
    BY <2>1, LeastExists
  <2> QED BY <2>2 DEF F
<1>4. S \in SUBSET Nat
  BY <1>2, FaceIsAClock DEF Instants
<1> HIDE DEF S, L
<1>5. o \in S
  BY <1>1, <1>3, <1>4, LeastExists DEF Min
<1> QED BY <1>2, <1>5 DEF S

\* Without a bookmark nothing runs; with one, what runs comes after it.
LEMMA Decisions ==
    ASSUME Shape, NEW s \in DOMAIN pass, NEW d \in Decide(Mark(s), pass[s])
    PROVE  /\ d.occ \in Instants
           /\ s \notin DOMAIN book => d.run = FALSE /\ d.occ = now
           /\ s \in DOMAIN book =>
                 /\ d.run = TRUE
                 /\ pass[s].kind \in {"every", "cron"}
                 /\ pass[s].kind = "cron" => Face[d.occ] > Face[book[s]]
                 /\ pass[s].kind = "every" =>
                        d.occ = now /\ now >= book[s] + pass[s].n
<1>1. CASE s \notin DOMAIN book
  <2>1. Mark(s) = {}
    BY <1>1 DEF Mark
  <2>2. d = [occ |-> now, run |-> FALSE]
    BY <2>1 DEF Decide, Every, Cron, Seed
  <2> QED BY <1>1, <2>2 DEF Shape
<1>2. CASE s \in DOMAIN book
  <2>1. Mark(s) = {book[s]} /\ book[s] \in Instants
    BY <1>2 DEF Mark, Shape
  <2>2. CASE pass[s].kind = "every"
    <3>1. d \in Every({book[s]}, pass[s].n)
      BY <2>1, <2>2 DEF Decide
    <3>2. d = [occ |-> now, run |-> TRUE] /\ now >= book[s] + pass[s].n
      BY <3>1 DEF Every, Run
    <3> QED BY <1>2, <2>2, <3>2 DEF Shape
  <2>3. CASE pass[s].kind = "cron"
    <3>1. d \in Cron({book[s]}, pass[s].at)
      BY <2>1, <2>3 DEF Decide
    <3>2. PICK o \in After(book[s], pass[s].at) : d = [occ |-> o, run |-> TRUE]
      BY <3>1 DEF Cron, Run
    <3> QED BY <1>2, <2>1, <2>3, <3>2, AfterIsLater
  <2>4. pass[s].kind \in {"every", "cron"}
    BY DEF Decide
  <2> QED BY <2>2, <2>3, <2>4
<1> QED BY <1>1, <1>2

LEMMA SchedInit == Init => SchedInv
<1> SUFFICES ASSUME Init PROVE SchedInv
  OBVIOUS
<1>1. DOMAIN book = {} /\ DOMAIN bookDisk = {} /\ DOMAIN pass = {}
  BY DEF Init
<1>2. Shape
  <2>1. 0 \in Instants /\ now = 0
    BY FaceIsAClock DEF Init, Instants
  <2>2. \A s \in SchedIds : docs[s] = NoDoc
    BY DEF Init
  <2>3. DOMAIN NoDoc = DocFields /\ NoDoc.on = FALSE /\ NoDoc.born = 0
    BY DEF NoDoc, DocFields
  <2>4. DOMAIN docs = SchedIds /\ DOMAIN last = SchedIds
    BY DEF Init
  <2>5. late \in [SchedIds -> Nat] /\ up = FALSE /\ torn = FALSE
    BY DEF Init
  <2>6. 0 <= now
    BY <2>1
  <2>7. ASSUME NEW s \in SchedIds
        PROVE  /\ DOMAIN docs[s] = DocFields /\ docs[s].on \in BOOLEAN
               /\ docs[s].born \in Instants /\ docs[s].born <= now /\ ~Exists(s)
    <3>1. docs[s].on = FALSE /\ docs[s].born = 0 /\ DOMAIN docs[s] = DocFields
      BY <2>2, <2>3
    <3>2. ~Exists(s)
      BY <2>2 DEF Exists
    <3> QED BY <2>1, <2>6, <3>1, <3>2
  <2>8. up \in BOOLEAN /\ torn \in BOOLEAN /\ now \in Instants
    BY <2>1, <2>5
  <2> QED BY <1>1, <2>4, <2>5, <2>7, <2>8 DEF Shape
<1>3. Down /\ Fresh /\ OnDisk /\ Remembered
  BY <1>1 DEF Init, Down, Fresh, OnDisk, Remembered, Exists, SchedIds
<1>4. BornBefore /\ NoBackfill /\ LateIsOut
  BY DEF Init, BornBefore, NoBackfill, LateIsOut, Exists
<1> QED BY <1>2, <1>3, <1>4 DEF SchedInv

LEMMA DrawnIsFresh ==
    ASSUME NEW s \in Drawn
    PROVE  s \in Generated \ drawn
BY DEF Drawn

LEMMA NoDocIsOff == NoDoc.on = FALSE
BY DEF NoDoc

(***************************************************************************)
(* Each action keeps SchedInv.                                             *)
(***************************************************************************)

LEMMA MigrateKeeps ==
    ASSUME SchedInv, NEW k \in Keys, NEW s \in Generated, MigrateKey(k, s)
    PROVE  SchedInv'
<1> USE DEF SchedInv
<1>1. s \in Generated \ drawn /\ s \in SchedIds
  BY DrawnIsFresh DEF MigrateKey, SchedIds
<1>2. PICK trig \in Triggers, on \in BOOLEAN :
        docs' = [docs EXCEPT ![s] = [on |-> on, trig |-> trig, born |-> now, key |-> k]]
  BY DEF MigrateKey
<1>3. /\ DOMAIN docs' = SchedIds
      /\ docs'[s] = [on |-> on, trig |-> trig, born |-> now, key |-> k]
      /\ \A x \in SchedIds \ {s} : docs'[x] = docs[x]
  BY <1>1, <1>2 DEF Shape
<1>4. /\ UNCHANGED <<now, legacy, up, book, bookDisk, pass, running, last, late, reused, torn>>
      /\ drawn' = drawn \cup {s} /\ ~up
  BY DEF MigrateKey, daemon
<1>5. last[s] = NoFiring /\ s \notin DOMAIN book \cup DOMAIN bookDisk \cup DOMAIN pass
  BY <1>1 DEF Fresh
<1>6. Shape'
  <2>1. DOMAIN docs'[s] = DocFields /\ docs'[s].on = on /\ docs'[s].born = now /\ docs'[s].trig = trig
    BY <1>3 DEF DocFields
  <2>2. ASSUME NEW x \in SchedIds
        PROVE  /\ DOMAIN docs'[x] = DocFields /\ docs'[x].on \in BOOLEAN
               /\ docs'[x].born \in Instants /\ docs'[x].born <= now
               /\ docs'[x] # NoDoc => docs'[x].trig \in Triggers
    <3>1. now \in Nat /\ now \in Instants /\ now <= now
      BY FaceIsAClock DEF Shape, Instants
    <3>2. CASE x = s
      BY <2>1, <3>1, <3>2
    <3>3. CASE x # s
      BY <1>3, <3>3 DEF Shape, Exists
    <3> QED BY <3>2, <3>3
  <2> QED BY <1>1, <1>3, <1>4, <2>2 DEF Shape, Exists
<1>7. Down' /\ OnDisk'
  BY <1>4 DEF Down, OnDisk
<1>8. Fresh'
  BY <1>3, <1>4 DEF Fresh, Exists, SchedIds
<1>9. Remembered'
  BY <1>3, <1>4, <1>5 DEF Remembered, Exists
<1>10. BornBefore'
  BY <1>3, <1>4, <1>5 DEF BornBefore, Exists
<1>11. NoBackfill'
  BY <1>3, <1>4, <1>5 DEF NoBackfill, Opened, Exists
<1>12. LateIsOut'
  BY <1>4 DEF LateIsOut, Down
<1> QED BY <1>6, <1>7, <1>8, <1>9, <1>10, <1>11, <1>12

LEMMA RewriteKeeps == ASSUME SchedInv, RewriteFlow PROVE SchedInv'
BY DEF RewriteFlow, daemon, requests, SchedInv, Shape, Down, Fresh, OnDisk, Remembered,
       BornBefore, NoBackfill, Opened, LateIsOut, Exists

LEMMA StartKeeps == ASSUME SchedInv, StartDaemon PROVE SchedInv'
<1> USE DEF SchedInv
<1>1. /\ UNCHANGED <<now, docs, drawn, bookDisk, pass, running, last, late, reused, torn>>
      /\ ~up /\ up' = TRUE
  BY DEF StartDaemon, requests
<1>2. /\ DOMAIN book' = {s \in DOMAIN bookDisk : Exists(s)}
      /\ \A s \in DOMAIN book' : book'[s] = bookDisk[s]
  BY DEF StartDaemon, Loaded, Restrict
<1>3. Shape' /\ Down' /\ OnDisk'
  BY <1>1, <1>2 DEF Shape, Down, OnDisk, Exists
<1>4. Fresh'
  BY <1>1, <1>2 DEF Fresh, Exists
<1>5. Remembered'
  BY <1>1, <1>2 DEF Remembered, Down, Exists
<1>6. BornBefore'
  BY <1>1, <1>2 DEF BornBefore, Exists
<1>7. NoBackfill' /\ LateIsOut'
  BY <1>1, <1>2 DEF NoBackfill, Opened, LateIsOut, Exists
<1> QED BY <1>3, <1>4, <1>5, <1>6, <1>7

LEMMA ArmKeeps == ASSUME SchedInv, NEW s \in SchedIds, Arm(s) PROVE SchedInv'
<1> USE DEF SchedInv
<1>1. s \in Drawn \/ (s \in Slugs /\ s \notin Generated)
  BY IdsAreApart DEF Arm
<1>2. PICK trig \in Triggers, on \in BOOLEAN :
        docs' = [docs EXCEPT ![s] = [on |-> on, trig |-> trig, born |-> now, key |-> "none"]]
  BY DEF Arm
<1>3. /\ DOMAIN docs' = SchedIds
      /\ docs'[s] = [on |-> on, trig |-> trig, born |-> now, key |-> "none"]
      /\ \A x \in SchedIds \ {s} : docs'[x] = docs[x]
  BY <1>2 DEF Shape
<1>4. /\ UNCHANGED <<now, up, book, bookDisk, pass, running, torn>>
      /\ drawn' = drawn \cup ({s} \cap Generated) /\ up
  BY DEF Arm, startup, Serve
<1>5. /\ DOMAIN last' = SchedIds /\ last'[s] = NoFiring
      /\ \A x \in SchedIds \ {s} : last'[x] = last[x]
      /\ late' \in [SchedIds -> Nat] /\ late'[s] = 0
      /\ \A x \in SchedIds \ {s} : late'[x] = late[x]
  BY DEF Arm, Shape
<1>6. /\ \A x \in SchedIds \ {s} : x \in reused' <=> x \in reused
      /\ s \notin reused' => s \notin DOMAIN book \cup DOMAIN bookDisk
  BY DEF Arm
<1>7. Shape'
  <2>1. DOMAIN docs'[s] = DocFields /\ docs'[s].on = on /\ docs'[s].born = now /\ docs'[s].trig = trig
    BY <1>3 DEF DocFields
  <2>2. ASSUME NEW x \in SchedIds
        PROVE  /\ DOMAIN docs'[x] = DocFields /\ docs'[x].on \in BOOLEAN
               /\ docs'[x].born \in Instants /\ docs'[x].born <= now
               /\ docs'[x] # NoDoc => docs'[x].trig \in Triggers
    <3>1. now \in Nat /\ now \in Instants /\ now <= now
      BY FaceIsAClock DEF Shape, Instants
    <3>2. CASE x = s
      BY <2>1, <3>1, <3>2
    <3>3. CASE x # s
      BY <1>3, <3>3 DEF Shape, Exists
    <3> QED BY <3>2, <3>3
  <2> QED BY <1>3, <1>4, <1>5, <2>2 DEF Shape, Exists
<1>8. Down' /\ OnDisk'
  BY <1>4 DEF Down, OnDisk
<1>9. Fresh'
  <2> SUFFICES ASSUME NEW x \in Generated \ drawn'
               PROVE  /\ x \notin DOMAIN book \cup DOMAIN bookDisk \cup DOMAIN pass
                      /\ last'[x] = NoFiring /\ docs'[x] = NoDoc
    BY <1>4 DEF Fresh, Exists
  <2>1. x # s /\ x \in Generated \ drawn /\ x \in SchedIds
    BY <1>1, <1>4, DrawnIsFresh DEF SchedIds
  <2> QED BY <1>3, <1>5, <2>1 DEF Fresh, Exists
<1>10. Remembered'
  BY <1>3, <1>4, <1>5 DEF Remembered, Exists
<1>11. BornBefore'
  BY <1>3, <1>4, <1>6 DEF BornBefore, Exists
<1>12. NoBackfill'
  BY <1>3, <1>4, <1>5, <1>6 DEF NoBackfill, Opened, Exists
<1>13. LateIsOut'
  BY <1>3, <1>4, <1>5 DEF LateIsOut
<1> QED BY <1>7, <1>8, <1>9, <1>10, <1>11, <1>12, <1>13

LEMMA EditKeeps == ASSUME SchedInv, NEW s \in SchedIds, Edit(s) PROVE SchedInv'
<1> USE DEF SchedInv
<1>1. PICK trig \in Triggers, on \in BOOLEAN :
        /\ docs' = [docs EXCEPT ![s].trig = trig, ![s].on = on]
        /\ late' = IF on THEN [late EXCEPT ![s] = 0] ELSE late
  BY DEF Edit
<1>2. /\ DOMAIN docs' = SchedIds
      /\ DOMAIN docs'[s] = DocFields
      /\ docs'[s].on = on /\ docs'[s].trig = trig /\ docs'[s].born = docs[s].born
      /\ \A x \in SchedIds \ {s} : docs'[x] = docs[x]
  BY <1>1 DEF Shape, DocFields
<1>3. /\ UNCHANGED <<now, up, book, bookDisk, pass, running, torn, last, drawn, reused>>
      /\ up /\ Exists(s)
  BY DEF Edit, startup, Serve
<1>4. /\ late' \in [SchedIds -> Nat]
      /\ on => late'[s] = 0
      /\ ~on => late'[s] = late[s]
      /\ \A x \in SchedIds \ {s} : late'[x] = late[x]
  BY <1>1 DEF Shape
<1>5. Shape'
  BY <1>2, <1>3, <1>4 DEF Shape, Exists
<1>6. Down' /\ OnDisk'
  BY <1>3 DEF Down, OnDisk
<1>7. Fresh'
  BY <1>2, <1>3 DEF Fresh, Exists, SchedIds
<1>8. Remembered'
  BY <1>2, <1>3 DEF Remembered, Exists
<1>9. BornBefore'
  BY <1>2, <1>3 DEF BornBefore, Exists
<1>10. NoBackfill'
  BY <1>2, <1>3 DEF NoBackfill, Opened, Exists
<1>11. LateIsOut'
  BY <1>2, <1>3, <1>4 DEF LateIsOut
<1> QED BY <1>5, <1>6, <1>7, <1>8, <1>9, <1>10, <1>11

LEMMA RemoveKeeps == ASSUME SchedInv, NEW ss \in SUBSET SchedIds, Remove(ss) PROVE SchedInv'
<1> USE DEF SchedInv
<1>1. /\ DOMAIN docs' = SchedIds
      /\ \A s \in ss : docs'[s] = NoDoc
      /\ \A s \in SchedIds \ ss : docs'[s] = docs[s]
  BY DEF Remove
<1>2. /\ UNCHANGED <<now, up, book, bookDisk, pass, running, torn, last, late, drawn, reused>>
      /\ up
  BY DEF Remove, startup, daemon, Serve
<1>3. Shape'
  <2>1. /\ DOMAIN NoDoc = DocFields /\ NoDoc.on = FALSE
        /\ NoDoc.born = 0 /\ 0 \in Instants /\ 0 <= now
    BY FaceIsAClock DEF NoDoc, DocFields, Instants, Shape
  <2> QED BY <1>1, <1>2, <2>1 DEF Shape, Exists
<1>4. Down' /\ OnDisk'
  BY <1>2 DEF Down, OnDisk
<1>5. Fresh'
  BY <1>1, <1>2 DEF Fresh, Exists, SchedIds
<1>6. Remembered'
  BY <1>1, <1>2 DEF Remembered, Exists
<1>7. BornBefore'
  BY <1>1, <1>2 DEF BornBefore, Exists
<1>8. NoBackfill'
  BY <1>1, <1>2 DEF NoBackfill, Opened, Exists
<1>9. LateIsOut'
  BY <1>1, <1>2, NoDocIsOff DEF LateIsOut
<1> QED BY <1>3, <1>4, <1>5, <1>6, <1>7, <1>8, <1>9

LEMMA PassKeeps == ASSUME SchedInv, StartPass PROVE SchedInv'
<1> USE DEF SchedInv
<1>1. /\ UNCHANGED <<now, docs, drawn, book, bookDisk, running, last, late, reused, torn, up>>
      /\ up
  BY DEF StartPass, requests, startup
<1>2. \A s \in DOMAIN pass' :
        s \in SchedIds /\ docs[s].on /\ Exists(s) /\ pass'[s] = docs[s].trig
  BY NoDocIsOff DEF StartPass, Candidates, Exists
<1>3. Shape'
  BY <1>1, <1>2 DEF Shape, Exists
<1>4. Down' /\ OnDisk' /\ Fresh'
  BY <1>1, <1>2 DEF Down, OnDisk, Fresh, Exists
<1>5. Remembered'
  BY <1>1, <1>2 DEF Remembered, Exists
<1>6. BornBefore' /\ NoBackfill'
  BY <1>1 DEF BornBefore, NoBackfill, Opened, Exists
<1>7. LateIsOut'
  BY <1>1, <1>2 DEF LateIsOut
<1> QED BY <1>3, <1>4, <1>5, <1>6, <1>7

LEMMA SkipKeeps == ASSUME SchedInv, NEW s \in SchedIds, Skip(s) PROVE SchedInv'
<1> USE DEF SchedInv
<1>1. UNCHANGED <<now, docs, drawn, book, bookDisk, running, last, late, reused, torn, up>>
  BY DEF Skip, requests, startup
<1>2. DOMAIN pass' \subseteq DOMAIN pass /\ \A x \in DOMAIN pass' : pass'[x] = pass[x]
  BY DEF Skip, Without, Restrict
<1>3. Shape'
  BY <1>1, <1>2 DEF Shape, Exists
<1>4. Down' /\ OnDisk' /\ Fresh'
  BY <1>1, <1>2 DEF Down, OnDisk, Fresh, Exists
<1>5. Remembered'
  BY <1>1, <1>2 DEF Remembered, Exists
<1>6. BornBefore' /\ NoBackfill'
  BY <1>1 DEF BornBefore, NoBackfill, Opened, Exists
<1>7. LateIsOut'
  BY <1>1, <1>2 DEF LateIsOut
<1> QED BY <1>3, <1>4, <1>5, <1>6, <1>7

\* What considering a schedule does to the bookmarks and the firings.
LEMMA Considered ==
    ASSUME SchedInv, NEW s \in SchedIds, Consider(s)
    PROVE  \E d \in Decide(Mark(s), pass[s]) :
              /\ DOMAIN book' = DOMAIN book \cup {s} /\ book'[s] = d.occ
              /\ \A x \in DOMAIN book \ {s} : book'[x] = book[x]
              /\ bookDisk' = book'
              /\ d.run => last'[s].occ = d.occ /\ last'[s].trig = pass[s]
              /\ ~d.run => last' = last /\ late' = late
              /\ d.run /\ ~docs[s].on => late'[s] = late[s] + 1
              /\ docs[s].on => late' = late
              /\ DOMAIN last' = SchedIds /\ late' \in [SchedIds -> Nat]
              /\ \A x \in SchedIds \ {s} : last'[x] = last[x] /\ late'[x] = late[x]
<1>1. PICK d \in Decide(Mark(s), pass[s]) :
        /\ book' = With(book, s, d.occ)
        /\ bookDisk' = Saved(book', d)
        /\ running' = IF d.run THEN s ELSE "none"
        /\ last' = IF d.run THEN [last EXCEPT ![s] = [occ |-> d.occ, trig |-> pass[s], no |-> @.no + 1]]
                   ELSE last
        /\ late' = IF d.run /\ ~docs[s].on THEN [late EXCEPT ![s] = @ + 1] ELSE late
  BY DEF Consider
<1>2. /\ DOMAIN book' = DOMAIN book \cup {s} /\ book'[s] = d.occ
      /\ \A x \in DOMAIN book \ {s} : book'[x] = book[x]
      /\ bookDisk' = book'
  BY <1>1 DEF With, Saved
<1>3. /\ d.run => last'[s].occ = d.occ /\ last'[s].trig = pass[s]
      /\ ~d.run => last' = last
      /\ DOMAIN last' = SchedIds
      /\ \A x \in SchedIds \ {s} : last'[x] = last[x]
  BY <1>1 DEF SchedInv, Shape
<1>4. /\ ~d.run => late' = late
      /\ d.run /\ ~docs[s].on => late'[s] = late[s] + 1
      /\ docs[s].on => late' = late
      /\ late' \in [SchedIds -> Nat]
      /\ \A x \in SchedIds \ {s} : late'[x] = late[x]
  BY <1>1 DEF SchedInv, Shape
<1> QED BY <1>2, <1>3, <1>4

LEMMA ConsiderKeeps ==
    ASSUME SchedInv, NEW s \in SchedIds, Consider(s)
    PROVE  SchedInv'
<1> USE DEF SchedInv
<1>1. PICK d \in Decide(Mark(s), pass[s]) :
        /\ DOMAIN book' = DOMAIN book \cup {s} /\ book'[s] = d.occ
        /\ \A x \in DOMAIN book \ {s} : book'[x] = book[x]
        /\ bookDisk' = book'
        /\ d.run => last'[s].occ = d.occ /\ last'[s].trig = pass[s]
        /\ ~d.run => last' = last /\ late' = late
        /\ d.run /\ ~docs[s].on => late'[s] = late[s] + 1
        /\ docs[s].on => late' = late
        /\ DOMAIN last' = SchedIds /\ late' \in [SchedIds -> Nat]
        /\ \A x \in SchedIds \ {s} : last'[x] = last[x] /\ late'[x] = late[x]
  BY Considered
<1>2. /\ UNCHANGED <<now, docs, drawn, reused, torn, up>>
      /\ s \in DOMAIN pass
      /\ DOMAIN pass' = DOMAIN pass \ {s}
      /\ \A x \in DOMAIN pass' : pass'[x] = pass[x]
  BY DEF Consider, requests, startup, Without, Restrict
<1>3. up
  BY <1>2 DEF Down
<1>4. /\ d.occ \in Instants
      /\ s \notin DOMAIN book => d.run = FALSE /\ d.occ = now
      /\ s \in DOMAIN book =>
            /\ d.run = TRUE
            /\ pass[s].kind \in {"every", "cron"}
            /\ pass[s].kind = "cron" => Face[d.occ] > Face[book[s]]
            /\ pass[s].kind = "every" =>
                   d.occ = now /\ now >= book[s] + pass[s].n
  BY <1>2, Decisions
<1>5. Shape'
  BY <1>1, <1>2, <1>4 DEF Shape, Exists
<1>6. Down' /\ OnDisk' /\ Fresh'
  <2>1. Fresh'
    <3>1. s \notin Generated \ drawn
      BY <1>2 DEF Fresh
    <3> QED BY <1>1, <1>2, <3>1 DEF Fresh, Exists, SchedIds
  <2> QED BY <1>1, <1>2, <1>3, <2>1 DEF Down, OnDisk
<1>7. Remembered'
  <2> SUFFICES ASSUME ~torn, NEW x \in SchedIds, last'[x] # NoFiring
               PROVE  \/ x \in DOMAIN book' /\ book'[x] = last'[x].occ
                      \/ ~Exists(x) /\ x \notin DOMAIN pass'
    BY <1>2, <1>3 DEF Remembered, Exists
  <2>1. CASE x # s
    BY <1>1, <1>2, <1>3, <2>1 DEF Remembered
  <2>2. CASE x = s /\ s \in DOMAIN book
    BY <1>1, <1>4, <2>2
  <2>3. CASE x = s /\ s \notin DOMAIN book
    BY <1>1, <1>2, <1>3, <1>4, <2>3 DEF Remembered
  <2> QED BY <2>1, <2>2, <2>3
<1>8. ASSUME Exists(s), s \notin reused, Unrepeated(docs[s].born)
      PROVE  /\ d.occ >= docs[s].born
             /\ d.run /\ pass[s].kind = "cron" => Face[d.occ] > Face[docs[s].born]
             /\ d.run /\ pass[s].kind = "every" => d.occ >= docs[s].born + pass[s].n
  <2> DEFINE born == docs[s].born
  <2>1. born \in Instants /\ born <= now /\ born \in Nat /\ now \in Nat
    BY FaceIsAClock DEF Shape, Instants
  <2>2. CASE s \notin DOMAIN book
    BY <1>4, <2>1, <2>2
  <2>3. CASE s \in DOMAIN book
    <3>1. book[s] >= born /\ book[s] \in Instants /\ book[s] \in Nat /\ d.occ \in Nat
      BY <1>4, <1>8, <2>3, FaceIsAClock DEF BornBefore, Shape, Instants
    <3>2. CASE pass[s].kind = "cron"
      <4>1. Face[book[s]] \in Nat /\ Face[born] \in Nat /\ Face[d.occ] \in Nat
        BY <1>4, <2>1, <3>1, FaceIsAClock DEF Instants
      <4>2. Face[book[s]] >= Face[born]
        <5>1. CASE book[s] = born
          BY <4>1, <5>1
        <5>2. CASE book[s] > born
          BY <1>8, <3>1, <4>1, <5>2 DEF Unrepeated
        <5> QED BY <2>1, <3>1, <5>1, <5>2
      <4>3. Face[d.occ] > Face[born]
        BY <1>4, <2>3, <3>2, <4>1, <4>2
      <4>4. d.occ > born
        BY <1>4, <1>8, <4>3 DEF Unrepeated
      <4> QED BY <2>1, <3>1, <3>2, <4>3, <4>4
    <3>3. CASE pass[s].kind = "every"
      <4>1. pass[s].n \in Nat
        BY <1>2, <3>3, IntervalsAreNat DEF Shape
      <4>2. d.occ = now /\ now >= book[s] + pass[s].n
        BY <1>4, <2>3, <3>3
      <4>3. d.occ >= born /\ d.occ >= born + pass[s].n
        BY <2>1, <3>1, <4>1, <4>2
      <4> QED BY <3>3, <4>3
    <3> QED BY <1>4, <2>3, <3>2, <3>3
  <2> QED BY <2>2, <2>3
<1>9. BornBefore'
  <2> SUFFICES ASSUME NEW x \in SchedIds, Exists(x), x \notin reused,
                      Unrepeated(docs[x].born), x \in DOMAIN book'
               PROVE  book'[x] >= docs[x].born
    BY <1>1, <1>2 DEF BornBefore, Exists
  <2>1. CASE x = s
    BY <1>1, <1>8, <2>1
  <2>2. CASE x # s
    BY <1>1, <2>2 DEF BornBefore
  <2> QED BY <2>1, <2>2
<1>10. NoBackfill'
  <2> SUFFICES ASSUME NEW x \in SchedIds, Exists(x), x \notin reused,
                      Unrepeated(docs[x].born), last'[x] # NoFiring
               PROVE  /\ last'[x].trig.kind = "cron" => Face[last'[x].occ] > Face[docs[x].born]
                      /\ last'[x].trig.kind = "every" =>
                            last'[x].occ >= docs[x].born + last'[x].trig.n
    BY <1>2 DEF NoBackfill, Opened, Exists
  <2>1. CASE x # s \/ ~d.run
    BY <1>1, <2>1 DEF NoBackfill, Opened
  <2>2. CASE x = s /\ d.run
    BY <1>1, <1>8, <2>2
  <2> QED BY <2>1, <2>2
<1>11. LateIsOut'
  <2> SUFFICES ASSUME NEW x \in SchedIds, late'[x] # 0
               PROVE  late'[x] = 1 /\ ~docs[x].on /\ x \notin DOMAIN pass'
    BY <1>2 DEF LateIsOut
  <2>1. CASE x # s
    BY <1>1, <1>2, <2>1 DEF LateIsOut
  <2>2. CASE x = s
    <3>1. late[s] = 0
      BY <1>2 DEF LateIsOut
    <3>2. d.run /\ ~docs[s].on
      BY <1>1, <1>4, <2>2, <3>1
    <3> QED BY <1>1, <1>2, <2>2, <3>1, <3>2
  <2> QED BY <2>1, <2>2
<1> QED BY <1>5, <1>6, <1>7, <1>9, <1>10, <1>11

LEMMA RunEndsKeeps == ASSUME SchedInv, RunEnds PROVE SchedInv'
<1> USE DEF SchedInv
<1>1. UNCHANGED <<now, docs, drawn, book, bookDisk, pass, last, late, reused, torn, up>>
  BY DEF RunEnds, requests, startup
<1>2. running' = "none"
  BY DEF RunEnds
<1>3. Shape' /\ Down' /\ OnDisk' /\ Fresh'
  BY <1>1, <1>2 DEF Shape, Down, OnDisk, Fresh, Exists
<1>4. Remembered' /\ BornBefore' /\ NoBackfill' /\ LateIsOut'
  BY <1>1 DEF Remembered, BornBefore, NoBackfill, Opened, LateIsOut, Exists
<1> QED BY <1>3, <1>4

LEMMA TickKeeps == ASSUME SchedInv, Tick PROVE SchedInv'
<1> USE DEF SchedInv
<1>1. /\ UNCHANGED <<docs, drawn, book, bookDisk, pass, running, last, late, reused, torn, up>>
      /\ now' = now + 1 /\ now + 1 \in Instants
  BY DEF Tick, requests, startup, daemon
<1>2. Shape'
  <2>1. now \in Nat /\ \A s \in SchedIds : docs[s].born \in Nat
    BY FaceIsAClock DEF Shape, Instants
  <2>2. \A s \in SchedIds : docs[s].born <= now + 1
    BY <2>1 DEF Shape
  <2> QED BY <1>1, <2>2 DEF Shape, Exists
<1>3. Down' /\ OnDisk' /\ Fresh'
  BY <1>1 DEF Down, OnDisk, Fresh, Exists
<1>4. Remembered' /\ BornBefore' /\ NoBackfill' /\ LateIsOut'
  BY <1>1 DEF Remembered, BornBefore, NoBackfill, Opened, LateIsOut, Exists
<1> QED BY <1>2, <1>3, <1>4

LEMMA CrashKeeps == ASSUME SchedInv, Crash PROVE SchedInv'
<1> USE DEF SchedInv
<1>1. /\ UNCHANGED <<now, docs, drawn, last, reused>>
      /\ up' = FALSE /\ running' = "none"
      /\ DOMAIN book' = {} /\ DOMAIN pass' = {}
      /\ late' = [s \in SchedIds |-> 0]
  BY DEF Crash
<1>2. \/ UNCHANGED <<bookDisk, torn>>
      \/ DOMAIN bookDisk' = {} /\ torn' = TRUE
  BY DEF Crash
<1>3. Shape'
  <2>1. late' \in [SchedIds -> Nat]
    BY <1>1
  <2> QED BY <1>1, <1>2, <2>1 DEF Shape, Exists
<1>4. Down' /\ OnDisk' /\ Fresh'
  BY <1>1, <1>2 DEF Down, OnDisk, Fresh, Exists
<1>5. Remembered'
  BY <1>1, <1>2 DEF Remembered, OnDisk, Exists
<1>6. BornBefore'
  BY <1>1, <1>2 DEF BornBefore, Exists
<1>7. NoBackfill' /\ LateIsOut'
  BY <1>1 DEF NoBackfill, Opened, LateIsOut, Exists
<1> QED BY <1>3, <1>4, <1>5, <1>6, <1>7

LEMMA SchedStep == SchedInv /\ [Next]_vars => SchedInv'
<1> SUFFICES ASSUME SchedInv, [Next]_vars
             PROVE  SchedInv'
  OBVIOUS
<1>1. CASE Startup
  BY <1>1, MigrateKeeps, RewriteKeeps, StartKeeps DEF Startup
<1>2. CASE \E s \in SchedIds : Arm(s) \/ Edit(s)
  BY <1>2, ArmKeeps, EditKeeps
<1>3. CASE Disarm \/ DeleteFlow
  <2>1. PICK ss \in SUBSET SchedIds : Remove(ss)
    BY <1>3 DEF Disarm, DeleteFlow
  <2> QED BY <2>1, RemoveKeeps
<1>4. CASE DaemonStep
  BY <1>4, PassKeeps, SkipKeeps, ConsiderKeeps, RunEndsKeeps DEF DaemonStep
<1>5. CASE Tick \/ Crash
  BY <1>5, TickKeeps, CrashKeeps
<1>6. CASE UNCHANGED vars
  BY <1>6 DEF vars, SchedInv, Shape, Down, Fresh, OnDisk, Remembered, BornBefore,
              NoBackfill, Opened, LateIsOut, Exists
<1> QED BY <1>1, <1>2, <1>3, <1>4, <1>5, <1>6 DEF Next

LEMMA SchedAlways == Spec => []SchedInv
<1> QED BY SchedInit, SchedStep, PTL DEF Spec

(***************************************************************************)
(* The results.                                                            *)
(***************************************************************************)

\* No schedule opens by catching up on what was due before it existed
\* (schedule_timing.rs decide_cron: a first sighting sets a bookmark only).
THEOREM NothingIsBackfilled == Spec => []NoBackfill
<1>1. SchedInv => NoBackfill
  BY DEF SchedInv
<1> QED BY <1>1, SchedAlways, PTL

\* A schedule paused or removed under a pass fires once more at most
\* (daemon.rs reads the candidates once a pass).
THEOREM OneLateFiring == Spec => []AtMostOneLateFiring
<1>1. SchedInv => AtMostOneLateFiring
  <2> SUFFICES ASSUME SchedInv, NEW s \in SchedIds PROVE late[s] <= 1
    BY DEF AtMostOneLateFiring
  <2>1. late[s] = 0 \/ late[s] = 1
    BY DEF SchedInv, LateIsOut
  <2> QED BY <2>1
<1> QED BY <1>1, SchedAlways, PTL

\* A firing follows the one before it by a later face or a full interval.
LEMMA FiringsFollow ==
    ASSUME SchedInv, [Next]_vars, ~torn, NEW s \in SchedIds,
           last[s] # NoFiring, last'[s] \notin {last[s], NoFiring}
    PROVE  Follows(last[s], last'[s])
<1>1. Consider(s)
  <2>1. ASSUME NEW x \in SchedIds, Arm(x) PROVE last'[s] \in {last[s], NoFiring}
    BY <2>1 DEF Arm, SchedInv, Shape
  <2>2. ASSUME NEW x \in SchedIds, Consider(x), x # s PROVE last'[s] = last[s]
    BY <2>2, Considered
  <2>3. CASE last' = last
    BY <2>3
  <2>4. last' = last \/ (\E x \in SchedIds : Arm(x) \/ Consider(x))
    BY DEF Next, Startup, MigrateKey, RewriteFlow, StartDaemon, Edit, Disarm, DeleteFlow,
           Remove, DaemonStep, StartPass, Skip, RunEnds, Tick, Crash, daemon, vars
  <2> QED BY <2>1, <2>2, <2>3, <2>4
<1>2. PICK d \in Decide(Mark(s), pass[s]) :
        /\ d.run => last'[s].occ = d.occ /\ last'[s].trig = pass[s]
        /\ ~d.run => last' = last
  BY <1>1, Considered
<1>3. d.run /\ s \in DOMAIN pass
  BY <1>1, <1>2 DEF Consider
<1>4. /\ d.occ \in Instants
      /\ s \in DOMAIN book
      /\ pass[s].kind = "cron" => Face[d.occ] > Face[book[s]]
      /\ pass[s].kind = "every" => d.occ = now /\ now >= book[s] + pass[s].n
  BY <1>3, Decisions DEF SchedInv
<1>5. book[s] = last[s].occ
  BY <1>3 DEF SchedInv, Remembered, Down
<1> QED BY <1>2, <1>3, <1>4, <1>5 DEF Follows

\* No occurrence runs twice, whatever crashes come between deciding and
\* running it (daemon.rs writes the bookmark before the flow runs).
THEOREM NoOccurrenceTwice == Spec => NeverTwice
<1>1. SchedInv /\ [Next]_vars =>
        [\A s \in SchedIds :
            last[s] # NoFiring /\ last'[s] \notin {last[s], NoFiring} /\ ~torn
                => Follows(last[s], last'[s])]_vars
  BY FiringsFollow
<1> QED BY <1>1, SchedAlways, PTL DEF Spec, NeverTwice
=============================================================================
