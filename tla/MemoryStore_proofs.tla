-------------------------- MODULE MemoryStore_proofs --------------------------
(***************************************************************************)
(* What the memory of an agent promises, for any ids, contents, turns and  *)
(* bounds.                                                                 *)
(*                                                                         *)
(* First, why a log may be folded into a snapshot at any moment: what the  *)
(* files say is the same before the snapshot is written, between the       *)
(* snapshot and the truncation, which is where a crash leaves both, and    *)
(* after it.  Then, that replaying a log line by line gives the last word  *)
(* on each memory.  Then, that the store is well formed (StoreInv), and,   *)
(* while nobody takes the files from under it (Quiet), that index, log and *)
(* snapshot agree, that nothing acknowledged is lost, and that the store   *)
(* implements MemoryContract (MemInv).                                     *)
(***************************************************************************)
EXTENDS MemoryStore, SequenceTheorems, WellFoundedInduction, FiniteSetTheorems, TLAPS

Overwritten(w, id) == {i \in DOMAIN w : w[i].op \in {"put", "purge"} /\ w[i].id = id}

\* The last line of the log that says what is under an id, 0 if none does.
LastWrite(w, id) ==
    IF Overwritten(w, id) = {} THEN 0
    ELSE CHOOSE i \in Overwritten(w, id) : \A j \in Overwritten(w, id) : j <= i

Base(s, w, id) == IF LastWrite(w, id) = 0 THEN s[id] ELSE w[LastWrite(w, id)].mem

ArchivedLater(w, id) == \E j \in DOMAIN w : j > LastWrite(w, id) /\ w[j] = Archive(id)

\* What is on record under one id, in those terms.
LEMMA RecoveredIs ==
    ASSUME NEW s, NEW w, NEW id \in Ids
    PROVE  Recovered(s, w)[id] =
             IF Base(s, w, id) # None /\ ArchivedLater(w, id)
             THEN [Base(s, w, id) EXCEPT !.state = "archived"]
             ELSE Base(s, w, id)
  BY Zenon DEF Recovered, Base, ArchivedLater, LastWrite, Overwritten

\* A snapshot and an empty log say what the snapshot says.
THEOREM TruncatedLogSaysTheSame ==
    ASSUME NEW s \in Memories
    PROVE  Recovered(s, <<>>) = s
<1> SUFFICES ASSUME NEW id \in Ids PROVE Recovered(s, <<>>)[id] = s[id]
  BY DEF Recovered, Memories
<1>1. Overwritten(<<>>, id) = {}
  BY DEF Overwritten
<1>2. LastWrite(<<>>, id) = 0
  BY <1>1 DEF LastWrite
<1>3. ~ArchivedLater(<<>>, id)
  BY DEF ArchivedLater
<1>. QED
  BY <1>2, <1>3, RecoveredIs DEF Base

\* A log replayed over a snapshot it was already folded into changes nothing.
THEOREM FoldingTwiceIsFoldingOnce ==
    ASSUME NEW s \in Memories, NEW w
    PROVE  Recovered(Recovered(s, w), w) = Recovered(s, w)
<1> DEFINE r == Recovered(s, w)
<1> SUFFICES ASSUME NEW id \in Ids PROVE Recovered(r, w)[id] = r[id]
  BY DEF Recovered
<1>1. CASE LastWrite(w, id) # 0
  <2>1. Base(r, w, id) = Base(s, w, id)
    BY <1>1 DEF Base
  <2>2. r[id] = IF Base(s, w, id) # None /\ ArchivedLater(w, id)
                THEN [Base(s, w, id) EXCEPT !.state = "archived"]
                ELSE Base(s, w, id)
    BY RecoveredIs
  <2>3. Recovered(r, w)[id] =
          IF Base(r, w, id) # None /\ ArchivedLater(w, id)
          THEN [Base(r, w, id) EXCEPT !.state = "archived"]
          ELSE Base(r, w, id)
    BY RecoveredIs
  <2>. HIDE DEF r
  <2>. QED
    BY <2>1, <2>2, <2>3
<1>2. CASE LastWrite(w, id) = 0
  <2>1. Base(r, w, id) = r[id] /\ Base(s, w, id) = s[id]
    BY <1>2 DEF Base
  <2>2. CASE s[id] # None /\ ArchivedLater(w, id)
    <3>1. s[id] \in Memory
      BY <2>2 DEF Memories
    <3>2. r[id] = [s[id] EXCEPT !.state = "archived"]
      BY <2>1, <2>2, RecoveredIs
    <3>3. [r[id] EXCEPT !.state = "archived"] = r[id]
      BY <3>1, <3>2 DEF Memory
    <3>. QED
      BY <2>1, <3>3, RecoveredIs
  <2>3. CASE ~(s[id] # None /\ ArchivedLater(w, id))
    <3>1. r[id] = s[id]
      BY <2>1, <2>3, RecoveredIs
    <3>. QED
      BY <2>1, <2>3, <3>1, RecoveredIs
  <2>. QED
    BY <2>2, <2>3
<1>. QED
  BY <1>1, <1>2

\* No step of a compaction changes what is on record, nor does a crash between
\* its two writes, as long as what is folded is what the files say: the load
\* that folds a long log, the death of one half way, and the two writes of the
\* dream (instance.rs load_delta, dream.rs compact_log).  That the files still
\* say what was read is what a turn writing between them takes away.
THEOREM CompactionChangesNothing ==
    ASSUME snap \in Memories, Recovered(snap, wal) \in Memories
    PROVE  LET same == Recovered(snap', wal') = Recovered(snap, wal) IN
           /\ \A h \in Handles :
                Load(h) /\ index'[h].mems = Recovered(snap, wal) => same
           /\ CrashInLoad => same
           /\ WriteSnapshot /\ dream.read = Recovered(snap, wal) => same
           /\ Truncate /\ snap = Recovered(snap, wal) => same
<1> DEFINE same == Recovered(snap', wal') = Recovered(snap, wal)
<1>1. ASSUME NEW h \in Handles, Load(h), index'[h].mems = Recovered(snap, wal)
      PROVE  same
  <2>1. CASE replayed >= CompactAfter
    <3>1. snap' = Recovered(snap, wal) /\ wal' = <<>>
      BY <1>1, <2>1 DEF Load
    <3>. QED
      BY <3>1, TruncatedLogSaysTheSame
  <2>2. CASE ~(replayed >= CompactAfter)
    BY <1>1, <2>2 DEF Load, disk
  <2>. QED
    BY <2>1, <2>2
<1>2. CrashInLoad => same
  BY FoldingTwiceIsFoldingOnce DEF CrashInLoad
<1>3. WriteSnapshot /\ dream.read = Recovered(snap, wal) => same
  BY FoldingTwiceIsFoldingOnce DEF WriteSnapshot
<1>4. Truncate /\ snap = Recovered(snap, wal) => same
  BY TruncatedLogSaysTheSame DEF Truncate
<1>. QED
  BY <1>1, <1>2, <1>3, <1>4

-----------------------------------------------------------------------------
(* The last word in a log.                                                 *)

\* What the code writes: a line that parses is about an id.
Line == {e \in Event : e.op # "junk" => e.id \in Ids}

\* What one line makes of the memory under its id.
After(m, e) ==
    CASE e.op = "put"     -> e.mem
      [] e.op = "purge"   -> None
      [] e.op = "archive" -> IF m = None THEN None ELSE [m EXCEPT !.state = "archived"]
      [] OTHER            -> m

\* A non-empty set of numbers has a least one.
LEMMA LeastNumber ==
    ASSUME NEW S, S \subseteq Nat, S # {}
    PROVE  \E n \in S : \A m \in S : n <= m
<1> DEFINE less == OpToRel(<, Nat)
<1>1. PICK n \in S : \A m \in S : <<m, n>> \notin less
  <2>1. IsWellFoundedOn(less, Nat)
    BY NatLessThanWellFounded
  <2> QED
    BY <2>1, WFMin
<1>2. \A m, k \in Nat : m < k => <<m, k>> \in less
  BY DEF OpToRel
<1>3. ASSUME NEW m \in S
      PROVE  n <= m
  <2>1. m \in Nat /\ n \in Nat
    OBVIOUS
  <2>2. ~(m < n)
    BY <1>1, <1>2, <2>1
  <2> QED
    BY <2>1, <2>2
<1> QED
  BY <1>3

\* LastWrite is what its name says.
LEMMA LastWriteIsLast ==
    ASSUME NEW w \in Seq(Line), NEW id \in Ids
    PROVE  /\ LastWrite(w, id) \in 0..Len(w)
           /\ LastWrite(w, id) # 0 <=> Overwritten(w, id) # {}
           /\ LastWrite(w, id) # 0 => LastWrite(w, id) \in Overwritten(w, id)
           /\ \A j \in Overwritten(w, id) : j <= LastWrite(w, id)
<1>1. DOMAIN w = 1..Len(w) /\ Len(w) \in Nat
  BY LenProperties
<1>2. Overwritten(w, id) \subseteq 1..Len(w)
  BY <1>1 DEF Overwritten
<1>3. CASE Overwritten(w, id) = {}
  BY <1>1, <1>3 DEF LastWrite
<1>4. CASE Overwritten(w, id) # {}
  <2> DEFINE back == {Len(w) - i : i \in Overwritten(w, id)}
  <2>1. back \subseteq Nat /\ back # {}
    BY <1>1, <1>2, <1>4
  <2>2. PICK n \in back : \A m \in back : n <= m
    BY <2>1, LeastNumber
  <2>3. PICK i \in Overwritten(w, id) : n = Len(w) - i
    BY <2>2
  <2>4. \A j \in Overwritten(w, id) : j <= i
    <3> SUFFICES ASSUME NEW j \in Overwritten(w, id) PROVE j <= i
      OBVIOUS
    <3>1. n <= Len(w) - j
      BY <2>2
    <3>2. i \in Nat /\ j \in Nat
      BY <1>2
    <3> QED
      BY <1>1, <2>3, <3>1, <3>2
  <2> DEFINE last == CHOOSE k \in Overwritten(w, id) : \A j \in Overwritten(w, id) : j <= k
  <2>5. last \in Overwritten(w, id) /\ \A j \in Overwritten(w, id) : j <= last
    BY <2>3, <2>4
  <2>6. LastWrite(w, id) = last
    BY <1>4 DEF LastWrite
  <2> HIDE DEF last
  <2>7. last \in 1..Len(w)
    BY <1>2, <2>5
  <2> QED
    BY <1>1, <1>4, <2>5, <2>6, <2>7
<1> QED
  BY <1>3, <1>4

\* And nothing else is.
LEMMA LastWriteIs ==
    ASSUME NEW w \in Seq(Line), NEW id \in Ids, NEW k \in Overwritten(w, id),
           \A j \in Overwritten(w, id) : j <= k
    PROVE  LastWrite(w, id) = k
<1>1. /\ LastWrite(w, id) \in Overwritten(w, id)
      /\ \A j \in Overwritten(w, id) : j <= LastWrite(w, id)
      /\ LastWrite(w, id) \in Nat
  BY LastWriteIsLast
<1>2. k \in Nat
  BY LenProperties DEF Overwritten
<1> QED
  BY <1>1, <1>2

\* What a line of each kind carries.
LEMMA LineTypes ==
    ASSUME NEW e \in Line
    PROVE  /\ e.op \in {"put", "archive", "purge", "junk"}
           /\ e.op = "put" => e.id \in Ids /\ e.mem \in Memory
           /\ e.op # "put" => e.mem = None
           /\ e.op # "junk" => e.id \in Ids
           /\ \A id \in Ids : e = Archive(id) <=> e.op = "archive" /\ e.id = id
<1>1. e \in Event /\ (e.op # "junk" => e.id \in Ids)
  BY DEF Line
<1>2. CASE e \in [op : {"put"}, id : Ids, mem : Memory]
  BY <1>2 DEF Archive
<1>3. CASE e \in [op : {"archive", "purge", "junk"}, id : Ids \cup {None}, mem : {None}]
  <2>1. /\ e.op \in {"archive", "purge", "junk"} /\ e.mem = None
        /\ e = [op |-> e.op, id |-> e.id, mem |-> e.mem]
    BY <1>3
  <2>2. \A id \in Ids : e = Archive(id) <=> e.op = "archive" /\ e.id = id
    BY <2>1 DEF Archive
  <2> QED
    BY <1>1, <2>1, <2>2
<1> QED
  BY <1>1, <1>2, <1>3 DEF Event

\* What one line after another makes of what a snapshot says.
LEMMA BaseTypes ==
    ASSUME NEW s \in Memories, NEW w \in Seq(Line), NEW id \in Ids
    PROVE  Base(s, w, id) \in Memory \cup {None}
<1>1. CASE LastWrite(w, id) = 0
  BY <1>1 DEF Base, Memories
<1>2. CASE LastWrite(w, id) # 0
  <2>1. LastWrite(w, id) \in 1..Len(w) /\ w[LastWrite(w, id)] \in Line
    <3>1. LastWrite(w, id) \in 1..Len(w)
      BY <1>2, LastWriteIsLast, LenProperties
    <3> QED
      BY <3>1, ElementOfSeq
  <2>2. w[LastWrite(w, id)].mem \in Memory \cup {None}
    BY <2>1, LineTypes
  <2> QED
    BY <1>2, <2>2 DEF Base
<1> QED
  BY <1>1, <1>2

\* Archiving changes the state of a memory and nothing else.
LEMMA ArchivedIsAMemory ==
    ASSUME NEW m \in Memory
    PROVE  /\ [m EXCEPT !.state = "archived"] \in Memory
           /\ [m EXCEPT !.state = "archived"].fact = m.fact
           /\ [m EXCEPT !.state = "archived"].state = "archived"
           /\ [[m EXCEPT !.state = "archived"] EXCEPT !.state = "archived"]
                = [m EXCEPT !.state = "archived"]
           /\ m # None /\ [m EXCEPT !.state = "archived"] # None
  BY NoneIsNoValue DEF Memory, States

\* What the files say under each id is a memory or nothing.
LEMMA RecoveredTypes ==
    ASSUME NEW s \in Memories, NEW w \in Seq(Line)
    PROVE  Recovered(s, w) \in Memories
<1>1. ASSUME NEW id \in Ids PROVE Recovered(s, w)[id] \in Memory \cup {None}
  <2>1. Base(s, w, id) \in Memory \cup {None}
    BY BaseTypes
  <2> QED
    BY <2>1, RecoveredIs, ArchivedIsAMemory
<1>2. Recovered(s, w) = [id \in Ids |-> Recovered(s, w)[id]]
  BY DEF Recovered
<1> QED
  BY <1>1, <1>2 DEF Memories

\* A line makes a memory, or nothing, of a memory, or nothing.
LEMMA AfterTypes ==
    ASSUME NEW e \in Line, NEW m \in Memory \cup {None}
    PROVE  After(m, e) \in Memory \cup {None}
  BY LineTypes, ArchivedIsAMemory DEF After

\* One line after another: what a log says is what its second half says of
\* what the first half said.
LEMMA RecoveredInTwo ==
    ASSUME NEW s \in Memories, NEW w \in Seq(Line), NEW b \in Seq(Line)
    PROVE  Recovered(s, w \o b) = Recovered(Recovered(s, w), b)
<1> DEFINE c == w \o b
           r == Recovered(s, w)
<1>1. /\ c \in Seq(Line) /\ Len(c) = Len(w) + Len(b)
      /\ Len(w) \in Nat /\ Len(b) \in Nat
      /\ DOMAIN w = 1..Len(w) /\ DOMAIN b = 1..Len(b) /\ DOMAIN c = 1..Len(c)
      /\ \A i \in 1..Len(w) : c[i] = w[i]
      /\ \A i \in 1..Len(b) : c[Len(w) + i] = b[i]
  <2>1. /\ c \in Seq(Line) /\ Len(c) = Len(w) + Len(b)
        /\ \A i \in 1..Len(w) + Len(b) : c[i] = IF i <= Len(w) THEN w[i] ELSE b[i - Len(w)]
    BY ConcatProperties
  <2>2. Len(w) \in Nat /\ Len(b) \in Nat
    OBVIOUS
  <2>3. \A i \in 1..Len(b) : Len(w) + i \in 1..Len(w) + Len(b) /\ ~(Len(w) + i <= Len(w))
                             /\ Len(w) + i - Len(w) = i
    BY <2>2
  <2> HIDE DEF c
  <2> QED
    BY <2>1, <2>2, <2>3, LenProperties
<1> SUFFICES ASSUME NEW id \in Ids PROVE Recovered(s, c)[id] = Recovered(r, b)[id]
  BY DEF Recovered
<1> HIDE DEF c
<1>2. \A i \in 1..Len(w) : i \in Overwritten(c, id) <=> i \in Overwritten(w, id)
  BY <1>1 DEF Overwritten
<1>3. \A i \in 1..Len(b) : Len(w) + i \in Overwritten(c, id) <=> i \in Overwritten(b, id)
  BY <1>1 DEF Overwritten
<1>4. /\ Overwritten(w, id) \subseteq 1..Len(w) /\ Overwritten(b, id) \subseteq 1..Len(b)
      /\ Overwritten(c, id) \subseteq 1..Len(c)
  BY <1>1 DEF Overwritten
<1>5. \A j \in 1..Len(c) : j \in 1..Len(w) \/ \E i \in 1..Len(b) : j = Len(w) + i
  <2> SUFFICES ASSUME NEW j \in 1..Len(c), j \notin 1..Len(w)
               PROVE  \E i \in 1..Len(b) : j = Len(w) + i
    OBVIOUS
  <2>1. j - Len(w) \in 1..Len(b) /\ j = Len(w) + (j - Len(w))
    BY <1>1
  <2> QED
    BY <2>1
<1>6. CASE LastWrite(b, id) # 0
  <2> DEFINE k == LastWrite(b, id)
  <2>1. k \in 1..Len(b) /\ k \in Overwritten(b, id) /\ \A j \in Overwritten(b, id) : j <= k
    BY <1>1, <1>6, LastWriteIsLast
  <2> HIDE DEF k
  <2>2. LastWrite(c, id) = Len(w) + k
    <3>1. ASSUME NEW j \in Overwritten(c, id)
          PROVE  j <= Len(w) + k
      <4>1. j \in 1..Len(c)
        BY <1>4
      <4>2. CASE j \in 1..Len(w)
        BY <1>1, <2>1, <4>2
      <4>3. ASSUME NEW i \in 1..Len(b), j = Len(w) + i
            PROVE  j <= Len(w) + k
        <5>1. i \in Overwritten(b, id)
          BY <1>3, <4>3
        <5>2. i <= k
          BY <2>1, <5>1
        <5> QED
          BY <1>1, <2>1, <4>3, <5>2
      <4> QED
        BY <1>5, <4>1, <4>2, <4>3
    <3>2. Len(w) + k \in Overwritten(c, id)
      BY <1>3, <2>1
    <3> HIDE DEF k
    <3> QED
      BY <1>1, <3>1, <3>2, LastWriteIs
  <2>3. Base(s, c, id) = b[k].mem /\ Base(r, b, id) = b[k].mem
    <3>1. Len(w) + k # 0
      BY <1>1, <2>1
    <3> QED
      BY <1>1, <1>6, <2>1, <2>2, <3>1 DEF Base, k
  <2>4. ArchivedLater(c, id) <=> ArchivedLater(b, id)
    <3>1. ASSUME ArchivedLater(c, id) PROVE ArchivedLater(b, id)
      <4>1. PICK j \in 1..Len(c) : j > Len(w) + k /\ c[j] = Archive(id)
        BY <1>1, <2>2, <3>1 DEF ArchivedLater
      <4>2. PICK i \in 1..Len(b) : j = Len(w) + i
        <5>1. j \notin 1..Len(w)
          BY <1>1, <2>1, <4>1
        <5> QED
          BY <1>5, <4>1, <5>1
      <4>3. i > k /\ b[i] = Archive(id)
        BY <1>1, <2>1, <4>1, <4>2
      <4> QED
        BY <1>1, <4>3 DEF ArchivedLater, k
    <3>2. ASSUME ArchivedLater(b, id) PROVE ArchivedLater(c, id)
      <4>1. PICK i \in 1..Len(b) : i > k /\ b[i] = Archive(id)
        BY <1>1, <3>2 DEF ArchivedLater, k
      <4>2. Len(w) + i > Len(w) + k /\ Len(w) + i \in 1..Len(c) /\ c[Len(w) + i] = Archive(id)
        BY <1>1, <2>1, <4>1
      <4> QED
        BY <1>1, <2>2, <4>2 DEF ArchivedLater
    <3> QED
      BY <3>1, <3>2
  <2>5. Recovered(s, c)[id] = IF Base(s, c, id) # None /\ ArchivedLater(c, id)
                              THEN [Base(s, c, id) EXCEPT !.state = "archived"]
                              ELSE Base(s, c, id)
    BY RecoveredIs
  <2>6. Recovered(r, b)[id] = IF Base(r, b, id) # None /\ ArchivedLater(b, id)
                              THEN [Base(r, b, id) EXCEPT !.state = "archived"]
                              ELSE Base(r, b, id)
    BY RecoveredIs
  <2> HIDE DEF r
  <2> QED
    BY <2>3, <2>4, <2>5, <2>6
<1>7. CASE LastWrite(b, id) = 0
  <2>1. Overwritten(b, id) = {}
    BY <1>7, LastWriteIsLast
  <2>2. \A j \in Overwritten(c, id) : j \in Overwritten(w, id)
    BY <1>2, <1>3, <1>4, <1>5, <2>1
  <2>3. LastWrite(c, id) = LastWrite(w, id)
    <3>1. CASE LastWrite(w, id) = 0
      <4>1. Overwritten(c, id) = {}
        BY <2>2, <3>1, LastWriteIsLast
      <4> QED
        BY <3>1, <4>1 DEF LastWrite
    <3>2. CASE LastWrite(w, id) # 0
      <4>1. /\ LastWrite(w, id) \in Overwritten(w, id)
            /\ \A j \in Overwritten(w, id) : j <= LastWrite(w, id)
        BY <3>2, LastWriteIsLast
      <4>2. /\ LastWrite(w, id) \in Overwritten(c, id)
            /\ \A j \in Overwritten(c, id) : j <= LastWrite(w, id)
        BY <1>2, <1>4, <2>2, <4>1
      <4> QED
        BY <1>1, <4>2, LastWriteIs
    <3> QED
      BY <3>1, <3>2
  <2>4. LastWrite(w, id) \in 0..Len(w)
    BY LastWriteIsLast
  <2>5. Base(s, c, id) = Base(s, w, id) /\ Base(r, b, id) = r[id]
    BY <1>1, <1>7, <2>3, <2>4 DEF Base
  <2>6. ArchivedLater(c, id) <=> ArchivedLater(w, id) \/ ArchivedLater(b, id)
    <3>1. ASSUME ArchivedLater(c, id) PROVE ArchivedLater(w, id) \/ ArchivedLater(b, id)
      <4>1. PICK j \in 1..Len(c) : j > LastWrite(w, id) /\ c[j] = Archive(id)
        BY <1>1, <2>3, <3>1 DEF ArchivedLater
      <4>2. CASE j \in 1..Len(w)
        BY <1>1, <4>1, <4>2 DEF ArchivedLater
      <4>3. ASSUME NEW i \in 1..Len(b), j = Len(w) + i
            PROVE  ArchivedLater(b, id)
        BY <1>1, <1>7, <4>1, <4>3 DEF ArchivedLater
      <4> QED
        BY <1>5, <4>1, <4>2, <4>3
    <3>2. ASSUME ArchivedLater(w, id) PROVE ArchivedLater(c, id)
      <4>1. PICK j \in 1..Len(w) : j > LastWrite(w, id) /\ w[j] = Archive(id)
        BY <1>1, <3>2 DEF ArchivedLater
      <4>2. j \in 1..Len(c) /\ c[j] = Archive(id)
        BY <1>1, <4>1
      <4> QED
        BY <1>1, <2>3, <4>1, <4>2 DEF ArchivedLater
    <3>3. ASSUME ArchivedLater(b, id) PROVE ArchivedLater(c, id)
      <4>1. PICK i \in 1..Len(b) : b[i] = Archive(id)
        BY <1>1, <3>3 DEF ArchivedLater
      <4>2. Len(w) + i \in 1..Len(c) /\ c[Len(w) + i] = Archive(id) /\ Len(w) + i > LastWrite(w, id)
        BY <1>1, <2>4, <4>1
      <4> QED
        BY <1>1, <2>3, <4>2 DEF ArchivedLater
    <3> QED
      BY <3>1, <3>2, <3>3
  <2>7. Base(s, w, id) \in Memory \cup {None}
    BY BaseTypes
  <2>8. r[id] = IF Base(s, w, id) # None /\ ArchivedLater(w, id)
                THEN [Base(s, w, id) EXCEPT !.state = "archived"]
                ELSE Base(s, w, id)
    BY RecoveredIs
  <2>9. Recovered(s, c)[id] = IF Base(s, w, id) # None /\ (ArchivedLater(w, id) \/ ArchivedLater(b, id))
                THEN [Base(s, w, id) EXCEPT !.state = "archived"]
                ELSE Base(s, w, id)
    BY <2>5, <2>6, RecoveredIs
  <2>10. Recovered(r, b)[id] = IF r[id] # None /\ ArchivedLater(b, id)
                THEN [r[id] EXCEPT !.state = "archived"]
                ELSE r[id]
    BY <2>5, RecoveredIs
  <2> HIDE DEF r
  <2>11. Base(s, w, id) = None => r[id] = None /\ Recovered(s, c)[id] = None /\ Recovered(r, b)[id] = None
    BY <2>8, <2>9, <2>10
  <2>12. ASSUME Base(s, w, id) \in Memory PROVE Recovered(s, c)[id] = Recovered(r, b)[id]
    <3> DEFINE m == Base(s, w, id)
    <3>1. /\ m # None /\ [m EXCEPT !.state = "archived"] # None
          /\ [[m EXCEPT !.state = "archived"] EXCEPT !.state = "archived"] = [m EXCEPT !.state = "archived"]
      BY <2>12, ArchivedIsAMemory
    <3> HIDE DEF m
    <3>2. CASE ArchivedLater(w, id)
      <4>1. r[id] = [m EXCEPT !.state = "archived"]
        BY <2>8, <3>1, <3>2 DEF m
      <4>2. Recovered(s, c)[id] = [m EXCEPT !.state = "archived"]
        BY <2>9, <3>1, <3>2 DEF m
      <4> QED
        BY <2>10, <3>1, <4>1, <4>2
    <3>3. CASE ~ArchivedLater(w, id)
      <4>1. r[id] = m
        BY <2>8, <3>3 DEF m
      <4> QED
        BY <2>9, <2>10, <3>3, <4>1 DEF m
    <3> QED
      BY <3>2, <3>3
  <2> QED
    BY <2>7, <2>11, <2>12
<1> QED
  BY <1>6, <1>7

\* Of a log that speaks of each memory once, each line does what it does.
Once(b) == \A i, j \in DOMAIN b : b[i].id = b[j].id => i = j

\* When each memory has one line at most, that line alone decides about it.
LEMMA OncePerMemory ==
    ASSUME NEW s \in Memories, NEW b \in Seq(Line), Once(b), NEW id \in Ids
    PROVE  /\ \A i \in 1..Len(b) : b[i].id = id => Recovered(s, b)[id] = After(s[id], b[i])
           /\ (\A i \in 1..Len(b) : b[i].id # id) => Recovered(s, b)[id] = s[id]
<1>1. Len(b) \in Nat /\ DOMAIN b = 1..Len(b) /\ \A i \in 1..Len(b) : b[i] \in Line
  BY LenProperties, ElementOfSeq
<1>2. ASSUME \A i \in 1..Len(b) : b[i].id # id PROVE Recovered(s, b)[id] = s[id]
  <2>1. Overwritten(b, id) = {}
    BY <1>1, <1>2 DEF Overwritten
  <2>2. LastWrite(b, id) = 0
    BY <2>1 DEF LastWrite
  <2>3. ~ArchivedLater(b, id)
    BY <1>1, <1>2, LineTypes DEF ArchivedLater
  <2> QED
    BY <2>2, <2>3, RecoveredIs DEF Base
<1>3. ASSUME NEW i \in 1..Len(b), b[i].id = id
      PROVE  Recovered(s, b)[id] = After(s[id], b[i])
  <2>1. \A j \in 1..Len(b) : b[j].id = id => j = i
    BY <1>1, <1>3 DEF Once
  <2>2. b[i] \in Line
    BY <1>1
  <2>3. CASE b[i].op \in {"put", "purge"}
    <3>1. Overwritten(b, id) = {i}
      BY <1>1, <1>3, <2>1, <2>3 DEF Overwritten
    <3>2. LastWrite(b, id) = i
      <4>1. i \in Overwritten(b, id) /\ \A j \in Overwritten(b, id) : j <= i
        BY <1>1, <3>1
      <4> QED
        BY <4>1, LastWriteIs
    <3>3. ~ArchivedLater(b, id)
      BY <1>1, <2>1, <3>2, LineTypes DEF ArchivedLater
    <3>4. Recovered(s, b)[id] = b[i].mem
      <4>1. Base(s, b, id) = b[i].mem
        BY <1>3, <3>2 DEF Base
      <4> QED
        BY <3>3, <4>1, RecoveredIs
    <3>5. CASE b[i].op = "put"
      BY <3>4, <3>5 DEF After
    <3>6. CASE b[i].op = "purge"
      <4>1. b[i].mem = None
        BY <2>2, <3>6, LineTypes
      <4> QED
        BY <3>4, <3>6, <4>1 DEF After
    <3> QED
      BY <2>3, <3>5, <3>6
  <2>4. CASE b[i].op \in {"archive", "junk"}
    <3>1. Overwritten(b, id) = {}
      BY <1>1, <2>1, <2>4 DEF Overwritten
    <3>2. LastWrite(b, id) = 0
      BY <3>1 DEF LastWrite
    <3>3. ArchivedLater(b, id) <=> b[i].op = "archive"
      <4>1. ASSUME ArchivedLater(b, id) PROVE b[i].op = "archive"
        <5>1. PICK j \in 1..Len(b) : b[j] = Archive(id)
          BY <1>1, <4>1 DEF ArchivedLater
        <5>2. b[j].op = "archive" /\ b[j].id = id
          BY <1>1, <5>1, LineTypes
        <5> QED
          BY <2>1, <5>2
      <4>2. ASSUME b[i].op = "archive" PROVE ArchivedLater(b, id)
        <5>1. b[i] = Archive(id) /\ i > 0
          BY <1>3, <2>2, <4>2, LineTypes
        <5> QED
          BY <1>1, <3>2, <5>1 DEF ArchivedLater
      <4> QED
        BY <4>1, <4>2
    <3>4. Base(s, b, id) = s[id]
      BY <3>2 DEF Base
    <3>5. Recovered(s, b)[id] = IF s[id] # None /\ b[i].op = "archive"
                                THEN [s[id] EXCEPT !.state = "archived"] ELSE s[id]
      BY <3>3, <3>4, RecoveredIs
    <3> QED
      BY <2>4, <3>5 DEF After
  <2> QED
    BY <2>2, <2>3, <2>4, LineTypes
<1> QED
  BY <1>2, <1>3

\* What one line changes is the memory it is about.
LEMMA OneLine ==
    ASSUME NEW s \in Memories, NEW e \in Line
    PROVE  /\ <<e>> \in Seq(Line)
           /\ Recovered(s, <<e>>) = [id \in Ids |-> IF id = e.id THEN After(s[id], e) ELSE s[id]]
<1> DEFINE b == <<e>>
<1>1. b \in Seq(Line) /\ Len(b) = 1 /\ DOMAIN b = {1} /\ b[1] = e
  OBVIOUS
<1>2. Once(b)
  BY <1>1 DEF Once
<1>3. 1..1 = {1}
  OBVIOUS
<1> HIDE DEF b
<1>4. ASSUME NEW id \in Ids
      PROVE  Recovered(s, b)[id] = IF id = e.id THEN After(s[id], e) ELSE s[id]
  BY <1>1, <1>2, <1>3, OncePerMemory
<1>5. Recovered(s, b) = [id \in Ids |-> Recovered(s, b)[id]]
  BY DEF Recovered
<1>6. Recovered(s, b) = [id \in Ids |-> IF id = e.id THEN After(s[id], e) ELSE s[id]]
  BY <1>4, <1>5
<1> QED
  BY <1>1, <1>6 DEF b

-----------------------------------------------------------------------------
(* The index, one line and one log at a time.                              *)

\* Every index, sound or not.
Indexes == [mems : Memories, byHash : [Facts -> Ids \cup {None}]]

\* Changing one memory gives memories.
LEMMA MemoriesExcept ==
    ASSUME NEW s \in Memories, NEW id \in Ids, NEW m \in Memory \cup {None}
    PROVE  /\ [s EXCEPT ![id] = m] \in Memories
           /\ \A x \in Ids : [s EXCEPT ![id] = m][x] = IF x = id THEN m ELSE s[x]
  BY DEF Memories

\* insert_memory puts one memory and keeps the hash table sound
\* (index.rs:126-138), although it may take away the hash of another.
LEMMA InsertIs ==
    ASSUME NEW ix \in Indexes, HashesLead(ix), NEW id \in Ids, NEW m \in Memory
    PROVE  LET new == insert_memory(ix, id, m) IN
           /\ new \in Indexes /\ HashesLead(new)
           /\ new.mems = [ix.mems EXCEPT ![id] = m]
<1> DEFINE freed == IF ix.mems[id] = None THEN ix.byHash
                    ELSE [ix.byHash EXCEPT ![ix.mems[id].fact] = None]
           hash == [freed EXCEPT ![m.fact] = id]
           new == insert_memory(ix, id, m)
<1>1. /\ ix.mems \in Memories /\ ix.byHash \in [Facts -> Ids \cup {None}]
      /\ ix.mems[id] # None => ix.mems[id].fact \in Facts
      /\ m.fact \in Facts /\ m # None
  BY NoneIsNoValue DEF Indexes, Memories, Memory
<1>2. freed \in [Facts -> Ids \cup {None}]
  BY <1>1
<1>3. hash \in [Facts -> Ids \cup {None}]
  BY <1>1, <1>2
<1>4. new = [mems |-> [ix.mems EXCEPT ![id] = m], byHash |-> hash]
  BY DEF insert_memory
<1>5. new.mems = [ix.mems EXCEPT ![id] = m] /\ new.byHash = hash
  BY <1>4
<1>6. new \in Indexes
  <2>1. [ix.mems EXCEPT ![id] = m] \in Memories
    BY <1>1, MemoriesExcept
  <2> HIDE DEF hash, new
  <2> QED
    BY <1>3, <1>4, <2>1 DEF Indexes
<1>7. ASSUME NEW f \in Facts, hash[f] # None
      PROVE  new.mems[hash[f]] # None /\ new.mems[hash[f]].fact = f
  <2>1. CASE f = m.fact
    <3>1. hash[f] = id
      BY <1>1, <1>2, <2>1
    <3> QED
      BY <1>1, <1>5, <2>1, <3>1, MemoriesExcept
  <2>2. CASE f # m.fact
    <3>1. hash[f] = freed[f]
      BY <1>1, <1>2, <2>2
    <3>2. hash[f] = ix.byHash[f] /\ (ix.mems[id] # None => ix.mems[id].fact # f)
      BY <1>1, <1>7, <3>1
    <3>3. ix.byHash[f] \in Ids /\ ix.mems[ix.byHash[f]] # None /\ ix.mems[ix.byHash[f]].fact = f
      BY <1>1, <1>7, <3>2 DEF HashesLead
    <3>4. ix.byHash[f] # id
      BY <3>2, <3>3
    <3>5. new.mems[ix.byHash[f]] = ix.mems[ix.byHash[f]]
      BY <1>1, <1>5, <3>3, <3>4, MemoriesExcept
    <3> QED
      BY <3>2, <3>3, <3>5
  <2> QED
    BY <2>1, <2>2
<1>8. HashesLead(new)
  <2> HIDE DEF hash, new
  <2> QED
    BY <1>5, <1>7 DEF HashesLead
<1> QED
  BY <1>5, <1>6, <1>8

\* purge takes one memory out and keeps the hash table sound
\* (index.rs:195-208).
LEMMA PurgeIs ==
    ASSUME NEW ix \in Indexes, HashesLead(ix), NEW id \in Ids
    PROVE  LET new == purge(ix, id) IN
           /\ new \in Indexes /\ HashesLead(new)
           /\ new.mems = [ix.mems EXCEPT ![id] = None]
<1> DEFINE new == purge(ix, id)
<1>1. ix.mems \in Memories /\ ix.byHash \in [Facts -> Ids \cup {None}]
  BY DEF Indexes
<1>2. CASE ix.mems[id] = None
  <2>1. new = ix
    BY <1>2 DEF purge
  <2>2. [ix.mems EXCEPT ![id] = None] = ix.mems
    BY <1>1, <1>2 DEF Memories
  <2> QED
    BY <2>1, <2>2
<1>3. CASE ix.mems[id] # None
  <2> DEFINE old == ix.mems[id].fact
             hash == [ix.byHash EXCEPT ![old] = None]
  <2>1. old \in Facts
    BY <1>1, <1>3 DEF Memories, Memory
  <2>2. hash \in [Facts -> Ids \cup {None}]
    BY <1>1
  <2>3. new = [mems |-> [ix.mems EXCEPT ![id] = None], byHash |-> hash]
    BY <1>3 DEF purge
  <2>4. new.mems = [ix.mems EXCEPT ![id] = None] /\ new.byHash = hash
    BY <2>3
  <2>5. new \in Indexes
    <3>1. [ix.mems EXCEPT ![id] = None] \in Memories
      BY <1>1, MemoriesExcept
    <3> HIDE DEF hash, new
    <3> QED
      BY <2>2, <2>3, <3>1 DEF Indexes
  <2>6. ASSUME NEW f \in Facts, hash[f] # None
        PROVE  new.mems[hash[f]] # None /\ new.mems[hash[f]].fact = f
    <3>1. f # old /\ hash[f] = ix.byHash[f]
      BY <1>1, <2>1, <2>6
    <3>2. ix.byHash[f] \in Ids /\ ix.mems[ix.byHash[f]] # None /\ ix.mems[ix.byHash[f]].fact = f
      BY <1>1, <2>6, <3>1 DEF HashesLead
    <3>3. ix.byHash[f] # id
      BY <3>1, <3>2
    <3>4. new.mems[ix.byHash[f]] = ix.mems[ix.byHash[f]]
      BY <1>1, <2>4, <3>2, <3>3, MemoriesExcept
    <3> QED
      BY <3>1, <3>2, <3>4
  <2>7. HashesLead(new)
    <3> HIDE DEF hash, new
    <3> QED
      BY <2>4, <2>6 DEF HashesLead
  <2> QED
    BY <2>4, <2>5, <2>7
<1> QED
  BY <1>2, <1>3

\* archive changes the state of one memory (index.rs:114-119).
LEMMA ArchiveIs ==
    ASSUME NEW ix \in Indexes, HashesLead(ix), NEW id \in Ids
    PROVE  LET new == archive(ix, id) IN
           /\ new \in Indexes /\ HashesLead(new)
           /\ new.mems = [ix.mems EXCEPT ![id] = IF @ = None THEN None
                                                 ELSE [@ EXCEPT !.state = "archived"]]
<1> DEFINE new == archive(ix, id)
           m == ix.mems[id]
<1>1. ix.mems \in Memories /\ ix.byHash \in [Facts -> Ids \cup {None}]
  BY DEF Indexes
<1>2. CASE m = None
  <2>1. new = ix
    BY <1>2 DEF archive
  <2>2. [ix.mems EXCEPT ![id] = None] = ix.mems
    BY <1>1, <1>2 DEF Memories
  <2> QED
    BY <1>2, <2>1, <2>2
<1>3. CASE m # None
  <2> DEFINE a == [m EXCEPT !.state = "archived"]
  <2>1. m \in Memory
    BY <1>1, <1>3 DEF Memories
  <2>2. a \in Memory /\ a.fact = m.fact /\ a # None
    BY <2>1, ArchivedIsAMemory
  <2>3. new = [ix EXCEPT !.mems[id].state = "archived"]
    BY <1>3 DEF archive
  <2>4. new = [ix EXCEPT !.mems = [ix.mems EXCEPT ![id] = a]]
    BY <2>3
  <2>5. [ix.mems EXCEPT ![id] = a] \in Memories
    BY <1>1, <2>2, MemoriesExcept
  <2>6. new.mems = [ix.mems EXCEPT ![id] = a] /\ new.byHash = ix.byHash /\ new \in Indexes
    <3> HIDE DEF new, a
    <3> QED
      BY <2>4, <2>5 DEF Indexes
  <2>7. ASSUME NEW f \in Facts, ix.byHash[f] # None
        PROVE  new.mems[ix.byHash[f]] # None /\ new.mems[ix.byHash[f]].fact = f
    <3>1. ix.byHash[f] \in Ids /\ ix.mems[ix.byHash[f]] # None /\ ix.mems[ix.byHash[f]].fact = f
      BY <1>1, <2>7 DEF HashesLead
    <3>2. new.mems[ix.byHash[f]] = IF ix.byHash[f] = id THEN a ELSE ix.mems[ix.byHash[f]]
      BY <1>1, <2>2, <2>6, <3>1, MemoriesExcept
    <3> HIDE DEF new, a
    <3> QED
      BY <2>2, <3>1, <3>2
  <2>8. HashesLead(new)
    <3> HIDE DEF new, a
    <3> QED
      BY <2>6, <2>7 DEF HashesLead
  <2>9. [ix.mems EXCEPT ![id] = IF @ = None THEN None ELSE [@ EXCEPT !.state = "archived"]]
          = [ix.mems EXCEPT ![id] = a]
    BY <1>3
  <2>10. new.mems = [ix.mems EXCEPT ![id] = IF @ = None THEN None
                                                 ELSE [@ EXCEPT !.state = "archived"]]
    BY <2>6, <2>9
  <2> QED
    BY <2>6, <2>8, <2>10
<1> QED
  BY <1>2, <1>3

\* One line, applied to an index.
LEMMA ApplyIs ==
    ASSUME NEW ix \in Indexes, HashesLead(ix), NEW e \in Line
    PROVE  /\ apply(ix, e) \in Indexes /\ HashesLead(apply(ix, e))
           /\ apply(ix, e).mems = Recovered(ix.mems, <<e>>)
<1>1. ix.mems \in Memories
  BY DEF Indexes
<1>2. Recovered(ix.mems, <<e>>)
        = [id \in Ids |-> IF id = e.id THEN After(ix.mems[id], e) ELSE ix.mems[id]]
  BY <1>1, OneLine
<1>3. ASSUME NEW m \in Memory \cup {None}, e.id \in Ids, m = After(ix.mems[e.id], e)
      PROVE  Recovered(ix.mems, <<e>>) = [ix.mems EXCEPT ![e.id] = m]
  <2>1. \A id \in Ids : [ix.mems EXCEPT ![e.id] = m][id] = IF id = e.id THEN m ELSE ix.mems[id]
    <3> DEFINE x == e.id
    <3>1. x \in Ids
      BY <1>3
    <3> HIDE DEF x
    <3>2. \A id \in Ids : [ix.mems EXCEPT ![x] = m][id] = IF id = x THEN m ELSE ix.mems[id]
      BY <1>1, <3>1 DEF Memories
    <3> QED
      BY <3>2 DEF x
  <2>2. [ix.mems EXCEPT ![e.id] = m]
          = [id \in Ids |-> [ix.mems EXCEPT ![e.id] = m][id]]
    BY <1>1 DEF Memories
  <2>3. \A id \in Ids : (IF id = e.id THEN After(ix.mems[id], e) ELSE ix.mems[id])
                        = [ix.mems EXCEPT ![e.id] = m][id]
    BY <1>3, <2>1
  <2> QED
    BY <1>2, <2>2, <2>3
<1>4. CASE e.op = "put"
  <2>1. e.id \in Ids /\ e.mem \in Memory /\ apply(ix, e) = insert_memory(ix, e.id, e.mem)
    BY <1>4, LineTypes DEF apply
  <2>2. e.mem = After(ix.mems[e.id], e)
    BY <1>4 DEF After
  <2>3. e.mem \in Memory \cup {None}
    BY <2>1
  <2>4. Recovered(ix.mems, <<e>>) = [ix.mems EXCEPT ![e.id] = e.mem]
    BY <1>3, <2>1, <2>2, <2>3
  <2> QED
    BY <2>1, <2>4, InsertIs
<1>5. CASE e.op = "archive"
  <2> DEFINE m == After(ix.mems[e.id], e)
  <2>1. e.id \in Ids /\ apply(ix, e) = archive(ix, e.id)
    BY <1>5, LineTypes DEF apply
  <2>2. m = IF ix.mems[e.id] = None THEN None ELSE [ix.mems[e.id] EXCEPT !.state = "archived"]
    BY <1>5 DEF After
  <2>3. ix.mems[e.id] \in Memory \cup {None}
    BY <1>1, <2>1 DEF Memories
  <2>4. m \in Memory \cup {None}
    BY <2>3, AfterTypes
  <2>5. Recovered(ix.mems, <<e>>) = [ix.mems EXCEPT ![e.id] = m]
    BY <1>3, <2>1, <2>4
  <2>6. /\ apply(ix, e) \in Indexes /\ HashesLead(apply(ix, e))
        /\ apply(ix, e).mems = [ix.mems EXCEPT ![e.id] =
              IF @ = None THEN None ELSE [@ EXCEPT !.state = "archived"]]
    BY <2>1, ArchiveIs
  <2> QED
    BY <2>2, <2>5, <2>6
<1>6. CASE e.op = "purge"
  <2>1. e.id \in Ids /\ apply(ix, e) = purge(ix, e.id)
    BY <1>6, LineTypes DEF apply
  <2>2. After(ix.mems[e.id], e) = None
    BY <1>6 DEF After
  <2>3. Recovered(ix.mems, <<e>>) = [ix.mems EXCEPT ![e.id] = None]
    BY <1>3, <2>1, <2>2
  <2> QED
    BY <2>1, <2>3, PurgeIs
<1>7. CASE e.op = "junk"
  <2>1. apply(ix, e) = ix
    BY <1>7 DEF apply
  <2>2. \A id \in Ids : After(ix.mems[id], e) = ix.mems[id]
    BY <1>7 DEF After
  <2>3. Recovered(ix.mems, <<e>>) = ix.mems
    BY <1>1, <1>2, <2>2 DEF Memories
  <2> QED
    BY <2>1, <2>3
<1> QED
  BY <1>4, <1>5, <1>6, <1>7, LineTypes

\* The value of the recursive function in Replayed, after each of its lines.
Replay(ix, w, n, f) ==
    f = [i \in 0..n |-> IF i = 0 THEN ix ELSE apply(f[i - 1], w[i])]

\* The replay of a log is defined at every length.
LEMMA ReplayExists ==
    ASSUME NEW ix, NEW w, NEW n \in Nat
    PROVE  \E f : Replay(ix, w, n, f)
<1> DEFINE bad == {k \in Nat : \A f : ~Replay(ix, w, k, f)}
<1> SUFFICES ASSUME n \in bad PROVE FALSE
  OBVIOUS
<1>1. PICK k \in bad : \A m \in bad : k <= m
  <2>1. bad \subseteq Nat /\ bad # {}
    OBVIOUS
  <2> HIDE DEF bad
  <2> QED
    BY <2>1, LeastNumber
<1>2. CASE k = 0
  <2> DEFINE f == [i \in 0..0 |-> ix]
  <2>1. Replay(ix, w, 0, f)
    BY DEF Replay
  <2> QED
    BY <1>1, <1>2, <2>1
<1>3. CASE k # 0
  <2>1. k - 1 \in Nat /\ k \in Nat /\ k - 1 \notin bad
    BY <1>1, <1>3
  <2>2. PICK g : Replay(ix, w, k - 1, g)
    BY <2>1
  <2> DEFINE f == [i \in 0..k |-> IF i = k THEN apply(g[k - 1], w[k]) ELSE g[i]]
  <2>3. \A i \in 0..(k - 1) : f[i] = g[i] /\ f[i] = IF i = 0 THEN ix ELSE apply(g[i - 1], w[i])
    <3> TAKE i \in 0..(k - 1)
    <3>1. i \in 0..k /\ i # k
      BY <2>1
    <3>2. g[i] = IF i = 0 THEN ix ELSE apply(g[i - 1], w[i])
      BY <2>2 DEF Replay
    <3> QED
      BY <3>1, <3>2
  <2>4. f[k] = apply(g[k - 1], w[k])
    BY <2>1
  <2>5. \A i \in 0..k : f[i] = IF i = 0 THEN ix ELSE apply(f[i - 1], w[i])
    <3> SUFFICES ASSUME NEW i \in 0..k
                 PROVE  f[i] = IF i = 0 THEN ix ELSE apply(f[i - 1], w[i])
      OBVIOUS
    <3>1. CASE i = k
      <4>1. f[k - 1] = g[k - 1]
        BY <2>1, <2>3
      <4> HIDE DEF f
      <4> QED
        BY <1>3, <2>4, <3>1, <4>1
    <3>2. CASE i # k
      <4>1. i \in 0..(k - 1)
        BY <2>1, <3>2
      <4>2. i # 0 => i - 1 \in 0..(k - 1)
        BY <2>1, <4>1
      <4> HIDE DEF f
      <4> QED
        BY <2>3, <4>1, <4>2
    <3> QED
      BY <3>1, <3>2
  <2>6. f = [i \in 0..k |-> f[i]]
    OBVIOUS
  <2> HIDE DEF f
  <2>7. Replay(ix, w, k, f)
    BY <2>5, <2>6 DEF Replay
  <2> QED
    BY <1>1, <2>7
<1> QED
  BY <1>2, <1>3

\* Replaying a log over an index leaves it sound, and holding what the log says
\* of the snapshot the index came from, memory by memory.
LEMMA ReplayIs ==
    ASSUME NEW ix \in Indexes, HashesLead(ix), NEW w \in Seq(Line)
    PROVE  /\ Replayed(ix, w) \in Indexes /\ HashesLead(Replayed(ix, w))
           /\ Replayed(ix, w).mems = Recovered(ix.mems, w)
<1>1. Len(w) \in Nat /\ \A i \in 1..Len(w) : w[i] \in Line
  BY LenProperties, ElementOfSeq
<1> DEFINE after == CHOOSE f : f = [i \in 0..Len(w) |-> IF i = 0 THEN ix ELSE apply(f[i - 1], w[i])]
<1>2. after = [i \in 0..Len(w) |-> IF i = 0 THEN ix ELSE apply(after[i - 1], w[i])]
  <2>1. \E f : f = [i \in 0..Len(w) |-> IF i = 0 THEN ix ELSE apply(f[i - 1], w[i])]
    <3>1. PICK f : Replay(ix, w, Len(w), f)
      BY <1>1, ReplayExists
    <3> QED
      BY <3>1 DEF Replay
  <2> QED
    BY <2>1
<1>3. Replayed(ix, w) = after[Len(w)]
  BY DEF Replayed
<1> HIDE DEF after
<1>4. after[0] = ix /\ \A i \in 1..Len(w) : after[i] = apply(after[i - 1], w[i])
  <2>1. 0 \in 0..Len(w) /\ \A i \in 1..Len(w) : i \in 0..Len(w) /\ i # 0
    BY <1>1
  <2> QED
    BY <1>2, <2>1
<1> DEFINE Good(n) == /\ after[n] \in Indexes /\ HashesLead(after[n])
                      /\ after[n].mems = Recovered(ix.mems, SubSeq(w, 1, n))
           bad == {n \in 0..Len(w) : ~Good(n)}
<1>5. ASSUME bad # {} PROVE FALSE
  <2>1. PICK n \in bad : \A m \in bad : n <= m
    <3>1. bad \subseteq Nat
      BY <1>1
    <3> HIDE DEF bad
    <3> QED
      BY <1>5, <3>1, LeastNumber
  <2>2. ix.mems \in Memories
    BY DEF Indexes
  <2>3. CASE n = 0
    <3>1. SubSeq(w, 1, 0) = <<>>
      BY SubSeqEmpty
    <3>2. Recovered(ix.mems, <<>>) = ix.mems
      BY <2>2, TruncatedLogSaysTheSame
    <3> QED
      BY <1>4, <2>1, <2>3, <3>1, <3>2
  <2>4. CASE n # 0
    <3>1. n \in 1..Len(w) /\ n - 1 \in 0..Len(w) /\ n - 1 < n
      BY <1>1, <2>1, <2>4
    <3>2. n - 1 \notin bad
      BY <1>1, <2>1, <3>1
    <3>3. Good(n - 1)
      BY <3>1, <3>2
    <3>4. after[n] = apply(after[n - 1], w[n])
      BY <1>4, <3>1
    <3>5. SubSeq(w, 1, n) = SubSeq(w, 1, n - 1) \o <<w[n]>>
      <4>1. 1 \in 1..Len(w) /\ n \in 1..Len(w)
        BY <1>1, <3>1
      <4> QED
        BY <4>1, SubSeqRecursiveSecond
    <3>6. SubSeq(w, 1, n - 1) \in Seq(Line) /\ <<w[n]>> \in Seq(Line)
      <4>1. \A i \in 1..(n - 1) : w[i] \in Line
        BY <1>1, <3>1
      <4>2. SubSeq(w, 1, n - 1) \in Seq(Line)
        BY <3>1, <4>1, SubSeqProperties
      <4>3. w[n] \in Line
        BY <1>1, <3>1
      <4> QED
        BY <4>2, <4>3
    <3>7. Recovered(ix.mems, SubSeq(w, 1, n))
            = Recovered(Recovered(ix.mems, SubSeq(w, 1, n - 1)), <<w[n]>>)
      <4> DEFINE v == SubSeq(w, 1, n - 1)
                 b == <<w[n]>>
      <4>1. v \in Seq(Line) /\ b \in Seq(Line)
        BY <3>6
      <4> HIDE DEF v, b
      <4>2. Recovered(ix.mems, v \o b) = Recovered(Recovered(ix.mems, v), b)
        BY <2>2, <4>1, RecoveredInTwo
      <4> QED
        BY <3>5, <4>2 DEF v, b
    <3>8. w[n] \in Line
      BY <1>1, <3>1
    <3>9. /\ after[n] \in Indexes /\ HashesLead(after[n])
          /\ after[n].mems = Recovered(after[n - 1].mems, <<w[n]>>)
      BY <3>3, <3>4, <3>8, ApplyIs
    <3>10. Good(n)
      BY <3>3, <3>7, <3>9
    <3> QED
      BY <2>1, <3>10
  <2> QED
    BY <2>3, <2>4
<1>6. Good(Len(w))
  <2>1. Len(w) \in 0..Len(w)
    BY <1>1
  <2> QED
    BY <1>5, <2>1
<1>7. SubSeq(w, 1, Len(w)) = w
  BY SubSeqFull
<1> QED
  BY <1>3, <1>6, <1>7

-----------------------------------------------------------------------------
(* What the turns and the dream write.                                     *)

\* A put is a line about its id.
LEMMA PutIsALine ==
    ASSUME NEW id \in Ids, NEW f \in Facts, NEW state \in States
    PROVE  /\ Put(id, f, state) \in Line /\ Put(id, f, state).id = id
           /\ Put(id, f, state).op = "put"
           /\ Put(id, f, state).mem = [fact |-> f, state |-> state]
           /\ Put(id, f, state).mem \in Memory
<1>1. [fact |-> f, state |-> state] \in Memory
  BY DEF Memory
<1>2. Put(id, f, state) \in [op : {"put"}, id : Ids, mem : Memory]
  BY <1>1 DEF Put
<1> QED
  BY <1>1, <1>2 DEF Put, Line, Event

\* So are an archive and a purge; a junk line is about none.
LEMMA OtherLines ==
    /\ Junk \in Line /\ Junk.op = "junk"
    /\ \A id \in Ids : /\ Archive(id) \in Line /\ Archive(id).id = id /\ Archive(id).op = "archive"
                       /\ Purge(id) \in Line /\ Purge(id).id = id /\ Purge(id).op = "purge"
  BY DEF Junk, Archive, Purge, Line, Event

\* An order of some memories is a sequence of them without repetition.
LEMMA OrderIs ==
    ASSUME NEW S, S \subseteq Ids, NEW s \in Orders(S)
    PROVE  /\ s \in Seq(S) /\ Len(s) \in Nat /\ DOMAIN s = 1..Len(s)
           /\ \A i, j \in 1..Len(s) : s[i] = s[j] => i = j
<1>1. Cardinality(S) \in Nat
  BY IdsAreFinite, FS_Subset, FS_CardinalityType
<1>2. s \in [1..Cardinality(S) -> S]
  BY DEF Orders
<1>3. s \in Seq(S) /\ Len(s) = Cardinality(S)
  BY <1>1, <1>2
<1>4. \A i, j \in DOMAIN s : i # j => s[i] # s[j]
  BY DEF Orders
<1>5. DOMAIN s = 1..Len(s)
  BY <1>2, <1>3
<1> QED
  BY <1>1, <1>3, <1>4, <1>5

\* What the lines of a batch may be: a new memory, a clone put back, or what
\* fading does to one.
Fresh(e)  == \E id \in Ids \ used, f \in Facts : e = Put(id, f, "live")
Back(e)   == \E id \in Clones : e = PutBack(id, "live") \/ e = PutBack(id, "superseded")
Faded(e)  == \E id \in Clones : e \in Fading(id)

Spoken(b) == b \in Seq(Line) /\ (Clones \subseteq used => Once(b))

\* A clone put back has the content that was read.
LEMMA PutBackIsALine ==
    ASSUME dream.read \in Memories, NEW id \in Clones, NEW state \in States
    PROVE  /\ PutBack(id, state) \in Line /\ PutBack(id, state).id = id
           /\ PutBack(id, state).op = "put"
           /\ PutBack(id, state).mem = [fact |-> dream.read[id].fact, state |-> state]
           /\ dream.read[id] \in Memory /\ id \in Ids
<1>1. id \in Ids /\ dream.read[id] \in Memory
  BY DEF Clones, Memories
<1>2. dream.read[id].fact \in Facts
  BY <1>1 DEF Memory
<1> QED
  BY <1>1, <1>2, PutIsALine DEF PutBack

\* A merge writes a new memory and clones put back, one line each.
LEMMA MergeIs ==
    ASSUME dream.read \in Memories, NEW b \in MergeBatches
    PROVE  /\ Spoken(b) /\ \A i \in 1..Len(b) : Fresh(b[i]) \/ Back(b[i])
<1>1. PICK survivor \in Ids \ used, f \in Facts, s \in Orders(Clones) :
        b = Merged(survivor, f, s)
  BY DEF MergeBatches
<1> DEFINE one == <<Put(survivor, f, "live")>>
           rest == [i \in DOMAIN s |-> PutBack(s[i], "superseded")]
<1>2. Clones \subseteq Ids
  BY DEF Clones
<1>3. /\ s \in Seq(Clones) /\ Len(s) \in Nat /\ DOMAIN s = 1..Len(s)
      /\ \A i, j \in 1..Len(s) : s[i] = s[j] => i = j
      /\ \A i \in 1..Len(s) : s[i] \in Clones
  BY <1>2, OrderIs, ElementOfSeq
<1>4. \A i \in 1..Len(s) : /\ PutBack(s[i], "superseded") \in Line
                           /\ PutBack(s[i], "superseded").id = s[i]
  BY <1>3, PutBackIsALine DEF States
<1>5. rest \in [1..Len(s) -> Line]
  BY <1>3, <1>4
<1>6. rest \in Seq(Line) /\ Len(rest) = Len(s)
  BY <1>3, <1>5
<1>7. /\ Put(survivor, f, "live") \in Line /\ Put(survivor, f, "live").id = survivor
      /\ one \in Seq(Line) /\ Len(one) = 1 /\ one[1] = Put(survivor, f, "live")
  <2>1. Put(survivor, f, "live") \in Line /\ Put(survivor, f, "live").id = survivor
    BY PutIsALine DEF States
  <2> QED
    BY <2>1
<1>8. \A i \in 1..Len(s) : rest[i] = PutBack(s[i], "superseded")
  BY <1>3
<1>9. b = one \o rest
  BY <1>1 DEF Merged
<1> HIDE DEF one, rest
<1>10. /\ b \in Seq(Line) /\ Len(b) = 1 + Len(s)
       /\ \A i \in 1..1 + Len(s) : b[i] = IF i <= 1 THEN one[i] ELSE rest[i - 1]
  <2>1. /\ one \o rest \in Seq(Line) /\ Len(one \o rest) = Len(one) + Len(rest)
        /\ \A i \in 1..Len(one) + Len(rest) :
              (one \o rest)[i] = IF i <= Len(one) THEN one[i] ELSE rest[i - Len(one)]
    BY <1>6, <1>7, ConcatProperties
  <2> QED
    BY <1>6, <1>7, <1>9, <2>1
<1>11. DOMAIN b = 1..1 + Len(s)
  BY <1>10, LenProperties
<1>12. b[1] = Put(survivor, f, "live")
  BY <1>3, <1>7, <1>10
<1>13. \A i \in 1..1 + Len(s) : i # 1 => i - 1 \in 1..Len(s) /\ b[i] = PutBack(s[i - 1], "superseded")
  <2> TAKE i \in 1..1 + Len(s)
  <2> HAVE i # 1
  <2>1. i - 1 \in 1..Len(s) /\ ~(i <= 1)
    BY <1>3
  <2> QED
    BY <1>8, <1>10, <2>1
<1>14. \A i \in 1..Len(b) : Fresh(b[i]) \/ Back(b[i])
  <2> TAKE i \in 1..Len(b)
  <2>1. CASE i = 1
    BY <1>12, <2>1 DEF Fresh
  <2>2. CASE i # 1
    <3>1. s[i - 1] \in Clones /\ b[i] = PutBack(s[i - 1], "superseded")
      BY <1>3, <1>10, <1>13, <2>2
    <3> QED
      BY <3>1 DEF Back
  <2> QED
    BY <2>1, <2>2
<1>15. ASSUME Clones \subseteq used PROVE Once(b)
  <2> SUFFICES ASSUME NEW i \in 1..1 + Len(s), NEW j \in 1..1 + Len(s), b[i].id = b[j].id
               PROVE  i = j
    BY <1>11 DEF Once
  <2>1. b[1].id = survivor /\ survivor \notin Clones
    BY <1>7, <1>12, <1>15
  <2>2. \A k \in 1..1 + Len(s) : k # 1 => b[k].id = s[k - 1] /\ s[k - 1] \in Clones /\ k - 1 \in 1..Len(s)
    BY <1>3, <1>4, <1>13
  <2>3. CASE i = 1 \/ j = 1
    BY <2>1, <2>2, <2>3
  <2>4. CASE i # 1 /\ j # 1
    <3>1. i - 1 = j - 1
      BY <1>3, <2>2, <2>4
    <3> QED
      BY <3>1, <1>3
  <2> QED
    BY <2>3, <2>4
<1> QED
  BY <1>10, <1>14, <1>15 DEF Spoken

\* One line is about one memory, and two about two if their ids differ.
LEMMA OneOrTwo ==
    ASSUME NEW x \in Line
    PROVE  /\ <<x>> \in Seq(Line) /\ Len(<<x>>) = 1 /\ <<x>>[1] = x /\ Once(<<x>>)
           /\ \A y \in Line :
                /\ <<x, y>> \in Seq(Line) /\ Len(<<x, y>>) = 2
                /\ <<x, y>>[1] = x /\ <<x, y>>[2] = y
                /\ x.id # y.id => Once(<<x, y>>)
<1>1. Once(<<x>>)
  <2> DEFINE b == <<x>>
  <2>1. DOMAIN b = {1}
    OBVIOUS
  <2> HIDE DEF b
  <2>2. Once(b)
    BY <2>1 DEF Once
  <2> QED
    BY <2>2 DEF b
<1>2. ASSUME NEW y \in Line, x.id # y.id
      PROVE  Once(<<x, y>>)
  <2> DEFINE b == <<x, y>>
  <2>1. DOMAIN b = {1, 2} /\ b[1] = x /\ b[2] = y
    OBVIOUS
  <2> HIDE DEF b
  <2>2. Once(b)
    BY <1>2, <2>1 DEF Once
  <2> QED
    BY <2>2 DEF b
<1> QED
  BY <1>1, <1>2

\* A distillation writes a clone put back, and perhaps a new memory.
LEMMA DistilIs ==
    ASSUME dream.read \in Memories, NEW b \in DistilBatches
    PROVE  /\ Spoken(b) /\ \A i \in 1..Len(b) : Fresh(b[i]) \/ Back(b[i])
<1>1. \/ \E id \in Clones : b = <<PutBack(id, "live")>>
      \/ \E id \in Clones, new \in Ids \ used, f \in Facts :
            b = <<PutBack(id, "live"), Put(new, f, "live")>>
  BY DEF DistilBatches
<1>2. ASSUME NEW id \in Clones, b = <<PutBack(id, "live")>>
      PROVE  /\ Spoken(b) /\ \A i \in 1..Len(b) : Fresh(b[i]) \/ Back(b[i])
  <2>1. PutBack(id, "live") \in Line
    BY PutBackIsALine DEF States
  <2>2. b \in Seq(Line) /\ Len(b) = 1 /\ b[1] = PutBack(id, "live") /\ Once(b)
    BY <1>2, <2>1, OneOrTwo
  <2>3. Back(b[1])
    BY <2>2 DEF Back
  <2> QED
    BY <2>2, <2>3 DEF Spoken
<1>3. ASSUME NEW id \in Clones, NEW new \in Ids \ used, NEW f \in Facts,
             b = <<PutBack(id, "live"), Put(new, f, "live")>>
      PROVE  /\ Spoken(b) /\ \A i \in 1..Len(b) : Fresh(b[i]) \/ Back(b[i])
  <2>1. PutBack(id, "live") \in Line /\ PutBack(id, "live").id = id
    BY PutBackIsALine DEF States
  <2>2. Put(new, f, "live") \in Line /\ Put(new, f, "live").id = new
    BY PutIsALine DEF States
  <2>3. /\ b \in Seq(Line) /\ Len(b) = 2 /\ b[1] = PutBack(id, "live") /\ b[2] = Put(new, f, "live")
        /\ id # new => Once(b)
    BY <1>3, <2>1, <2>2, OneOrTwo
  <2>4. Back(b[1]) /\ Fresh(b[2])
    BY <2>3 DEF Back, Fresh
  <2>5. \A i \in 1..2 : i = 1 \/ i = 2
    OBVIOUS
  <2> QED
    BY <2>3, <2>4, <2>5 DEF Spoken
<1> QED
  BY <1>1, <1>2, <1>3

\* A verdict writes one clone put back.
LEMMA AdjudicateIs ==
    ASSUME dream.read \in Memories, NEW b \in AdjudicateBatches
    PROVE  /\ Spoken(b) /\ \A i \in 1..Len(b) : Fresh(b[i]) \/ Back(b[i])
<1>1. PICK id \in Clones, state \in {"superseded", "live"} : b = <<PutBack(id, state)>>
  <2>1. Cardinality(Clones) < 2 => AdjudicateBatches = {}
    BY DEF AdjudicateBatches
  <2> QED
    BY <2>1 DEF AdjudicateBatches
<1>2. PutBack(id, state) \in Line
  BY PutBackIsALine DEF States
<1>3. b \in Seq(Line) /\ Len(b) = 1 /\ b[1] = PutBack(id, state) /\ Once(b)
  BY <1>1, <1>2, OneOrTwo
<1>4. Back(b[1])
  BY <1>3 DEF Back
<1> QED
  BY <1>3, <1>4 DEF Spoken

\* What fades is archived, put back as it was, or purged for good.
LEMMA FadingIs ==
    ASSUME dream.read \in Memories, NEW id \in Clones, NEW e \in Fading(id)
    PROVE  /\ e \in Line /\ e.id = id /\ id \in Ids
           /\ \/ dream.read[id].state = "live" /\ e = Archive(id)
              \/ dream.read[id].state = "live" /\ e = PutBack(id, "live")
              \/ dream.read[id].state = "archived" /\ e = Purge(id)
<1>1. id \in Ids /\ PutBack(id, "live") \in Line /\ PutBack(id, "live").id = id
  BY PutBackIsALine DEF States
<1>2. \/ dream.read[id].state = "live" /\ e = Archive(id)
      \/ dream.read[id].state = "live" /\ e = PutBack(id, "live")
      \/ dream.read[id].state = "archived" /\ e = Purge(id)
  BY DEF Fading
<1> QED
  BY <1>1, <1>2, OtherLines

\* The last stage writes at most one line for each clone.
LEMMA DecayIs ==
    ASSUME dream.read \in Memories, NEW b \in DecayBatches
    PROVE  /\ Spoken(b) /\ \A i \in 1..Len(b) : Faded(b[i])
<1>1. PICK s \in UNION {Orders(S) : S \in SUBSET Clones} :
        /\ b \in [DOMAIN s -> UNION {Fading(id) : id \in Clones}]
        /\ \A i \in DOMAIN s : b[i] \in Fading(s[i])
  BY DEF DecayBatches
<1>2. PICK S \in SUBSET Clones : s \in Orders(S)
  OBVIOUS
<1>3. S \subseteq Ids
  BY DEF Clones
<1>4. /\ Len(s) \in Nat /\ DOMAIN s = 1..Len(s)
      /\ \A i, j \in 1..Len(s) : s[i] = s[j] => i = j
      /\ \A i \in 1..Len(s) : s[i] \in Clones
  BY <1>2, <1>3, OrderIs, ElementOfSeq
<1>5. \A i \in 1..Len(s) : b[i] \in Line /\ b[i].id = s[i] /\ Faded(b[i])
  BY <1>1, <1>4, FadingIs DEF Faded
<1>6. b \in [1..Len(s) -> Line]
  BY <1>1, <1>4, <1>5
<1>7. b \in Seq(Line) /\ Len(b) = Len(s) /\ DOMAIN b = 1..Len(s)
  BY <1>4, <1>6
<1>8. Once(b)
  BY <1>4, <1>5, <1>7 DEF Once
<1> QED
  BY <1>5, <1>7, <1>8 DEF Spoken

\* The first lines of a batch are one.
LEMMA PrefixIs ==
    ASSUME NEW b, Spoken(b), NEW n \in 1..(Len(b) - 1)
    PROVE  LET p == SubSeq(b, 1, n) IN
           /\ Spoken(p) /\ Len(p) = n /\ \A i \in 1..Len(p) : i \in 1..Len(b) /\ p[i] = b[i]
<1> DEFINE p == SubSeq(b, 1, n)
<1>1. b \in Seq(Line) /\ Len(b) \in Nat /\ DOMAIN b = 1..Len(b)
  BY LenProperties DEF Spoken
<1>2. \A i \in 1..n : i \in 1..Len(b) /\ b[i] \in Line
  BY <1>1, ElementOfSeq
<1>3. /\ p \in Seq(Line) /\ Len(p) = n
      /\ \A i \in 1..n : p[i] = b[i]
  <2>1. /\ p \in Seq(Line) /\ Len(p) = IF 1 <= n THEN n - 1 + 1 ELSE 0
        /\ \A i \in 1..n - 1 + 1 : p[i] = b[1 + i - 1]
    BY <1>1, <1>2, SubSeqProperties
  <2> HIDE DEF p
  <2>2. n \in Nat /\ 1 <= n
    BY <1>1
  <2>3. n - 1 + 1 = n /\ \A i \in 1..n : 1 + i - 1 = i
    BY <2>2
  <2> QED
    BY <2>1, <2>2, <2>3
<1> HIDE DEF p
<1>4. DOMAIN p = 1..n
  BY <1>3, LenProperties
<1>5. Once(b) => Once(p)
  BY <1>1, <1>2, <1>3, <1>4 DEF Once
<1> QED
  BY <1>2, <1>3, <1>5 DEF Spoken, p

-----------------------------------------------------------------------------
(* The store is well formed, whatever the switches.                        *)

\* The files: lines the code writes, and a line to be torn where one is open.
FilesOk ==
    /\ snap \in Memories
    /\ wal \in Seq(Line) /\ Len(wal) <= MaxEvents
    /\ open \in BOOLEAN /\ (open => wal # <<>>)

\* The indexes: each has a sound hash table.
RamOk ==
    /\ index \in [Handles -> Indexes]
    /\ \A h \in Handles : HashesLead(index[h])
    /\ resident \in 0..MaxLoads /\ loads \in 0..MaxLoads

\* The dream: a handle while it is not awake.
DreamOk ==
    /\ dream \in [pc : {"awake", "asleep", "thinking", "decaying", "decayed",
                        "folded", "written"},
                  handle : 0..MaxLoads, read : Memories]
    /\ dream.pc # "awake" => dream.handle # 0

\* The turns, the history and the counters.
HoldsOk == holds \in [Turns -> 0..MaxLoads]
CountsOk ==
    /\ used \subseteq Ids /\ told \subseteq Ids /\ removed \subseteq Ids
    /\ dreams \in 0..MaxDreams /\ crashes \in 0..MaxCrashes /\ torn \in 0..MaxTorn

StoreInv == FilesOk /\ RamOk /\ DreamOk /\ HoldsOk /\ CountsOk

\* The invariant implies the type invariant.
LEMMA StoreIsTyped == StoreInv => TypeOK
<1> SUFFICES ASSUME StoreInv PROVE TypeOK
  OBVIOUS
<1>1. Line \subseteq Event
  BY DEF Line
<1>2. wal \in Seq(Event)
  BY <1>1, SeqMonotonic DEF StoreInv, FilesOk
<1> QED
  BY <1>2 DEF TypeOK, StoreInv, FilesOk, RamOk, DreamOk, HoldsOk, CountsOk, Indexes

\* An index with nothing in it is sound.
LEMMA EmptyIsOk == Nothing \in Memories /\ Empty \in Indexes /\ HashesLead(Empty) /\ Empty.mems = Nothing
<1>1. Nothing \in Memories
  BY DEF Nothing, Memories
<1>2. [f \in Facts |-> None] \in [Facts -> Ids \cup {None}]
  OBVIOUS
<1> QED
  BY <1>1, <1>2 DEF Empty, Indexes, HashesLead

\* The invariant holds initially.
LEMMA StoreStarts == Init => StoreInv
<1> SUFFICES ASSUME Init PROVE StoreInv
  OBVIOUS
<1> USE BoundsAreNumbers, EmptyIsOk DEF Init
<1>1. FilesOk
  <2>1. <<>> \in Seq(Line) /\ Len(<<>>) = 0
    OBVIOUS
  <2>2. wal \in Seq(Line) /\ Len(wal) <= MaxEvents
    BY <2>1
  <2>3. open \in BOOLEAN /\ (open => wal # <<>>)
    BY Zenon
  <2> QED
    BY <2>2, <2>3, Zenon DEF FilesOk
<1>2. RamOk
  BY DEF RamOk
<1>3. DreamOk
  BY DEF DreamOk
<1>4. HoldsOk /\ CountsOk
  BY DEF HoldsOk, CountsOk
<1> QED
  BY <1>1, <1>2, <1>3, <1>4 DEF StoreInv

\* What is on record, in a store that is typed.
LEMMA RecordIsTyped ==
    ASSUME StoreInv
    PROVE  Recovered(snap, wal) \in Memories
  BY RecoveredTypes DEF StoreInv, FilesOk

\* Appending gives a log of lines, empty only if nothing was or is in it.
LEMMA AppendIs ==
    ASSUME StoreInv, NEW b \in Seq(Line), append(b)
    PROVE  /\ wal' \in Seq(Line) /\ Len(wal') <= MaxEvents
           /\ wal' = <<>> => b = <<>> /\ wal = <<>>
           /\ TornIsLast => wal' = wal \o b
<1>1. /\ wal \in Seq(Line) /\ (open => wal # <<>>)
      /\ Len(wal) + Len(b) <= MaxEvents /\ wal' = Lines(b)
      /\ Len(wal) \in Nat /\ Len(b) \in Nat /\ MaxEvents \in Nat
  BY BoundsAreNumbers DEF StoreInv, FilesOk, append
<1>2. CASE Glues(b)
  <2>1. b # <<>> /\ wal # <<>> /\ wal' = [wal EXCEPT ![Len(wal)] = Junk] \o Tail(b)
    BY <1>1, <1>2 DEF Glues, Lines
  <2> DEFINE cut == [wal EXCEPT ![Len(wal)] = Junk]
  <2>2. Len(wal) \in 1..Len(wal)
    BY <1>1, <2>1, EmptySeq
  <2>3. cut \in Seq(Line) /\ Len(cut) = Len(wal)
    BY <1>1, <2>2, ExceptSeq, OtherLines
  <2>4. Tail(b) \in Seq(Line) /\ Len(Tail(b)) = Len(b) - 1
    BY <2>1, HeadTailProperties
  <2> HIDE DEF cut
  <2>5. cut \o Tail(b) \in Seq(Line) /\ Len(cut \o Tail(b)) = Len(cut) + Len(Tail(b))
    BY <2>3, <2>4, ConcatProperties
  <2>6. wal' \in Seq(Line) /\ Len(wal') = Len(wal) + Len(b) - 1
    BY <1>1, <2>1, <2>3, <2>4, <2>5 DEF cut
  <2>7. wal' # <<>>
    <3>1. Len(b) >= 1
      BY <1>1, <2>1, EmptySeq
    <3> QED
      BY <1>1, <2>2, <2>6, <3>1
  <2> QED
    BY <1>1, <1>2, <2>6, <2>7 DEF append
<1>3. CASE ~Glues(b)
  <2>1. wal' = wal \o b
    BY <1>1, <1>3 DEF Lines
  <2>2. wal' \in Seq(Line) /\ Len(wal') = Len(wal) + Len(b)
    BY <1>1, <2>1, ConcatProperties
  <2>3. wal' = <<>> => b = <<>> /\ wal = <<>>
    <3>1. wal' = <<>> => Len(wal') = 0
      OBVIOUS
    <3>2. wal' = <<>> => Len(b) = 0 /\ Len(wal) = 0
      BY <1>1, <2>2, <3>1
    <3> QED
      BY <1>1, <3>2, EmptySeq
  <2> QED
    BY <1>1, <2>1, <2>2, <2>3
<1> QED
  BY <1>2, <1>3

\* Appending whole lines keeps the files sound.
LEMMA WholeKeepsFiles ==
    ASSUME StoreInv, NEW b \in Seq(Line), append_whole(b), UNCHANGED snap
    PROVE  FilesOk'
<1>1. append(b) /\ open' = (open /\ b = <<>>)
  BY DEF append_whole
<1>2. /\ wal' \in Seq(Line) /\ Len(wal') <= MaxEvents
      /\ wal' = <<>> => b = <<>> /\ wal = <<>>
  BY <1>1, AppendIs
<1>3. open' => wal' # <<>>
  BY <1>1, <1>2 DEF StoreInv, FilesOk
<1> QED
  BY <1>1, <1>2, <1>3 DEF StoreInv, FilesOk

\* An index built from a snapshot, in whatever order, is sound.
LEMMA SnapshotIsSound ==
    ASSUME NEW s \in Memories, NEW ix \in FromSnapshot(s)
    PROVE  ix \in Indexes /\ HashesLead(ix) /\ ix.mems = s
<1>1. PICK hash \in [Facts -> Ids \cup {None}] :
        /\ ix = [mems |-> s, byHash |-> hash]
        /\ \A f \in Facts :
            LET holders == {id \in Ids : s[id] # None /\ s[id].fact = f}
            IN hash[f] \in (IF holders = {} THEN {None} ELSE holders)
  BY DEF FromSnapshot
<1>2. ix.mems = s /\ ix.byHash = hash
  BY <1>1
<1>3. \A f \in Facts : hash[f] # None => s[hash[f]] # None /\ s[hash[f]].fact = f
  BY <1>1
<1> QED
  BY <1>1, <1>2, <1>3 DEF Indexes, HashesLead

\* Getting a handle, by a load too, keeps files and indexes sound.
LEMMA HandleKeeps ==
    ASSUME StoreInv, NEW h \in Handles, handle_for(h)
    PROVE  FilesOk' /\ RamOk' /\ h \in 0..MaxLoads /\ h # 0
<1>0. h \in 0..MaxLoads /\ h # 0
  BY BoundsAreNumbers DEF Handles
<1>1. CASE UNCHANGED <<disk, ram>>
  BY <1>0, <1>1 DEF StoreInv, FilesOk, RamOk, disk, ram
<1>2. CASE Load(h)
  <2>1. PICK ix \in FromSnapshot(snap) : index' = [index EXCEPT ![h] = Replayed(ix, wal)]
    BY <1>2 DEF Load
  <2>2. snap \in Memories /\ wal \in Seq(Line)
    BY DEF StoreInv, FilesOk
  <2>3. ix \in Indexes /\ HashesLead(ix)
    BY <2>1, <2>2, SnapshotIsSound
  <2>4. /\ Replayed(ix, wal) \in Indexes /\ HashesLead(Replayed(ix, wal))
    BY <2>2, <2>3, ReplayIs
  <2>5. RamOk'
    <3>1. index' \in [Handles -> Indexes] /\ \A g \in Handles : HashesLead(index'[g])
      BY <2>1, <2>4 DEF StoreInv, RamOk
    <3>2. resident' = h /\ loads' = h
      BY <1>2 DEF Load
    <3> QED
      BY <1>0, <3>1, <3>2 DEF RamOk
  <2>6. FilesOk'
    <3>1. CASE replayed >= CompactAfter
      <4>1. snap' = index'[h].mems /\ wal' = <<>> /\ open' = FALSE
        BY <1>2, <3>1 DEF Load
      <4>2. snap' \in Memories
        BY <2>5, <4>1 DEF RamOk, Indexes
      <4> QED
        <5>1. <<>> \in Seq(Line) /\ Len(<<>>) = 0
          OBVIOUS
        <5>2. wal' \in Seq(Line) /\ Len(wal') <= MaxEvents
          BY <4>1, <5>1, BoundsAreNumbers
        <5>3. open' \in BOOLEAN /\ (open' => wal' # <<>>)
          BY <4>1, Zenon
        <5> QED
          BY <4>2, <5>2, <5>3, Zenon DEF FilesOk
    <3>2. CASE ~(replayed >= CompactAfter)
      <4>1. UNCHANGED <<snap, wal, open>>
        BY <1>2, <3>2 DEF Load, disk
      <4> QED
        BY <4>1 DEF StoreInv, FilesOk
    <3> QED
      BY <3>1, <3>2
  <2> QED
    BY <1>0, <2>5, <2>6
<1> QED
  BY <1>1, <1>2 DEF handle_for

\* Applying a line keeps every index sound.
LEMMA AppliedKeeps ==
    ASSUME StoreInv, NEW h \in Handles, NEW e \in Line, Applied(h, e), UNCHANGED <<resident, loads>>
    PROVE  RamOk'
<1>1. index[h] \in Indexes /\ HashesLead(index[h])
  BY DEF StoreInv, RamOk
<1>2. apply(index[h], e) \in Indexes /\ HashesLead(apply(index[h], e))
  BY <1>1, ApplyIs
<1>3. index' = [index EXCEPT ![h] = apply(index[h], e)]
  BY DEF Applied
<1> QED
  BY <1>2, <1>3 DEF StoreInv, RamOk

\* A process that starts again has empty indexes and no handle.
LEMMA RestartKeeps ==
    ASSUME StoreInv, Restarted
    PROVE  RamOk' /\ DreamOk' /\ HoldsOk' /\ dreams' = dreams /\ crashes' \in 0..MaxCrashes
<1>1. RamOk'
  BY EmptyIsOk, BoundsAreNumbers DEF Restarted, RamOk
<1>2. DreamOk'
  BY EmptyIsOk, BoundsAreNumbers DEF Restarted, DreamOk
<1>3. HoldsOk'
  BY BoundsAreNumbers DEF Restarted, HoldsOk
<1>4. dreams' = dreams /\ crashes' \in 0..MaxCrashes
  BY BoundsAreNumbers DEF StoreInv, CountsOk, Restarted
<1> QED
  BY <1>1, <1>2, <1>3, <1>4

\* What a commit of the dream writes is lines, and is about ids.
LEMMA CommitKeeps ==
    ASSUME StoreInv, NEW b \in Seq(Line), Commit(b), dream.pc # "awake",
           UNCHANGED <<snap, resident, loads>>
    PROVE  /\ FilesOk' /\ RamOk'
           /\ used' \subseteq Ids /\ told' \subseteq Ids /\ removed' \subseteq Ids
<1>1. append_whole(b) /\ index' = [index EXCEPT ![dream.handle] = Replayed(@, b)]
  BY DEF Commit, Recorded
<1>2. dream.handle \in Handles
  BY BoundsAreNumbers DEF StoreInv, DreamOk, Handles
<1>3. index[dream.handle] \in Indexes /\ HashesLead(index[dream.handle])
  BY <1>2 DEF StoreInv, RamOk
<1>4. Replayed(index[dream.handle], b) \in Indexes /\ HashesLead(Replayed(index[dream.handle], b))
  BY <1>3, ReplayIs
<1>5. RamOk'
  BY <1>1, <1>2, <1>4 DEF StoreInv, RamOk
<1>6. FilesOk'
  BY <1>1, WholeKeepsFiles
<1>7. \A i \in DOMAIN b : b[i] \in Line /\ (b[i].op = "put" \/ b[i].op = "purge" => b[i].id \in Ids)
  BY LineTypes, ElementOfSeq, LenProperties
<1>8. Written(b) \subseteq Ids /\ Purged(b) \subseteq Ids
  BY <1>7 DEF Written, Purged
<1> QED
  BY <1>5, <1>6, <1>8 DEF StoreInv, CountsOk, Commit, Recorded

\* The handles in use are handles.
LEMMA TurnHolds ==
    ASSUME StoreInv, NEW t \in Turns
    PROVE  /\ holds[t] \in 0..MaxLoads
           /\ holds[t] # 0 => holds[t] \in Handles
           /\ dream.pc # "awake" => dream.handle \in Handles
  BY BoundsAreNumbers DEF StoreInv, HoldsOk, DreamOk, Handles

\* The steps of the turns keep the invariant: taking a handle,
LEMMA TakeHandleKeeps ==
    ASSUME StoreInv, NEW t \in Turns, TakeHandle(t)
    PROVE  StoreInv'
<1>1. PICK h \in Handles : handle_for(h) /\ holds' = [holds EXCEPT ![t] = h]
  BY DEF TakeHandle
<1>2. FilesOk' /\ RamOk' /\ h \in 0..MaxLoads
  BY <1>1, HandleKeeps
<1>3. HoldsOk'
  BY <1>1, <1>2 DEF StoreInv, HoldsOk
<1>4. DreamOk' /\ CountsOk'
  BY DEF TakeHandle, StoreInv, DreamOk, CountsOk, history, counts
<1> QED
  BY <1>2, <1>3, <1>4 DEF StoreInv

\* leaving RAM,
LEMMA EvictKeeps ==
    ASSUME StoreInv, Evict
    PROVE  StoreInv'
<1>1. RamOk'
  <2>1. index' = index \/ index' = [index EXCEPT ![resident] = Empty]
    BY DEF Evict
  <2>2. index \in [Handles -> Indexes] /\ \A h \in Handles : HashesLead(index[h])
    BY DEF StoreInv, RamOk
  <2>3. index' \in [Handles -> Indexes] /\ \A h \in Handles : HashesLead(index'[h])
    BY <2>1, <2>2, EmptyIsOk
  <2>4. resident' = 0 /\ loads' = loads
    BY DEF Evict
  <2> QED
    BY <2>3, <2>4, BoundsAreNumbers DEF StoreInv, RamOk
<1>2. FilesOk' /\ HoldsOk' /\ DreamOk' /\ CountsOk'
  BY DEF Evict, StoreInv, FilesOk, HoldsOk, DreamOk, CountsOk, history, counts, disk
<1> QED
  BY <1>1, <1>2 DEF StoreInv

\* remembering,
LEMMA RememberKeeps ==
    ASSUME StoreInv, NEW t \in Turns, NEW f \in Facts, Remember(t, f)
    PROVE  StoreInv'
<1>1. PICK id \in Ids :
        /\ append_whole(<<Put(id, f, "live")>>)
        /\ Applied(holds[t], Put(id, f, "live"))
        /\ used' = used \cup {id} /\ told' = told \cup {id}
  BY DEF Remember
<1>2. holds[t] \in Handles
  BY TurnHolds DEF Remember
<1>3. Put(id, f, "live") \in Line /\ <<Put(id, f, "live")>> \in Seq(Line)
  BY PutIsALine, OneOrTwo DEF States
<1>4. FilesOk'
  BY <1>1, <1>3, WholeKeepsFiles DEF Remember
<1>5. RamOk'
  BY <1>1, <1>2, <1>3, AppliedKeeps DEF Remember
<1>6. HoldsOk'
  BY BoundsAreNumbers DEF Remember, Release, StoreInv, HoldsOk
<1>7. DreamOk' /\ CountsOk'
  BY <1>1 DEF Remember, StoreInv, DreamOk, CountsOk, counts
<1> QED
  BY <1>4, <1>5, <1>6, <1>7 DEF StoreInv

\* and forgetting.
LEMMA ForgetKeeps ==
    ASSUME StoreInv, NEW t \in Turns, NEW id \in Ids, Forget(t, id)
    PROVE  StoreInv'
<1>1. /\ append_whole(<<Purge(id)>>) /\ Applied(holds[t], Purge(id))
      /\ told' = told \ {id} /\ removed' = removed \cup {id} /\ used' = used
  BY DEF Forget
<1>2. holds[t] \in Handles
  BY TurnHolds DEF Forget
<1>3. Purge(id) \in Line /\ <<Purge(id)>> \in Seq(Line)
  BY OtherLines, OneOrTwo
<1>4. FilesOk'
  BY <1>1, <1>3, WholeKeepsFiles DEF Forget
<1>5. RamOk'
  BY <1>1, <1>2, <1>3, AppliedKeeps DEF Forget
<1>6. HoldsOk'
  BY BoundsAreNumbers DEF Forget, Release, StoreInv, HoldsOk
<1>7. DreamOk' /\ CountsOk'
  BY <1>1 DEF Forget, StoreInv, DreamOk, CountsOk, counts
<1> QED
  BY <1>4, <1>5, <1>6, <1>7 DEF StoreInv

\* The dream keeps it when it begins.
LEMMA SleepKeeps ==
    ASSUME StoreInv, Sleep
    PROVE  StoreInv'
<1>1. PICK h \in Handles :
        handle_for(h) /\ dream' = [pc |-> "asleep", handle |-> h, read |-> Nothing]
  BY DEF Sleep
<1>2. FilesOk' /\ RamOk' /\ h \in 0..MaxLoads /\ h # 0
  BY <1>1, HandleKeeps
<1>3. DreamOk'
  BY <1>1, <1>2, EmptyIsOk DEF DreamOk
<1>4. HoldsOk' /\ CountsOk'
  BY BoundsAreNumbers DEF Sleep, StoreInv, HoldsOk, CountsOk, history
<1> QED
  BY <1>2, <1>3, <1>4 DEF StoreInv

\* A step of the dream that writes a batch.
LEMMA CommittingKeeps ==
    ASSUME StoreInv, NEW b \in Seq(Line), Commit(b), dream.pc # "awake",
           UNCHANGED <<snap, resident, loads, holds, counts>>, DreamOk'
    PROVE  StoreInv'
<1>1. /\ FilesOk' /\ RamOk'
      /\ used' \subseteq Ids /\ told' \subseteq Ids /\ removed' \subseteq Ids
  BY CommitKeeps
<1>2. HoldsOk' /\ CountsOk'
  BY <1>1 DEF StoreInv, HoldsOk, CountsOk, counts
<1> QED
  BY <1>1, <1>2 DEF StoreInv

\* The dream has a handle, whatever it is doing.
LEMMA DreamMoves ==
    ASSUME StoreInv
    PROVE  /\ dream.handle \in 0..MaxLoads /\ dream.read \in Memories
           /\ dream.pc # "awake" => dream.handle # 0
           /\ \A pc \in {"asleep", "thinking", "decaying", "decayed", "folded", "written"},
                 r \in Memories :
                dream.pc # "awake" /\ dream' = [dream EXCEPT !.pc = pc, !.read = r] => DreamOk'
  BY DEF StoreInv, DreamOk

\* A step of the dream that writes nothing keeps the invariant.
LEMMA DreamTakesIn ==
    ASSUME StoreInv, UNCHANGED <<disk, ram, holds, history, counts>>, DreamOk'
    PROVE  StoreInv'
  BY DEF StoreInv, FilesOk, RamOk, HoldsOk, CountsOk, disk, ram, history, counts

\* The dream keeps the invariant: indexing a conversation,
LEMMA IndexKeeps ==
    ASSUME StoreInv, Index
    PROVE  StoreInv'
<1>1. PICK id \in Ids \ used, f \in Facts : Commit(<<Put(id, f, "live")>>)
  BY DEF Index
<1>2. <<Put(id, f, "live")>> \in Seq(Line)
  BY PutIsALine, OneOrTwo DEF States
<1>3. DreamOk' /\ dream.pc # "awake" /\ UNCHANGED <<snap, resident, loads, holds, counts>>
  BY DEF Index, StoreInv, DreamOk
<1> QED
  BY <1>1, <1>2, <1>3, CommittingKeeps

\* What the dream clones are memories.
LEMMA ReadsAreMemories ==
    ASSUME StoreInv, dream.pc # "awake", NEW S
    PROVE  /\ index[dream.handle].mems \in Memories
           /\ [id \in Ids |-> IF id \in S THEN index[dream.handle].mems[id] ELSE None] \in Memories
<1>1. index[dream.handle].mems \in Memories
  BY TurnHolds, BoundsAreNumbers DEF StoreInv, RamOk, DreamOk, Handles, Indexes
<1> QED
  BY <1>1 DEF Memories

\* reading what it puts to a model,
LEMMA ReadKeeps ==
    ASSUME StoreInv, Read
    PROVE  StoreInv'
<1>1. PICK S \in SUBSET {id \in Ids : live(index[dream.handle], id)} :
        dream' = [dream EXCEPT !.pc = "thinking",
                       !.read = [id \in Ids |->
                           IF id \in S THEN index[dream.handle].mems[id] ELSE None]]
  BY DEF Read
<1>2. dream.pc # "awake"
  BY DEF Read
<1>3. DreamOk'
  BY <1>1, <1>2, ReadsAreMemories, DreamMoves
<1> QED
  BY <1>3, DreamTakesIn DEF Read

\* reading all it decays or folds, or giving up what it had read,
LEMMA ReadAllKeeps ==
    ASSUME StoreInv, ReadAll \/ FoldLog \/ LeaveAlone
    PROVE  StoreInv'
<1>1. dream.pc # "awake" /\ UNCHANGED <<disk, ram, holds, history, counts>>
  BY DEF ReadAll, FoldLog, LeaveAlone
<1>2. \/ dream' = [dream EXCEPT !.pc = "decaying", !.read = index[dream.handle].mems]
      \/ dream' = [dream EXCEPT !.pc = "folded", !.read = index[dream.handle].mems]
      \/ dream' = [dream EXCEPT !.pc = "asleep", !.read = Nothing]
  BY DEF ReadAll, FoldLog, LeaveAlone
<1>3. DreamOk'
  BY <1>1, <1>2, ReadsAreMemories, DreamMoves, EmptyIsOk
<1> QED
  BY <1>1, <1>3, DreamTakesIn

\* merging a cluster,
LEMMA MergeKeeps ==
    ASSUME StoreInv, Merge
    PROVE  StoreInv'
<1>1. PICK b \in MergeBatches : Commit(b)
  BY DEF Merge
<1>2. dream.read \in Memories /\ dream.pc # "awake"
  BY DreamMoves DEF Merge
<1>3. b \in Seq(Line)
  BY <1>2, MergeIs DEF Spoken
<1>4. dream' = [dream EXCEPT !.pc = "asleep", !.read = Nothing]
  BY DEF Merge
<1>5. DreamOk'
  BY <1>2, <1>4, DreamMoves, EmptyIsOk
<1>6. UNCHANGED <<snap, resident, loads, holds, counts>>
  BY DEF Merge
<1> QED
  BY <1>1, <1>2, <1>3, <1>5, <1>6, CommittingKeeps

\* distilling a conversation,
LEMMA DistilKeeps ==
    ASSUME StoreInv, Distil
    PROVE  StoreInv'
<1>1. PICK b \in DistilBatches : Commit(b)
  BY DEF Distil
<1>2. dream.read \in Memories /\ dream.pc # "awake"
  BY DreamMoves DEF Distil
<1>3. b \in Seq(Line)
  BY <1>2, DistilIs DEF Spoken
<1>4. dream' = [dream EXCEPT !.pc = "asleep", !.read = Nothing]
  BY DEF Distil
<1>5. DreamOk'
  BY <1>2, <1>4, DreamMoves, EmptyIsOk
<1>6. UNCHANGED <<snap, resident, loads, holds, counts>>
  BY DEF Distil
<1> QED
  BY <1>1, <1>2, <1>3, <1>5, <1>6, CommittingKeeps

\* settling a contradiction,
LEMMA AdjudicateKeeps ==
    ASSUME StoreInv, Adjudicate
    PROVE  StoreInv'
<1>1. PICK b \in AdjudicateBatches : Commit(b)
  BY DEF Adjudicate
<1>2. dream.read \in Memories /\ dream.pc # "awake"
  BY DreamMoves DEF Adjudicate
<1>3. b \in Seq(Line)
  BY <1>2, AdjudicateIs DEF Spoken
<1>4. dream' = [dream EXCEPT !.pc = "asleep", !.read = Nothing]
  BY DEF Adjudicate
<1>5. DreamOk'
  BY <1>2, <1>4, DreamMoves, EmptyIsOk
<1>6. UNCHANGED <<snap, resident, loads, holds, counts>>
  BY DEF Adjudicate
<1> QED
  BY <1>1, <1>2, <1>3, <1>5, <1>6, CommittingKeeps

\* letting memories fade,
LEMMA DecayKeeps ==
    ASSUME StoreInv, Decay
    PROVE  StoreInv'
<1>1. PICK b \in DecayBatches : Commit(b)
  BY DEF Decay
<1>2. dream.read \in Memories /\ dream.pc # "awake"
  BY DreamMoves DEF Decay
<1>3. b \in Seq(Line)
  BY <1>2, DecayIs DEF Spoken
<1>4. dream' = [dream EXCEPT !.pc = "decayed", !.read = Nothing]
  BY DEF Decay
<1>5. DreamOk'
  BY <1>2, <1>4, DreamMoves, EmptyIsOk
<1>6. UNCHANGED <<snap, resident, loads, holds, counts>>
  BY DEF Decay
<1> QED
  BY <1>1, <1>2, <1>3, <1>5, <1>6, CommittingKeeps

\* writing the snapshot,
LEMMA WriteSnapshotKeeps ==
    ASSUME StoreInv, WriteSnapshot
    PROVE  StoreInv'
<1>1. FilesOk'
  BY DEF WriteSnapshot, StoreInv, FilesOk, DreamOk
<1>2. DreamOk'
  BY DEF WriteSnapshot, StoreInv, DreamOk
<1>3. RamOk' /\ HoldsOk' /\ CountsOk'
  BY DEF WriteSnapshot, StoreInv, RamOk, HoldsOk, CountsOk, ram, history, counts
<1> QED
  BY <1>1, <1>2, <1>3 DEF StoreInv

\* A log that is cut is one, whatever the snapshot.
LEMMA CutIsALog ==
    ASSUME StoreInv, snap' \in Memories, wal' = <<>>, open' = FALSE
    PROVE  FilesOk'
<1>1. <<>> \in Seq(Line) /\ Len(<<>>) = 0
  OBVIOUS
<1>2. wal' \in Seq(Line) /\ Len(wal') <= MaxEvents
  BY <1>1, BoundsAreNumbers
<1>3. open' \in BOOLEAN /\ (open' => wal' # <<>>)
  BY Zenon
<1> QED
  BY <1>2, <1>3, Zenon DEF FilesOk

\* and cutting the log.
LEMMA TruncateKeeps ==
    ASSUME StoreInv, Truncate
    PROVE  StoreInv'
<1>1. FilesOk'
  <2>1. snap' \in Memories /\ wal' = <<>> /\ open' = FALSE
    BY Zenon DEF Truncate, StoreInv, FilesOk
  <2> QED
    BY <2>1, CutIsALog
<1>2. DreamOk'
  BY EmptyIsOk, BoundsAreNumbers DEF Truncate, DreamOk
<1>3. RamOk' /\ HoldsOk' /\ CountsOk'
  BY DEF Truncate, StoreInv, RamOk, HoldsOk, CountsOk, ram, history, counts
<1> QED
  BY <1>1, <1>2, <1>3 DEF StoreInv

\* A crash keeps the invariant: at rest or in a load,
LEMMA CrashKeeps ==
    ASSUME StoreInv, Crash \/ CrashInLoad
    PROVE  StoreInv'
<1>1. Restarted /\ UNCHANGED <<wal, open, history, torn>> /\ (snap' = snap \/ snap' = Recovered(snap, wal))
  BY DEF Crash, CrashInLoad, disk
<1>2. RamOk' /\ DreamOk' /\ HoldsOk' /\ dreams' = dreams /\ crashes' \in 0..MaxCrashes
  BY <1>1, RestartKeeps
<1>3. FilesOk'
  BY <1>1, RecordIsTyped DEF StoreInv, FilesOk
<1>4. CountsOk'
  BY <1>1, <1>2 DEF StoreInv, CountsOk, history
<1> QED
  BY <1>2, <1>3, <1>4 DEF StoreInv

\* The batches a crash may cut.
Cuttable == IF dream.pc = "decaying" THEN DecayBatches
            ELSE IF dream.pc = "thinking" THEN MergeBatches \cup DistilBatches
            ELSE {}

\* What a crash leaves of a batch is lines of that batch.
LEMMA CutBatch ==
    ASSUME StoreInv, CrashInBatch
    PROVE  \E b \in Cuttable : \E n \in 1..(Len(b) - 1) :
              LET p == SubSeq(b, 1, n) IN
              /\ Recorded(p) /\ Spoken(p) /\ Len(p) = n
              /\ \A i \in 1..Len(p) : i \in 1..Len(b) /\ p[i] = b[i]
              /\ dream.pc \in {"decaying", "thinking"}
              /\ \A i \in 1..Len(b) : IF dream.pc = "decaying" THEN Faded(b[i])
                                      ELSE Fresh(b[i]) \/ Back(b[i])
<1>1. PICK b \in Cuttable : \E n \in 1..(Len(b) - 1) : Recorded(SubSeq(b, 1, n))
  BY DEF CrashInBatch, Cuttable
<1>2. PICK n \in 1..(Len(b) - 1) : Recorded(SubSeq(b, 1, n))
  BY <1>1
<1>3. dream.read \in Memories
  BY DreamMoves
<1>4. /\ Spoken(b) /\ dream.pc \in {"decaying", "thinking"}
      /\ \A i \in 1..Len(b) : IF dream.pc = "decaying" THEN Faded(b[i])
                                      ELSE Fresh(b[i]) \/ Back(b[i])
  <2>1. CASE dream.pc = "decaying"
    BY <1>3, <2>1, DecayIs DEF Cuttable
  <2>2. CASE dream.pc = "thinking"
    <3>1. b \in MergeBatches \/ b \in DistilBatches
      BY <2>2 DEF Cuttable
    <3> QED
      BY <1>3, <2>2, <3>1, MergeIs, DistilIs
  <2> QED
    BY <2>1, <2>2 DEF Cuttable
<1> QED
  BY <1>2, <1>4, PrefixIs

\* between two lines of a batch,
LEMMA CrashInBatchKeeps ==
    ASSUME StoreInv, CrashInBatch
    PROVE  StoreInv'
<1>1. PICK b \in Cuttable : \E n \in 1..(Len(b) - 1) : LET p == SubSeq(b, 1, n) IN Recorded(p) /\ Spoken(p)
  BY CutBatch
<1>2. PICK p : Recorded(p) /\ Spoken(p)
  BY <1>1
<1>3. p \in Seq(Line) /\ append_whole(p)
  BY <1>2 DEF Recorded, Spoken
<1>4. FilesOk'
  BY <1>3, WholeKeepsFiles DEF CrashInBatch
<1>5. Restarted
  BY DEF CrashInBatch
<1>6. RamOk' /\ DreamOk' /\ HoldsOk' /\ dreams' = dreams /\ crashes' \in 0..MaxCrashes
  BY <1>5, RestartKeeps
<1>7. \A i \in DOMAIN p : p[i] \in Line /\ (p[i].op = "put" \/ p[i].op = "purge" => p[i].id \in Ids)
  BY <1>3, LineTypes, ElementOfSeq, LenProperties
<1>8. Written(p) \subseteq Ids /\ Purged(p) \subseteq Ids
  BY <1>7 DEF Written, Purged
<1>9. CountsOk'
  BY <1>2, <1>6, <1>8 DEF StoreInv, CountsOk, CrashInBatch, Recorded
<1> QED
  BY <1>4, <1>6, <1>9 DEF StoreInv

\* and in the middle of a line.
LEMMA CrashInLineKeeps ==
    ASSUME StoreInv, NEW t \in Turns, NEW f \in Facts, CrashInLine(t, f)
    PROVE  StoreInv'
<1>1. PICK id \in Ids : /\ \E e \in {Junk, Put(id, f, "live")} : append(<<e>>)
                        /\ used' = used \cup {id}
  BY DEF CrashInLine
<1>2. PICK e \in {Junk, Put(id, f, "live")} : append(<<e>>)
  BY <1>1
<1>3. e \in Line /\ <<e>> \in Seq(Line) /\ <<e>> # <<>>
  <2>1. e = Junk \/ e = Put(id, f, "live")
    OBVIOUS
  <2>2. "live" \in States
    BY DEF States
  <2>3. e \in Line
    <3>1. Put(id, f, "live") \in Line
      BY <2>2, PutIsALine
    <3>2. Junk \in Line
      BY OtherLines
    <3> QED
      BY <2>1, <3>1, <3>2
  <2> QED
    BY <2>3
<1>4. wal' \in Seq(Line) /\ Len(wal') <= MaxEvents /\ wal' # <<>>
  BY <1>2, <1>3, AppendIs
<1>5. FilesOk'
  <2>1. open' = TRUE /\ snap' = snap
    BY DEF CrashInLine
  <2> QED
    BY <1>4, <2>1 DEF StoreInv, FilesOk
<1>6. RamOk' /\ DreamOk' /\ HoldsOk' /\ dreams' = dreams /\ crashes' \in 0..MaxCrashes
  BY RestartKeeps DEF CrashInLine
<1>7. CountsOk'
  <2>1. torn' \in 0..MaxTorn
    BY BoundsAreNumbers DEF CrashInLine, StoreInv, CountsOk
  <2> QED
    BY <1>1, <1>6, <2>1 DEF StoreInv, CountsOk, CrashInLine
<1> QED
  BY <1>5, <1>6, <1>7 DEF StoreInv

\* Every step leaves the store typed.
LEMMA StoreStep ==
    ASSUME StoreInv, [Next]_vars
    PROVE  StoreInv'
<1>1. CASE TurnStep
  BY <1>1, TakeHandleKeeps, RememberKeeps, ForgetKeeps DEF TurnStep
<1>2. CASE DreamStep
  BY <1>2, SleepKeeps, IndexKeeps, ReadKeeps, ReadAllKeeps, MergeKeeps, DistilKeeps, AdjudicateKeeps,
     DecayKeeps, WriteSnapshotKeeps, TruncateKeeps DEF DreamStep
<1>3. CASE Evict
  BY <1>3, EvictKeeps
<1>4. CASE Dies
  BY <1>4, CrashKeeps, CrashInBatchKeeps, CrashInLineKeeps DEF Dies
<1>5. CASE UNCHANGED vars
  BY <1>5 DEF vars, disk, ram, history, counts, StoreInv, FilesOk, RamOk, DreamOk, HoldsOk, CountsOk
<1> QED
  BY <1>1, <1>2, <1>3, <1>4, <1>5 DEF Next

\* The files hold lines, every index has a sound hash table, and the dream has
\* a handle unless it is awake (StoreInv), for any switches.
THEOREM StoreAlways == Spec => []StoreInv
<1>1. Init => StoreInv
  BY StoreStarts
<1>2. StoreInv /\ [Next]_vars => StoreInv'
  BY StoreStep
<1> QED
  BY <1>1, <1>2, PTL DEF Spec

\* The type invariant of the store, for any switches: in particular every entry
\* of the hash table leads to a memory with that content (index.rs:126-138).
THEOREM StoreTypes == Spec => []TypeOK
  BY StoreAlways, StoreIsTyped, PTL

-----------------------------------------------------------------------------
(* The promise, where nobody takes the files from under the store.         *)

\* What the files say.
OnRecord == Recovered(snap, wal)

\* How the contract lets what is on record under one id change.
Evolves(id, s, r, gone, went) ==
    \/ r[id] = s[id] /\ (id \in went <=> id \in gone)
    \/ /\ s[id] = None /\ id \notin gone /\ id \notin went
       /\ r[id] # None /\ r[id].state = "live"
    \/ /\ s[id] # None /\ r[id] # None
       /\ r[id].fact = s[id].fact /\ s[id].state = "live" /\ r[id].state # "live"
       /\ id \in went <=> id \in gone
    \/ s[id] # None /\ r[id] = None /\ id \in went
    \/ /\ id \in gone /\ id \in went
       /\ s[id] = None /\ r[id] # None /\ r[id].state # "archived"

\* A step does to each memory what the contract lets it do.
KeepsPromise == \A id \in Ids : Evolves(id, OnRecord, OnRecord', removed, removed')

\* Every handle that is used is the one the registry gives out.
OneHandle ==
    /\ \A t \in Turns : holds[t] # 0 => holds[t] = resident
    /\ dream.handle # 0 => dream.handle = resident

\* The index behind it says what the files say.
RamIsRecord == resident # 0 => index[resident].mems = OnRecord

\* The dream folds what is on record, and then the snapshot is that.
FoldFits ==
    /\ dream.pc \in {"folded", "written"} => dream.read = OnRecord
    /\ dream.pc = "written" => snap = dream.read

\* What is on record, or was purged, has an id that was handed out.
KnownIds ==
    /\ \A id \in Ids : OnRecord[id] # None => id \in used
    /\ removed \subseteq used

\* What a turn was told is remembered is on record.
ToldStays == \A id \in told : OnRecord[id] # None

\* What the dream read, minutes ago, is still on record, or was removed since;
\* what it puts to a model was live.
ClonesFit ==
    /\ dream.pc \in {"thinking", "decaying"} =>
          \A id \in Clones : \/ OnRecord[id] = dream.read[id]
                             \/ OnRecord[id] = None /\ id \in removed
    /\ dream.pc = "thinking" => \A id \in Clones : dream.read[id].state = "live"

\* All of it: the invariant of a store at rest about its files.
MemInv == /\ StoreInv /\ OneHandle /\ RamIsRecord /\ FoldFits
          /\ KnownIds /\ ToldStays /\ ClonesFit

\* Where nobody takes the files from under the store: an agent in use stays in
\* RAM, no turn writes while the dream folds, nothing is appended to a torn line.
Quiet == ~EvictBusy /\ CompactAlone /\ TornIsLast

-----------------------------------------------------------------------------
\* A line that a turn or the dream may write.
FitLine(e) ==
    \/ Fresh(e)
    \/ /\ e.op = "put" /\ e.mem.state # "archived"
       /\ \/ /\ OnRecord[e.id] # None /\ OnRecord[e.id].fact = e.mem.fact
             /\ OnRecord[e.id].state = "live"
          \/ OnRecord[e.id] = None /\ e.id \in removed
    \/ e.op = "archive" /\ (OnRecord[e.id] = None \/ OnRecord[e.id].state = "live")
    \/ e.op = "purge" /\ (OnRecord[e.id] # None \/ e.id \in removed)

\* A batch of such lines, one for each memory.
Fits(b) == b \in Seq(Line) /\ Once(b) /\ \A i \in 1..Len(b) : FitLine(b[i])

\* A new memory is live and has an id that was never used.
LEMMA FreshIs ==
    ASSUME NEW e, Fresh(e)
    PROVE  /\ e \in Line /\ e.op = "put" /\ e.id \in Ids /\ e.id \notin used
           /\ e.mem \in Memory /\ e.mem.state = "live"
<1>1. PICK id \in Ids \ used, f \in Facts : e = Put(id, f, "live")
  BY DEF Fresh
<1>2. "live" \in States
  BY DEF States
<1>3. /\ Put(id, f, "live") \in Line /\ Put(id, f, "live").id = id
      /\ Put(id, f, "live").op = "put"
      /\ Put(id, f, "live").mem = [fact |-> f, state |-> "live"]
      /\ Put(id, f, "live").mem \in Memory
  BY <1>2, PutIsALine
<1> QED
  BY <1>1, <1>3

\* What one fitting line does to the memory it is about.
LEMMA LineEvolves ==
    ASSUME MemInv, NEW e \in Line, FitLine(e), NEW r, NEW went, NEW id \in Ids, e.id = id,
           r[id] = After(OnRecord[id], e),
           id \in went <=> id \in removed \/ e.op = "purge"
    PROVE  /\ Evolves(id, OnRecord, r, removed, went)
           /\ r[id] # None => e.op = "put" \/ OnRecord[id] # None
           /\ e.op = "put" => r[id] # None
           /\ OnRecord[id] # None /\ e.op # "purge" => r[id] # None
<1>1. OnRecord[id] \in Memory \cup {None}
  BY RecordIsTyped DEF MemInv, OnRecord, Memories
<1>2. CASE e.op = "put"
  <2>1. r[id] = e.mem /\ e.mem \in Memory /\ e.mem # None
    BY <1>2, LineTypes, NoneIsNoValue DEF After
  <2>2. id \in went <=> id \in removed
    BY <1>2
  <2>3. CASE Fresh(e)
    <3>1. id \notin used /\ e.mem.state = "live"
      BY <2>3, FreshIs
    <3>2. OnRecord[id] = None /\ id \notin removed
      BY <3>1 DEF MemInv, KnownIds
    <3> QED
      BY <1>2, <2>1, <2>2, <3>1, <3>2 DEF Evolves
  <2>4. CASE /\ OnRecord[id] # None /\ OnRecord[id].fact = e.mem.fact
             /\ OnRecord[id].state = "live"
    <3>1. CASE e.mem.state = "live"
      <4>1. r[id] = OnRecord[id]
        BY <1>1, <2>1, <2>4, <3>1 DEF Memory
      <4> QED
        BY <1>2, <2>1, <2>2, <4>1 DEF Evolves
    <3>2. CASE e.mem.state # "live"
      BY <1>2, <2>1, <2>2, <2>4, <3>2 DEF Evolves
    <3> QED
      BY <3>1, <3>2
  <2>5. CASE OnRecord[id] = None /\ id \in removed /\ e.mem.state # "archived"
    BY <1>2, <2>1, <2>2, <2>5 DEF Evolves
  <2> QED
    BY <1>2, <2>3, <2>4, <2>5 DEF FitLine
<1>3. CASE e.op = "archive"
  <2>1. /\ r[id] = IF OnRecord[id] = None THEN None ELSE [OnRecord[id] EXCEPT !.state = "archived"]
        /\ id \in went <=> id \in removed
    BY <1>3 DEF After
  <2>2. CASE OnRecord[id] = None
    BY <1>3, <2>1, <2>2 DEF Evolves
  <2>3. CASE OnRecord[id] # None
    <3>1. OnRecord[id].state = "live"
      BY <1>3, <2>3, FreshIs DEF FitLine
    <3>2. r[id] # None /\ r[id].fact = OnRecord[id].fact /\ r[id].state = "archived"
      BY <1>1, <2>1, <2>3, ArchivedIsAMemory
    <3> QED
      BY <1>3, <2>1, <2>3, <3>1, <3>2 DEF Evolves
  <2> QED
    BY <2>2, <2>3
<1>4. CASE e.op = "purge"
  <2>1. r[id] = None /\ id \in went
    BY <1>4 DEF After
  <2>2. OnRecord[id] # None \/ id \in removed
    BY <1>4, FreshIs DEF FitLine
  <2> QED
    BY <1>4, <2>1, <2>2 DEF Evolves
<1>5. e.op # "junk"
  BY FreshIs DEF FitLine
<1> QED
  BY <1>2, <1>3, <1>4, <1>5, LineTypes

\* A batch that fits, whoever writes it and however much of it gets written.
LEMMA BatchEvolves ==
    ASSUME MemInv, NEW b, Fits(b), OnRecord' = Recovered(OnRecord, b),
           removed' = removed \cup Purged(b),
           used \subseteq used', Written(b) \subseteq used',
           told' \subseteq (told \cup Written(b)) \ Purged(b)
    PROVE  KeepsPromise /\ KnownIds' /\ ToldStays'
<1> DEFINE r == Recovered(OnRecord, b)
<1>1. b \in Seq(Line) /\ Len(b) \in Nat /\ DOMAIN b = 1..Len(b) /\ \A i \in 1..Len(b) : b[i] \in Line
  BY LenProperties, ElementOfSeq DEF Fits
<1>2. OnRecord \in Memories /\ told \subseteq Ids /\ removed \subseteq Ids
  BY RecordIsTyped DEF MemInv, OnRecord, StoreInv, CountsOk
<1>3. ASSUME NEW id \in Ids
      PROVE  /\ Evolves(id, OnRecord, r, removed, removed')
             /\ r[id] # None => id \in used'
             /\ id \in told' => r[id] # None
  <2>1. CASE \E i \in 1..Len(b) : b[i].id = id
    <3>1. PICK i \in 1..Len(b) : b[i].id = id
      BY <2>1
    <3>2. \A j \in 1..Len(b) : b[j].id = id => j = i
      BY <1>1, <3>1 DEF Fits, Once
    <3>3. r[id] = After(OnRecord[id], b[i])
      BY <1>1, <1>2, <3>1, OncePerMemory DEF Fits
    <3>4. id \in Purged(b) <=> b[i].op = "purge"
      BY <1>1, <3>1, <3>2 DEF Purged
    <3>5. id \in Written(b) <=> b[i].op = "put"
      BY <1>1, <3>1, <3>2 DEF Written
    <3>6. id \in removed' <=> id \in removed \/ b[i].op = "purge"
      BY <3>4
    <3>7. b[i] \in Line /\ FitLine(b[i])
      BY <1>1 DEF Fits
    <3> HIDE DEF r
    <3>8. /\ Evolves(id, OnRecord, r, removed, removed')
          /\ r[id] # None => b[i].op = "put" \/ OnRecord[id] # None
          /\ b[i].op = "put" => r[id] # None
          /\ OnRecord[id] # None /\ b[i].op # "purge" => r[id] # None
      BY <3>1, <3>3, <3>6, <3>7, LineEvolves
    <3>9. r[id] # None => id \in used'
      BY <3>5, <3>8 DEF MemInv, KnownIds
    <3>10. id \in told' => r[id] # None
      BY <3>4, <3>5, <3>8 DEF MemInv, ToldStays
    <3> QED
      BY <3>8, <3>9, <3>10
  <2>2. CASE \A i \in 1..Len(b) : b[i].id # id
    <3>1. r[id] = OnRecord[id]
      BY <1>1, <1>2, <2>2, OncePerMemory DEF Fits
    <3>2. id \notin Purged(b) /\ id \notin Written(b)
      BY <1>1, <2>2 DEF Purged, Written
    <3> HIDE DEF r
    <3> QED
      BY <3>1, <3>2 DEF Evolves, MemInv, KnownIds, ToldStays
  <2> QED
    BY <2>1, <2>2
<1>4. Purged(b) \subseteq used'
  <2> SUFFICES ASSUME NEW i \in 1..Len(b), b[i].op = "purge" PROVE b[i].id \in used'
    BY <1>1 DEF Purged
  <2>1. OnRecord[b[i].id] # None \/ b[i].id \in removed
    <3>1. FitLine(b[i])
      BY DEF Fits
    <3> QED
      BY <3>1, FreshIs DEF FitLine
  <2>2. b[i].id \in Ids
    BY <1>1, LineTypes
  <2> QED
    BY <2>1, <2>2 DEF MemInv, KnownIds
<1>5. OnRecord' = r
  OBVIOUS
<1>6. told' \subseteq Ids
  BY <1>1, <1>2, LineTypes DEF Written
<1> HIDE DEF r
<1>7. KeepsPromise
  BY <1>3, <1>5 DEF KeepsPromise
<1>8. KnownIds'
  BY <1>3, <1>4, <1>5 DEF KnownIds, MemInv
<1>9. ToldStays'
  BY <1>3, <1>5, <1>6 DEF ToldStays
<1> QED
  BY <1>7, <1>8, <1>9

\* In a store at rest about its files, every handle in use is the resident one.
LEMMA ResidentIsUsed ==
    ASSUME MemInv
    PROVE  /\ \A t \in Turns : holds[t] # 0 =>
                 /\ holds[t] = resident /\ resident # 0 /\ resident \in Handles
                 /\ index[holds[t]].mems = OnRecord
           /\ dream.pc # "awake" =>
                 /\ dream.handle = resident /\ resident # 0 /\ resident \in Handles
                 /\ index[dream.handle].mems = OnRecord
           /\ OnRecord \in Memories
<1>1. resident # 0 => resident \in Handles
  BY BoundsAreNumbers DEF MemInv, StoreInv, RamOk, Handles
<1>2. dream.pc # "awake" => dream.handle # 0
  BY DEF MemInv, StoreInv, DreamOk
<1>3. OnRecord \in Memories
  BY RecordIsTyped DEF MemInv, OnRecord
<1> QED
  BY <1>1, <1>2, <1>3 DEF MemInv, OneHandle, RamIsRecord

\* Nothing a step changes is about what is on record.
LEMMA NothingChanges ==
    ASSUME MemInv, OnRecord' = OnRecord, UNCHANGED history
    PROVE  KeepsPromise /\ KnownIds' /\ ToldStays'
  BY DEF MemInv, KeepsPromise, Evolves, KnownIds, ToldStays, history

\* What appending makes of what is on record.
LEMMA RecordGrows ==
    ASSUME MemInv, TornIsLast, NEW b \in Seq(Line), append(b), UNCHANGED snap
    PROVE  OnRecord' = Recovered(OnRecord, b)
<1>1. wal' = wal \o b /\ snap \in Memories /\ wal \in Seq(Line)
  BY AppendIs DEF MemInv, StoreInv, FilesOk
<1>2. Recovered(snap, wal \o b) = Recovered(Recovered(snap, wal), b)
  BY <1>1, RecoveredInTwo
<1> QED
  BY <1>1, <1>2 DEF OnRecord

\* What is on record is in the files.
LEMMA SameFilesSameRecord ==
    ASSUME UNCHANGED <<snap, wal>>
    PROVE  OnRecord' = OnRecord
  BY DEF OnRecord

\* Getting a handle changes nothing on record, and gives the resident one.
LEMMA HandleFits ==
    ASSUME MemInv, NEW h \in Handles, handle_for(h)
    PROVE  /\ OnRecord' = OnRecord /\ resident' = h /\ h # 0
           /\ RamIsRecord'
           /\ resident = 0 => /\ dream.pc = "awake" /\ dream.handle = 0
                              /\ \A t \in Turns : holds[t] = 0
           /\ resident # 0 => h = resident /\ UNCHANGED <<disk, ram>>
<1>0. h # 0 /\ h \in Nat
  BY BoundsAreNumbers DEF Handles
<1>1. resident = 0 => /\ dream.pc = "awake" /\ dream.handle = 0
                      /\ \A t \in Turns : holds[t] = 0
  BY DEF MemInv, OneHandle, StoreInv, DreamOk
<1>2. CASE resident # 0
  <2>1. h = resident /\ UNCHANGED <<disk, ram>>
    BY <1>2 DEF handle_for, Load
  <2>2. OnRecord' = OnRecord /\ index' = index /\ resident' = resident
    BY <2>1, SameFilesSameRecord DEF disk, ram
  <2> QED
    BY <1>0, <1>1, <1>2, <2>1, <2>2 DEF MemInv, RamIsRecord
<1>3. CASE resident = 0
  <2>1. Load(h)
    BY <1>0, <1>3 DEF handle_for
  <2>2. PICK ix \in FromSnapshot(snap) : index' = [index EXCEPT ![h] = Replayed(ix, wal)]
    BY <2>1 DEF Load
  <2>3. snap \in Memories /\ wal \in Seq(Line) /\ index \in [Handles -> Indexes]
    BY DEF MemInv, StoreInv, FilesOk, RamOk
  <2>4. ix \in Indexes /\ HashesLead(ix) /\ ix.mems = snap
    BY <2>2, <2>3, SnapshotIsSound
  <2>5. Replayed(ix, wal).mems = OnRecord
    BY <2>3, <2>4, ReplayIs DEF OnRecord
  <2>6. index'[h].mems = OnRecord
    BY <2>2, <2>3, <2>5
  <2>7. OnRecord' = OnRecord
    <3>1. Recovered(snap, wal) \in Memories
      BY RecordIsTyped DEF MemInv
    <3>2. Recovered(snap', wal') = Recovered(snap, wal)
      BY <2>1, <2>3, <2>6, <3>1, CompactionChangesNothing DEF OnRecord
    <3> QED
      BY <3>2 DEF OnRecord
  <2>8. resident' = h
    BY <2>1 DEF Load
  <2> QED
    BY <1>0, <1>1, <1>3, <2>6, <2>7, <2>8 DEF RamIsRecord
<1> QED
  BY <1>2, <1>3

\* The steps of the store at rest: a turn takes a handle,
LEMMA TakeHandleStep ==
    ASSUME MemInv, NEW t \in Turns, TakeHandle(t)
    PROVE  MemInv' /\ KeepsPromise
<1>1. PICK h \in Handles : handle_for(h) /\ holds' = [holds EXCEPT ![t] = h]
  BY DEF TakeHandle
<1>2. /\ OnRecord' = OnRecord /\ resident' = h /\ h # 0 /\ RamIsRecord'
      /\ resident = 0 => /\ dream.pc = "awake" /\ dream.handle = 0
                         /\ \A x \in Turns : holds[x] = 0
      /\ resident # 0 => h = resident /\ UNCHANGED <<disk, ram>>
  BY <1>1, HandleFits
<1>3. dream' = dream /\ UNCHANGED history
  BY DEF TakeHandle
<1>4. StoreInv'
  BY TakeHandleKeeps DEF MemInv
<1>5. OneHandle'
  <2>1. holds \in [Turns -> 0..MaxLoads]
    BY DEF MemInv, StoreInv, HoldsOk
  <2> QED
    BY <1>1, <1>2, <1>3, <2>1 DEF MemInv, OneHandle
<1>6. FoldFits'
  <2>1. CASE dream.pc = "awake"
    BY <1>3, <2>1 DEF FoldFits
  <2>2. CASE dream.pc # "awake"
    <3>1. resident # 0
      BY <2>2, ResidentIsUsed
    <3>2. snap' = snap
      BY <1>2, <3>1 DEF disk
    <3> QED
      BY <1>2, <1>3, <3>2 DEF MemInv, FoldFits
  <2> QED
    BY <2>1, <2>2
<1>7. ClonesFit'
  BY <1>2, <1>3 DEF MemInv, ClonesFit, Clones, history
<1>8. KeepsPromise /\ KnownIds' /\ ToldStays'
  BY <1>2, <1>3, NothingChanges
<1> QED
  BY <1>2, <1>4, <1>5, <1>6, <1>7, <1>8 DEF MemInv

\* the dream begins,
LEMMA SleepStep ==
    ASSUME MemInv, Sleep
    PROVE  MemInv' /\ KeepsPromise
<1>1. PICK h \in Handles :
        handle_for(h) /\ dream' = [pc |-> "asleep", handle |-> h, read |-> Nothing]
  BY DEF Sleep
<1>2. /\ OnRecord' = OnRecord /\ resident' = h /\ h # 0 /\ RamIsRecord'
      /\ resident = 0 => \A x \in Turns : holds[x] = 0
      /\ resident # 0 => h = resident
  BY <1>1, HandleFits
<1>3. holds' = holds /\ UNCHANGED history
  BY DEF Sleep
<1>4. StoreInv'
  BY SleepKeeps DEF MemInv
<1>5. OneHandle'
  BY <1>1, <1>2, <1>3 DEF MemInv, OneHandle
<1>6. FoldFits' /\ ClonesFit'
  BY <1>1 DEF FoldFits, ClonesFit
<1>7. KeepsPromise /\ KnownIds' /\ ToldStays'
  BY <1>2, <1>3, NothingChanges
<1> QED
  BY <1>2, <1>4, <1>5, <1>6, <1>7 DEF MemInv

\* and the agent leaves RAM, when nobody uses it.
LEMMA EvictStep ==
    ASSUME MemInv, Quiet, Evict
    PROVE  MemInv' /\ KeepsPromise
<1>1. /\ resident # 0 /\ ~InUse(resident) /\ resident' = 0
      /\ UNCHANGED <<disk, holds, dream, history>>
  BY DEF Evict, Quiet
<1>2. OnRecord' = OnRecord /\ snap' = snap
  BY <1>1, SameFilesSameRecord DEF disk
<1>3. StoreInv'
  BY EvictKeeps DEF MemInv
<1>4. \A t \in Turns : holds[t] = 0
  BY <1>1 DEF InUse, MemInv, OneHandle
<1>5. dream.handle = 0
  BY <1>1 DEF InUse, MemInv, OneHandle
<1>6. OneHandle' /\ RamIsRecord'
  BY <1>1, <1>4, <1>5 DEF OneHandle, RamIsRecord
<1>7. FoldFits' /\ ClonesFit'
  BY <1>1, <1>2 DEF MemInv, FoldFits, ClonesFit, Clones, history
<1>8. KeepsPromise /\ KnownIds' /\ ToldStays'
  BY <1>1, <1>2, NothingChanges
<1> QED
  BY <1>3, <1>6, <1>7, <1>8 DEF MemInv

\* What the dream cloned has an id that was used.
LEMMA ClonesAreUsed ==
    ASSUME MemInv, dream.pc \in {"thinking", "decaying"}
    PROVE  Clones \subseteq used
  BY DEF MemInv, ClonesFit, KnownIds, Clones

\* What a batch of one line purges and puts.
LEMMA OneWritten ==
    ASSUME NEW e
    PROVE  /\ Purged(<<e>>) = IF e.op = "purge" THEN {e.id} ELSE {}
           /\ Written(<<e>>) = IF e.op = "put" THEN {e.id} ELSE {}
<1> DEFINE b == <<e>>
<1>1. DOMAIN b = {1} /\ b[1] = e
  OBVIOUS
<1> HIDE DEF b
<1>2. /\ Purged(b) = IF e.op = "purge" THEN {e.id} ELSE {}
      /\ Written(b) = IF e.op = "put" THEN {e.id} ELSE {}
  BY <1>1 DEF Purged, Written
<1> QED
  BY <1>2 DEF b

\* A batch of one line that fits, fits.
LEMMA OneFits ==
    ASSUME NEW e \in Line, FitLine(e)
    PROVE  Fits(<<e>>)
<1> DEFINE b == <<e>>
<1>1. b \in Seq(Line) /\ Len(b) = 1 /\ b[1] = e /\ Once(b)
  BY OneOrTwo
<1> HIDE DEF b
<1>2. Fits(b)
  BY <1>1 DEF Fits
<1> QED
  BY <1>2 DEF b

\* A turn writes a line that fits, and what the dream holds fits afterwards.
LEMMA TurnWrites ==
    ASSUME MemInv, Quiet, NEW t \in Turns, NEW e \in Line, FitLine(e),
           holds[t] # 0, MayWrite, append_whole(<<e>>), Applied(holds[t], e), Release(t),
           UNCHANGED <<snap, resident, loads, dream>>,
           removed' = removed \cup Purged(<<e>>), used' = used \cup Written(<<e>>),
           told' \subseteq (told \cup Written(<<e>>)) \ Purged(<<e>>),
           dream.pc \in {"thinking", "decaying"} /\ e.id \in Clones =>
               OnRecord'[e.id] = OnRecord[e.id] \/ (OnRecord'[e.id] = None /\ e.id \in removed'),
           StoreInv'
    PROVE  MemInv' /\ KeepsPromise
<1>1. <<e>> \in Seq(Line) /\ Fits(<<e>>) /\ append(<<e>>)
  BY OneFits, OneOrTwo DEF append_whole
<1>2. OnRecord' = Recovered(OnRecord, <<e>>)
  BY <1>1, RecordGrows DEF Quiet
<1>3. KeepsPromise /\ KnownIds' /\ ToldStays'
  BY <1>1, <1>2, BatchEvolves
<1>4. holds[t] = resident /\ resident \in Handles /\ index[resident].mems = OnRecord /\ OnRecord \in Memories
  BY ResidentIsUsed
<1>5. RamIsRecord'
  <2>1. index[resident] \in Indexes /\ HashesLead(index[resident]) /\ index \in [Handles -> Indexes]
    BY <1>4 DEF MemInv, StoreInv, RamOk
  <2>2. apply(index[resident], e).mems = OnRecord'
    BY <1>2, <1>4, <2>1, ApplyIs
  <2>3. index'[resident] = apply(index[resident], e)
    BY <1>4, <2>1 DEF Applied
  <2> QED
    BY <2>2, <2>3 DEF RamIsRecord
<1>6. OneHandle'
  BY DEF MemInv, OneHandle, Release, StoreInv, HoldsOk
<1>7. FoldFits'
  BY DEF Quiet, MayWrite, FoldFits
<1>8. ClonesFit'
  <2> SUFFICES ASSUME dream.pc \in {"thinking", "decaying"}
               PROVE  \A id \in Clones : \/ OnRecord'[id] = dream.read[id]
                                         \/ OnRecord'[id] = None /\ id \in removed'
    BY DEF MemInv, ClonesFit, Clones
  <2> SUFFICES ASSUME NEW id \in Clones
               PROVE  \/ OnRecord'[id] = dream.read[id]
                      \/ OnRecord'[id] = None /\ id \in removed'
    OBVIOUS
  <2>1. \/ OnRecord[id] = dream.read[id]
        \/ OnRecord[id] = None /\ id \in removed
    BY DEF MemInv, ClonesFit
  <2>2. id \in removed => id \in removed'
    OBVIOUS
  <2>3. CASE id = e.id
    BY <2>1, <2>2, <2>3
  <2>4. CASE id # e.id
    <3>1. OnRecord'[id] = OnRecord[id]
      <4>1. id \in Ids
        BY DEF Clones
      <4>2. Recovered(OnRecord, <<e>>)
              = [x \in Ids |-> IF x = e.id THEN After(OnRecord[x], e) ELSE OnRecord[x]]
        BY <1>4, OneLine
      <4>3. Recovered(OnRecord, <<e>>)[id] = OnRecord[id]
        BY <2>4, <4>1, <4>2
      <4> QED
        BY <1>2, <4>3
    <3> QED
      BY <2>1, <2>2, <3>1
  <2> QED
    BY <2>3, <2>4
<1> QED
  BY <1>3, <1>5, <1>6, <1>7, <1>8 DEF MemInv

\* What a turn remembers fits, and is live on record, or new, when it does.
LEMMA RememberingFits ==
    ASSUME MemInv, NEW t \in Turns, NEW f \in Facts, NEW id \in Ids,
           holds[t] # 0, Remembering(holds[t], f, id)
    PROVE  LET e == Put(id, f, "live") IN
           /\ e \in Line /\ e.id = id /\ e.op = "put" /\ FitLine(e)
           /\ Fresh(e) \/ OnRecord[id] = e.mem
<1> DEFINE e == Put(id, f, "live")
<1>1. e \in Line /\ e.id = id /\ e.op = "put" /\ e.mem = [fact |-> f, state |-> "live"]
  BY PutIsALine DEF States
<1>2. ASSUME id \notin used
      PROVE  FitLine(e) /\ (Fresh(e) \/ OnRecord[id] = e.mem)
  <2>1. Fresh(e)
    BY <1>2 DEF Fresh
  <2> QED
    BY <1>1, <2>1 DEF FitLine
<1>3. ASSUME id \in used
      PROVE  FitLine(e) /\ (Fresh(e) \/ OnRecord[id] = e.mem)
  <2> DEFINE h == holds[t]
  <2>1. h \in Handles /\ index[h].mems = OnRecord /\ OnRecord \in Memories
    BY ResidentIsUsed
  <2>2. id = index[h].byHash[f] /\ live(index[h], id) /\ index[h].byHash[f] # None
    BY <1>3 DEF Remembering
  <2>3. index[h].mems[id].fact = f
    BY <2>1, <2>2 DEF MemInv, StoreInv, RamOk, HashesLead
  <2>4. OnRecord[id] # None /\ OnRecord[id].fact = f /\ OnRecord[id].state = "live"
    BY <2>1, <2>2, <2>3 DEF live
  <2>5. OnRecord[id] \in Memory
    BY <2>1, <2>4 DEF Memories
  <2>6. OnRecord[id] = e.mem
    BY <1>1, <2>4, <2>5 DEF Memory
  <2> HIDE DEF e
  <2>7. FitLine(e)
    BY <1>1, <2>4 DEF FitLine
  <2> QED
    BY <2>6, <2>7
<1>4. FitLine(e) /\ (Fresh(e) \/ OnRecord[id] = e.mem)
  BY <1>2, <1>3
<1> QED
  BY <1>1, <1>4

\* A turn remembers: a new memory, or one that is live,
LEMMA RememberStep ==
    ASSUME MemInv, Quiet, NEW t \in Turns, NEW f \in Facts, Remember(t, f)
    PROVE  MemInv' /\ KeepsPromise
<1>1. PICK id \in Ids :
        /\ Remembering(holds[t], f, id)
        /\ append_whole(<<Put(id, f, "live")>>)
        /\ Applied(holds[t], Put(id, f, "live"))
        /\ used' = used \cup {id} /\ told' = told \cup {id}
  BY DEF Remember
<1> DEFINE e == Put(id, f, "live")
<1>2. holds[t] # 0 /\ MayWrite /\ Release(t) /\ UNCHANGED <<snap, resident, loads, dream, removed>>
  BY DEF Remember
<1>3. e \in Line /\ e.id = id /\ e.op = "put" /\ FitLine(e) /\ (Fresh(e) \/ OnRecord[id] = e.mem)
  BY <1>1, <1>2, RememberingFits
<1>4. append_whole(<<e>>) /\ Applied(holds[t], e)
  BY <1>1
<1> HIDE DEF e
<1>5. Purged(<<e>>) = {} /\ Written(<<e>>) = {id}
  BY <1>3, OneWritten
<1>6. dream.pc \in {"thinking", "decaying"} /\ e.id \in Clones => OnRecord'[e.id] = OnRecord[e.id]
  <2> HAVE dream.pc \in {"thinking", "decaying"} /\ e.id \in Clones
  <2>1. OnRecord[id] = e.mem
    BY <1>3, ClonesAreUsed, FreshIs
  <2>2. OnRecord' = Recovered(OnRecord, <<e>>)
    BY <1>2, <1>3, <1>4, RecordGrows, OneOrTwo DEF Quiet, append_whole
  <2>3. OnRecord'[id] = After(OnRecord[id], e)
    BY <1>3, <2>2, OneLine, ResidentIsUsed
  <2> QED
    BY <1>3, <2>1, <2>3 DEF After
<1>7. StoreInv'
  BY RememberKeeps DEF MemInv
<1> QED
  BY <1>1, <1>2, <1>3, <1>4, <1>5, <1>6, <1>7, TurnWrites

\* or forgets one that is there.
LEMMA ForgetStep ==
    ASSUME MemInv, Quiet, NEW t \in Turns, NEW id \in Ids, Forget(t, id)
    PROVE  MemInv' /\ KeepsPromise
<1> DEFINE e == Purge(id)
<1>1. /\ holds[t] # 0 /\ MayWrite /\ Release(t) /\ UNCHANGED <<snap, resident, loads, dream, used>>
      /\ index[holds[t]].mems[id] # None
      /\ append_whole(<<e>>) /\ Applied(holds[t], e)
      /\ told' = told \ {id} /\ removed' = removed \cup {id}
  BY DEF Forget
<1>2. e \in Line /\ e.id = id /\ e.op = "purge"
  BY OtherLines
<1>3. OnRecord[id] # None
  BY <1>1, ResidentIsUsed
<1> HIDE DEF e
<1>4. FitLine(e)
  BY <1>2, <1>3 DEF FitLine
<1>5. Purged(<<e>>) = {id} /\ Written(<<e>>) = {}
  BY <1>2, OneWritten
<1>6. OnRecord'[e.id] = None /\ e.id \in removed'
  <2>1. OnRecord' = Recovered(OnRecord, <<e>>)
    BY <1>1, <1>2, RecordGrows, OneOrTwo DEF Quiet, append_whole
  <2>2. OnRecord'[id] = After(OnRecord[id], e)
    BY <1>2, <2>1, OneLine, ResidentIsUsed
  <2> QED
    BY <1>1, <1>2, <2>2 DEF After
<1>7. StoreInv'
  BY ForgetKeeps DEF MemInv
<1> QED
  BY <1>1, <1>2, <1>4, <1>5, <1>6, <1>7, TurnWrites

-----------------------------------------------------------------------------
(* The dream.                                                              *)

\* A step of the dream that takes something in, or gives it up, writes nothing.
LEMMA NothingWritten ==
    ASSUME MemInv, UNCHANGED <<disk, ram, holds, history>>, dream'.handle = dream.handle,
           StoreInv', FoldFits', ClonesFit'
    PROVE  MemInv' /\ KeepsPromise
<1>1. OnRecord' = OnRecord
  BY SameFilesSameRecord DEF disk
<1>2. OneHandle' /\ RamIsRecord'
  BY <1>1 DEF MemInv, OneHandle, RamIsRecord, ram
<1>3. KeepsPromise /\ KnownIds' /\ ToldStays'
  BY <1>1, NothingChanges
<1> QED
  BY <1>2, <1>3 DEF MemInv

\* The dream clones live memories: what it has read is what is on record.
LEMMA ReadStep ==
    ASSUME MemInv, Read
    PROVE  MemInv' /\ KeepsPromise
<1>1. PICK S \in SUBSET {id \in Ids : live(index[dream.handle], id)} :
        dream' = [dream EXCEPT !.pc = "thinking",
                       !.read = [id \in Ids |->
                           IF id \in S THEN index[dream.handle].mems[id] ELSE None]]
  BY DEF Read
<1>2. dream.pc = "asleep" /\ UNCHANGED <<disk, ram, holds, history>>
  BY DEF Read
<1>3. index[dream.handle].mems = OnRecord
  BY <1>2, ResidentIsUsed
<1>4. /\ dream'.pc = "thinking" /\ dream'.handle = dream.handle
      /\ \A id \in Ids : dream'.read[id] = IF id \in S THEN OnRecord[id] ELSE None
  BY <1>1, <1>3 DEF MemInv, StoreInv, DreamOk
<1>5. OnRecord' = OnRecord
  BY <1>2, SameFilesSameRecord DEF disk
<1>6. \A id \in S : OnRecord[id].state = "live"
  BY <1>3 DEF live
<1>7. \A id \in Ids : dream'.read[id] # None =>
         OnRecord'[id] = dream'.read[id] /\ dream'.read[id].state = "live"
  BY <1>4, <1>5, <1>6
<1>8. ClonesFit' /\ FoldFits'
  BY <1>4, <1>7 DEF ClonesFit, FoldFits, Clones
<1>9. StoreInv'
  BY ReadKeeps DEF MemInv
<1> QED
  BY <1>2, <1>4, <1>8, <1>9, NothingWritten

\* It may let them be.
LEMMA LeaveAloneStep ==
    ASSUME MemInv, LeaveAlone
    PROVE  MemInv' /\ KeepsPromise
<1>1. UNCHANGED <<disk, ram, holds, history>> /\ dream' = [dream EXCEPT !.pc = "asleep", !.read = Nothing]
  BY DEF LeaveAlone
<1>2. dream'.pc = "asleep" /\ dream'.handle = dream.handle
  BY <1>1 DEF MemInv, StoreInv, DreamOk
<1>3. ClonesFit' /\ FoldFits'
  BY <1>2 DEF ClonesFit, FoldFits
<1>4. StoreInv'
  BY ReadAllKeeps DEF MemInv
<1> QED
  BY <1>1, <1>2, <1>3, <1>4, NothingWritten

\* It may clone everything, to decay it or to fold it.
LEMMA ReadAllStep ==
    ASSUME MemInv, ReadAll \/ FoldLog
    PROVE  MemInv' /\ KeepsPromise
<1>1. dream.pc # "awake" /\ UNCHANGED <<disk, ram, holds, history>>
  BY DEF ReadAll, FoldLog
<1>2. index[dream.handle].mems = OnRecord
  BY <1>1, ResidentIsUsed
<1>3. OnRecord' = OnRecord
  BY <1>1, SameFilesSameRecord DEF disk
<1>4. /\ dream'.pc = "decaying" \/ dream'.pc = "folded"
      /\ dream'.handle = dream.handle /\ dream'.read = OnRecord'
  BY <1>2, <1>3 DEF ReadAll, FoldLog, MemInv, StoreInv, DreamOk
<1>5. ClonesFit' /\ FoldFits'
  BY <1>4 DEF ClonesFit, FoldFits
<1>6. StoreInv'
  BY ReadAllKeeps DEF MemInv
<1> QED
  BY <1>1, <1>4, <1>5, <1>6, NothingWritten

-----------------------------------------------------------------------------
\* A batch of lines that fit, written by the dream.
LEMMA CommitStep ==
    ASSUME MemInv, Quiet, NEW b, Commit(b), Fits(b), dream.pc # "awake",
           UNCHANGED <<snap, resident, loads, holds>>, dream'.handle = dream.handle,
           dream'.pc = "asleep" \/ dream'.pc = "decayed", StoreInv'
    PROVE  MemInv' /\ KeepsPromise
<1>1. b \in Seq(Line) /\ append(b)
  BY DEF Fits, Commit, Recorded, append_whole
<1>2. OnRecord' = Recovered(OnRecord, b)
  BY <1>1, RecordGrows DEF Quiet
<1>3. /\ used' = used \cup Written(b) /\ told' = told \ Purged(b)
      /\ removed' = removed \cup Purged(b)
      /\ index' = [index EXCEPT ![dream.handle] = Replayed(@, b)]
  BY DEF Commit, Recorded
<1>4. KeepsPromise /\ KnownIds' /\ ToldStays'
  BY <1>2, <1>3, BatchEvolves
<1>5. RamIsRecord'
  <2>1. dream.handle = resident /\ resident \in Handles /\ index[resident].mems = OnRecord
    BY ResidentIsUsed
  <2>2. index \in [Handles -> Indexes] /\ index[resident] \in Indexes /\ HashesLead(index[resident])
    BY <2>1 DEF MemInv, StoreInv, RamOk
  <2>3. Replayed(index[resident], b).mems = OnRecord'
    BY <1>1, <1>2, <2>1, <2>2, ReplayIs
  <2>4. index'[resident] = Replayed(index[resident], b)
    BY <1>3, <2>1, <2>2
  <2> QED
    BY <2>3, <2>4 DEF RamIsRecord
<1>6. OneHandle'
  BY DEF MemInv, OneHandle
<1>7. FoldFits' /\ ClonesFit'
  BY DEF FoldFits, ClonesFit
<1> QED
  BY <1>4, <1>5, <1>6, <1>7 DEF MemInv

\* What a clone put back says.
LEMMA PutBackSays ==
    ASSUME dream.read \in Memories, NEW id \in Clones, NEW state,
           state = "live" \/ state = "superseded"
    PROVE  /\ PutBack(id, state).op = "put" /\ PutBack(id, state).id = id
           /\ PutBack(id, state).mem.fact = dream.read[id].fact
           /\ PutBack(id, state).mem.state = state
<1>1. state \in States
  BY DEF States
<1>2. PutBack(id, state).mem = [fact |-> dream.read[id].fact, state |-> state]
  BY <1>1, PutBackIsALine
<1> QED
  BY <1>1, <1>2, PutBackIsALine

\* What the dream says of what it read still fits what is on record.
LEMMA BackFits ==
    ASSUME MemInv, dream.pc = "thinking", NEW e, Back(e)
    PROVE  FitLine(e)
<1>1. PICK id \in Clones : e = PutBack(id, "live") \/ e = PutBack(id, "superseded")
  BY DEF Back
<1>2. dream.read \in Memories
  BY DreamMoves DEF MemInv
<1>3. /\ e.op = "put" /\ e.id = id /\ e.mem.fact = dream.read[id].fact
      /\ e.mem.state = "live" \/ e.mem.state = "superseded"
  BY <1>1, <1>2, PutBackSays
<1>4. /\ \/ OnRecord[id] = dream.read[id]
         \/ OnRecord[id] = None /\ id \in removed
      /\ dream.read[id].state = "live" /\ dream.read[id] # None
  BY DEF MemInv, ClonesFit, Clones
<1> QED
  BY <1>3, <1>4 DEF FitLine

\* So does what fading does to it.
LEMMA FadedFits ==
    ASSUME MemInv, dream.pc = "decaying", NEW e, Faded(e)
    PROVE  FitLine(e)
<1>1. PICK id \in Clones : e \in Fading(id)
  BY DEF Faded
<1>2. dream.read \in Memories
  BY DreamMoves DEF MemInv
<1>3. /\ e.id = id /\ id \in Ids
      /\ \/ dream.read[id].state = "live" /\ e = Archive(id)
         \/ dream.read[id].state = "live" /\ e = PutBack(id, "live")
         \/ dream.read[id].state = "archived" /\ e = Purge(id)
  BY <1>1, <1>2, FadingIs
<1>4. /\ \/ OnRecord[id] = dream.read[id]
         \/ OnRecord[id] = None /\ id \in removed
      /\ dream.read[id] # None
  BY DEF MemInv, ClonesFit, Clones
<1>5. CASE dream.read[id].state = "live" /\ e = Archive(id)
  <2>1. e.op = "archive"
    BY <1>3, <1>5, OtherLines
  <2> QED
    BY <1>3, <1>4, <1>5, <2>1 DEF FitLine
<1>6. CASE dream.read[id].state = "live" /\ e = PutBack(id, "live")
  <2>1. /\ e.op = "put" /\ e.mem.fact = dream.read[id].fact /\ e.mem.state = "live"
    BY <1>2, <1>6, PutBackSays
  <2> QED
    BY <1>3, <1>4, <1>6, <2>1 DEF FitLine
<1>7. CASE dream.read[id].state = "archived" /\ e = Purge(id)
  <2>1. e.op = "purge"
    BY <1>3, <1>7, OtherLines
  <2> QED
    BY <1>3, <1>4, <2>1 DEF FitLine
<1> QED
  BY <1>3, <1>5, <1>6, <1>7

\* So does a batch of the dream, whole or cut short.
LEMMA SpokenFits ==
    ASSUME MemInv, NEW b, Spoken(b),
           \/ dream.pc = "thinking" /\ \A i \in 1..Len(b) : Fresh(b[i]) \/ Back(b[i])
           \/ dream.pc = "decaying" /\ \A i \in 1..Len(b) : Faded(b[i])
    PROVE  Fits(b)
<1>1. b \in Seq(Line) /\ Once(b)
  BY ClonesAreUsed DEF Spoken
<1>2. \A i \in 1..Len(b) : FitLine(b[i])
  <2>1. CASE dream.pc = "thinking" /\ \A i \in 1..Len(b) : Fresh(b[i]) \/ Back(b[i])
    BY <2>1, BackFits DEF FitLine
  <2>2. CASE dream.pc = "decaying" /\ \A i \in 1..Len(b) : Faded(b[i])
    BY <2>2, FadedFits
  <2> QED
    BY <2>1, <2>2
<1> QED
  BY <1>1, <1>2 DEF Fits

\* The dream indexes a conversation,
LEMMA IndexStep ==
    ASSUME MemInv, Quiet, Index
    PROVE  MemInv' /\ KeepsPromise
<1>1. PICK id \in Ids \ used, f \in Facts : Commit(<<Put(id, f, "live")>>)
  BY DEF Index
<1> DEFINE e == Put(id, f, "live")
<1>2. e \in Line /\ FitLine(e)
  BY PutIsALine DEF States, FitLine, Fresh
<1>3. Fits(<<e>>)
  <2> HIDE DEF e
  <2> QED
    BY <1>2, OneFits
<1>4. /\ dream.pc # "awake" /\ UNCHANGED <<snap, resident, loads, holds>>
      /\ dream'.handle = dream.handle /\ dream'.pc = "asleep"
  BY DEF Index
<1>5. StoreInv'
  BY IndexKeeps DEF MemInv
<1> QED
  BY <1>1, <1>3, <1>4, <1>5, CommitStep

\* writes what it made of its clones,
LEMMA ThoughtStep ==
    ASSUME MemInv, Quiet, Merge \/ Distil \/ Adjudicate
    PROVE  MemInv' /\ KeepsPromise
<1>1. PICK b : Commit(b) /\ (b \in MergeBatches \/ b \in DistilBatches \/ b \in AdjudicateBatches)
  BY DEF Merge, Distil, Adjudicate
<1>2. /\ dream.pc = "thinking" /\ UNCHANGED <<snap, resident, loads, holds>>
      /\ dream' = [dream EXCEPT !.pc = "asleep", !.read = Nothing]
  BY DEF Merge, Distil, Adjudicate
<1>3. dream.read \in Memories
  BY DreamMoves DEF MemInv
<1>4. Spoken(b) /\ \A i \in 1..Len(b) : Fresh(b[i]) \/ Back(b[i])
  BY <1>1, <1>3, MergeIs, DistilIs, AdjudicateIs
<1>5. Fits(b)
  BY <1>2, <1>4, SpokenFits
<1>6. dream'.pc = "asleep" /\ dream'.handle = dream.handle
  BY <1>2 DEF MemInv, StoreInv, DreamOk
<1>7. StoreInv'
  BY MergeKeeps, DistilKeeps, AdjudicateKeeps DEF MemInv
<1>8. dream.pc # "awake"
  BY <1>2
<1> QED
  BY <1>1, <1>2, <1>5, <1>6, <1>7, <1>8, CommitStep

\* and lets memories fade.
LEMMA DecayStep ==
    ASSUME MemInv, Quiet, Decay
    PROVE  MemInv' /\ KeepsPromise
<1>1. PICK b \in DecayBatches : Commit(b)
  BY DEF Decay
<1>2. /\ dream.pc = "decaying" /\ UNCHANGED <<snap, resident, loads, holds>>
      /\ dream' = [dream EXCEPT !.pc = "decayed", !.read = Nothing]
  BY DEF Decay
<1>3. dream.read \in Memories
  BY DreamMoves DEF MemInv
<1>4. Spoken(b) /\ \A i \in 1..Len(b) : Faded(b[i])
  BY <1>3, DecayIs
<1>5. Fits(b)
  BY <1>2, <1>4, SpokenFits
<1>6. dream'.pc = "decayed" /\ dream'.handle = dream.handle
  BY <1>2 DEF MemInv, StoreInv, DreamOk
<1>7. StoreInv'
  BY DecayKeeps DEF MemInv
<1>8. dream.pc # "awake"
  BY <1>2
<1> QED
  BY <1>1, <1>2, <1>5, <1>6, <1>7, <1>8, CommitStep

\* The snapshot it writes is what is on record,
LEMMA WriteSnapshotStep ==
    ASSUME MemInv, WriteSnapshot
    PROVE  MemInv' /\ KeepsPromise
<1>1. /\ dream.pc = "folded" /\ snap' = dream.read /\ dream' = [dream EXCEPT !.pc = "written"]
      /\ UNCHANGED <<wal, ram, holds, history>>
  BY DEF WriteSnapshot
<1>2. dream.read = OnRecord
  BY <1>1 DEF MemInv, FoldFits
<1>3. OnRecord' = OnRecord
  <2>1. snap \in Memories /\ Recovered(snap, wal) \in Memories
    BY RecordIsTyped DEF MemInv, StoreInv, FilesOk
  <2>2. Recovered(snap', wal') = Recovered(snap, wal)
    BY <1>2, <2>1, CompactionChangesNothing DEF OnRecord
  <2> QED
    BY <2>2 DEF OnRecord
<1>4. dream'.pc = "written" /\ dream'.handle = dream.handle /\ dream'.read = dream.read
  BY <1>1 DEF MemInv, StoreInv, DreamOk
<1>5. FoldFits' /\ ClonesFit'
  BY <1>1, <1>2, <1>3, <1>4 DEF FoldFits, ClonesFit
<1>6. OneHandle' /\ RamIsRecord'
  BY <1>1, <1>3, <1>4 DEF MemInv, OneHandle, RamIsRecord, ram
<1>7. KeepsPromise /\ KnownIds' /\ ToldStays'
  BY <1>1, <1>3, NothingChanges
<1>8. StoreInv'
  BY WriteSnapshotKeeps DEF MemInv
<1> QED
  BY <1>5, <1>6, <1>7, <1>8 DEF MemInv

\* and so is what is left when the log is cut.
LEMMA TruncateStep ==
    ASSUME MemInv, Truncate
    PROVE  MemInv' /\ KeepsPromise
<1>1. /\ dream.pc = "written" /\ dream' = [pc |-> "awake", handle |-> 0, read |-> Nothing]
      /\ UNCHANGED <<ram, holds, history>>
  BY DEF Truncate
<1>2. snap = OnRecord
  BY <1>1 DEF MemInv, FoldFits
<1>3. OnRecord' = OnRecord
  <2>1. snap \in Memories /\ Recovered(snap, wal) \in Memories
    BY RecordIsTyped DEF MemInv, StoreInv, FilesOk
  <2>2. Recovered(snap', wal') = Recovered(snap, wal)
    BY <1>2, <2>1, CompactionChangesNothing DEF OnRecord
  <2> QED
    BY <2>2 DEF OnRecord
<1>4. FoldFits' /\ ClonesFit'
  BY <1>1 DEF FoldFits, ClonesFit
<1>5. OneHandle' /\ RamIsRecord'
  BY <1>1, <1>3 DEF MemInv, OneHandle, RamIsRecord, ram
<1>6. KeepsPromise /\ KnownIds' /\ ToldStays'
  BY <1>1, <1>3, NothingChanges
<1>7. StoreInv'
  BY TruncateKeeps DEF MemInv
<1> QED
  BY <1>4, <1>5, <1>6, <1>7 DEF MemInv

-----------------------------------------------------------------------------
\* A process that starts again holds nothing that the files could contradict.
LEMMA RestartFits ==
    ASSUME Restarted
    PROVE  OneHandle' /\ RamIsRecord' /\ FoldFits' /\ ClonesFit'
<1>1. /\ resident' = 0 /\ holds' = [t \in Turns |-> 0]
      /\ dream' = [pc |-> "awake", handle |-> 0, read |-> Nothing]
  BY DEF Restarted
<1> QED
  BY <1>1 DEF OneHandle, RamIsRecord, FoldFits, ClonesFit

\* A crash changes nothing on record, also one that leaves both a snapshot
\* and the log folded into it.
LEMMA CrashStep ==
    ASSUME MemInv, Crash \/ CrashInLoad
    PROVE  MemInv' /\ KeepsPromise
<1>1. OnRecord' = OnRecord
  <2>1. snap \in Memories /\ Recovered(snap, wal) \in Memories
    BY RecordIsTyped DEF MemInv, StoreInv, FilesOk
  <2>2. CrashInLoad => Recovered(snap', wal') = Recovered(snap, wal)
    BY <2>1, CompactionChangesNothing
  <2>3. Crash => UNCHANGED <<snap, wal>>
    BY DEF Crash, disk
  <2> QED
    BY <2>2, <2>3, SameFilesSameRecord DEF OnRecord
<1>2. Restarted /\ UNCHANGED history
  BY DEF Crash, CrashInLoad
<1>3. KeepsPromise /\ KnownIds' /\ ToldStays'
  BY <1>1, <1>2, NothingChanges
<1>4. StoreInv'
  BY CrashKeeps DEF MemInv
<1> QED
  BY <1>2, <1>3, <1>4, RestartFits DEF MemInv

\* The first lines of a batch keep the contract too: each is about a memory
\* of its own.
LEMMA CrashInBatchStep ==
    ASSUME MemInv, Quiet, CrashInBatch
    PROVE  MemInv' /\ KeepsPromise
<1>1. PICK b \in Cuttable : \E n \in 1..(Len(b) - 1) :
              LET p == SubSeq(b, 1, n) IN
              /\ Recorded(p) /\ Spoken(p) /\ Len(p) = n
              /\ \A i \in 1..Len(p) : i \in 1..Len(b) /\ p[i] = b[i]
              /\ dream.pc \in {"decaying", "thinking"}
              /\ \A i \in 1..Len(b) : IF dream.pc = "decaying" THEN Faded(b[i])
                                      ELSE Fresh(b[i]) \/ Back(b[i])
  BY CutBatch DEF MemInv
<1>2. PICK p : /\ Recorded(p) /\ Spoken(p)
               /\ \A i \in 1..Len(p) : i \in 1..Len(b) /\ p[i] = b[i]
               /\ dream.pc \in {"decaying", "thinking"}
               /\ \A i \in 1..Len(b) : IF dream.pc = "decaying" THEN Faded(b[i])
                                       ELSE Fresh(b[i]) \/ Back(b[i])
  BY <1>1
<1>3. \A i \in 1..Len(p) : IF dream.pc = "decaying" THEN Faded(p[i]) ELSE Fresh(p[i]) \/ Back(p[i])
  BY <1>2
<1>4. Fits(p)
  <2>1. CASE dream.pc = "decaying"
    BY <1>2, <1>3, <2>1, SpokenFits
  <2>2. CASE dream.pc = "thinking"
    BY <1>2, <1>3, <2>2, SpokenFits
  <2> QED
    BY <1>2, <2>1, <2>2
<1>5. Restarted /\ snap' = snap
  BY DEF CrashInBatch
<1>6. p \in Seq(Line) /\ append(p)
  BY <1>2, <1>4 DEF Fits, Recorded, append_whole
<1>7. OnRecord' = Recovered(OnRecord, p)
  BY <1>5, <1>6, RecordGrows DEF Quiet
<1>8. /\ used' = used \cup Written(p) /\ told' = told \ Purged(p)
      /\ removed' = removed \cup Purged(p)
  BY <1>2 DEF Recorded
<1>9. KeepsPromise /\ KnownIds' /\ ToldStays'
  BY <1>4, <1>7, <1>8, BatchEvolves
<1>10. StoreInv'
  BY CrashInBatchKeeps DEF MemInv
<1> QED
  BY <1>5, <1>9, <1>10, RestartFits DEF MemInv

\* A line that does not parse says nothing.
LEMMA JunkSaysNothing ==
    ASSUME NEW s \in Memories
    PROVE  Recovered(s, <<Junk>>) = s
<1>1. Junk \in Line /\ Junk.op = "junk"
  BY OtherLines
<1>2. Recovered(s, <<Junk>>) = [id \in Ids |-> IF id = Junk.id THEN After(s[id], Junk) ELSE s[id]]
  BY <1>1, OneLine
<1>3. \A id \in Ids : After(s[id], Junk) = s[id]
  BY <1>1 DEF After
<1>4. s = [id \in Ids |-> s[id]]
  BY DEF Memories
<1> QED
  BY <1>2, <1>3, <1>4

\* A torn line is one that fits, or one that says nothing.
LEMMA CrashInLineStep ==
    ASSUME MemInv, Quiet, NEW t \in Turns, NEW f \in Facts, CrashInLine(t, f)
    PROVE  MemInv' /\ KeepsPromise
<1>1. PICK id \in Ids : /\ Remembering(holds[t], f, id)
                        /\ \E e \in {Junk, Put(id, f, "live")} : append(<<e>>)
                        /\ used' = used \cup {id}
  BY DEF CrashInLine
<1>2. holds[t] # 0 /\ Restarted /\ snap' = snap /\ told' = told /\ removed' = removed
  BY DEF CrashInLine
<1>3. OnRecord \in Memories /\ TornIsLast
  BY RecordIsTyped DEF MemInv, OnRecord, Quiet
<1>4. CASE append(<<Junk>>)
  <2>1. Junk \in Line /\ <<Junk>> \in Seq(Line)
    BY OtherLines, OneOrTwo
  <2>2. OnRecord' = OnRecord
    BY <1>2, <1>3, <1>4, <2>1, RecordGrows, JunkSaysNothing
  <2>3. KeepsPromise
    BY <1>2, <2>2 DEF KeepsPromise, Evolves
  <2>4. KnownIds' /\ ToldStays'
    BY <1>1, <1>2, <2>2 DEF MemInv, KnownIds, ToldStays
  <2>5. StoreInv'
    BY CrashInLineKeeps DEF MemInv
  <2> QED
    BY <1>2, <2>3, <2>4, <2>5, RestartFits DEF MemInv
<1>5. CASE append(<<Put(id, f, "live")>>)
  <2> DEFINE e == Put(id, f, "live")
  <2>1. e \in Line /\ e.id = id /\ e.op = "put" /\ FitLine(e)
    BY <1>1, <1>2, RememberingFits
  <2>2. append(<<e>>)
    BY <1>5
  <2> HIDE DEF e
  <2>3. <<e>> \in Seq(Line) /\ Fits(<<e>>)
    BY <2>1, OneFits, OneOrTwo
  <2>4. OnRecord' = Recovered(OnRecord, <<e>>)
    BY <1>2, <1>3, <2>2, <2>3, RecordGrows
  <2>5. Purged(<<e>>) = {} /\ Written(<<e>>) = {id}
    BY <2>1, OneWritten
  <2> DEFINE b == <<e>>
  <2>6. /\ Fits(b) /\ OnRecord' = Recovered(OnRecord, b)
        /\ removed' = removed \cup Purged(b)
        /\ used \subseteq used' /\ Written(b) \subseteq used'
        /\ told' \subseteq (told \cup Written(b)) \ Purged(b)
    BY <1>1, <1>2, <2>3, <2>4, <2>5
  <2> HIDE DEF b
  <2>7. KeepsPromise /\ KnownIds' /\ ToldStays'
    BY <2>6, BatchEvolves
  <2>8. StoreInv'
    BY CrashInLineKeeps DEF MemInv
  <2> QED
    BY <1>2, <2>7, <2>8, RestartFits DEF MemInv
<1> QED
  BY <1>1, <1>4, <1>5

-----------------------------------------------------------------------------
\* Every step keeps the invariant and what the contract says.
LEMMA MemStep ==
    ASSUME MemInv, Quiet, [Next]_vars
    PROVE  MemInv' /\ KeepsPromise
<1>1. CASE TurnStep
  BY <1>1, TakeHandleStep, RememberStep, ForgetStep DEF TurnStep
<1>2. CASE DreamStep
  BY <1>2, SleepStep, IndexStep, ReadStep, LeaveAloneStep, ReadAllStep, ThoughtStep, DecayStep,
     WriteSnapshotStep, TruncateStep DEF DreamStep
<1>3. CASE Evict
  BY <1>3, EvictStep
<1>4. CASE Dies
  BY <1>4, CrashStep, CrashInBatchStep, CrashInLineStep DEF Dies
<1>5. CASE UNCHANGED vars
  <2>1. UNCHANGED <<disk, ram, holds, dream, history>>
    BY <1>5 DEF vars
  <2>2. OnRecord' = OnRecord
    BY <2>1, SameFilesSameRecord DEF disk
  <2>3. FoldFits' /\ ClonesFit'
    BY <2>1, <2>2 DEF MemInv, FoldFits, ClonesFit, Clones, disk, history
  <2>4. StoreInv'
    BY <1>5, StoreStep DEF MemInv
  <2> QED
    BY <2>1, <2>3, <2>4, NothingWritten
<1> QED
  BY <1>1, <1>2, <1>3, <1>4, <1>5 DEF Next

\* Initially nothing is on record.
LEMMA MemStarts == Init => MemInv /\ OnRecord = Nothing
<1> SUFFICES ASSUME Init PROVE MemInv /\ OnRecord = Nothing
  OBVIOUS
<1>1. StoreInv
  BY StoreStarts
<1>2. OnRecord = Nothing
  <2>1. Recovered(Nothing, <<>>) = Nothing
    BY TruncatedLogSaysTheSame, EmptyIsOk
  <2> QED
    BY <2>1 DEF Init, OnRecord
<1>3. OneHandle /\ RamIsRecord /\ FoldFits /\ ClonesFit
  BY DEF Init, OneHandle, RamIsRecord, FoldFits, ClonesFit
<1>4. KnownIds /\ ToldStays
  BY <1>2 DEF Init, Nothing, KnownIds, ToldStays
<1> QED
  BY <1>1, <1>2, <1>3, <1>4 DEF MemInv

\* A store at rest about its files stays so.
LEMMA MemAlways == ASSUME Quiet PROVE Spec => []MemInv
<1>1. Init => MemInv
  BY MemStarts
<1>2. Quiet /\ MemInv /\ [Next]_vars => MemInv'
  BY MemStep
<1>3. []Quiet
  BY PTL
<1> QED
  BY <1>1, <1>2, <1>3, PTL DEF Spec

-----------------------------------------------------------------------------
(* The theorems.                                                           *)

\* A log replayed over any index built from the snapshot.
LEMMA ReplayHolds == StoreInv => ReplayIsLastWord
<1> SUFFICES ASSUME StoreInv PROVE ReplayIsLastWord
  OBVIOUS
<1>1. snap \in Memories /\ wal \in Seq(Line)
  BY DEF StoreInv, FilesOk
<1> DEFINE ix == [Empty EXCEPT !.mems = snap]
<1>2. ix \in Indexes /\ ix.mems = snap /\ \A f \in Facts : ix.byHash[f] = None
  BY <1>1 DEF Empty, Indexes
<1>3. HashesLead(ix)
  BY <1>2 DEF HashesLead
<1> HIDE DEF ix
<1>4. Replayed(ix, wal).mems = Recovered(snap, wal)
  BY <1>1, <1>2, <1>3, ReplayIs
<1> QED
  BY <1>4 DEF ReplayIsLastWord, ix

\* Where Quiet holds, snapshot and log tell one story in whichever way they are
\* read, and the index in RAM tells the same (mod.rs:137-139, wal.rs:117-122).
THEOREM StoryIsOne == ASSUME Quiet PROVE Spec => []OneStory
<1>1. MemInv => OneStory
  BY ReplayHolds DEF MemInv, OneStory, RamIsRecord, RamMatchesDisk, OnRecord
<1> QED
  BY <1>1, MemAlways, PTL

\* Where Quiet holds, what a turn was told is remembered is on record until
\* somebody removes it: restarts, compactions and cut batches lose nothing that
\* was acknowledged (wal.rs:35-37, instance.rs:448-453).
THEOREM ToldIsRemembered == ASSUME Quiet PROVE Spec => []RememberedStays
<1>1. MemInv => RememberedStays
  BY DEF MemInv, ToldStays, RememberedStays, OnRecord
<1> QED
  BY <1>1, MemAlways, PTL

\* The store starts as the contract does.
LEMMA ContractStarts == Init => Contract!Init
<1> SUFFICES ASSUME Init PROVE Contract!Init
  OBVIOUS
<1>1. Recovered(snap, wal) = Nothing
  BY MemStarts DEF OnRecord
<1>2. removed = {}
  BY DEF Init
<1> QED
  BY <1>1, <1>2 DEF Contract!Init, Nothing

\* A step that keeps the promise is one of the contract, or stutters.
LEMMA ContractSteps ==
    ASSUME MemInv, MemInv', KeepsPromise
    PROVE  [Contract!Next]_<<Recovered(snap, wal), removed>>
<1>1. OnRecord' \in Memories /\ removed' \subseteq Ids
  BY ResidentIsUsed, RecoveredTypes DEF OnRecord, MemInv, StoreInv, FilesOk, CountsOk
<1>2. ASSUME NEW id \in Ids
      PROVE  \/ Contract!Kept(id) \/ Contract!Learned(id) \/ Contract!Retired(id)
             \/ Contract!Removed(id) \/ Contract!Revived(id)
  <2>1. Evolves(id, OnRecord, OnRecord', removed, removed')
    BY DEF KeepsPromise
  <2> QED
    BY <2>1 DEF Evolves, OnRecord, Contract!Kept, Contract!Learned, Contract!Retired,
                Contract!Removed, Contract!Revived
<1>3. Recovered(snap, wal)' \in [Ids -> Contract!Memory \cup {None}]
  BY <1>1 DEF OnRecord, Memories, Memory, States, Contract!Memory, Contract!States
<1> QED
  BY <1>1, <1>2, <1>3 DEF Contract!Next

\* Where Quiet holds, the store implements MemoryContract: whatever restarts,
\* compactions and dreams happen, the content of a memory never changes, it goes
\* from live to superseded or archived, and it disappears only when somebody
\* removes it.
THEOREM ContractKept == ASSUME Quiet PROVE Spec => KeepsContract
<1>1. Init => MemInv /\ Contract!Init
  BY MemStarts, ContractStarts
<1>2. MemInv /\ [Next]_vars => MemInv' /\ [Contract!Next]_<<Recovered(snap, wal), removed>>
  BY MemStep, ContractSteps
<1> QED
  BY <1>1, <1>2, PTL DEF Spec, KeepsContract, Contract!Spec

\* Replaying the log line by line, over a snapshot that may have some of it
\* already, gives what the last word on each memory says (wal.rs:117-122): for
\* any switches, so also with two handles on one agent and glued lines.
THEOREM ReplayAlways == Spec => []ReplayIsLastWord
  BY StoreAlways, ReplayHolds, PTL
=============================================================================
