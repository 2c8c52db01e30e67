------------------------- MODULE ProjectPlan_proofs -------------------------
(***************************************************************************)
(* Proofs about ProjectPlan, for any number of rows, kinds of rows, bounds *)
(* and whether or not a person's list arrives while the tick polls.        *)
(***************************************************************************)
EXTENDS ProjectPlan, WellFoundedInduction, TLAPS

(***************************************************************************)
(* Lists.                                                                  *)
(***************************************************************************)

\* A list's mark is a number: a non-empty set of ids has a greatest member.
LEMMA HighWaterType ==
    ASSUME NEW T, IsList(T)
    PROVE  HighWater(T) \in Nat
<1> USE BoundsAreNumbers DEF Ids
<1>1. CASE DOMAIN T = {}
  BY <1>1 DEF HighWater
<1>2. CASE DOMAIN T # {}
  <2> DEFINE back == {n \in Nat : n <= MaxId /\ MaxId - n \in DOMAIN T}
  <2>1. DOMAIN T \subseteq 1..MaxId
    BY DEF IsList
  <2>2. PICK k \in DOMAIN T : TRUE
    BY <1>2
  <2>3. MaxId - k \in back
    BY <2>1, <2>2
  <2>4. back # {} /\ back \subseteq Nat
    BY <2>3
  <2>5. PICK n \in back : \A m \in back : n <= m
    <3> DEFINE less == OpToRel(<, Nat)
    <3>1. IsWellFoundedOn(less, Nat)
      BY NatLessThanWellFounded
    <3>2. PICK n \in back : \A m \in back : <<m, n>> \notin less
      <4> HIDE DEF back, less
      <4> QED
        BY <2>4, <3>1, WFMin
    <3>3. \A m, k1 \in Nat : m < k1 => <<m, k1>> \in less
      BY DEF OpToRel
    <3>4. ASSUME NEW m \in back
          PROVE  n <= m
      <4>1. m \in Nat /\ n \in Nat
        BY <2>4
      <4>2. ~(m < n)
        BY <3>2, <3>3, <4>1
      <4> QED
        BY <4>1, <4>2
    <3> QED
      BY <3>4
  <2>6. MaxId - n \in DOMAIN T /\ \A j \in DOMAIN T : j <= MaxId - n
    <3>1. ASSUME NEW j \in DOMAIN T
          PROVE  j <= MaxId - n
      <4>1. MaxId - j \in back
        BY <2>1
      <4> QED
        BY <2>1, <2>5, <4>1
    <3> QED
      BY <2>5, <3>1
  <2>7. HighWater(T) \in DOMAIN T
    BY <1>2, <2>6 DEF HighWater
  <2> QED
    BY <2>1, <2>7
<1> QED
  BY <1>1, <1>2

\* A row that waits has a run.
Waits(T) == \A i \in DOMAIN T : T[i].status = "waiting" => T[i].run

GoodList(T) == IsList(T) /\ Acyclic(T) /\ Closed(T) /\ Waits(T)

\* Only the dependencies matter to the shape of a plan.
LEMMA SameDeps ==
    ASSUME NEW T, NEW U, DOMAIN U = DOMAIN T,
           \A i \in DOMAIN T : U[i].deps = T[i].deps,
           Acyclic(T), Closed(T)
    PROVE  Acyclic(U) /\ Closed(U)
BY DEF Acyclic, Closed

LEMMA NoRowsIsGood == GoodList(NoRows)
BY DEF GoodList, NoRows, IsList, Acyclic, Closed, Waits

\* A plan with open rows and nothing that waits or is blocked has a row that
\* is ready: among the open rows one depends on no other.
LEMMA OpenRowsAreReady ==
    ASSUME GoodList(tasks)
    PROVE  NothingWedges
<1> DEFINE open == {i \in DOMAIN tasks : tasks[i].status = "todo"}
<1>1. SUFFICES ASSUME open # {},
                      \A i \in DOMAIN tasks : tasks[i].status \notin {"waiting", "blocked"}
               PROVE  ready(tasks) # {}
  BY DEF NothingWedges
<1>2. PICK i \in open : tasks[i].deps \cap open = {}
  BY <1>1 DEF GoodList, Acyclic
<1>3. \A d \in tasks[i].deps : d \in DOMAIN tasks
  BY DEF GoodList, Closed
<1>4. \A d \in DOMAIN tasks : tasks[d].status \in TaskStatuses
  BY DEF GoodList, IsList, Rows
<1>5. \A d \in tasks[i].deps : satisfies_dependency(tasks[d])
  BY <1>1, <1>2, <1>3, <1>4 DEF TaskStatuses, satisfies_dependency
<1> QED
  BY <1>2, <1>5 DEF ready, is_ready

(***************************************************************************)
(* The inductive invariant.  What is held across an await is as good as    *)
(* what is on disk, since it was read from there, and is written back with *)
(* no dependency changed; what a person read need not be, but is checked   *)
(* when it comes back, except that a waiting row has its run.              *)
(***************************************************************************)
PlanInv == TypeOK /\ GoodList(tasks) /\ GoodList(held) /\ Waits(view)

LEMMA InitIsGood == Init => PlanInv
<1> SUFFICES ASSUME Init PROVE PlanInv
  OBVIOUS
<1> USE BoundsAreNumbers DEF Init
<1>1. GoodList(tasks) /\ GoodList(held) /\ GoodList(view)
  BY NoRowsIsGood
<1>2. age \in [Ids -> 0..Patience]
  OBVIOUS
<1> QED
  BY <1>1, <1>2 DEF PlanInv, TypeOK, GoodList

-----------------------------------------------------------------------------
(* The tick.                                                               *)

LEMMA PreflightReadIsGood == PlanInv /\ PreflightRead => PlanInv'
BY DEF PlanInv, TypeOK, PreflightRead, counts, GoodList, IsList, Acyclic, Closed, Waits

\* What a poll folds in keeps a list good.
LEMMA LandedIsGood ==
    ASSUME GoodList(held), NEW S \in SUBSET DOMAIN held, NEW v \in [S -> Verdicts],
           NEW U, U = [i \in DOMAIN held |->
                         IF i \in S THEN Landed(held[i], v[i]) ELSE held[i]]
    PROVE  GoodList(U)
<1>1. IsList(held)
  BY DEF GoodList
<1>2. ASSUME NEW i \in S
      PROVE  /\ Landed(held[i], v[i]) \in Rows
             /\ Landed(held[i], v[i]).deps = held[i].deps
             /\ Landed(held[i], v[i]).status # "waiting"
  <2>1. held[i] \in Rows
    BY <1>1 DEF IsList
  <2>2. (held[i].green \/ v[i] = "green") \in BOOLEAN
    OBVIOUS
  <2> QED
    BY <2>1, <2>2 DEF Landed, Rows, TaskStatuses
<1>3. IsList(U)
  BY <1>1, <1>2 DEF IsList
<1>4. \A i \in DOMAIN held : U[i].deps = held[i].deps
  BY <1>2
<1>5. Acyclic(U) /\ Closed(U)
  BY <1>4, SameDeps DEF GoodList
<1>6. Waits(U)
  BY <1>2 DEF GoodList, Waits
<1> QED
  BY <1>3, <1>5, <1>6 DEF GoodList

LEMMA PreflightSaveIsGood == PlanInv /\ PreflightSave => PlanInv'
<1> SUFFICES ASSUME PlanInv, PreflightSave PROVE PlanInv'
  OBVIOUS
<1> USE BoundsAreNumbers
<1> DEFINE owed == Owed(held)
<1>1. PICK verdict \in [owed -> Verdicts], own \in {"none", "still", "landed"} :
        /\ \A i \in owed : verdict[i] \in VerdictsOf(i)
        /\ LET still == {i \in owed : verdict[i] = "still"}
               after == [i \in DOMAIN held |->
                           IF i \in owed \ still THEN Landed(held[i], verdict[i])
                           ELSE held[i]]
           IN /\ tasks' = IF still = owed THEN tasks ELSE after
              /\ age' = [i \in Ids |-> IF i \in still THEN age[i] + 1 ELSE age[i]]
              /\ pc' = IF /\ still = owed /\ own # "landed"
                          /\ still # {} \/ own = "still"
                          /\ ready(after) = {}
                       THEN "idle" ELSE "turn"
  BY DEF PreflightSave
<1> DEFINE still == {i \in owed : verdict[i] = "still"}
           landed == owed \ still
           after == [i \in DOMAIN held |->
                       IF i \in landed THEN Landed(held[i], [j \in landed |-> verdict[j]][i])
                       ELSE held[i]]
<1>2. GoodList(after)
  <2>1. landed \in SUBSET DOMAIN held
    BY DEF Owed
  <2>2. [j \in landed |-> verdict[j]] \in [landed -> Verdicts]
    OBVIOUS
  <2>3. GoodList(held)
    BY DEF PlanInv
  <2> QED
    BY <2>1, <2>2, <2>3, LandedIsGood
<1>3. tasks' = tasks \/ tasks' = after
  <2>1. after = [i \in DOMAIN held |->
                   IF i \in owed \ still THEN Landed(held[i], verdict[i]) ELSE held[i]]
    OBVIOUS
  <2> QED
    BY <1>1, <2>1
<1>4. GoodList(tasks')
  BY <1>2, <1>3 DEF PlanInv
<1>5. age' \in [Ids -> 0..Patience]
  <2>1. ASSUME NEW i \in still
        PROVE  age[i] < Patience
    BY <1>1, <2>1 DEF VerdictsOf
  <2>2. age \in [Ids -> 0..Patience]
    BY DEF PlanInv, TypeOK
  <2>3. \A i \in Ids : (IF i \in still THEN age[i] + 1 ELSE age[i]) \in 0..Patience
    BY <2>1, <2>2
  <2> QED
    BY <1>1, <2>3
<1>6. pc' \in {"idle", "turn"}
  BY <1>1
<1>7. held' = NoRows /\ UNCHANGED <<flight, view, born, counts>>
  BY DEF PreflightSave
<1>8. GoodList(held')
  BY <1>7, NoRowsIsGood
<1> QED
  BY <1>4, <1>5, <1>6, <1>7, <1>8 DEF PlanInv, TypeOK, GoodList, counts, Waits, IsList

LEMMA EndTurnIsGood == PlanInv /\ EndTurn => PlanInv'
BY DEF PlanInv, TypeOK, EndTurn, counts, GoodList, IsList, Acyclic, Closed, Waits

LEMMA CrashIsGood == PlanInv /\ Crash => PlanInv'
<1> SUFFICES ASSUME PlanInv, Crash PROVE PlanInv'
  OBVIOUS
<1>1. GoodList(held')
  BY NoRowsIsGood DEF Crash
<1> QED
  BY <1>1, BoundsAreNumbers
  DEF PlanInv, TypeOK, Crash, GoodList, IsList, Acyclic, Closed, Waits

\* An attempt counted on a row changes no dependency and no status.
LEMMA DispatchReturnsIsGood == PlanInv /\ DispatchReturns => PlanInv'
<1> SUFFICES ASSUME PlanInv, DispatchReturns PROVE PlanInv'
  OBVIOUS
<1>1. PICK undone \in SUBSET flight : tasks' = Returned(tasks, undone)
  BY DEF DispatchReturns
<1>2. IsList(tasks)
  BY DEF PlanInv, GoodList
<1>3. DOMAIN tasks' = DOMAIN tasks
  BY <1>1 DEF Returned
<1>4. ASSUME NEW i \in DOMAIN tasks
      PROVE  /\ tasks'[i] \in Rows /\ tasks'[i].deps = tasks[i].deps
             /\ tasks'[i].status = tasks[i].status /\ tasks'[i].run = tasks[i].run
  <2>1. tasks[i] \in Rows
    BY <1>2 DEF IsList
  <2> QED
    BY <1>1, <2>1 DEF Returned, Rows
<1>5. IsList(tasks')
  <2>1. tasks' = [i \in DOMAIN tasks |-> tasks'[i]]
    BY <1>1 DEF Returned
  <2> QED
    BY <1>2, <1>3, <1>4, <2>1 DEF IsList
<1>6. Acyclic(tasks') /\ Closed(tasks')
  BY <1>3, <1>4, SameDeps DEF PlanInv, GoodList
<1>7. Waits(tasks')
  BY <1>3, <1>4 DEF PlanInv, GoodList, Waits
<1>8. GoodList(held')
  BY NoRowsIsGood DEF DispatchReturns
<1> QED
  BY <1>5, <1>6, <1>7, <1>8 DEF PlanInv, TypeOK, DispatchReturns, counts, GoodList, Waits, IsList

-----------------------------------------------------------------------------
(* The agents' tools.                                                      *)

\* A tool that changes nothing but the list, and leaves a good one.
LEMMA ToolKeepsRest ==
    ASSUME PlanInv, Tool, UNCHANGED <<pc, held, flight>>, GoodList(tasks'),
           age' \in [Ids -> 0..Patience], born' \in Nat
    PROVE  PlanInv'
<1>1. GoodList(held') /\ Waits(view')
  BY DEF PlanInv, Tool, GoodList, IsList, Acyclic, Closed, Waits
<1>2. calls' \in Nat /\ UNCHANGED <<view, puts, crashes>>
  BY DEF PlanInv, TypeOK, Tool
<1> QED
  BY <1>1, <1>2 DEF PlanInv, TypeOK, GoodList, IsList

\* One row rewritten, with the dependencies it had.
LEMMA RowIsGood ==
    ASSUME GoodList(tasks), NEW i \in DOMAIN tasks, NEW row \in Rows,
           row.deps = tasks[i].deps, row.status = "waiting" => row.run
    PROVE  GoodList([tasks EXCEPT ![i] = row])
<1> DEFINE U == [tasks EXCEPT ![i] = row]
<1>1. IsList(tasks)
  BY DEF GoodList
<1>2. DOMAIN U = DOMAIN tasks
  OBVIOUS
<1>3. \A j \in DOMAIN tasks : U[j] = IF j = i THEN row ELSE tasks[j]
  BY <1>1 DEF IsList
<1>4. IsList(U)
  BY <1>1, <1>2, <1>3 DEF IsList
<1>5. \A j \in DOMAIN tasks : U[j].deps = tasks[j].deps
  BY <1>3
<1>6. Acyclic(U) /\ Closed(U)
  BY <1>2, <1>5, SameDeps DEF GoodList
<1>7. Waits(U)
  BY <1>2, <1>3 DEF GoodList, Waits
<1> QED
  BY <1>4, <1>6, <1>7 DEF GoodList

LEMMA TaskAddIsGood == PlanInv /\ TaskAdd => PlanInv'
<1> SUFFICES ASSUME PlanInv, TaskAdd PROVE PlanInv'
  OBVIOUS
<1> DEFINE first == next_id(tasks)
<1>1. IsList(tasks)
  BY DEF PlanInv, GoodList
<1>2. first \in Nat
  BY <1>1, HighWaterType DEF next_id
<1>3. PICK n \in 1..2 :
        LET minted == first..(first + n - 1)
        IN /\ minted \subseteq Ids
           /\ \E deps \in [minted -> SUBSET (DOMAIN tasks \cup minted)],
                 kind \in [minted -> Kinds] :
               LET added == [i \in minted |->
                               NewRow(kind[i], deps[i], born + 1 + i - first)]
                   list == With(tasks, added)
               IN /\ \A i \in minted : i \notin deps[i]
                  /\ Cardinality(DOMAIN tasks) + n <= MaxTasks
                  /\ Acyclic(list)
                  /\ tasks' = list
           /\ born' = born + n
  BY DEF TaskAdd
<1> DEFINE minted == first..(first + n - 1)
<1>4. PICK deps \in [minted -> SUBSET (DOMAIN tasks \cup minted)],
           kind \in [minted -> Kinds] :
        LET added == [i \in minted |->
                        NewRow(kind[i], deps[i], born + 1 + i - first)]
            list == With(tasks, added)
        IN /\ \A i \in minted : i \notin deps[i]
           /\ Acyclic(list)
           /\ tasks' = list
  BY <1>3
<1> DEFINE added == [i \in minted |-> NewRow(kind[i], deps[i], born + 1 + i - first)]
<1>5. minted \subseteq Ids /\ Acyclic(tasks') /\ tasks' = With(tasks, added)
  BY <1>3, <1>4
<1>6. ASSUME NEW i \in minted
      PROVE  added[i] \in Rows /\ added[i].deps = deps[i] /\ added[i].status = "todo"
  <2>1. born + 1 + i - first \in Nat
    BY <1>2, <1>3 DEF PlanInv, TypeOK
  <2>2. kind[i] \in [writes : BOOLEAN, gate : BOOLEAN]
    BY <1>4, KindsAreKinds
  <2>3. deps[i] \subseteq Ids
    BY <1>1, <1>4, <1>5 DEF IsList
  <2> HIDE DEF minted
  <2> QED
    BY <2>1, <2>2, <2>3 DEF NewRow, Rows, TaskStatuses
<1> HIDE DEF minted, added
<1>7. /\ DOMAIN tasks' = DOMAIN tasks \cup minted
      /\ \A i \in DOMAIN tasks' :
            tasks'[i] = IF i \in minted THEN added[i] ELSE tasks[i]
      /\ tasks' = [i \in DOMAIN tasks' |-> tasks'[i]]
  BY <1>5 DEF With, added
<1>8. IsList(tasks')
  BY <1>1, <1>5, <1>6, <1>7 DEF IsList
<1>9. Closed(tasks')
  <2>1. ASSUME NEW i \in minted
        PROVE  tasks'[i].deps \subseteq DOMAIN tasks' \ {i}
    BY <1>4, <1>6, <1>7
  <2>2. ASSUME NEW i \in DOMAIN tasks, i \notin minted
        PROVE  tasks'[i].deps \subseteq DOMAIN tasks' \ {i}
    BY <1>7, <2>2 DEF PlanInv, GoodList, Closed
  <2> QED
    BY <1>7, <2>1, <2>2 DEF Closed
<1>10. Waits(tasks')
  BY <1>6, <1>7 DEF Waits, PlanInv, GoodList
<1>11. /\ Tool /\ UNCHANGED <<pc, held, flight, age>>
       /\ born' \in Nat
  BY <1>3 DEF TaskAdd, ToolOnly, PlanInv, TypeOK
<1>12. GoodList(tasks')
  BY <1>5, <1>8, <1>9, <1>10 DEF GoodList
<1> QED
  BY <1>11, <1>12, ToolKeepsRest DEF PlanInv, TypeOK

LEMMA TaskRedepIsGood ==
    ASSUME PlanInv, NEW i \in DOMAIN tasks, TaskRedep(i)
    PROVE  PlanInv'
<1>1. PICK deps \in SUBSET (DOMAIN tasks \ {i}) :
        tasks' = [tasks EXCEPT ![i].deps = deps] /\ Acyclic(tasks')
  BY DEF TaskRedep
<1>2. IsList(tasks) /\ Closed(tasks) /\ Waits(tasks)
  BY DEF PlanInv, GoodList
<1>3. \A j \in DOMAIN tasks : tasks[j] \in Rows
  BY <1>2 DEF IsList
<1>4. \A j \in DOMAIN tasks :
        tasks'[j] = IF j = i THEN [tasks[j] EXCEPT !.deps = deps] ELSE tasks[j]
  BY <1>1
<1>5. DOMAIN tasks' = DOMAIN tasks
  BY <1>1
<1>6. deps \in SUBSET Ids
  BY <1>2 DEF IsList
<1>7. [tasks[i] EXCEPT !.deps = deps] \in Rows
  BY <1>3, <1>6 DEF Rows
<1>8. IsList(tasks')
  BY <1>1, <1>2, <1>3, <1>4, <1>5, <1>7 DEF IsList
<1>9. \A j \in DOMAIN tasks :
        /\ tasks'[j].deps = IF j = i THEN deps ELSE tasks[j].deps
        /\ tasks'[j].status = tasks[j].status /\ tasks'[j].run = tasks[j].run
  BY <1>3, <1>4 DEF Rows
<1>10. Closed(tasks')
  BY <1>2, <1>5, <1>9 DEF Closed
<1>11. Waits(tasks')
  BY <1>2, <1>5, <1>9 DEF Waits
<1> QED
  BY <1>1, <1>8, <1>10, <1>11, ToolKeepsRest
  DEF TaskRedep, ToolOnly, PlanInv, TypeOK, GoodList

LEMMA TaskRekindIsGood ==
    ASSUME PlanInv, NEW i \in DOMAIN tasks, NEW kind \in Kinds, TaskRekind(i, kind)
    PROVE  PlanInv'
<1> DEFINE row == [tasks[i] EXCEPT !.kind = kind]
<1>1. GoodList(tasks) /\ tasks[i] \in Rows
  BY DEF PlanInv, GoodList, IsList
<1>2. /\ row \in Rows /\ row.deps = tasks[i].deps
      /\ row.status = tasks[i].status /\ row.run = tasks[i].run
  BY <1>1, KindsAreKinds DEF Rows
<1>3. row.status = "waiting" => row.run
  BY <1>1, <1>2 DEF GoodList, Waits
<1>4. tasks' = [tasks EXCEPT ![i] = row]
  BY DEF TaskRekind
<1>5. GoodList(tasks')
  BY <1>1, <1>2, <1>3, <1>4, RowIsGood
<1> QED
  BY <1>5, ToolKeepsRest DEF TaskRekind, ToolOnly, PlanInv, TypeOK

LEMMA TaskSetIsGood ==
    ASSUME PlanInv, NEW i \in DOMAIN tasks, NEW s \in {"todo", "blocked", "dropped"},
           TaskSet(i, s)
    PROVE  PlanInv'
<1> DEFINE row == [tasks[i] EXCEPT !.status = s]
<1>1. GoodList(tasks) /\ tasks[i] \in Rows
  BY DEF PlanInv, GoodList, IsList
<1>2. row \in Rows /\ row.deps = tasks[i].deps /\ row.status # "waiting"
  BY <1>1 DEF Rows, TaskStatuses
<1>3. tasks' = [tasks EXCEPT ![i] = row]
  BY DEF TaskSet
<1>4. GoodList(tasks')
  BY <1>1, <1>2, <1>3, RowIsGood
<1> QED
  BY <1>4, ToolKeepsRest DEF TaskSet, ToolOnly, PlanInv, TypeOK

LEMMA TaskDoneIsGood ==
    ASSUME PlanInv, NEW i \in DOMAIN tasks, TaskDone(i)
    PROVE  PlanInv'
<1>1. GoodList(tasks) /\ tasks[i] \in Rows
  BY DEF PlanInv, GoodList, IsList
<1>2. PICK claim \in BOOLEAN :
        tasks' = [tasks EXCEPT ![i].status = "done", ![i].run = FALSE,
                               ![i].green = @ \/ claim]
  BY DEF TaskDone
<1> DEFINE row == [tasks[i] EXCEPT !.status = "done", !.run = FALSE,
                                   !.green = tasks[i].green \/ claim]
<1>3. row \in Rows /\ row.deps = tasks[i].deps /\ row.status # "waiting"
  <2>1. (tasks[i].green \/ claim) \in BOOLEAN
    OBVIOUS
  <2> QED
    BY <1>1, <2>1 DEF Rows, TaskStatuses
<1>4. tasks' = [tasks EXCEPT ![i] = row]
  BY <1>1, <1>2 DEF Rows, GoodList, IsList
<1>5. GoodList(tasks')
  BY <1>1, <1>3, <1>4, RowIsGood
<1> QED
  BY <1>5, ToolKeepsRest DEF TaskDone, ToolOnly, PlanInv, TypeOK

LEMMA TaskAwaitRunIsGood ==
    ASSUME PlanInv, NEW i \in DOMAIN tasks, TaskAwaitRun(i)
    PROVE  PlanInv'
<1> DEFINE row == [tasks[i] EXCEPT !.status = "waiting", !.run = TRUE]
<1>1. GoodList(tasks) /\ tasks[i] \in Rows
  BY DEF PlanInv, GoodList, IsList
<1>2. row \in Rows /\ row.deps = tasks[i].deps /\ row.run
  BY <1>1 DEF Rows, TaskStatuses
<1>3. tasks' = [tasks EXCEPT ![i] = row]
  BY DEF TaskAwaitRun
<1>4. GoodList(tasks')
  BY <1>1, <1>2, <1>3, RowIsGood
<1>5. age' \in [Ids -> 0..Patience]
  <2>1. age \in [Ids -> 0..Patience] /\ age' = [age EXCEPT ![i] = 0]
    BY DEF TaskAwaitRun, PlanInv, TypeOK
  <2>2. 0 \in 0..Patience
    BY BoundsAreNumbers
  <2> QED
    BY <2>1, <2>2
<1> QED
  BY <1>4, <1>5, ToolKeepsRest DEF TaskAwaitRun, ToolOnly, PlanInv, TypeOK

LEMMA TaskDispatchIsGood ==
    ASSUME PlanInv, NEW S \in SUBSET DOMAIN tasks, TaskDispatch(S)
    PROVE  PlanInv'
<1>1. held' = tasks /\ tasks' = tasks /\ view' = view
  BY DEF TaskDispatch, Tool
<1>2. GoodList(tasks') /\ GoodList(held') /\ Waits(view')
  BY <1>1 DEF PlanInv, GoodList, IsList, Acyclic, Closed, Waits
<1>3. flight' \in SUBSET Ids
  BY DEF TaskDispatch, PlanInv, TypeOK, IsList
<1>4. calls' \in Nat
  BY DEF TaskDispatch, Tool, PlanInv, TypeOK
<1> QED
  BY <1>1, <1>2, <1>3, <1>4 DEF TaskDispatch, Tool, PlanInv, TypeOK, GoodList, IsList

-----------------------------------------------------------------------------
(* A person.                                                               *)

LEMMA ReadPlanIsGood == PlanInv /\ ReadPlan => PlanInv'
BY DEF PlanInv, TypeOK, ReadPlan, counts, GoodList, IsList, Acyclic, Closed, Waits

\* An edited list is a list, and makes no row wait that did not.
LEMMA EditsAreLists ==
    ASSUME PlanInv, NEW list \in Edits(view)
    PROVE  IsList(list) /\ Waits(list)
<1>1. IsList(view) /\ Waits(view) /\ born \in Nat
  BY DEF PlanInv, TypeOK
<1>2. \A j \in DOMAIN view : view[j] \in Rows
  BY <1>1 DEF IsList
<1>3. CASE list \in {Without(view, i) : i \in DOMAIN view}
  <2>1. PICK i \in DOMAIN view : list = Without(view, i)
    BY <1>3
  <2>2. ASSUME NEW j \in DOMAIN list
        PROVE  /\ list[j] \in Rows /\ j \in DOMAIN view
               /\ list[j].status = view[j].status /\ list[j].run = view[j].run
    <3>1. j \in DOMAIN view /\ list[j] = [view[j] EXCEPT !.deps = view[j].deps \ {i}]
      BY <2>1 DEF Without
    <3>2. view[j] \in Rows
      BY <1>2, <3>1
    <3> QED
      BY <3>1, <3>2 DEF Rows
  <2>3. DOMAIN list \in SUBSET Ids /\ list = [j \in DOMAIN list |-> list[j]]
    BY <1>1, <2>1 DEF Without, IsList
  <2> QED
    BY <1>1, <2>2, <2>3 DEF IsList, Waits
<1>4. CASE list \in {[view EXCEPT ![i].status = s] :
                       i \in DOMAIN view, s \in {"todo", "done", "dropped"}}
  <2>1. PICK i \in DOMAIN view, s \in {"todo", "done", "dropped"} :
          list = [view EXCEPT ![i].status = s]
    BY <1>4
  <2>2. DOMAIN list = DOMAIN view /\ list = [j \in DOMAIN list |-> list[j]]
    BY <1>1, <2>1 DEF IsList
  <2>3. ASSUME NEW j \in DOMAIN view
        PROVE  /\ list[j] \in Rows
               /\ list[j].status = "waiting" => view[j].status = "waiting"
               /\ list[j].run = view[j].run
    <3>1. list[j] = IF j = i THEN [view[j] EXCEPT !.status = s] ELSE view[j]
      BY <1>1, <2>1 DEF IsList
    <3>2. view[j] \in Rows
      BY <1>2
    <3> QED
      BY <3>1, <3>2 DEF Rows, TaskStatuses
  <2> QED
    BY <1>1, <2>2, <2>3 DEF IsList, Waits
<1>5. CASE list \in {[view EXCEPT ![i].deps = D] :
                       i \in DOMAIN view, D \in SUBSET DOMAIN view}
  <2>1. PICK i \in DOMAIN view, D \in SUBSET DOMAIN view :
          list = [view EXCEPT ![i].deps = D]
    BY <1>5
  <2>2. DOMAIN list = DOMAIN view /\ list = [j \in DOMAIN list |-> list[j]]
    BY <1>1, <2>1 DEF IsList
  <2>3. ASSUME NEW j \in DOMAIN view
        PROVE  /\ list[j] \in Rows
               /\ list[j].status = view[j].status /\ list[j].run = view[j].run
    <3>1. list[j] = IF j = i THEN [view[j] EXCEPT !.deps = D] ELSE view[j]
      BY <1>1, <2>1 DEF IsList
    <3>2. view[j] \in Rows /\ D \in SUBSET Ids
      BY <1>1, <1>2 DEF IsList
    <3> QED
      BY <3>1, <3>2 DEF Rows
  <2> QED
    BY <1>1, <2>2, <2>3 DEF IsList, Waits
<1>6. ASSUME NEW i \in Ids \ DOMAIN view, NEW k \in Kinds,
             list = Plus(view, i, NewRow(k, {}, born + 1))
      PROVE  IsList(list) /\ Waits(list)
  <2>1. NewRow(k, {}, born + 1) \in Rows /\ NewRow(k, {}, born + 1).status = "todo"
    BY <1>1, KindsAreKinds DEF NewRow, Rows, TaskStatuses
  <2>2. /\ DOMAIN list = DOMAIN view \cup {i} /\ list = [j \in DOMAIN list |-> list[j]]
        /\ \A j \in DOMAIN list : list[j] = IF j = i THEN NewRow(k, {}, born + 1) ELSE view[j]
    BY <1>6 DEF Plus, With
  <2> QED
    BY <1>1, <1>2, <2>1, <2>2 DEF IsList, Waits
<1>7. CASE list \in {Plus(view, i, NewRow(k, {}, born + 1)) : i \in Ids \ DOMAIN view, k \in Kinds}
  BY <1>6, <1>7
<1> QED
  BY <1>3, <1>4, <1>5, <1>7 DEF Edits

LEMMA PutTasksIsGood == PlanInv /\ PutTasks => PlanInv'
<1> SUFFICES ASSUME PlanInv, PutTasks PROVE PlanInv'
  OBVIOUS
<1>1. PICK list \in Edits(view) : validate(list) /\ tasks' = list
  BY DEF PutTasks
<1>2. GoodList(tasks')
  BY <1>1, EditsAreLists DEF validate, GoodList
<1>3. GoodList(held') /\ Waits(view')
  BY DEF PlanInv, PutTasks, GoodList, IsList, Acyclic, Closed, Waits
<1> QED
  BY <1>2, <1>3 DEF PutTasks, PlanInv, TypeOK, GoodList, IsList

-----------------------------------------------------------------------------
LEMMA NextIsGood == PlanInv /\ [Next]_vars => PlanInv'
<1> SUFFICES ASSUME PlanInv, [Next]_vars PROVE PlanInv'
  OBVIOUS
<1>1. CASE Tick
  BY <1>1, PreflightReadIsGood, PreflightSaveIsGood, DispatchReturnsIsGood, EndTurnIsGood DEF Tick
<1>2. CASE UseTool
  BY <1>2, TaskAddIsGood, TaskRedepIsGood, TaskDoneIsGood, TaskAwaitRunIsGood,
     TaskRekindIsGood, TaskSetIsGood, TaskDispatchIsGood DEF UseTool
<1>3. CASE UNCHANGED vars
  BY <1>3 DEF vars, counts, PlanInv, TypeOK, GoodList, IsList, Acyclic, Closed, Waits
<1> QED
  BY <1>1, <1>2, <1>3, ReadPlanIsGood, PutTasksIsGood, CrashIsGood DEF Next

LEMMA PlanIsGood == Spec => []PlanInv
BY InitIsGood, NextIsGood, PTL DEF Spec

\* Every variable keeps its type; what is held across an await is a list.
THEOREM PlanTypes == Spec => []TypeOK
<1>1. PlanInv => TypeOK
  BY DEF PlanInv
<1> QED
  BY <1>1, PlanIsGood, PTL

\* However tools, polls that save what they read, and lists put back by people
\* interleave, also while a poll awaits, the plan has no cycle and names only
\* its own rows.
THEOREM PlanStaysWellFormed == Spec => []PlanWellFormed
<1>1. PlanInv => PlanWellFormed
  BY DEF PlanInv, GoodList, PlanWellFormed
<1> QED
  BY <1>1, PlanIsGood, PTL

\* No row waits for a run it does not have: the poll will look at it.
THEOREM NobodyWaitsForNothing == Spec => []WaitingIsOwed
<1>1. PlanInv => WaitingIsOwed
  BY DEF PlanInv, GoodList, Waits, WaitingIsOwed
<1> QED
  BY <1>1, PlanIsGood, PTL

\* A plan with open rows always has one that is ready, waits or is blocked:
\* its own shape cannot stop it.
THEOREM PlanNeverWedges == Spec => []NothingWedges
<1>1. PlanInv => NothingWedges
  BY OpenRowsAreReady DEF PlanInv
<1> QED
  BY <1>1, PlanIsGood, PTL
=============================================================================
