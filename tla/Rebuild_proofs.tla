---------------------------- MODULE Rebuild_proofs ----------------------------
(***************************************************************************)
(* What holds of the repair of the change rows for any apps, any number of *)
(* runs and any size of a page.                                            *)
(*                                                                         *)
(* A step changes one run (GoesKeeps), or the tables under all of them     *)
(* (TablesMove): a run cares about no more than that no release goes, no   *)
(* true rows become false, and no app comes.                               *)
(***************************************************************************)
EXTENDS Rebuild, TLAPS, FiniteSetTheorems

Tables == [Apps -> Seq([pair : Rows, stamp : Nat])]

\* What the invariant says of one run.
RunOK(q, table, there) ==
    /\ q \in Run
    /\ \A a \in Apps : q.owed[a] <= Len(table[a])
    /\ q.pc = "done" => \A a \in there : \A n \in 1..q.owed[a] : True(table, a, n)
    /\ Placed(q, table)
    /\ Behind(q, table, there)

TablesOK(there, table) ==
    /\ there \subseteq Apps
    /\ table \in Tables
    /\ \A a \in Apps : \A n \in 1..Len(table[a]) : table[a][n].pair # Stale => True(table, a, n)

\* The invariant, one run at a time.
LEMMA Split ==
    IInv <=> /\ TablesOK(apps, rows)
             /\ run \in [Runs -> Run]
             /\ \A r \in Runs : RunOK(run[r], rows, apps)
  BY DEF IInv, TypeOK, NeverWrong, DoneIsRepaired, TablesOK, RunOK, Tables

LEMMA SplitNext ==
    IInv' <=> /\ TablesOK(apps', rows')
              /\ run' \in [Runs -> Run]
              /\ \A r \in Runs : RunOK(run'[r], rows', apps')
  BY DEF IInv, TypeOK, NeverWrong, DoneIsRepaired, TablesOK, RunOK, Tables

\* A step of one run keeps the invariant if it leaves that run in order.
LEMMA GoesKeeps ==
    ASSUME IInv, NEW r \in Runs, NEW q, RunOK(q, rows, apps), Goes(r, q)
    PROVE  IInv'
  <1>1. q \in Run
    BY DEF RunOK
  <1>2. run' = [run EXCEPT ![r] = q] /\ apps' = apps /\ rows' = rows
    BY DEF Goes
  <1>3. run' \in [Runs -> Run]
    BY <1>1, <1>2, Split
  <1>4. \A s \in Runs : RunOK(run'[s], rows', apps')
    BY <1>2, Split
  <1> QED
    BY <1>2, <1>3, <1>4, Split, SplitNext

\* A run is in order after any change of the tables that loses no release, no true
\* rows, and adds no app.
LEMMA TablesMove ==
    ASSUME NEW q, NEW table \in Tables, NEW later \in Tables, NEW there, NEW remain,
           RunOK(q, table, there), remain \subseteq there, there \subseteq Apps,
           \A a \in Apps : Len(table[a]) <= Len(later[a]),
           \A a \in Apps : \A n \in 1..Len(table[a]) : True(table, a, n) => True(later, a, n)
    PROVE  RunOK(q, later, remain)
  <1>1. \A a \in Apps : Len(table[a]) \in Nat /\ Len(later[a]) \in Nat
    BY DEF Tables
  <1>2. q \in Run /\ q.owed \in [Apps -> Nat] /\ q.n \in Nat /\ q.listed \in Nat
    BY DEF RunOK, Run
  <1>3. \A a \in Apps : q.owed[a] <= Len(later[a])
    BY <1>1, <1>2 DEF RunOK
  <1>4. \A a \in there : \A n \in 1..q.owed[a] : True(table, a, n) => True(later, a, n)
    BY <1>1, <1>2 DEF RunOK
  <1>5. Placed(q, later)
    BY <1>1, <1>2 DEF RunOK, Placed
  <1>6. Behind(q, later, remain)
    BY <1>4 DEF RunOK, Behind
  <1> QED
    BY <1>2, <1>3, <1>4, <1>5, <1>6 DEF RunOK

\* A run that has not begun, or has failed, owes nothing.
LEMMA AtRest ==
    ASSUME NEW q \in Run, q.pc \in {"idle", "failed"},
           \A a \in Apps : q.owed[a] = 0, TablesOK(apps, rows)
    PROVE  RunOK(q, rows, apps)
  <1>1. \A a \in Apps : Len(rows[a]) \in Nat
    BY DEF TablesOK, Tables
  <1> QED
    BY <1>1 DEF RunOK, Placed, Behind, Walking, AtRelease

LEMMA IdleType == Idle \in Run /\ Failed \in Run /\ \A a \in Apps : Idle.owed[a] = 0 /\ Failed.owed[a] = 0
  BY DEF Idle, Failed, Run

-----------------------------------------------------------------------------
(* Pages.                                                                  *)

\* A page is in order, is empty only where nothing is left, and whole if it is short.
LEMMA PageFacts ==
    ASSUME NEW S \in SUBSET Apps, NEW P \in Pages(S)
    PROVE  /\ P \subseteq S
           /\ \A a \in P : \A b \in S \ P : a < b
           /\ P = {} => S = {}
           /\ Cardinality(P) < Batch => P = S
  <1>1. IsFiniteSet(S) /\ IsFiniteSet(P) /\ P \subseteq S
    BY AppsAssumption, FS_Subset DEF Pages
  <1>2. Cardinality(S) \in Nat /\ Cardinality(P) \in Nat
    BY <1>1, FS_CardinalityType
  <1>3. Cardinality(P) = IF Cardinality(S) < Batch THEN Cardinality(S) ELSE Batch
    BY DEF Pages
  <1>4. Cardinality(P) = Cardinality(S) => P = S
    BY <1>1, FS_Subset
  <1>5. Cardinality({}) = 0
    BY FS_EmptySet
  <1> QED
    BY <1>1, <1>2, <1>3, <1>4, <1>5, BoundsAssumption DEF Pages

-----------------------------------------------------------------------------
(* The steps.                                                              *)

LEMMA InitOK == Init => IInv
  <1> SUFFICES ASSUME Init PROVE IInv
    OBVIOUS
  <1>1. rows \in Tables
    <2> SUFFICES ASSUME NEW a \in Apps PROVE rows[a] \in Seq([pair : Rows, stamp : Nat])
      BY DEF Init, Tables
    <2>1. /\ [pair |-> Stale, stamp |-> 0] \in [pair : Rows, stamp : Nat]
          /\ [pair |-> <<0, 1>>, stamp |-> 0] \in [pair : Rows, stamp : Nat]
      BY DEF Rows
    <2>2. rows[a] \in {<<>>, <<[pair |-> Stale, stamp |-> 0]>>,
                       <<[pair |-> <<0, 1>>, stamp |-> 0], [pair |-> Stale, stamp |-> 0]>>}
      BY DEF Init
    <2> DEFINE stale == [pair |-> Stale, stamp |-> 0]
               true == [pair |-> <<0, 1>>, stamp |-> 0]
               Change == [pair : Rows, stamp : Nat]
    <2>3. stale \in Change /\ true \in Change /\ rows[a] \in {<<>>, <<stale>>, <<true, stale>>}
      BY <2>1, <2>2
    <2> HIDE DEF stale, true, Change
    <2>4. rows[a] \in Seq(Change)
      <3>1. CASE rows[a] = <<>>
        BY <3>1
      <3>2. CASE rows[a] = <<stale>>
        BY <2>3, <3>2
      <3>3. CASE rows[a] = <<true, stale>>
        BY <2>3, <3>3
      <3> QED
        BY <2>3, <3>1, <3>2, <3>3
    <2> QED
      BY <2>4 DEF Change
  <1>2. ASSUME NEW a \in Apps, NEW n \in 1..Len(rows[a]), rows[a][n].pair # Stale
        PROVE  True(rows, a, n)
    <2>1. rows[a] \in {<<>>, <<[pair |-> Stale, stamp |-> 0]>>,
                       <<[pair |-> <<0, 1>>, stamp |-> 0], [pair |-> Stale, stamp |-> 0]>>}
      BY DEF Init
    <2>2. CASE rows[a] = <<>>
      BY <2>2
    <2>3. CASE rows[a] = <<[pair |-> Stale, stamp |-> 0]>>
      <3>1. Len(rows[a]) = 1 /\ rows[a][1].pair = Stale
        BY <2>3
      <3>2. n = 1
        BY <3>1
      <3> QED
        BY <1>2, <3>1, <3>2
    <2>4. CASE rows[a] = <<[pair |-> <<0, 1>>, stamp |-> 0], [pair |-> Stale, stamp |-> 0]>>
      BY <1>2, <2>4 DEF True
    <2> QED
      BY <2>1, <2>2, <2>3, <2>4
  <1>3. TablesOK(apps, rows)
    BY <1>1, <1>2 DEF TablesOK, Init
  <1>4. \A r \in Runs : run[r] = Idle
    BY DEF Init
  <1>5. run \in [Runs -> Run] /\ Idle.pc = "idle"
    BY IdleType DEF Init, Idle
  <1>6. \A r \in Runs : RunOK(run[r], rows, apps)
    BY <1>3, <1>4, <1>5, IdleType, AtRest
  <1> QED
    BY <1>3, <1>5, <1>6, Split

LEMMA CutOK ==
    ASSUME IInv, NEW a \in Apps, Cut(a)
    PROVE  IInv'
  <1>1. TablesOK(apps, rows) /\ rows \in Tables /\ rows[a] \in Seq([pair : Rows, stamp : Nat])
    BY Split DEF TablesOK, Tables
  <1> DEFINE new == [pair |-> <<Len(rows[a]), Len(rows[a]) + 1>>, stamp |-> 0]
  <1>2. new \in [pair : Rows, stamp : Nat]
    BY <1>1 DEF Rows
  <1>3. rows' = [rows EXCEPT ![a] = Append(rows[a], new)] /\ apps' = apps /\ run' = run
    BY DEF Cut
  <1>4. new.pair = <<Len(rows[a]), Len(rows[a]) + 1>>
    OBVIOUS
  <1> HIDE DEF new
  <1>5. /\ Append(rows[a], new) \in Seq([pair : Rows, stamp : Nat])
        /\ Len(Append(rows[a], new)) = Len(rows[a]) + 1
        /\ \A n \in 1..Len(rows[a]) : Append(rows[a], new)[n] = rows[a][n]
        /\ Append(rows[a], new)[Len(rows[a]) + 1] = new
    BY <1>1, <1>2
  <1>6. rows' \in Tables
    BY <1>1, <1>3, <1>5 DEF Tables
  <1>7. \A x \in Apps : Len(rows[x]) \in Nat /\ Len(rows'[x]) \in Nat /\ Len(rows[x]) <= Len(rows'[x])
    BY <1>1, <1>3, <1>5 DEF Tables
  <1>8. \A x \in Apps : \A n \in 1..Len(rows[x]) : rows'[x][n] = rows[x][n]
    BY <1>1, <1>3, <1>5 DEF Tables
  <1>9. ASSUME NEW x \in Apps, NEW n \in 1..Len(rows'[x]), rows'[x][n].pair # Stale
        PROVE  True(rows', x, n)
    <2>1. CASE n \in 1..Len(rows[x])
      BY <1>1, <1>8, <1>9, <2>1 DEF TablesOK, True
    <2>2. CASE n \notin 1..Len(rows[x])
      <3>1. x = a /\ n = Len(rows[a]) + 1
        BY <1>1, <1>3, <1>5, <1>7, <2>2 DEF Tables
      <3>2. rows'[x][n] = new
        BY <1>1, <1>3, <1>5, <3>1 DEF Tables
      <3> QED
        BY <1>1, <1>4, <3>1, <3>2 DEF True
    <2> QED
      BY <2>1, <2>2
  <1>10. TablesOK(apps', rows')
    BY <1>1, <1>3, <1>6, <1>9 DEF TablesOK
  <1>11. \A r \in Runs : RunOK(run[r], rows', apps)
    BY <1>1, <1>6, <1>7, <1>8, Split, TablesMove DEF TablesOK, True
  <1> QED
    BY <1>3, <1>10, <1>11, Split, SplitNext

LEMMA DeleteAppOK ==
    ASSUME IInv, NEW a \in Apps, DeleteApp(a)
    PROVE  IInv'
  <1>1. TablesOK(apps, rows) /\ rows \in Tables
    BY Split DEF TablesOK
  <1>2. apps' = apps \ {a} /\ rows' = rows /\ run' = run
    BY DEF DeleteApp
  <1>3. TablesOK(apps', rows')
    BY <1>1, <1>2 DEF TablesOK
  <1>4. \A x \in Apps : Len(rows[x]) <= Len(rows[x])
    BY <1>1 DEF Tables
  <1>5. \A r \in Runs : RunOK(run[r], rows, apps')
    BY <1>1, <1>2, <1>4, Split, TablesMove DEF TablesOK
  <1> QED
    BY <1>2, <1>3, <1>5, Split, SplitNext

LEMMA StartOK ==
    ASSUME IInv, NEW r \in Runs, Start(r)
    PROVE  IInv'
  <1> DEFINE q == [Idle EXCEPT !.pc = "page", !.owed = [a \in Apps |-> Len(rows[a])]]
  <1>0. TablesOK(apps, rows) /\ rows \in Tables
    BY Split DEF TablesOK
  <1>1. TablesOK(apps, rows) /\ \A a \in Apps : Len(rows[a]) \in Nat /\ Len(rows[a]) <= Len(rows[a])
    BY <1>0 DEF Tables
  <1>2. /\ q \in Run /\ q.pc = "page" /\ q.page = {} /\ q.after = 0
        /\ \A a \in Apps : q.owed[a] = Len(rows[a])
    BY <1>1 DEF Idle, Run
  <1>3. Goes(r, q)
    BY DEF Start
  <1> HIDE DEF q
  <1>4. \A a \in apps : a > q.after
    BY <1>1, <1>2, AppsAssumption DEF TablesOK
  <1>5. \A a \in apps : Repaired(q, a) = 0
    BY <1>4 DEF Repaired
  <1>6. \A a \in apps : \A n \in 1..q.owed[a] : ~(n <= Repaired(q, a))
    BY <1>1, <1>2, <1>5 DEF TablesOK
  <1>7. Behind(q, rows, apps)
    BY <1>2, <1>6 DEF Behind
  <1>8. RunOK(q, rows, apps)
    BY <1>1, <1>2, <1>7 DEF RunOK, Placed, AtRelease
  <1> QED
    BY <1>3, <1>8, GoesKeeps

\* A walk that ends after its last app has repaired all it owes.
LEMMA EndOK ==
    ASSUME IInv, NEW r \in Runs, Walking(run[r]), ~AtRelease(run[r]), run[r].page = {},
           \A a \in apps : a <= run[r].after
    PROVE  RunOK(Done(run[r]), rows, apps)
  <1> DEFINE q == run[r]
             e == Done(q)
  <1>1. RunOK(q, rows, apps) /\ q \in Run /\ apps \subseteq Apps
    BY Split DEF TablesOK
  <1>2. e \in Run /\ e.pc = "done" /\ e.owed = q.owed
    BY <1>1 DEF Done, Idle, Run
  <1>3. \A a \in apps : Repaired(q, a) = q.owed[a]
    BY <1>1, AppsAssumption DEF Repaired, Run
  <1>4. \A a \in apps : q.owed[a] \in Nat
    BY <1>1 DEF Run
  <1>5. \A a \in apps : \A n \in 1..q.owed[a] : True(rows, a, n)
    BY <1>1, <1>3, <1>4 DEF RunOK, Behind
  <1> HIDE DEF e
  <1>6. \A a \in Apps : e.owed[a] <= Len(rows[a])
    BY <1>1, <1>2 DEF RunOK
  <1>7. Placed(e, rows) /\ Behind(e, rows, apps)
    BY <1>2 DEF Placed, Behind, AtRelease, Walking
  <1>8. RunOK(e, rows, apps)
    BY <1>2, <1>5, <1>6, <1>7 DEF RunOK
  <1> QED
    BY <1>8 DEF e

LEMMA ReadPageOK ==
    ASSUME IInv, NEW r \in Runs, ReadPage(r)
    PROVE  IInv'
  <1> DEFINE q == run[r]
             S == {a \in apps : a > q.after}
  <1>1. /\ RunOK(q, rows, apps) /\ q \in Run /\ apps \subseteq Apps /\ q.pc = "page"
        /\ q.after \in Nat /\ q.page = {}
    BY Split DEF TablesOK, ReadPage, RunOK, Behind, Walking, Run
  <1>2. PICK P \in Pages(S) :
         \/ P = {} /\ Goes(r, Done(q))
         \/ \E last \in P :
              /\ \A a \in P : a <= last
              /\ Goes(r, [q EXCEPT !.pc = "app", !.page = P, !.after = last,
                                   !.short = Cardinality(P) < Batch])
    BY DEF ReadPage
  <1>3. /\ P \subseteq S /\ S \subseteq Apps
        /\ \A a \in P : \A b \in S \ P : a < b
        /\ P = {} => S = {}
        /\ Cardinality(P) < Batch => P = S
    <2>1. S \in SUBSET Apps
      BY <1>1
    <2> HIDE DEF S
    <2>2. P \subseteq S /\ (\A a \in P : \A b \in S \ P : a < b) /\ (P = {} => S = {})
          /\ (Cardinality(P) < Batch => P = S)
      BY <2>1, PageFacts
    <2> QED
      BY <2>1, <2>2
  <1>4. CASE P = {} /\ Goes(r, Done(q))
    <2>1. \A a \in apps : a <= q.after
      BY <1>1, <1>3, <1>4, AppsAssumption
    <2>2. RunOK(Done(q), rows, apps)
      BY <1>1, <2>1, EndOK DEF Walking, AtRelease
    <2> QED
      BY <1>4, <2>2, GoesKeeps
  <1>5. ASSUME NEW last \in P, \A a \in P : a <= last,
               Goes(r, [q EXCEPT !.pc = "app", !.page = P, !.after = last,
                                 !.short = Cardinality(P) < Batch])
        PROVE  IInv'
    <2> DEFINE full == Cardinality(P) < Batch
               e == [q EXCEPT !.pc = "app", !.page = P, !.after = last, !.short = full]
    <2>1. full \in BOOLEAN /\ last \in Nat /\ last > q.after /\ P \in SUBSET Apps
      BY <1>1, <1>3, AppsAssumption
    <2> HIDE DEF full
    <2>2. /\ e \in Run /\ e.pc = "app" /\ e.page = P /\ e.after = last /\ e.short = full
          /\ e.owed = q.owed
      BY <1>1, <2>1 DEF Run
    <2>3. Goes(r, e)
      BY <1>5 DEF full
    <2> HIDE DEF e
    <2>4. ASSUME NEW a \in apps, NEW n \in 1..q.owed[a], n <= Repaired(e, a)
          PROVE  True(rows, a, n)
      <3>1. a \in Nat /\ q.owed[a] \in Nat
        BY <1>1, AppsAssumption DEF Run
      <3>2. CASE a > q.after
        <4>1. a \in P \/ a > last
          BY <1>3, <3>2
        <4>2. Repaired(e, a) = 0
          BY <2>2, <4>1 DEF Repaired
        <4> QED
          BY <2>4, <3>1, <4>2
      <3>3. CASE ~(a > q.after)
        <4>1. Repaired(q, a) = q.owed[a]
          BY <1>1, <3>1, <3>3 DEF Repaired, AtRelease
        <4> QED
          BY <1>1, <3>1, <4>1 DEF RunOK, Behind, Walking
      <3> QED
        BY <3>2, <3>3
    <2>5. full => \A a \in apps : a <= last
      <3> SUFFICES ASSUME full, NEW a \in apps PROVE a <= last
        OBVIOUS
      <3>1. a \in Nat
        BY <1>1, AppsAssumption
      <3>2. P = S
        BY <1>3 DEF full
      <3> QED
        BY <1>1, <1>5, <2>1, <3>1, <3>2
    <2>6. RunOK(e, rows, apps)
      <3>1. \A a \in Apps : e.owed[a] <= Len(rows[a])
        BY <1>1, <2>2 DEF RunOK
      <3>2. Placed(e, rows)
        BY <2>2 DEF Placed, AtRelease
      <3>3. Behind(e, rows, apps)
        BY <1>5, <2>2, <2>4, <2>5 DEF Behind
      <3> QED
        BY <2>2, <3>1, <3>2, <3>3 DEF RunOK
    <2> QED
      BY <2>3, <2>6, GoesKeeps
  <1> QED
    BY <1>2, <1>4, <1>5

LEMMA NextAppOK ==
    ASSUME IInv, NEW r \in Runs, NextApp(r)
    PROVE  IInv'
  <1> DEFINE q == run[r]
  <1>1. /\ RunOK(q, rows, apps) /\ q \in Run /\ apps \subseteq Apps /\ q.pc = "app"
        /\ q.after \in Nat /\ q.page \subseteq Apps /\ Behind(q, rows, apps)
        /\ \A a \in Apps : Len(rows[a]) \in Nat
    <2>1. RunOK(q, rows, apps) /\ apps \subseteq Apps /\ q.pc = "app" /\ rows \in Tables
      BY Split DEF TablesOK, NextApp
    <2>2. q \in Run /\ Behind(q, rows, apps)
      BY <2>1 DEF RunOK
    <2> QED
      BY <2>1, <2>2 DEF Tables, Run
  <1>2. CASE q.page = {} /\ Goes(r, IF q.short THEN Done(q) ELSE [q EXCEPT !.pc = "page"])
    <2>1. CASE q.short
      <3>1. \A a \in apps : a <= q.after
        BY <1>1, <2>1 DEF Behind, Walking
      <3>2. RunOK(Done(q), rows, apps)
        BY <1>1, <1>2, <3>1, EndOK DEF Walking, AtRelease
      <3> QED
        BY <1>2, <2>1, <3>2, GoesKeeps
    <2>2. CASE ~q.short
      <3> DEFINE e == [q EXCEPT !.pc = "page"]
      <3>1. /\ e \in Run /\ e.pc = "page" /\ e.page = {} /\ e.owed = q.owed /\ e.after = q.after
        BY <1>1, <1>2 DEF Run
      <3> HIDE DEF e
      <3>2. \A a \in apps : Repaired(e, a) = Repaired(q, a)
        BY <1>1, <1>2, <3>1 DEF Repaired, AtRelease
      <3>3. Behind(e, rows, apps)
        BY <1>1, <3>1, <3>2 DEF Behind, Walking
      <3>4. RunOK(e, rows, apps)
        BY <1>1, <3>1, <3>3 DEF RunOK, Placed, AtRelease
      <3> QED
        BY <1>2, <2>2, <3>4, GoesKeeps DEF e
    <2> QED
      BY <2>1, <2>2
  <1>3. ASSUME NEW a \in q.page, \A b \in q.page : a <= b,
               Goes(r, [q EXCEPT !.pc = "release", !.page = @ \ {a}, !.app = a,
                                 !.listed = Len(rows[a]), !.n = 0, !.prev = 0])
        PROVE  IInv'
    <2> DEFINE e == [q EXCEPT !.pc = "release", !.page = @ \ {a}, !.app = a,
                              !.listed = Len(rows[a]), !.n = 0, !.prev = 0]
    <2>1. a \in Apps /\ Len(rows[a]) \in Nat
      BY <1>1
    <2>2. /\ e \in Run /\ e.pc = "release" /\ e.page = q.page \ {a} /\ e.app = a
          /\ e.listed = Len(rows[a]) /\ e.n = 0 /\ e.prev = 0
          /\ e.owed = q.owed /\ e.after = q.after /\ e.short = q.short
      BY <1>1, <2>1 DEF Run
    <2>3. Goes(r, e)
      BY <1>3
    <2> HIDE DEF e
    <2>4. ASSUME NEW x \in apps, NEW n \in 1..q.owed[x], n <= Repaired(e, x)
          PROVE  True(rows, x, n)
      <3>1. q.owed[x] \in Nat /\ x \in Nat
        BY <1>1, AppsAssumption DEF Run
      <3>2. x # a
        BY <2>2, <2>4, <3>1 DEF Repaired, AtRelease
      <3>3. Repaired(e, x) = Repaired(q, x)
        BY <1>1, <2>2, <3>2 DEF Repaired, AtRelease
      <3> QED
        BY <1>1, <2>4, <3>3 DEF Behind, Walking
    <2>5. Behind(e, rows, apps)
      BY <1>1, <2>2, <2>4 DEF Behind, Walking
    <2>6. Placed(e, rows)
      BY <1>1, <2>1, <2>2 DEF Placed, AtRelease, RunOK
    <2>7. RunOK(e, rows, apps)
      BY <1>1, <2>2, <2>5, <2>6 DEF RunOK
    <2> QED
      BY <2>3, <2>7, GoesKeeps
  <1> QED
    BY <1>2, <1>3 DEF NextApp

LEMMA NextReleaseOK ==
    ASSUME IInv, NEW r \in Runs, NextRelease(r)
    PROVE  IInv'
  <1> DEFINE q == run[r]
  <1>1. /\ RunOK(q, rows, apps) /\ q \in Run /\ apps \subseteq Apps /\ q.pc = "release"
        /\ Behind(q, rows, apps) /\ Placed(q, rows) /\ rows \in Tables
    BY Split DEF TablesOK, NextRelease, RunOK
  <1>2. /\ q.app \in Apps /\ q.n \in Nat /\ q.listed \in Nat /\ q.n <= q.listed
        /\ q.listed <= Len(rows[q.app]) /\ Len(rows[q.app]) \in Nat /\ q.prev = q.n
        /\ q.owed[q.app] \in Nat /\ q.owed[q.app] <= q.listed
    BY <1>1 DEF Placed, AtRelease, Run, Tables
  <1>3. CASE q.n < q.listed
    <2> DEFINE stamp == rows[q.app][q.n + 1].stamp
    <2>1. stamp \in Nat
      <3> DEFINE table == rows[q.app]
                 Change == [pair : Rows, stamp : Nat]
      <3>1. table \in Seq(Change)
        BY <1>1, <1>2 DEF Tables
      <3>2. q.n + 1 \in 1..Len(table)
        BY <1>2, <1>3
      <3> HIDE DEF table, Change
      <3>3. table[q.n + 1] \in Change
        BY <3>1, <3>2
      <3>4. table[q.n + 1].stamp \in Nat
        BY <3>3 DEF Change
      <3> QED
        BY <3>4 DEF table
    <2> HIDE DEF stamp
    <2> DEFINE e == [q EXCEPT !.pc = "delete", !.n = q.n + 1, !.seen = stamp]
    <2>2. Goes(r, e)
      BY <1>3 DEF NextRelease, stamp
    <2>3. /\ e \in Run /\ e.pc = "delete" /\ e.page = q.page /\ e.app = q.app
          /\ e.listed = q.listed /\ e.n = q.n + 1 /\ e.prev = q.prev
          /\ e.owed = q.owed /\ e.after = q.after /\ e.short = q.short
      <3>1. q \in Run /\ q.n + 1 \in Nat /\ stamp \in Nat
        BY <1>1, <1>2, <2>1
      <3> HIDE DEF q
      <3> QED
        BY <3>1 DEF Run
    <2> HIDE DEF e
    <2>4. \A x \in apps : Repaired(e, x) = Repaired(q, x)
      BY <1>1, <1>2, <2>3 DEF Repaired, AtRelease
    <2>5. Behind(e, rows, apps)
      BY <1>1, <2>3, <2>4 DEF Behind, Walking
    <2>6. Placed(e, rows)
      BY <1>2, <1>3, <2>3 DEF Placed, AtRelease
    <2>7. RunOK(e, rows, apps)
      BY <1>1, <2>3, <2>5, <2>6 DEF RunOK
    <2> QED
      BY <2>2, <2>7, GoesKeeps
  <1>4. CASE ~(q.n < q.listed)
    <2> DEFINE e == [q EXCEPT !.pc = "app", !.app = 0, !.listed = 0, !.n = 0]
    <2>1. Goes(r, e)
      BY <1>4 DEF NextRelease
    <2>2. /\ e \in Run /\ e.pc = "app" /\ e.page = q.page
          /\ e.owed = q.owed /\ e.after = q.after /\ e.short = q.short
      BY <1>1 DEF Run
    <2> HIDE DEF e
    <2>3. ASSUME NEW x \in apps, NEW n \in 1..q.owed[x], n <= Repaired(e, x)
          PROVE  True(rows, x, n)
      <3>1. q.owed[x] \in Nat
        BY <1>1 DEF Run
      <3>2. CASE x = q.app /\ ~(x > q.after \/ x \in q.page)
        <4>1. Repaired(q, x) = q.n /\ n <= q.n
          BY <1>1, <1>2, <1>4, <2>2, <2>3, <3>1, <3>2 DEF Repaired, AtRelease
        <4> QED
          BY <1>1, <3>1, <4>1 DEF Behind, Walking
      <3>3. CASE ~(x = q.app /\ ~(x > q.after \/ x \in q.page))
        <4>1. Repaired(e, x) = Repaired(q, x)
          BY <1>1, <2>2, <3>3 DEF Repaired, AtRelease
        <4> QED
          BY <1>1, <2>3, <4>1 DEF Behind, Walking
      <3> QED
        BY <3>2, <3>3
    <2>4. Behind(e, rows, apps)
      BY <1>1, <2>2, <2>3 DEF Behind, Walking
    <2>5. RunOK(e, rows, apps)
      BY <1>1, <2>2, <2>4 DEF RunOK, Placed, AtRelease
    <2> QED
      BY <2>1, <2>5, GoesKeeps
  <1> QED
    BY <1>3, <1>4

LEMMA DeleteRowsOK ==
    ASSUME IInv, NEW r \in Runs, DeleteRows(r)
    PROVE  IInv'
  <1> DEFINE q == run[r]
             e == [q EXCEPT !.pc = "write"]
  <1>1. /\ RunOK(q, rows, apps) /\ q \in Run /\ q.pc = "delete"
        /\ Behind(q, rows, apps) /\ Placed(q, rows)
    BY Split DEF DeleteRows, RunOK
  <1>2. Goes(r, e)
    BY DEF DeleteRows
  <1>3. /\ e \in Run /\ e.pc = "write" /\ e.page = q.page /\ e.app = q.app
        /\ e.listed = q.listed /\ e.n = q.n /\ e.prev = q.prev
        /\ e.owed = q.owed /\ e.after = q.after /\ e.short = q.short
    BY <1>1 DEF Run
  <1> HIDE DEF e
  <1>4. \A x \in apps : Repaired(e, x) = Repaired(q, x)
    BY <1>1, <1>3 DEF Repaired, AtRelease
  <1>5. Behind(e, rows, apps)
    BY <1>1, <1>3, <1>4 DEF Behind, Walking
  <1>6. Placed(e, rows)
    BY <1>1, <1>3 DEF Placed, AtRelease
  <1>7. RunOK(e, rows, apps)
    BY <1>1, <1>3, <1>5, <1>6 DEF RunOK
  <1> QED
    BY <1>2, <1>7, GoesKeeps

LEMMA FailOK ==
    ASSUME IInv, NEW r \in Runs, Fail(r)
    PROVE  IInv'
  <1>1. TablesOK(apps, rows) /\ Goes(r, Failed) /\ Failed.pc = "failed"
    BY Split DEF Fail, Failed, Idle
  <1> QED
    BY <1>1, IdleType, AtRest, GoesKeeps

LEMMA FailedOK ==
    ASSUME IInv, NEW r \in Runs, Goes(r, Failed)
    PROVE  IInv'
  <1>1. TablesOK(apps, rows) /\ Failed.pc = "failed"
    BY Split DEF Failed, Idle
  <1> QED
    BY <1>1, IdleType, AtRest, GoesKeeps

\* The rows that are written are the true ones.
LEMMA RowsWritten ==
    ASSUME IInv, NEW r \in Runs, run[r].pc = "write",
           NEW new, new = [pair |-> <<run[r].prev, run[r].n>>,
                           stamp |-> rows[run[r].app][run[r].n].stamp + 1],
           rows' = [rows EXCEPT ![run[r].app] = [@ EXCEPT ![run[r].n] = new]]
    PROVE  /\ TablesOK(apps, rows')
           /\ \A a \in Apps : Len(rows'[a]) = Len(rows[a])
           /\ \A a \in Apps : \A n \in 1..Len(rows[a]) : True(rows, a, n) => True(rows', a, n)
           /\ True(rows', run[r].app, run[r].n)
  <1> DEFINE app == run[r].app
             n == run[r].n
             Change == [pair : Rows, stamp : Nat]
             table == rows[app]
  <1>1. TablesOK(apps, rows) /\ rows \in Tables /\ run[r] \in Run /\ Placed(run[r], rows)
    BY Split DEF TablesOK, RunOK
  <1>2. app \in Apps /\ n \in Nat /\ n > 0 /\ run[r].prev = n - 1 /\ table \in Seq(Change)
    BY <1>1 DEF Placed, AtRelease, Run, Tables
  <1>3. n \in 1..Len(table)
    BY <1>1, <1>2 DEF Placed, AtRelease, Run
  <1>4. new.pair = <<n - 1, n>> /\ new \in Change
    <2>1. table[n] \in Change
      <3> HIDE DEF table, Change, n
      <3> QED
        BY <1>2, <1>3
    <2>2. table[n].stamp + 1 \in Nat
      BY <2>1
    <2>3. <<n - 1, n>> \in Rows
      BY <1>2 DEF Rows
    <2> QED
      BY <1>2, <2>2, <2>3
  <1>5. rows' = [rows EXCEPT ![app] = [table EXCEPT ![n] = new]]
    OBVIOUS
  <1>6. \A x \in Apps : rows[x] \in Seq(Change)
    BY <1>1 DEF Tables
  <1> HIDE DEF app, n, Change, table
  <1>7. /\ [table EXCEPT ![n] = new] \in Seq(Change)
        /\ Len([table EXCEPT ![n] = new]) = Len(table)
        /\ [table EXCEPT ![n] = new][n] = new
        /\ \A k \in 1..Len(table) : k # n => [table EXCEPT ![n] = new][k] = table[k]
    BY <1>2, <1>3, <1>4
  <1>8. rows \in [Apps -> Seq(Change)]
    BY <1>1 DEF Tables, Change
  <1>9. /\ rows' \in [Apps -> Seq(Change)]
        /\ rows'[app] = [table EXCEPT ![n] = new]
        /\ \A x \in Apps : x # app => rows'[x] = rows[x]
    BY <1>2, <1>5, <1>7, <1>8
  <1>10. \A x \in Apps : Len(rows'[x]) = Len(rows[x])
    BY <1>7, <1>9 DEF table
  <1>11. True(rows', app, n)
    BY <1>4, <1>7, <1>9 DEF True
  <1>12. \A x \in Apps : \A k \in 1..Len(rows[x]) :
            (x = app /\ k = n) \/ rows'[x][k] = rows[x][k]
    BY <1>7, <1>9 DEF table
  <1>13. \A x \in Apps : \A k \in 1..Len(rows[x]) : True(rows, x, k) => True(rows', x, k)
    BY <1>11, <1>12 DEF True
  <1>14. \A x \in Apps : \A k \in 1..Len(rows'[x]) :
            rows'[x][k].pair # Stale => True(rows', x, k)
    BY <1>1, <1>10, <1>11, <1>12 DEF TablesOK, True
  <1>15. TablesOK(apps, rows')
    BY <1>1, <1>9, <1>14 DEF TablesOK, Tables, Change
  <1> QED
    BY <1>10, <1>11, <1>13, <1>15 DEF app, n

LEMMA WriteRowsOK ==
    ASSUME IInv, NEW r \in Runs, WriteRows(r)
    PROVE  IInv'
  <1> DEFINE q == run[r]
             new == [pair |-> <<q.prev, q.n>>, stamp |-> rows[q.app][q.n].stamp + 1]
             e == [q EXCEPT !.pc = "release", !.prev = q.n, !.seen = 0]
  <1>1. q.pc = "write" /\ apps' = apps
    BY DEF WriteRows
  <1>2. CASE run' = [run EXCEPT ![r] = Failed] /\ rows' = rows
    BY <1>1, <1>2, FailedOK DEF Goes
  <1>3. CASE /\ rows' = [rows EXCEPT ![q.app][q.n] =
                             [pair |-> <<q.prev, q.n>>, stamp |-> @.stamp + 1]]
             /\ run' = [run EXCEPT ![r] = e]
    <2>1. rows' = [rows EXCEPT ![q.app] = [@ EXCEPT ![q.n] = new]]
      BY <1>3
    <2>2. /\ TablesOK(apps, rows')
          /\ \A a \in Apps : Len(rows'[a]) = Len(rows[a])
          /\ \A a \in Apps : \A n \in 1..Len(rows[a]) : True(rows, a, n) => True(rows', a, n)
          /\ True(rows', q.app, q.n)
      BY <1>1, <2>1, RowsWritten
    <2> HIDE DEF new
    <2>3. /\ rows \in Tables /\ rows' \in Tables /\ apps \subseteq Apps
          /\ run \in [Runs -> Run] /\ \A s \in Runs : RunOK(run[s], rows, apps)
      BY <2>2, Split DEF TablesOK
    <2>4. \A a \in Apps : Len(rows[a]) \in Nat /\ Len(rows[a]) <= Len(rows'[a])
      BY <2>2, <2>3 DEF Tables
    <2>5. \A s \in Runs : RunOK(run[s], rows', apps)
      BY <2>2, <2>3, <2>4, TablesMove
    <2>6. q \in Run /\ Placed(q, rows') /\ Behind(q, rows', apps) /\ RunOK(q, rows', apps)
      BY <2>5 DEF RunOK
    <2>7. /\ e \in Run /\ e.pc = "release" /\ e.page = q.page /\ e.app = q.app
          /\ e.listed = q.listed /\ e.n = q.n /\ e.prev = q.n
          /\ e.owed = q.owed /\ e.after = q.after /\ e.short = q.short
      <3>1. q \in Run /\ q.n \in Nat
        BY <2>6 DEF Run
      <3> HIDE DEF q
      <3> QED
        BY <3>1 DEF Run
    <2>8. run' = [run EXCEPT ![r] = e]
      BY <1>3
    <2> HIDE DEF e
    <2>9. ASSUME NEW x \in apps, NEW n \in 1..q.owed[x], n <= Repaired(e, x)
          PROVE  True(rows', x, n)
      <3>1. x \in Apps /\ q.owed[x] \in Nat /\ q.n \in Nat /\ q.n > 0
        BY <1>1, <2>3, <2>6 DEF Run, Placed, AtRelease
      <3>2. CASE x = q.app /\ ~(x > q.after \/ x \in q.page)
        <4>1. Repaired(e, x) = q.n /\ Repaired(q, x) = q.n - 1
          BY <1>1, <2>7, <3>2 DEF Repaired, AtRelease
        <4>2. CASE n = q.n
          BY <2>2, <3>2, <4>2
        <4>3. CASE n # q.n
          <5>1. n <= Repaired(q, x)
            BY <2>9, <3>1, <4>1, <4>3
          <5> QED
            BY <1>1, <2>6, <5>1 DEF Behind, Walking
        <4> QED
          BY <4>2, <4>3
      <3>3. CASE ~(x = q.app /\ ~(x > q.after \/ x \in q.page))
        <4>1. Repaired(e, x) = Repaired(q, x)
          BY <1>1, <2>7, <3>3 DEF Repaired, AtRelease
        <4> QED
          BY <1>1, <2>6, <2>9, <4>1 DEF Behind, Walking
      <3> QED
        BY <3>2, <3>3
    <2>10. Behind(e, rows', apps)
      BY <1>1, <2>6, <2>7, <2>9 DEF Behind, Walking
    <2>11. Placed(e, rows')
      BY <1>1, <2>6, <2>7 DEF Placed, AtRelease
    <2>12. RunOK(e, rows', apps)
      BY <2>6, <2>7, <2>10, <2>11 DEF RunOK
    <2>13. run' \in [Runs -> Run] /\ \A s \in Runs : RunOK(run'[s], rows', apps')
      BY <1>1, <2>3, <2>5, <2>7, <2>8, <2>12
    <2> QED
      BY <1>1, <2>2, <2>13, SplitNext
  <1> QED
    BY <1>2, <1>3 DEF WriteRows

-----------------------------------------------------------------------------
(* The theorems.                                                           *)

\* Every step of every run, of a cut and of a deletion keeps the invariant.
LEMMA NextOK == IInv /\ [Next]_vars => IInv'
  <1> SUFFICES ASSUME IInv, [Next]_vars PROVE IInv'
    OBVIOUS
  <1>1. CASE UNCHANGED vars
    BY <1>1, Split, SplitNext DEF vars
  <1>2. ASSUME NEW r \in Runs, Start(r) PROVE IInv'
    BY <1>2, StartOK
  <1>3. ASSUME NEW r \in Runs, Step(r) PROVE IInv'
    BY <1>3, ReadPageOK, NextAppOK, NextReleaseOK, DeleteRowsOK, WriteRowsOK DEF Step
  <1>4. ASSUME NEW r \in Runs, Fail(r) PROVE IInv'
    BY <1>4, FailOK
  <1>5. ASSUME NEW a \in Apps, Cut(a) PROVE IInv'
    BY <1>5, CutOK
  <1>6. ASSUME NEW a \in Apps, DeleteApp(a) PROVE IInv'
    BY <1>6, DeleteAppOK
  <1> QED
    BY <1>1, <1>2, <1>3, <1>4, <1>5, <1>6 DEF Next

\* The inductive invariant: rows are the right comparison or stale, and a run has
\* repaired what its place in the walk says (Stores.RebuildReleases, rebuildApp).
THEOREM RebuildInvariance == Spec => []IInv
  <1>1. Init => IInv
    BY InitOK
  <1>2. IInv /\ [Next]_vars => IInv'
    BY NextOK
  <1> QED
    BY <1>1, <1>2, PTL DEF Spec

\* A run that says it is done has repaired every release there was when it started,
\* for any apps, any size of a page and any other runs.
THEOREM DoneMeansRepaired == Spec => []DoneIsRepaired
  <1>1. IInv => DoneIsRepaired
    BY DEF IInv
  <1> QED
    BY <1>1, RebuildInvariance, PTL

\* No step of any run makes true rows false.
LEMMA StepKeepsTrue ==
    ASSUME IInv, [Next]_vars, NEW a \in Apps, NEW n \in 1..Len(rows[a]), True(rows, a, n)
    PROVE  True(rows', a, n)
  <1>1. CASE rows' = rows
    BY <1>1 DEF True
  <1>2. ASSUME NEW x \in Apps, Cut(x) PROVE True(rows', a, n)
    <2>1. rows \in Tables
      BY Split DEF TablesOK
    <2> DEFINE new == [pair |-> <<Len(rows[x]), Len(rows[x]) + 1>>, stamp |-> 0]
    <2>2. rows' = [rows EXCEPT ![x] = Append(rows[x], new)]
      BY <1>2 DEF Cut
    <2> HIDE DEF new
    <2>3. rows'[a][n] = rows[a][n]
      BY <2>1, <2>2 DEF Tables
    <2> QED
      BY <2>3 DEF True
  <1>3. ASSUME NEW r \in Runs, WriteRows(r) PROVE True(rows', a, n)
    <2> DEFINE q == run[r]
               new == [pair |-> <<q.prev, q.n>>, stamp |-> rows[q.app][q.n].stamp + 1]
    <2>1. CASE rows' = [rows EXCEPT ![q.app][q.n] =
                             [pair |-> <<q.prev, q.n>>, stamp |-> @.stamp + 1]]
      <3>1. rows' = [rows EXCEPT ![q.app] = [@ EXCEPT ![q.n] = new]]
        BY <2>1
      <3>2. q.pc = "write"
        BY <1>3 DEF WriteRows
      <3> QED
        BY <3>1, <3>2, RowsWritten
    <2> QED
      BY <1>1, <1>3, <2>1 DEF WriteRows
  <1> QED
    BY <1>1, <1>2, <1>3 DEF Next, vars, Step, Start, Fail, ReadPage, NextApp, NextRelease,
       DeleteRows, DeleteApp, Goes

\* Rows that are true stay true, whoever dies or meets whom.
THEOREM TrueRowsStay == Spec => TrueStays
  <1>1. IInv /\ [Next]_vars =>
            [\A a \in Apps : \A n \in 1..Len(rows[a]) : True(rows, a, n) => True(rows', a, n)]_vars
    BY StepKeepsTrue
  <1> QED
    BY <1>1, RebuildInvariance, PTL DEF Spec, TrueStays

=============================================================================
