------------------------ MODULE TaskScheduler_proofs ------------------------
(***************************************************************************)
(* That no job is left to run on its own (NoStrayJob), for any number of   *)
(* tasks, entries, messages, reruns and faults; and that the map never     *)
(* says that a task is scheduled which is not (NoOrphanEntry), where no    *)
(* task gives way to another.                                              *)
(*                                                                         *)
(* The map and the entries change together: what is said of them is said   *)
(* of any map and any entries, m and d, as those in between two steps of a *)
(* function are no state.                                                  *)
(***************************************************************************)
EXTENDS TaskScheduler, TLAPS

EntriesTyped(m, d, rm) ==
    /\ m \in [Task -> Entry \cup {None}]
    /\ d \in [Entry -> EntryData \cup {None}]
    /\ rm \in Entry \cup {None}

\* A task in the map has an entry, which is its own.
Mapped(m, d) == \A t \in Task : m[t] # None => d[m[t]] # None /\ d[m[t]].task = t

\* Only an entry whose making begins knows another.
OldInv(d) == \A e \in Entry : d[e] # None /\ d[e].making # "replace" => d[e].old = None

\* A job that is made and waits is its task's, or is known to whoever will
\* remove it.
Owned(m, d, rm, e) ==
    d[e] # None /\ d[e].job = "waiting" /\ d[e].making = "made" =>
        \/ m[d[e].task] = e
        \/ rm = e
        \/ \E x \in Entry : d[x] # None /\ d[x].old = e

Sound(m, d, rm) ==
    /\ EntriesTyped(m, d, rm) /\ Mapped(m, d) /\ OldInv(d)
    /\ \A e \in Entry : Owned(m, d, rm, e)

\* An entry outside the map.
Out(m, d, e) == d[e] # None /\ m[d[e].task] # e

\* An entry's job is made after the one before it is removed; what is removed is
\* not in the map; a task put off is put off to a later time than its own; the
\* job of a task in the map is not over, but for the tasks of X.
OrderedBut(m, d, rm, X) ==
    /\ rm # None => Out(m, d, rm)
    /\ \A e \in Entry : d[e] # None =>
          /\ d[e].making \in {"replace", "new"} => d[e].job = "none"
          /\ d[e].making = "stray" => Out(m, d, e)
          /\ d[e].old # None => Out(m, d, d[e].old)
          /\ d[e].job = "again" => d[e].again > d[e].runAt
    /\ \A t \in Task \ X : m[t] # None => d[m[t]].job # "over"

Ordered(m, d, rm) == OrderedBut(m, d, rm, {})

\* Where priorities do not tell tasks apart, or all are critical, no task gives
\* way to another.
NoneGivesWay ==
    \A t, u \in Task : Priority[t] = Critical \/ Priority[u] <= Priority[t]

\* The types of the rest.
RestTyped ==
    /\ now \in 0..MaxTime
    /\ due \in [Task -> Nat \cup {None}]
    /\ ctrl \in Seq(Messages)
    /\ scanned \subseteq Task \X Nat
    /\ pausedUntil \in Nat
    /\ reruns \in 0..MaxReruns /\ sent \in 0..MaxMessages /\ faults \in 0..MaxFaults

SInv == RestTyped /\ Sound(jobMap, data, removing)

\* The map and the entries stay sound, and in order.
MapStep ==
    /\ Sound(jobMap', data', removing')
    /\ NoneGivesWay /\ Ordered(jobMap, data, removing) => Ordered(jobMap', data', removing')

-----------------------------------------------------------------------------
(* Lemmas on the map and the entries. *)

\* An entry that is freed: its job is over, and nothing knows it.
Gone(m, d, e) ==
    /\ d[e] # None /\ d[e].making = "made" /\ d[e].job = "over"
    /\ m[d[e].task] # e /\ e # removing
    /\ \A x \in Entry : d[x] # None => d[x].old # e

\* Live frees those entries and leaves the others.
LEMMA LiveFrees ==
    ASSUME NEW m, NEW d, EntriesTyped(m, d, removing)
    PROVE  /\ Live(m, d) \in [Entry -> EntryData \cup {None}]
           /\ \A e \in Entry : Live(m, d)[e] = IF Gone(m, d, e) THEN None ELSE d[e]
  BY DEF Live, Gone, EntriesTyped

\* Freeing entries takes nothing from the others.
LEMMA LiveSound ==
    ASSUME NEW m, NEW d, NEW rm, Sound(m, d, rm), removing \in Entry \cup {None},
           rm \in {removing, None} \/ d[rm].job # "over"
    PROVE  Sound(m, Live(m, d), rm)
<1> DEFINE L == Live(m, d)
<1>1. EntriesTyped(m, d, removing)
  BY DEF Sound, EntriesTyped
<1>2. L \in [Entry -> EntryData \cup {None}]
  BY <1>1, LiveFrees
<1>3. \A e \in Entry : L[e] = d[e] \/ (L[e] = None /\ Gone(m, d, e))
  BY <1>1, LiveFrees
<1> HIDE DEF L
<1>4. EntriesTyped(m, L, rm)
  BY <1>2 DEF Sound, EntriesTyped
<1>5. Mapped(m, L)
  BY <1>3 DEF Sound, EntriesTyped, Mapped, Gone
<1>6. OldInv(L)
  BY <1>3 DEF Sound, OldInv
<1>7. ASSUME NEW e \in Entry PROVE Owned(m, L, rm, e)
  <2> SUFFICES ASSUME L[e] # None, L[e].job = "waiting", L[e].making = "made"
               PROVE  \/ m[L[e].task] = e \/ rm = e
                      \/ \E x \in Entry : L[x] # None /\ L[x].old = e
    BY DEF Owned
  <2>1. L[e] = d[e]
    BY <1>3
  <2>2. CASE m[d[e].task] = e \/ rm = e
    BY <2>1, <2>2
  <2>3. ASSUME NEW x \in Entry, d[x] # None, d[x].old = e
        PROVE  L[x] # None /\ L[x].old = e
    <3>1. e # None
      BY SchedulerAssumption DEF SchedulerAssumption
    <3>2. ~Gone(m, d, x)
      BY <2>3, <3>1 DEF Gone, Sound, OldInv
    <3> QED BY <1>3, <2>3, <3>2
  <2> QED BY <2>1, <2>2, <2>3 DEF Sound, Owned
<1> QED BY <1>4, <1>5, <1>6, <1>7 DEF Sound, L

\* It leaves them in order.
LEMMA LiveOrdered ==
    ASSUME NEW m, NEW d, NEW rm, Sound(m, d, rm), removing \in Entry \cup {None},
           rm \in {removing, None} \/ d[rm].job # "over", Ordered(m, d, rm)
    PROVE  Ordered(m, Live(m, d), rm)
<1> DEFINE L == Live(m, d)
<1>1. EntriesTyped(m, d, removing)
  BY DEF Sound, EntriesTyped
<1>2. \A e \in Entry : L[e] = d[e] \/ (L[e] = None /\ Gone(m, d, e))
  BY <1>1, LiveFrees
<1> HIDE DEF L
<1>3. \A e \in Entry : Out(m, d, e) /\ L[e] = d[e] => Out(m, L, e)
  BY DEF Out
<1>4. rm # None => Out(m, L, rm)
  BY <1>2, <1>3 DEF Ordered, OrderedBut, Gone, Sound, EntriesTyped
<1>5. ASSUME NEW e \in Entry, L[e] # None
      PROVE  /\ L[e].making \in {"replace", "new"} => L[e].job = "none"
             /\ L[e].making = "stray" => Out(m, L, e)
             /\ L[e].old # None => Out(m, L, L[e].old)
             /\ L[e].job = "again" => L[e].again > L[e].runAt
  <2>1. L[e] = d[e] /\ d[e] # None /\ d[e].old \in Entry \cup {None}
    BY <1>2, <1>5 DEF Sound, EntriesTyped, EntryData
  <2>2. d[e].old # None => ~Gone(m, d, d[e].old)
    BY <2>1 DEF Gone
  <2> QED BY <1>2, <1>3, <2>1, <2>2 DEF Ordered, OrderedBut
<1>6. ASSUME NEW t \in Task, m[t] # None PROVE L[m[t]].job # "over"
  <2>1. m[t] \in Entry /\ ~Gone(m, d, m[t])
    BY <1>6 DEF Gone, Sound, EntriesTyped, Mapped
  <2> QED BY <1>2, <1>6, <2>1 DEF Ordered, OrderedBut
<1> QED BY <1>4, <1>5, <1>6 DEF Ordered, OrderedBut, L

\* An entry that is free is known to nothing.
LEMMA FreeUnknown ==
    ASSUME NEW m, NEW d, Sound(m, d, removing), NEW e \in Entry, Live(m, d)[e] = None
    PROVE  /\ d[e] = None \/ Gone(m, d, e)
           /\ \A t \in Task : m[t] # e
  BY LiveFrees, SchedulerAssumption DEF Sound, EntriesTyped, Mapped, Gone, SchedulerAssumption

\* An entry made anew takes the place of the task's; it knows the one whose job
\* is made, and one whose job is not made yet finds that it was replaced.
LEMMA NewEntrySound ==
    ASSUME NEW d, Sound(jobMap, d, removing), NEW t \in Task, NEW at \in Nat,
           NEW e \in Entry, Live(jobMap, d)[e] = None,
           NEW f \in EntryData, f.task = t, f.making = "replace",
           f.old = IF jobMap[t] # None /\ d[jobMap[t]].making = "made" THEN jobMap[t] ELSE None
    PROVE  Sound([jobMap EXCEPT ![t] = e], [d EXCEPT ![e] = f], removing)
<1> DEFINE m2 == [jobMap EXCEPT ![t] = e]
           d2 == [d EXCEPT ![e] = f]
<1>1. /\ m2 \in [Task -> Entry \cup {None}] /\ d2 \in [Entry -> EntryData \cup {None}]
      /\ m2[t] = e /\ d2[e] = f /\ f # None /\ e # None
      /\ \A u \in Task : u # t => m2[u] = jobMap[u]
      /\ \A x \in Entry : x # e => d2[x] = d[x]
  BY SchedulerAssumption DEF SchedulerAssumption, Sound, EntriesTyped
<1>2. (d[e] = None \/ Gone(jobMap, d, e)) /\ \A u \in Task : jobMap[u] # e
  BY FreeUnknown
<1> HIDE DEF m2, d2
<1>3. EntriesTyped(m2, d2, removing)
  BY <1>1 DEF Sound, EntriesTyped
<1>4. Mapped(m2, d2)
  BY <1>1, <1>2 DEF Sound, EntriesTyped, Mapped
<1>5. OldInv(d2)
  BY <1>1 DEF Sound, OldInv
<1>6. ASSUME NEW x \in Entry PROVE Owned(m2, d2, removing, x)
  <2> SUFFICES ASSUME d2[x] # None, d2[x].job = "waiting", d2[x].making = "made"
               PROVE  \/ m2[d2[x].task] = x \/ removing = x
                      \/ \E y \in Entry : d2[y] # None /\ d2[y].old = x
    BY DEF Owned
  <2>1. x # e /\ d2[x] = d[x] /\ x # None
    BY <1>1, SchedulerAssumption DEF SchedulerAssumption
  <2>2. d[x].task \in Task
    BY <2>1, <1>1 DEF Sound, EntriesTyped, EntryData
  <2>3. CASE jobMap[d[x].task] = x
    <3>1. CASE d[x].task = t
      BY <1>1, <2>1, <2>3, <3>1
    <3>2. CASE d[x].task # t
      BY <1>1, <2>1, <2>2, <2>3, <3>2
    <3> QED BY <3>1, <3>2
  <2>4. CASE removing = x
    BY <2>4
  <2>5. ASSUME NEW y \in Entry, d[y] # None, d[y].old = x
        PROVE  d2[y] # None /\ d2[y].old = x
    <3>1. y # e
      BY <1>2, <2>1, <2>5 DEF Gone, Sound, OldInv
    <3> QED BY <1>1, <2>5, <3>1
  <2> QED BY <2>1, <2>3, <2>4, <2>5 DEF Sound, Owned
<1> QED BY <1>3, <1>4, <1>5, <1>6 DEF Sound, m2, d2

\* It puts right a task whose job is over.
LEMMA NewEntryOrdered ==
    ASSUME NEW d, Sound(jobMap, d, removing), NEW t \in Task, NEW at \in Nat,
           NEW e \in Entry, Live(jobMap, d)[e] = None,
           NEW f \in EntryData, f.task = t, f.making = "replace", f.job = "none",
           f.old = IF jobMap[t] # None /\ d[jobMap[t]].making = "made" THEN jobMap[t] ELSE None,
           OrderedBut(jobMap, d, removing, {t})
    PROVE  Ordered([jobMap EXCEPT ![t] = e], [d EXCEPT ![e] = f], removing)
<1> DEFINE m2 == [jobMap EXCEPT ![t] = e]
           d2 == [d EXCEPT ![e] = f]
<1>1. /\ m2[t] = e /\ d2[e] = f /\ f # None /\ e # None
      /\ \A u \in Task : jobMap[u] \in Entry \cup {None} /\ (u # t => m2[u] = jobMap[u])
      /\ \A x \in Entry : /\ x # e => d2[x] = d[x]
                          /\ d[x] # None => d[x].task \in Task /\ d[x].old \in Entry \cup {None}
      /\ removing \in Entry \cup {None}
  BY SchedulerAssumption DEF SchedulerAssumption, Sound, EntriesTyped, EntryData
<1>2. (d[e] = None \/ Gone(jobMap, d, e)) /\ \A u \in Task : jobMap[u] # e
  BY FreeUnknown
<1>3. \A u \in Task : jobMap[u] # None => d[jobMap[u]] # None /\ d[jobMap[u]].task = u
  BY DEF Sound, Mapped
<1> HIDE DEF m2, d2
<1>4. \A x \in Entry : x # e /\ Out(jobMap, d, x) => Out(m2, d2, x)
  BY <1>1 DEF Out
<1>5. removing # None => Out(m2, d2, removing)
  BY <1>1, <1>2, <1>4 DEF OrderedBut, Out, Gone
<1>6. ASSUME NEW x \in Entry, d2[x] # None
      PROVE  /\ d2[x].making \in {"replace", "new"} => d2[x].job = "none"
             /\ d2[x].making = "stray" => Out(m2, d2, x)
             /\ d2[x].old # None => Out(m2, d2, d2[x].old)
             /\ d2[x].job = "again" => d2[x].again > d2[x].runAt
  <2>1. CASE x = e
    <3>1. f.old # None => Out(m2, d2, f.old)
      BY <1>1, <1>2, <1>3 DEF Out
    <3> QED BY <1>1, <2>1, <3>1
  <2>2. CASE x # e
    <3>1. d2[x] = d[x] /\ d[x] # None
      BY <1>1, <1>6, <2>2
    <3>2. d[x].old # None => Out(jobMap, d, d[x].old) /\ d[x].old \in Entry
      BY <1>1, <3>1 DEF OrderedBut
    <3>3. d[x].old # None => d[x].old # e
      BY <1>2, <3>1, <3>2 DEF Gone, Out
    <3> QED BY <1>4, <2>2, <3>1, <3>2, <3>3 DEF OrderedBut
  <2> QED BY <2>1, <2>2
<1>7. ASSUME NEW u \in Task, m2[u] # None PROVE d2[m2[u]].job # "over"
  BY <1>1, <1>2, <1>7 DEF OrderedBut
<1> QED BY <1>5, <1>6, <1>7 DEF Ordered, OrderedBut, m2, d2

\* Scheduling a task leaves the map and the entries sound, and in order if the
\* task in the map for that time is not over.
LEMMA ScheduleAtSound ==
    ASSUME NEW d, Sound(jobMap, d, removing), NEW t \in Task, NEW at \in Nat,
           ScheduleAt(t, at, d)
    PROVE  /\ Sound(jobMap', data', removing)
           /\ /\ OrderedBut(jobMap, d, removing, {t})
              /\ jobMap[t] # None /\ d[jobMap[t]].runAt = at => d[jobMap[t]].job # "over"
              => Ordered(jobMap', data', removing)
<1> DEFINE replaced == IF jobMap[t] # None /\ d[jobMap[t]].making = "made"
                       THEN jobMap[t] ELSE None
           f == [task |-> t, runAt |-> at, old |-> replaced, soon |-> FALSE,
                 making |-> "replace", job |-> "none", again |-> 0]
<1> DEFINE Ready ==
           /\ OrderedBut(jobMap, d, removing, {t})
           /\ jobMap[t] # None /\ d[jobMap[t]].runAt = at => d[jobMap[t]].job # "over"
<1>0. removing \in Entry \cup {None}
  BY DEF Sound, EntriesTyped
<1>1. ASSUME jobMap' = jobMap, data' = Live(jobMap, d),
             jobMap[t] # None, d[jobMap[t]].runAt = at
      PROVE  Sound(jobMap', data', removing) /\ (Ready => Ordered(jobMap', data', removing))
  <2>1. Ready => Ordered(jobMap, d, removing)
    BY <1>1 DEF Ordered, OrderedBut
  <2> HIDE DEF Ready
  <2> QED BY <1>0, <1>1, <2>1, LiveSound, LiveOrdered
<1>2. ASSUME NEW e \in Entry, Live(jobMap, d)[e] = None,
             Update([jobMap EXCEPT ![t] = e], [d EXCEPT ![e] = f])
      PROVE  Sound(jobMap', data', removing) /\ (Ready => Ordered(jobMap', data', removing))
  <2>1. f \in EntryData /\ f.task = t /\ f.making = "replace" /\ f.old = replaced
        /\ f.job = "none"
    BY DEF Sound, EntriesTyped, EntryData
  <2> HIDE DEF f
  <2>2. Sound([jobMap EXCEPT ![t] = e], [d EXCEPT ![e] = f], removing)
    BY <1>2, <2>1, NewEntrySound
  <2>3. Ready => Ordered([jobMap EXCEPT ![t] = e], [d EXCEPT ![e] = f], removing)
    BY <1>2, <2>1, NewEntryOrdered
  <2>4. jobMap' = [jobMap EXCEPT ![t] = e]
        /\ data' = Live([jobMap EXCEPT ![t] = e], [d EXCEPT ![e] = f])
    BY <1>2 DEF Update
  <2> HIDE DEF Ready
  <2> QED BY <1>0, <2>2, <2>3, <2>4, LiveSound, LiveOrdered
<1> QED BY <1>1, <1>2 DEF ScheduleAt, Update

\* An entry goes on, still its task's or not; the map may let go of it. If its
\* job waits it was owned before, and if it forgets another that one does not
\* wait.
LEMMA ChangeSound ==
    ASSUME NEW m, NEW d, NEW rm, Sound(m, d, rm), NEW e \in Entry, d[e] # None,
           NEW f \in EntryData, f.task = d[e].task,
           f.making # "replace" => f.old = None,
           \/ f.old = d[e].old
           \/ d[e].old # None => d[d[e].old] = None \/ d[d[e].old].job # "waiting",
           NEW m2, m2 = m \/ (f.job # "waiting" /\ m2 = Released(m, f.task, e)),
           f.job = "waiting" /\ f.making = "made" =>
               (d[e].job = "waiting" /\ d[e].making = "made") \/ m[f.task] = e
    PROVE  Sound(m2, [d EXCEPT ![e] = f], rm)
<1> DEFINE d2 == [d EXCEPT ![e] = f]
<1>1. /\ d2 \in [Entry -> EntryData \cup {None}] /\ d2[e] = f /\ f # None /\ e # None
      /\ \A x \in Entry : x # e => d2[x] = d[x]
  BY SchedulerAssumption DEF SchedulerAssumption, Sound, EntriesTyped
<1>2. f.task \in Task /\ d[e] \in EntryData
  BY DEF EntryData, Sound, EntriesTyped
<1>3. m2 \in [Task -> Entry \cup {None}] /\ \A t \in Task :
          m2[t] = m[t] \/ (t = f.task /\ m2[t] = None /\ m[t] = e /\ f.job # "waiting")
  BY <1>2 DEF Released, Sound, EntriesTyped
<1> HIDE DEF d2
<1>4. EntriesTyped(m2, d2, rm)
  BY <1>1, <1>3 DEF Sound, EntriesTyped
<1>5. Mapped(m2, d2)
  BY <1>1, <1>3 DEF Sound, EntriesTyped, Mapped
<1>6. OldInv(d2)
  BY <1>1 DEF Sound, OldInv
<1>7. ASSUME NEW x \in Entry PROVE Owned(m2, d2, rm, x)
  <2> SUFFICES ASSUME d2[x] # None, d2[x].job = "waiting", d2[x].making = "made"
               PROVE  \/ m2[d2[x].task] = x \/ rm = x
                      \/ \E y \in Entry : d2[y] # None /\ d2[y].old = x
    BY DEF Owned
  <2>1. x # None /\ d[x] # None /\ d2[x].task = d[x].task
    BY <1>1, SchedulerAssumption DEF SchedulerAssumption
  <2>2. d[x].task \in Task
    BY <2>1 DEF Sound, EntriesTyped, EntryData
  <2>3. (d[x].job = "waiting" /\ d[x].making = "made") \/ m[d[x].task] = x
    BY <1>1
  <2>4. CASE m[d[x].task] = x
    BY <1>1, <1>3, <2>1, <2>2, <2>4
  <2>5. ASSUME NEW y \in Entry, d[y] # None, d[y].old = x,
               d[x].job = "waiting" /\ d[x].making = "made"
        PROVE  d2[y] # None /\ d2[y].old = x
    BY <1>1, <2>1, <2>5
  <2> QED BY <2>1, <2>3, <2>4, <2>5 DEF Sound, Owned
<1> QED BY <1>4, <1>5, <1>6, <1>7 DEF Sound, d2

\* It stays in order if it follows the rules itself, but that its job is over may
\* be said in the map of tasks of X.
LEMMA ChangeOrdered ==
    ASSUME NEW m, NEW d, NEW rm, Sound(m, d, rm), NEW e \in Entry, d[e] # None,
           NEW f \in EntryData, f.task = d[e].task, f.old \in {None, d[e].old},
           f.making \in {"replace", "new"} => f.job = "none",
           f.making = "stray" => m[f.task] # e,
           f.job = "again" => f.again > f.runAt,
           NEW m2, m2 = m \/ m2 = Released(m, f.task, e),
           NEW X, f.task \in X \/ (m2[f.task] = e => f.job # "over"),
           Ordered(m, d, rm)
    PROVE  OrderedBut(m2, [d EXCEPT ![e] = f], rm, X)
<1> DEFINE d2 == [d EXCEPT ![e] = f]
<1>1. /\ d2[e] = f /\ f # None /\ e # None /\ f.task \in Task
      /\ \A x \in Entry : /\ x # e => d2[x] = d[x]
                          /\ d[x] # None => d[x].task \in Task /\ d[x].old \in Entry \cup {None}
      /\ rm \in Entry \cup {None}
      /\ \A t \in Task : m[t] \in Entry \cup {None}
  BY SchedulerAssumption DEF SchedulerAssumption, Sound, EntriesTyped, EntryData
<1>2. \A t \in Task : m2[t] \in {m[t], None}
  BY <1>1 DEF Released, Sound, EntriesTyped
<1> HIDE DEF d2
<1>3. \A x \in Entry : Out(m, d, x) => Out(m2, d2, x)
  BY <1>1, <1>2, SchedulerAssumption DEF SchedulerAssumption, Out
<1>4. rm # None => Out(m2, d2, rm)
  BY <1>1, <1>3 DEF Ordered, OrderedBut
<1>5. ASSUME NEW x \in Entry, d2[x] # None
      PROVE  /\ d2[x].making \in {"replace", "new"} => d2[x].job = "none"
             /\ d2[x].making = "stray" => Out(m2, d2, x)
             /\ d2[x].old # None => Out(m2, d2, d2[x].old)
             /\ d2[x].job = "again" => d2[x].again > d2[x].runAt
  <2>1. CASE x = e
    <3>1. f.old # None => Out(m, d, d[e].old) /\ d[e].old \in Entry
      BY <1>1 DEF Ordered, OrderedBut
    <3>2. f.making = "stray" => Out(m, d, e)
      BY DEF Out
    <3> QED BY <1>1, <1>3, <2>1, <3>1, <3>2
  <2>2. CASE x # e
    BY <1>1, <1>3, <1>5, <2>2 DEF Ordered, OrderedBut
  <2> QED BY <2>1, <2>2
<1>6. ASSUME NEW t \in Task \ X, m2[t] # None PROVE d2[m2[t]].job # "over"
  <2>1. m2[t] = m[t] /\ m[t] \in Entry /\ d[m[t]].job # "over" /\ d[m[t]].task = t
    BY <1>1, <1>2, <1>6 DEF Ordered, OrderedBut, Sound, Mapped
  <2> QED BY <1>1, <1>6, <2>1
<1> QED BY <1>4, <1>5, <1>6 DEF OrderedBut, d2

\* A job that waits is removed.
LEMMA RemoveJobSound ==
    ASSUME NEW m, NEW d, NEW rm, Sound(m, d, rm), NEW e \in Entry \cup {None}
    PROVE  /\ Sound(m, RemoveJob(d, e), rm)
           /\ e # None /\ d[e] # None =>
                /\ RemoveJob(d, e)[e].job # "waiting"
                /\ RemoveJob(d, e)[e].making = d[e].making
           /\ \A x \in Entry : x # e => RemoveJob(d, e)[x] = d[x]
           /\ \A x \in Entry : d[x] # None => RemoveJob(d, e)[x] # None
<1>1. CASE e # None /\ d[e] # None /\ d[e].job = "waiting"
  <2> DEFINE f == [d[e] EXCEPT !.job = "over"]
  <2>1. e \in Entry /\ d[e] \in EntryData
    BY <1>1 DEF Sound, EntriesTyped
  <2>2. /\ f \in EntryData /\ f.task = d[e].task /\ f.old = d[e].old
        /\ f.making = d[e].making /\ f.job = "over" /\ f # None
    BY <2>1, SchedulerAssumption DEF EntryData, SchedulerAssumption
  <2>3. RemoveJob(d, e) = [d EXCEPT ![e] = f]
    BY <1>1 DEF RemoveJob
  <2> HIDE DEF f
  <2>4. Sound(m, [d EXCEPT ![e] = f], rm)
    BY <1>1, <2>1, <2>2, ChangeSound DEF Sound, OldInv
  <2> QED BY <2>1, <2>2, <2>3, <2>4 DEF Sound, EntriesTyped
<1>2. CASE ~(e # None /\ d[e] # None /\ d[e].job = "waiting")
  BY <1>2 DEF RemoveJob
<1> QED BY <1>1, <1>2

-----------------------------------------------------------------------------
(* The actions on the map and the entries keep them sound. *)


\* The job of an entry outside the map is removed.
LEMMA RemoveJobOrdered ==
    ASSUME NEW m, NEW d, NEW rm, Sound(m, d, rm), Ordered(m, d, rm),
           NEW e \in Entry \cup {None}, e # None => Out(m, d, e)
    PROVE  Ordered(m, RemoveJob(d, e), rm)
<1>1. CASE e # None /\ d[e] # None /\ d[e].job = "waiting"
  <2> DEFINE f == [d[e] EXCEPT !.job = "over"]
  <2>1. e \in Entry /\ d[e] \in EntryData
    BY <1>1 DEF Sound, EntriesTyped
  <2>2. /\ f \in EntryData /\ f.task = d[e].task /\ f.old = d[e].old
        /\ f.making = d[e].making /\ f.job = "over"
    BY <2>1 DEF EntryData
  <2>3. RemoveJob(d, e) = [d EXCEPT ![e] = f]
    BY <1>1 DEF RemoveJob
  <2>4. m[f.task] # e /\ (f.making \in {"replace", "new"} => f.job = "none")
    BY <1>1, <2>1, <2>2 DEF Out, Ordered, OrderedBut
  <2> HIDE DEF f
  <2>5. OrderedBut(m, [d EXCEPT ![e] = f], rm, {})
    BY <1>1, <2>1, <2>2, <2>4, ChangeOrdered
  <2> QED BY <2>3, <2>5 DEF Ordered
<1>2. CASE ~(e # None /\ d[e] # None /\ d[e].job = "waiting")
  BY <1>2 DEF RemoveJob
<1> QED BY <1>1, <1>2

-----------------------------------------------------------------------------
(* The actions on the map and the entries keep them sound, and in order. *)

\* A step of one entry, after which entries are freed.
LEMMA StepDone ==
    ASSUME NEW m, NEW d, Sound(m, d, removing), jobMap' = m, data' = Live(m, d),
           removing' = removing,
           NoneGivesWay /\ Ordered(jobMap, data, removing) => Ordered(m, d, removing)
    PROVE  MapStep
<1>1. removing \in Entry \cup {None}
  BY DEF Sound, EntriesTyped
<1>2. Sound(m, Live(m, d), removing)
  BY <1>1, LiveSound
<1>3. Ordered(m, d, removing) => Ordered(m, Live(m, d), removing)
  BY <1>1, LiveOrdered
<1> QED BY <1>2, <1>3 DEF MapStep

\* A task is scheduled while nothing else happens.
LEMMA ScheduleKeeps ==
    ASSUME Sound(jobMap, data, removing), removing' = removing,
           NEW t \in Task, NEW at \in Nat, ScheduleAt(t, at, data)
    PROVE  MapStep
<1>1. Ordered(jobMap, data, removing) =>
          /\ OrderedBut(jobMap, data, removing, {t})
          /\ jobMap[t] # None => data[jobMap[t]].job # "over"
  BY DEF Ordered, OrderedBut
<1> QED BY <1>1, ScheduleAtSound DEF MapStep

LEMMA RemoveReplacedKeeps ==
    ASSUME SInv, NEW e \in Entry, RemoveReplaced(e)
    PROVE  MapStep
<1> DEFINE d == RemoveJob(data, data[e].old)
           f == [d[e] EXCEPT !.making = "new", !.old = None, !.soon = data[e].runAt <= now]
<1>1. Sound(jobMap, data, removing) /\ data[e] # None /\ data[e].making = "replace"
  BY DEF SInv, RemoveReplaced
<1>2. data[e] \in EntryData /\ data[e].old \in Entry \cup {None}
  BY <1>1 DEF Sound, EntriesTyped, EntryData
<1>3. /\ Sound(jobMap, d, removing)
      /\ data[e].old # None /\ data[data[e].old] # None => d[data[e].old].job # "waiting"
      /\ data[e].old # e => d[e] = data[e]
      /\ d[e] # None
  BY <1>1, <1>2, RemoveJobSound
<1>4. d[e] \in EntryData /\ d[e].task = data[e].task /\ d[e].old = data[e].old
  BY <1>1, <1>2, <1>3 DEF RemoveJob, Sound, EntriesTyped, EntryData
<1>5. d[e].old # None => d[d[e].old] = None \/ d[d[e].old].job # "waiting"
  BY <1>2, <1>3, <1>4 DEF RemoveJob
<1>6. f \in EntryData /\ f.task = d[e].task /\ f.old = None /\ f.making = "new"
  <2>1. (data[e].runAt <= now) \in BOOLEAN
    OBVIOUS
  <2> QED BY <1>4, <2>1 DEF EntryData
<1>7. data' = Live(jobMap, [d EXCEPT ![e] = f]) /\ jobMap' = jobMap /\ removing' = removing
  BY <1>3, <1>4 DEF RemoveReplaced, Update, Sound, EntriesTyped
<1>8. f.job = d[e].job /\ d[e].making = "replace"
  <2>1. f.job = d[e].job
    BY <1>4 DEF EntryData
  <2>2. CASE data[e].old = e
    BY <1>1, <1>2, <2>2, RemoveJobSound, SchedulerAssumption DEF SchedulerAssumption
  <2>3. CASE data[e].old # e
    BY <1>1, <1>3, <2>3
  <2> QED BY <2>1, <2>2, <2>3
<1> HIDE DEF d, f
<1>9. Sound(jobMap, [d EXCEPT ![e] = f], removing)
  BY <1>3, <1>5, <1>6, ChangeSound
<1>10. ASSUME Ordered(jobMap, data, removing)
      PROVE  Ordered(jobMap, [d EXCEPT ![e] = f], removing)
  <2>1. data[e].old # None => Out(jobMap, data, data[e].old)
    BY <1>1, <1>10 DEF Ordered, OrderedBut
  <2>2. Ordered(jobMap, d, removing)
    BY <1>1, <1>2, <1>10, <2>1, RemoveJobOrdered DEF d
  <2>3. f.job = "none"
    BY <1>3, <1>8, <2>2 DEF Ordered, OrderedBut
  <2>4. OrderedBut(jobMap, [d EXCEPT ![e] = f], removing, {})
    BY <1>3, <1>6, <2>2, <2>3, ChangeOrdered
  <2> QED BY <2>4 DEF Ordered
<1> QED BY <1>7, <1>9, <1>10, StepDone DEF SInv

LEMMA NewJobKeeps ==
    ASSUME SInv, NEW e \in Entry, NewJob(e)
    PROVE  MapStep
<1>1. /\ Sound(jobMap, data, removing) /\ data[e] # None /\ data[e].making = "new"
      /\ data[e] \in EntryData /\ data[e].old = None /\ removing' = removing
  BY DEF SInv, NewJob, Sound, EntriesTyped, OldInv
<1>2. CASE data[e].soon \/ data[e].runAt >= now
  <2> DEFINE f == [data[e] EXCEPT !.making = "set", !.job = "waiting", !.soon = FALSE]
  <2>1. f \in EntryData /\ f.task = data[e].task /\ f.old = None /\ f.making = "set"
        /\ f.job = "waiting"
    BY <1>1 DEF EntryData
  <2>2. data' = Live(jobMap, [data EXCEPT ![e] = f]) /\ jobMap' = jobMap
    <3>1. Update(jobMap, [data EXCEPT ![e].making = "set", ![e].job = "waiting", ![e].soon = FALSE])
      BY <1>2, Zenon DEF NewJob
    <3> QED BY <3>1, <1>1 DEF Update, Sound, EntriesTyped
  <2> HIDE DEF f
  <2>3. Sound(jobMap, [data EXCEPT ![e] = f], removing)
    BY <1>1, <2>1, ChangeSound
  <2>4. ASSUME Ordered(jobMap, data, removing)
        PROVE  Ordered(jobMap, [data EXCEPT ![e] = f], removing)
    BY <1>1, <2>1, <2>4, ChangeOrdered DEF Ordered
  <2> QED BY <1>1, <2>2, <2>3, <2>4, StepDone DEF SInv
<1>3. CASE ~(data[e].soon \/ data[e].runAt >= now)
  <2> DEFINE f == [data[e] EXCEPT !.making = "made", !.job = "over"]
             m == Released(jobMap, data[e].task, e)
  <2>1. /\ f \in EntryData /\ f.task = data[e].task /\ f.old = None /\ f.making = "made"
        /\ f.job = "over"
    BY <1>1 DEF EntryData
  <2>2. data' = Live(m, [data EXCEPT ![e] = f]) /\ jobMap' = m
    <3>1. Update(m, [data EXCEPT ![e].making = "made", ![e].job = "over"])
      BY <1>3, Zenon DEF NewJob
    <3> QED BY <3>1, <1>1 DEF Update, Sound, EntriesTyped
  <2>3. m = Released(jobMap, f.task, e)
    BY <2>1
  <2> HIDE DEF f, m
  <2>4. Sound(m, [data EXCEPT ![e] = f], removing)
    BY <1>1, <2>1, <2>3, ChangeSound
  <2>5. m[f.task] # e
    BY <1>1, <2>1, <2>3, SchedulerAssumption
       DEF SchedulerAssumption, Released, Sound, EntriesTyped, EntryData
  <2>6. ASSUME Ordered(jobMap, data, removing)
        PROVE  Ordered(m, [data EXCEPT ![e] = f], removing)
    BY <1>1, <2>1, <2>3, <2>5, <2>6, ChangeOrdered DEF Ordered
  <2> QED BY <1>1, <2>2, <2>4, <2>6, StepDone DEF SInv
<1> QED BY <1>2, <1>3

LEMMA SetJobKeeps ==
    ASSUME SInv, NEW e \in Entry, SetJob(e)
    PROVE  MapStep
<1> DEFINE f == [data[e] EXCEPT !.making = IF jobMap[data[e].task] = e THEN "made" ELSE "stray"]
<1>1. /\ Sound(jobMap, data, removing) /\ data[e] # None /\ data[e].making = "set"
      /\ data[e] \in EntryData /\ data[e].old = None /\ removing' = removing
  BY DEF SInv, SetJob, Sound, EntriesTyped, OldInv
<1>2. /\ f \in EntryData /\ f.task = data[e].task /\ f.old = None
      /\ f.making = IF jobMap[f.task] = e THEN "made" ELSE "stray"
      /\ f.job = data[e].job /\ f.again = data[e].again /\ f.runAt = data[e].runAt
  BY <1>1 DEF EntryData
<1>3. data' = Live(jobMap, [data EXCEPT ![e] = f]) /\ jobMap' = jobMap
  BY <1>1 DEF SetJob, Update, Sound, EntriesTyped
<1> HIDE DEF f
<1>4. Sound(jobMap, [data EXCEPT ![e] = f], removing)
  BY <1>1, <1>2, ChangeSound
<1>5. ASSUME Ordered(jobMap, data, removing)
      PROVE  Ordered(jobMap, [data EXCEPT ![e] = f], removing)
  <2>1. f.job = "again" => f.again > f.runAt
    BY <1>1, <1>2, <1>5 DEF Ordered, OrderedBut
  <2>2. jobMap[f.task] = e => f.job # "over"
    BY <1>1, <1>2, <1>5, SchedulerAssumption
       DEF SchedulerAssumption, Ordered, OrderedBut, EntryData
  <2>3. f.making = "stray" => jobMap[f.task] # e
    BY <1>2
  <2>4. f.making \notin {"replace", "new"}
    BY <1>2
  <2>5. OrderedBut(jobMap, [data EXCEPT ![e] = f], removing, {})
    BY <1>1, <1>2, <1>5, <2>1, <2>2, <2>3, <2>4, ChangeOrdered
  <2> QED BY <2>5 DEF Ordered
<1> QED BY <1>1, <1>3, <1>4, <1>5, StepDone DEF SInv

LEMMA RemoveStrayKeeps ==
    ASSUME SInv, NEW e \in Entry, RemoveStray(e)
    PROVE  MapStep
<1> DEFINE d == RemoveJob(data, e)
           f == [d[e] EXCEPT !.making = "made"]
<1>1. /\ Sound(jobMap, data, removing) /\ data[e] # None /\ data[e].making = "stray"
      /\ e # None /\ removing' = removing
  BY SchedulerAssumption DEF SchedulerAssumption, SInv, RemoveStray
<1>2. /\ Sound(jobMap, d, removing) /\ d[e] # None
      /\ d[e].job # "waiting" /\ d[e].making = "stray"
  BY <1>1, RemoveJobSound
<1>3. d[e] \in EntryData /\ d[e].old = None
  BY <1>2 DEF Sound, EntriesTyped, OldInv
<1>4. /\ f \in EntryData /\ f.task = d[e].task /\ f.old = None /\ f.job = d[e].job
      /\ f.making = "made" /\ f.again = d[e].again /\ f.runAt = d[e].runAt
  BY <1>3 DEF EntryData
<1>5. data' = Live(jobMap, [d EXCEPT ![e] = f]) /\ jobMap' = jobMap
  BY <1>2, <1>3 DEF RemoveStray, Update, Sound, EntriesTyped
<1> HIDE DEF f
<1>6. Sound(jobMap, [d EXCEPT ![e] = f], removing)
  BY <1>2, <1>3, <1>4, ChangeSound
<1>7. ASSUME Ordered(jobMap, data, removing)
      PROVE  Ordered(jobMap, [d EXCEPT ![e] = f], removing)
  <2>1. Out(jobMap, data, e)
    BY <1>1, <1>7 DEF Ordered, OrderedBut
  <2>2. Ordered(jobMap, d, removing)
    BY <1>1, <1>7, <2>1, RemoveJobOrdered
  <2> HIDE DEF d
  <2>3. jobMap[f.task] # e /\ (f.job = "again" => f.again > f.runAt)
    BY <1>2, <1>4, <2>2 DEF Ordered, OrderedBut, Out
  <2>4. OrderedBut(jobMap, [d EXCEPT ![e] = f], removing, {})
    BY <1>2, <1>4, <2>2, <2>3, ChangeOrdered
  <2> QED BY <2>4 DEF Ordered
<1> HIDE DEF d
<1> QED BY <1>1, <1>5, <1>6, <1>7, StepDone DEF SInv

\* A job that runs, or is put off.
LEMMA FireKeeps ==
    ASSUME SInv, NEW e \in Entry, Fire(e)
    PROVE  MapStep
<1>1. /\ Sound(jobMap, data, removing) /\ data[e] # None /\ data[e] \in EntryData
      /\ data[e].job = "waiting" /\ data[e].runAt <= now /\ removing' = removing
  BY DEF SInv, Fire, Sound, EntriesTyped
<1>2. data[e].task \in Task /\ data[e].runAt \in Nat /\ now \in Nat
  BY <1>1, SchedulerAssumption DEF EntryData, SInv, RestTyped, SchedulerAssumption
<1>3. ASSUME NEW f \in EntryData, f.task = data[e].task, f.old = data[e].old,
             f.making = data[e].making, f.job \in {"again", "running"},
             NoneGivesWay /\ f.job = "again" => f.again > f.runAt,
             Update(jobMap, [data EXCEPT ![e] = f])
      PROVE  MapStep
  <2>1. f.making # "replace" => f.old = None
    BY <1>1, <1>3 DEF Sound, OldInv
  <2>2. Sound(jobMap, [data EXCEPT ![e] = f], removing)
    BY <1>1, <1>3, <2>1, ChangeSound
  <2>3. ASSUME NoneGivesWay, Ordered(jobMap, data, removing)
        PROVE  Ordered(jobMap, [data EXCEPT ![e] = f], removing)
    <3>1. f.making \notin {"replace", "new"} /\ (f.making = "stray" => jobMap[f.task] # e)
      BY <1>1, <1>3, <2>3 DEF Ordered, OrderedBut, Out
    <3>2. OrderedBut(jobMap, [data EXCEPT ![e] = f], removing, {})
      BY <1>1, <1>3, <2>3, <3>1, ChangeOrdered
    <3> QED BY <3>2 DEF Ordered
  <2> QED BY <1>1, <1>3, <2>2, <2>3, StepDone DEF SInv, Update
<1>4. CASE Update(jobMap, [data EXCEPT ![e].job = "again", ![e].again = now + PauseRecheck])
  <2> DEFINE f == [data[e] EXCEPT !.job = "again", !.again = now + PauseRecheck]
  <2>1. now + PauseRecheck \in Nat /\ now + PauseRecheck > data[e].runAt
    BY <1>1, <1>2, SchedulerAssumption DEF SchedulerAssumption
  <2>2. /\ f \in EntryData /\ f.task = data[e].task /\ f.old = data[e].old
        /\ f.making = data[e].making /\ f.job = "again" /\ f.again > f.runAt
    BY <1>1, <2>1 DEF EntryData
  <2>3. Update(jobMap, [data EXCEPT ![e] = f])
    BY <1>1, <1>4 DEF Sound, EntriesTyped
  <2> HIDE DEF f
  <2> QED BY <1>3, <2>2, <2>3
<1>5. ASSUME Priority[data[e].task] # Critical,
             NEW p \in PriorityJobs(data[e].task),
             Update(jobMap, [data EXCEPT ![e].job = "again",
                                         ![e].again = data[p].runAt + LowPriorityDelay])
      PROVE  MapStep
  <2> DEFINE f == [data[e] EXCEPT !.job = "again", !.again = data[p].runAt + LowPriorityDelay]
  <2>1. data[p] \in EntryData
    BY <1>1 DEF PriorityJobs, Sound, EntriesTyped, Mapped
  <2>2. data[p].runAt + LowPriorityDelay \in Nat
    BY <2>1 DEF EntryData, LowPriorityDelay
  <2>3. ~NoneGivesWay
    <3>1. PICK u \in Task : Priority[u] > Priority[data[e].task]
      BY <1>5 DEF PriorityJobs
    <3>2. Priority[u] \in Nat /\ Priority[data[e].task] \in Nat
      BY <1>2, SchedulerAssumption DEF SchedulerAssumption
    <3> QED BY <1>2, <1>5, <3>1, <3>2 DEF NoneGivesWay
  <2>4. /\ f \in EntryData /\ f.task = data[e].task /\ f.old = data[e].old
        /\ f.making = data[e].making /\ f.job = "again"
    BY <1>1, <2>2 DEF EntryData
  <2>5. Update(jobMap, [data EXCEPT ![e] = f])
    BY <1>1, <1>5 DEF Sound, EntriesTyped
  <2> HIDE DEF f
  <2> QED BY <1>3, <2>3, <2>4, <2>5
<1>6. CASE Update(jobMap, [data EXCEPT ![e].job = "running"])
  <2> DEFINE f == [data[e] EXCEPT !.job = "running"]
  <2>1. /\ f \in EntryData /\ f.task = data[e].task /\ f.old = data[e].old
        /\ f.making = data[e].making /\ f.job = "running"
    BY <1>1 DEF EntryData
  <2>2. Update(jobMap, [data EXCEPT ![e] = f])
    BY <1>1, <1>6 DEF Sound, EntriesTyped
  <2> HIDE DEF f
  <2> QED BY <1>3, <2>1, <2>2
<1> QED BY <1>4, <1>5, <1>6 DEF Fire

LEMMA FinishKeeps ==
    ASSUME SInv, NEW e \in Entry, Finish(e)
    PROVE  MapStep
<1> DEFINE f == [data[e] EXCEPT !.job = "over"]
           m == Released(jobMap, data[e].task, e)
<1>1. /\ Sound(jobMap, data, removing) /\ data[e] # None /\ data[e] \in EntryData
      /\ removing' = removing
  BY DEF SInv, Finish, Sound, EntriesTyped
<1>2. /\ f \in EntryData /\ f.task = data[e].task /\ f.old = data[e].old
      /\ f.making = data[e].making /\ f.job = "over"
  BY <1>1 DEF EntryData
<1>3. data' = Live(m, [data EXCEPT ![e] = f]) /\ jobMap' = m
  BY <1>1 DEF Finish, Update, Sound, EntriesTyped
<1>4. m = Released(jobMap, f.task, e) /\ (f.making # "replace" => f.old = None)
  BY <1>1, <1>2 DEF Sound, OldInv
<1> HIDE DEF f, m
<1>5. Sound(m, [data EXCEPT ![e] = f], removing)
  BY <1>1, <1>2, <1>4, ChangeSound
<1>6. ASSUME Ordered(jobMap, data, removing)
      PROVE  Ordered(m, [data EXCEPT ![e] = f], removing)
  <2>1. f.making \notin {"replace", "new"} /\ (f.making = "stray" => jobMap[f.task] # e)
    BY <1>1, <1>2, <1>6 DEF Finish, Ordered, OrderedBut, Out
  <2>2. m[f.task] # e
    BY <1>1, <1>2, <1>4, SchedulerAssumption
       DEF SchedulerAssumption, Released, Sound, EntriesTyped, EntryData
  <2>3. OrderedBut(m, [data EXCEPT ![e] = f], removing, {})
    BY <1>1, <1>2, <1>4, <1>6, <2>1, <2>2, ChangeOrdered
  <2> QED BY <2>3 DEF Ordered
<1> QED BY <1>1, <1>3, <1>5, <1>6, StepDone DEF SInv

LEMMA FinishToRerunKeeps ==
    ASSUME SInv, NEW e \in Entry, FinishToRerun(e)
    PROVE  MapStep
<1>1. /\ Sound(jobMap, data, removing) /\ data[e] # None /\ data[e] \in EntryData
      /\ removing' = removing /\ now \in Nat
  BY SchedulerAssumption DEF SInv, RestTyped, FinishToRerun, Sound, EntriesTyped, SchedulerAssumption
<1>2. PICK at \in {now, now + 2} : 
          /\ at > data[e].runAt
          /\ Update(jobMap, [data EXCEPT ![e].job = "again", ![e].again = at])
  BY DEF FinishToRerun
<1> DEFINE f == [data[e] EXCEPT !.job = "again", !.again = at]
<1>3. /\ f \in EntryData /\ f.task = data[e].task /\ f.old = data[e].old
      /\ f.making = data[e].making /\ f.job = "again" /\ f.again > f.runAt
  <2>1. at \in Nat
    BY <1>1
  <2> QED BY <1>1, <1>2, <2>1 DEF EntryData
<1>4. data' = Live(jobMap, [data EXCEPT ![e] = f]) /\ jobMap' = jobMap
  BY <1>1, <1>2 DEF Update, Sound, EntriesTyped
<1> HIDE DEF f
<1>5. Sound(jobMap, [data EXCEPT ![e] = f], removing)
  BY <1>1, <1>3, ChangeSound DEF Sound, OldInv
<1>6. ASSUME Ordered(jobMap, data, removing)
      PROVE  Ordered(jobMap, [data EXCEPT ![e] = f], removing)
  <2>1. f.making \notin {"replace", "new"} /\ (f.making = "stray" => jobMap[f.task] # e)
    BY <1>1, <1>3, <1>6 DEF FinishToRerun, Ordered, OrderedBut, Out
  <2>2. OrderedBut(jobMap, [data EXCEPT ![e] = f], removing, {})
    BY <1>1, <1>3, <1>6, <2>1, ChangeOrdered
  <2> QED BY <2>2 DEF Ordered
<1> QED BY <1>1, <1>4, <1>5, <1>6, StepDone DEF SInv

LEMMA ScheduleAgainKeeps ==
    ASSUME SInv, NEW e \in Entry, ScheduleAgain(e)
    PROVE  MapStep
<1> DEFINE f == [data[e] EXCEPT !.job = "over", !.again = 0]
<1>1. /\ Sound(jobMap, data, removing) /\ data[e] # None /\ data[e] \in EntryData
      /\ removing' = removing
  BY DEF SInv, ScheduleAgain, Sound, EntriesTyped
<1>2. /\ f \in EntryData /\ f.task = data[e].task /\ f.old = data[e].old
      /\ f.making = data[e].making /\ f.job = "over" /\ f.runAt = data[e].runAt
  BY <1>1 DEF EntryData
<1>3. ScheduleAt(data[e].task, data[e].again, [data EXCEPT ![e] = f])
  BY <1>1 DEF ScheduleAgain, Sound, EntriesTyped
<1>4. data[e].task \in Task /\ data[e].again \in Nat
  BY <1>1 DEF EntryData
<1> HIDE DEF f
<1>5. Sound(jobMap, [data EXCEPT ![e] = f], removing)
  BY <1>1, <1>2, ChangeSound DEF Sound, OldInv
<1>6. ASSUME Ordered(jobMap, data, removing)
      PROVE  LET d == [data EXCEPT ![e] = f]
                 t == data[e].task
             IN  /\ OrderedBut(jobMap, d, removing, {t})
                 /\ jobMap[t] # None /\ d[jobMap[t]].runAt = data[e].again
                       => d[jobMap[t]].job # "over"
  <2>1. f.making \notin {"replace", "new"} /\ (f.making = "stray" => jobMap[f.task] # e)
    BY <1>1, <1>2, <1>6 DEF ScheduleAgain, Ordered, OrderedBut, Out
  <2>2. OrderedBut(jobMap, [data EXCEPT ![e] = f], removing, {data[e].task})
    BY <1>1, <1>2, <1>6, <2>1, ChangeOrdered
  <2>3. data[e].again > data[e].runAt /\ data[e].runAt \in Nat
    BY <1>1, <1>6 DEF ScheduleAgain, Ordered, OrderedBut, EntryData
  <2>4. jobMap[data[e].task] # None => data[jobMap[data[e].task]].job # "over"
    BY <1>4, <1>6 DEF Ordered, OrderedBut
  <2>5. [data EXCEPT ![e] = f][e] = f
        /\ \A x \in Entry : x # e => [data EXCEPT ![e] = f][x] = data[x]
    BY <1>1 DEF Sound, EntriesTyped
  <2>6. jobMap[data[e].task] \in Entry \cup {None}
    BY <1>1, <1>4 DEF Sound, EntriesTyped
  <2> QED BY <1>2, <1>4, <2>2, <2>3, <2>4, <2>5, <2>6
<1> QED BY <1>1, <1>3, <1>4, <1>5, <1>6, ScheduleAtSound DEF MapStep

\* A message that a task is not to run: its job is left to RemoveUnscheduled.
LEMMA HandleKeeps ==
    ASSUME SInv, HandleCtrlMessage
    PROVE  MapStep
<1> DEFINE mes == Head(ctrl)
<1>1. Sound(jobMap, data, removing) /\ removing = None /\ mes \in Messages
  BY DEF SInv, RestTyped, HandleCtrlMessage
<1>2. CASE UNCHANGED <<jobMap, data, removing>>
  BY <1>1, <1>2 DEF MapStep
<1>3. CASE mes.kind = "schedule" /\ ScheduleAt(mes.task, mes.runAt, data) /\ removing' = removing
  <2>1. mes.task \in Task /\ mes.runAt \in Nat
    BY <1>1, <1>3 DEF Messages
  <2> QED BY <1>1, <1>3, <2>1, ScheduleKeeps
<1>4. CASE mes.kind = "unschedule" /\ Update([jobMap EXCEPT ![mes.task] = None], data)
  <2> DEFINE t == mes.task
             m == [jobMap EXCEPT ![t] = None]
  <2>1. t \in Task
    BY <1>1, <1>4 DEF Messages
  <2>2. removing' = LET e == jobMap[t]
                    IN  IF e # None /\ data[e].making = "made" /\ data[e].job # "over"
                        THEN e ELSE None
    BY <1>4 DEF HandleCtrlMessage
  <2>3. m \in [Task -> Entry \cup {None}] /\ m[t] = None /\ \A u \in Task : u # t => m[u] = jobMap[u]
    BY <1>1, <2>1 DEF Sound, EntriesTyped
  <2>4. jobMap' = m /\ data' = Live(m, data)
    BY <1>4 DEF Update
  <2> HIDE DEF t, m
  <2>5. EntriesTyped(m, data, removing') /\ Mapped(m, data) /\ OldInv(data)
    BY <1>1, <2>1, <2>2, <2>3 DEF Sound, EntriesTyped, Mapped
  <2>6. ASSUME NEW x \in Entry PROVE Owned(m, data, removing', x)
    <3> SUFFICES ASSUME data[x] # None, data[x].job = "waiting", data[x].making = "made"
                 PROVE  \/ m[data[x].task] = x \/ removing' = x
                        \/ \E y \in Entry : data[y] # None /\ data[y].old = x
      BY DEF Owned
    <3>1. data[x].task \in Task /\ x # None
      BY <1>1, SchedulerAssumption DEF Sound, EntriesTyped, EntryData, SchedulerAssumption
    <3>2. CASE jobMap[data[x].task] = x
      BY <2>2, <2>3, <3>1, <3>2
    <3>3. CASE jobMap[data[x].task] # x
      BY <1>1, <3>1, <3>3 DEF Sound, Owned
    <3> QED BY <3>2, <3>3
  <2>7. removing' = None \/ data[removing'].job # "over"
    BY <2>2
  <2>8. Sound(m, data, removing')
    BY <2>5, <2>6 DEF Sound
  <2>9. ASSUME Ordered(jobMap, data, removing)
        PROVE  Ordered(m, data, removing')
    <3>1. \A x \in Entry : Out(jobMap, data, x) => Out(m, data, x)
      BY <1>1, <2>3, SchedulerAssumption
         DEF SchedulerAssumption, Out, Sound, EntriesTyped, EntryData
    <3>2. removing' # None => Out(m, data, removing')
      BY <1>1, <2>1, <2>2, <2>3 DEF Out, Sound, Mapped
    <3>3. \A x \in Entry : data[x] # None => data[x].old \in Entry \cup {None}
      BY <1>1 DEF Sound, EntriesTyped, EntryData
    <3> QED BY <2>3, <2>9, <3>1, <3>2, <3>3 DEF Ordered, OrderedBut
  <2>10. Sound(jobMap', data', removing')
    BY <1>1, <2>4, <2>7, <2>8, LiveSound
  <2>11. Ordered(jobMap, data, removing) => Ordered(jobMap', data', removing')
    BY <1>1, <2>4, <2>7, <2>8, <2>9, LiveOrdered
  <2> QED BY <2>10, <2>11 DEF MapStep
<1> QED BY <1>1, <1>2, <1>3, <1>4 DEF HandleCtrlMessage

LEMMA RemoveUnscheduledKeeps ==
    ASSUME SInv, RemoveUnscheduled
    PROVE  MapStep
<1> DEFINE d == RemoveJob(data, removing)
<1>1. /\ Sound(jobMap, data, removing) /\ removing \in Entry /\ removing' = None
      /\ jobMap' = jobMap /\ data' = Live(jobMap, d)
  BY DEF SInv, Sound, EntriesTyped, RemoveUnscheduled, Update
<1>2. Sound(jobMap, d, removing)
  BY <1>1, RemoveJobSound
<1>3. d[removing] = None \/ d[removing].job # "waiting"
  BY <1>1, RemoveJobSound, SchedulerAssumption DEF SchedulerAssumption, RemoveJob
<1>4. ASSUME Ordered(jobMap, data, removing)
      PROVE  Ordered(jobMap, d, None)
  <2>1. Ordered(jobMap, d, removing)
    BY <1>1, <1>4, RemoveJobOrdered DEF Ordered, OrderedBut
  <2> QED BY <2>1 DEF Ordered, OrderedBut
<1> HIDE DEF d
<1>5. Sound(jobMap, d, None)
  BY <1>1, <1>2, <1>3 DEF Sound, EntriesTyped, Owned
<1>6. Sound(jobMap', data', removing')
  BY <1>1, <1>5, LiveSound
<1>7. Ordered(jobMap, data, removing) => Ordered(jobMap', data', removing')
  BY <1>1, <1>4, <1>5, LiveOrdered
<1> QED BY <1>6, <1>7 DEF MapStep

LEMMA RestartKeeps ==
    ASSUME Restart
    PROVE  MapStep
  BY SchedulerAssumption
     DEF SchedulerAssumption, Restart, Sound, EntriesTyped, Mapped, OldInv, Owned,
         MapStep, Ordered, OrderedBut

LEMMA MapKeeps == SInv /\ [Next]_vars => MapStep
<1> SUFFICES ASSUME SInv, [Next]_vars PROVE MapStep
  OBVIOUS
<1>1. CASE UNCHANGED <<jobMap, data, removing>>
  BY <1>1 DEF SInv, MapStep
<1>2. CASE ScanNext
  <2>1. PICK s \in scanned : ScheduleAt(s[1], s[2], data)
    BY <1>2 DEF ScanNext
  <2>2. s[1] \in Task /\ s[2] \in Nat
    BY DEF SInv, RestTyped
  <2> QED BY <1>2, <2>1, <2>2, ScheduleKeeps DEF ScanNext, SInv
<1>3. ASSUME NEW t \in Task, ScheduleTask(t) PROVE MapStep
  <2>1. due[t] \in Nat
    BY <1>3 DEF ScheduleTask, SInv, RestTyped
  <2> QED BY <1>3, <2>1, ScheduleKeeps DEF ScheduleTask, SInv
<1>4. ASSUME NEW e \in Entry, EntryStep(e) PROVE MapStep
  BY <1>4, RemoveReplacedKeeps, NewJobKeeps, SetJobKeeps, RemoveStrayKeeps, FireKeeps,
     FinishKeeps, FinishToRerunKeeps, ScheduleAgainKeeps DEF EntryStep
<1>5. CASE HandleCtrlMessage
  BY <1>5, HandleKeeps
<1>6. CASE RemoveUnscheduled
  BY <1>6, RemoveUnscheduledKeeps
<1>7. CASE Restart
  BY <1>7, RestartKeeps
<1>8. CASE Tick \/ ScanTasks \/ Send \/ OtherTakesMessage \/ UNCHANGED vars
  BY <1>8, <1>1 DEF Tick, ScanTasks, Send, OtherTakesMessage, vars
<1> QED BY <1>2, <1>3, <1>4, <1>5, <1>6, <1>7, <1>8 DEF Next

-----------------------------------------------------------------------------
(* The rest of the state. *)

LEMMA FaultTyped == RestTyped /\ (Fault \/ UNCHANGED faults) => faults' \in 0..MaxFaults
  BY SchedulerAssumption DEF SchedulerAssumption, RestTyped, Fault

LEMMA RestKeeps == SInv /\ [Next]_vars => RestTyped'
<1> SUFFICES ASSUME SInv, [Next]_vars PROVE RestTyped'
  OBVIOUS
<1> USE SchedulerAssumption DEF SchedulerAssumption, SInv, RestTyped
<1>1. CASE Tick
  BY <1>1 DEF Tick
<1>2. CASE ScanTasks
  BY <1>2 DEF ScanTasks
<1>3. CASE ScanNext
  BY <1>3 DEF ScanNext
<1>4. ASSUME NEW t \in Task, ScheduleTask(t) PROVE RestTyped'
  BY <1>4 DEF ScheduleTask
<1>5. ASSUME NEW e \in Entry, EntryStep(e) PROVE RestTyped'
  <2>1. CASE RemoveReplaced(e) \/ NewJob(e) \/ SetJob(e) \/ RemoveStray(e) \/ ScheduleAgain(e)
    BY <2>1 DEF RemoveReplaced, NewJob, SetJob, RemoveStray, ScheduleAgain
  <2>2. CASE Fire(e)
    BY <2>2 DEF Fire
  <2>3. CASE Finish(e)
    <3>1. Fault \/ UNCHANGED faults
      BY <2>3 DEF Finish
    <3>2. due' \in [Task -> Nat \cup {None}]
      BY <2>3 DEF Finish
    <3>3. faults' \in 0..MaxFaults
      BY <3>1, FaultTyped
    <3> QED BY <2>3, <3>2, <3>3 DEF Finish
  <2>4. CASE FinishToRerun(e)
    <3>1. PICK at \in {now, now + 2} : due' = [due EXCEPT ![data[e].task] = at]
      BY <2>4 DEF FinishToRerun
    <3>2. at \in Nat
      OBVIOUS
    <3>3. due' \in [Task -> Nat \cup {None}]
      BY <3>1, <3>2
    <3>4. UNCHANGED <<now, ctrl, scanned, pausedUntil, sent, faults>>
          /\ reruns' = reruns + 1 /\ reruns < MaxReruns
      BY <2>4 DEF FinishToRerun
    <3> QED BY <3>3, <3>4
  <2> QED BY <1>5, <2>1, <2>2, <2>3, <2>4 DEF EntryStep
<1>6. CASE Send
  <2>1. PICK m \in [kind : {"start", "stop"}] \cup [kind : {"unschedule"}, task : Task]
                   \cup {[kind |-> "schedule", task |-> t, runAt |-> due[t]] :
                            t \in {u \in Task : due[u] # None}} :
            ctrl' = Append(ctrl, m)
    BY <1>6 DEF Send
  <2>2. m \in Messages
    BY DEF Messages
  <2>3. ctrl' \in Seq(Messages)
    BY <2>1, <2>2
  <2> QED BY <1>6, <2>3 DEF Send
<1>7. CASE HandleCtrlMessage
  <2>1. ctrl' \in Seq(Messages)
    BY <1>7 DEF HandleCtrlMessage
  <2>2. pausedUntil' \in {0, now + PauseLimit, pausedUntil}
    BY <1>7 DEF HandleCtrlMessage
  <2>3. pausedUntil' \in Nat
    BY <2>2
  <2>4. UNCHANGED <<now, due, scanned, reruns, sent, faults>>
    BY <1>7 DEF HandleCtrlMessage
  <2> QED BY <2>1, <2>3, <2>4
<1>8. CASE RemoveUnscheduled
  BY <1>8 DEF RemoveUnscheduled
<1>9. CASE OtherTakesMessage
  <2>1. ctrl' \in Seq(Messages)
    BY <1>9 DEF OtherTakesMessage
  <2>2. faults' \in 0..MaxFaults
    BY <1>9, FaultTyped DEF OtherTakesMessage
  <2> QED BY <1>9, <2>1, <2>2 DEF OtherTakesMessage
<1>10. CASE Restart
  <2>1. faults' \in 0..MaxFaults
    BY <1>10, FaultTyped DEF Restart
  <2>2. \A i \in DOMAIN ctrl :
            (IF ctrl[i].kind = "stop" THEN [kind |-> "old_stop"] ELSE ctrl[i]) \in Messages
    BY DEF Messages
  <2>3. ctrl' \in Seq(Messages)
    BY <1>10, <2>2 DEF Restart
  <2> QED BY <1>10, <2>1, <2>3 DEF Restart
<1>11. CASE UNCHANGED vars
  BY <1>11 DEF vars
<1> QED BY <1>1, <1>2, <1>3, <1>4, <1>5, <1>6, <1>7, <1>8, <1>9, <1>10, <1>11 DEF Next

-----------------------------------------------------------------------------
LEMMA InitSound == Init => SInv
<1> SUFFICES ASSUME Init PROVE SInv
  OBVIOUS
<1> USE SchedulerAssumption DEF SchedulerAssumption, Init
<1>1. due \in [Task -> Nat \cup {None}]
  OBVIOUS
<1>2. RestTyped
  BY <1>1 DEF RestTyped
<1>3. Sound(jobMap, data, removing)
  BY DEF Sound, EntriesTyped, Mapped, OldInv, Owned
<1> QED BY <1>2, <1>3 DEF SInv

LEMMA SInvariant == Spec => []SInv
<1>1. SInv /\ [Next]_vars => SInv'
  BY MapKeeps, RestKeeps DEF SInv, MapStep
<1> QED BY <1>1, InitSound, PTL DEF Spec

\* Every variable has its type, in every state that is reached.
THEOREM TypeCorrect == Spec => []TypeOK
<1>1. SInv => TypeOK
  BY DEF SInv, Sound, EntriesTyped, RestTyped, TypeOK
<1> QED BY <1>1, SInvariant, PTL

\* What was replaced or unscheduled does not run later on its own.
THEOREM NoJobStrays == Spec => []NoStrayJob
<1>1. SInv => NoStrayJob
  BY DEF SInv, Sound, Owned, NoStrayJob
<1> QED BY <1>1, SInvariant, PTL

\* Where no task gives way to another, the map never says that a task is
\* scheduled whose job is over. Where one does, it may: a task put off to the
\* time it has already.
THEOREM NoEntryOrphaned ==
    ASSUME NoneGivesWay
    PROVE  Spec => []NoOrphanEntry
<1> DEFINE I == SInv /\ Ordered(jobMap, data, removing)
<1>1. Init => I
  <2>1. Init => Ordered(jobMap, data, removing)
    BY DEF Init, Ordered, OrderedBut
  <2> QED BY <2>1, InitSound
<1>2. I /\ [Next]_vars => I'
  BY MapKeeps, RestKeeps DEF SInv, MapStep
<1>3. I => NoOrphanEntry
  BY DEF Ordered, OrderedBut, NoOrphanEntry
<1> QED BY <1>1, <1>2, <1>3, PTL DEF Spec
=============================================================================
