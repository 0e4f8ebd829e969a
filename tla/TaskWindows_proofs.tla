------------------------- MODULE TaskWindows_proofs -------------------------
(***************************************************************************)
(* That a run is missed in the gap between two windows only, and how long  *)
(* that may be, for any runs, intervals, lateness and faults.              *)
(***************************************************************************)
EXTENDS TaskWindows, TLAPS

\* When the worker is not there, or failed to make runs, the time is counted.
GapInv == ~served => now \in unserved

\* After a making that went well, the runs in its window are made, and the next
\* tick is an interval after it at the latest.
AheadInv ==
    served => /\ up
              /\ lastMade <= now /\ now + toMake <= lastMade + CreateEvery
              /\ \A t \in Run : lastMade <= t /\ t <= lastMade + CreateAhead => status[t] # "none"

IInv == TypeOK /\ GapInv /\ AheadInv

-----------------------------------------------------------------------------
\* The variables have their types at first, and keep them.
LEMMA InitTyped == Init => TypeOK
<1> SUFFICES ASSUME Init PROVE TypeOK
  OBVIOUS
<1> USE WindowsAssumption DEF WindowsAssumption, Init, Time
<1>1. 0 \in Time /\ 0 \in 0..MaxDown /\ 0 \in 0..MaxFaults
  OBVIOUS
<1>2. 0 \in (-Late)..CreateEvery /\ 0 \in (-Late)..CheckEvery
  OBVIOUS
<1>3. status \in [Run -> {"none", "waiting", "done"}] /\ madeAt \in [Run -> Time]
  OBVIOUS
<1>4. unserved \subseteq Time
  OBVIOUS
<1> QED BY <1>1, <1>2, <1>3, <1>4 DEF TypeOK

LEMMA FaultTyped == TypeOK /\ (Fault \/ UNCHANGED faults) => faults' \in 0..MaxFaults
  BY WindowsAssumption DEF WindowsAssumption, TypeOK, Fault

LEMMA NextTyped == TypeOK /\ [Next]_vars => TypeOK'
<1> SUFFICES ASSUME TypeOK, [Next]_vars PROVE TypeOK'
  OBVIOUS
<1> USE WindowsAssumption DEF WindowsAssumption, TypeOK, Time
<1>1. CASE Tick
  <2>1. CASE up
    BY <1>1, <2>1 DEF Tick, rows, history
  <2>2. CASE ~up
    BY <1>1, <2>2 DEF Tick, rows, timers, history
  <2> QED BY <2>1, <2>2
<1>2. CASE MakeRuns
  <2>1. now' = now /\ up' = up /\ downFor' = downFor /\ toScan' = toScan
    BY <1>2 DEF MakeRuns
  <2>2. toMake' \in (-Late)..CreateEvery
    BY <1>2 DEF MakeRuns
  <2>3. status' \in [Run -> {"none", "waiting", "done"}] /\ madeAt' \in [Run -> Time]
    BY <1>2 DEF MakeRuns, rows
  <2>4. jobMap' \subseteq Run /\ faults' \in 0..MaxFaults
    <3>1. jobMap' \subseteq Run
      BY <1>2 DEF MakeRuns, RunsInRange
    <3>2. Fault \/ UNCHANGED faults
      BY <1>2 DEF MakeRuns
    <3> QED BY <3>1, <3>2, FaultTyped
  <2>5. served' \in BOOLEAN /\ unserved' \subseteq Time /\ lastMade' \in Time
    BY <1>2 DEF MakeRuns
  <2> QED BY <2>1, <2>2, <2>3, <2>4, <2>5
<1>3. CASE ScanTasks
  <2>1. jobMap' \subseteq Run
    BY <1>3 DEF ScanTasks, Found
  <2>2. Fault \/ UNCHANGED faults
    BY <1>3 DEF ScanTasks
  <2>3. faults' \in 0..MaxFaults
    BY <2>2, FaultTyped
  <2>4. toScan' \in (-Late)..CheckEvery
    BY <1>3 DEF ScanTasks
  <2> QED BY <1>3, <2>1, <2>3, <2>4 DEF ScanTasks, rows, history
<1>4. ASSUME NEW t \in Run, Execute(t) PROVE TypeOK'
  BY <1>4 DEF Execute, timers, history
<1>5. CASE Crash
  <2>1. faults' \in 0..MaxFaults
    BY <1>5, FaultTyped DEF Crash
  <2>2. downFor' \in 0..MaxDown /\ unserved' \subseteq Time
    BY <1>5 DEF Crash
  <2> QED BY <1>5, <2>1, <2>2 DEF Crash, timers, rows
<1>6. CASE Restart
  BY <1>6 DEF Restart, rows, history
<1>7. CASE UNCHANGED vars
  BY <1>7 DEF vars, timers, rows, history
<1> QED BY <1>1, <1>2, <1>3, <1>4, <1>5, <1>6, <1>7 DEF Next

\* Every variable has its type, in every state that is reached.
THEOREM TypeCorrect == Spec => []TypeOK
  BY InitTyped, NextTyped, PTL DEF Spec

-----------------------------------------------------------------------------
\* A making that went well makes what the window holds.
LEMMA MakeRunsKeeps ==
    ASSUME IInv, MakeRuns
    PROVE  GapInv' /\ AheadInv'
<1> USE WindowsAssumption DEF WindowsAssumption, IInv, TypeOK, Time
<1>1. now' = now /\ up' = up /\ up
  BY DEF MakeRuns
<1>2. CASE served'
  <2>1. status' = [t \in Run |->
            IF t \in RunsInRange /\ status[t] = "none" THEN "waiting" ELSE status[t]]
    BY <1>2 DEF MakeRuns
  <2>2. toMake' = toMake + CreateEvery /\ toMake <= 0 /\ lastMade' = now
    BY <1>2 DEF MakeRuns
  <2>3. \A t \in Run : lastMade' <= t /\ t <= lastMade' + CreateAhead => status'[t] # "none"
    BY <2>1, <2>2 DEF RunsInRange
  <2> QED BY <1>1, <1>2, <2>2, <2>3 DEF GapInv, AheadInv
<1>3. CASE ~served'
  BY <1>1, <1>3 DEF MakeRuns, GapInv, AheadInv
<1> QED BY <1>2, <1>3

\* As time goes on, the next tick comes nearer.
LEMMA TickKeeps ==
    ASSUME IInv, Tick
    PROVE  GapInv' /\ AheadInv'
<1> USE WindowsAssumption DEF WindowsAssumption, IInv, TypeOK, Time
<1>1. now' = now + 1 /\ up' = up /\ served' = served /\ status' = status /\ lastMade' = lastMade
  BY DEF Tick, rows
<1>2. GapInv'
  BY <1>1 DEF Tick, GapInv
<1>3. served => toMake' = toMake - 1
  BY DEF Tick, AheadInv
<1>4. AheadInv'
  BY <1>1, <1>3 DEF AheadInv
<1> QED BY <1>2, <1>4

\* The other steps unmake nothing, and those that leave the worker without its
\* runs made are counted.
LEMMA OtherKeeps ==
    ASSUME IInv, ScanTasks \/ (\E t \in Run : Execute(t)) \/ Crash \/ Restart
                 \/ UNCHANGED vars
    PROVE  GapInv' /\ AheadInv'
<1> USE DEF IInv, TypeOK
<1>1. /\ now' = now /\ lastMade' = lastMade
      /\ \A t \in Run : status[t] # "none" => status'[t] # "none"
  BY DEF ScanTasks, Execute, Crash, Restart, vars, timers, rows, history
<1>2. served' => served /\ (up => up') /\ (up => toMake' = toMake)
  BY DEF ScanTasks, Execute, Crash, Restart, vars, timers, history
<1>3. GapInv'
  BY DEF ScanTasks, Execute, Crash, Restart, vars, history, GapInv
<1>4. AheadInv'
  BY <1>1, <1>2 DEF AheadInv
<1> QED BY <1>3, <1>4

LEMMA Invariant == Spec => []IInv
<1>1. Init => IInv
  <2> SUFFICES ASSUME Init PROVE IInv
    OBVIOUS
  <2>1. GapInv /\ AheadInv
    BY DEF Init, GapInv, AheadInv
  <2> QED BY <2>1, InitTyped DEF IInv
<1>2. IInv /\ [Next]_vars => IInv'
  <2> SUFFICES ASSUME IInv, [Next]_vars PROVE IInv'
    OBVIOUS
  <2>1. TypeOK'
    BY NextTyped DEF IInv
  <2>2. GapInv' /\ AheadInv'
    <3>1. CASE Tick
      BY <3>1, TickKeeps
    <3>2. CASE MakeRuns
      BY <3>2, MakeRunsKeeps
    <3>3. CASE ScanTasks \/ (\E t \in Run : Execute(t)) \/ Crash \/ Restart
                 \/ UNCHANGED vars
      BY <3>3, OtherKeeps
    <3> QED BY <3>1, <3>2, <3>3 DEF Next
  <2> QED BY <2>1, <2>2 DEF IInv
<1> QED BY <1>1, <1>2, PTL DEF Spec

\* A run whose time goes by unmade is beyond the last window, and the tick after it,
\* late as it may be, is not here yet.
LEMMA MissedInGap ==
    ASSUME IInv, [Next]_vars, NEW t \in Run,
           t = now, t < now', t \notin unserved, status[t] = "none"
    PROVE  lastMade + CreateAhead < t /\ t < lastMade + CreateEvery + Late
<1> USE WindowsAssumption DEF WindowsAssumption, IInv, TypeOK, Time
<1>1. Tick
  BY DEF Next, MakeRuns, ScanTasks, Execute, Crash, Restart, vars
<1>2. served
  BY DEF GapInv
<1>3. up /\ toMake > -Late
  BY <1>1, <1>2 DEF Tick, AheadInv
<1>4. now + toMake <= lastMade + CreateEvery /\ lastMade <= now
  BY <1>2 DEF AheadInv
<1>5. t < lastMade + CreateEvery + Late
  BY <1>3, <1>4
<1>6. ~(t <= lastMade + CreateAhead)
  BY <1>2, <1>4 DEF AheadInv
<1> QED BY <1>5, <1>6

\* A run that is missed with the worker there lies in the gap between two windows,
\* which is no longer than what the interval and the lateness of the ticks are more
\* than the window: for any runs, intervals, lateness and faults.
THEOREM GapsAreShort == Spec => OnlyGapsAreMissed
<1>1. IInv /\ [Next]_vars =>
         [\A t \in Run : t = now /\ t < now' /\ t \notin unserved /\ status[t] = "none" =>
             lastMade + CreateAhead < t /\ t < lastMade + CreateEvery + Late]_vars
  BY MissedInGap
<1> QED BY <1>1, Invariant, PTL DEF Spec, OnlyGapsAreMissed

-----------------------------------------------------------------------------
\* With a window as long as the interval and the lateness together there is no gap:
\* no run is missed.
COROLLARY NoGapWithSlack ==
    ASSUME CreateEvery + Late <= CreateAhead
    PROVE  Spec => []EveryRunIsMade
<1>1. Init => EveryRunIsMade
  BY WindowsAssumption DEF Init, EveryRunIsMade, WindowsAssumption, Time
<1>2. IInv /\ EveryRunIsMade /\ [Next]_vars => EveryRunIsMade'
  <2> SUFFICES ASSUME IInv, EveryRunIsMade, [Next]_vars, NEW t \in Run,
                      t < now', t \notin unserved'
               PROVE  status'[t] # "none"
    BY DEF EveryRunIsMade
  <2> USE WindowsAssumption DEF WindowsAssumption, IInv, TypeOK, Time
  <2>1. unserved \subseteq unserved' /\ (status[t] # "none" => status'[t] # "none")
    BY DEF Next, Tick, MakeRuns, ScanTasks, Execute, Crash, Restart, vars, timers, rows, history
  <2>2. now' = now \/ now' = now + 1
    BY DEF Next, Tick, MakeRuns, ScanTasks, Execute, Crash, Restart, vars
  <2>3. CASE t < now
    BY <2>1, <2>3 DEF EveryRunIsMade
  <2>4. CASE t = now
    BY <2>1, <2>4, MissedInGap
  <2> QED BY <2>2, <2>3, <2>4
<1> QED BY <1>1, <1>2, Invariant, PTL DEF Spec
=============================================================================
