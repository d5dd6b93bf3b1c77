-------------------------- MODULE SegmentRunProofs --------------------------
(***************************************************************************)
(* Theorems about SegmentRun, for every set of calls, every policy and     *)
(* every length of the tick.                                               *)
(***************************************************************************)
EXTENDS SegmentRun, TLAPS

\* A gate that is behind run let the call pass.
GatesBehind ==
  /\ \A g \in 1 .. gate - 1 : Passes(Gates[g])
  /\ pc \in {"start", "entry", "call", "drop", "join"} =>
       gate = Len(Gates) /\ Passes(Gates[gate])

\* The ticker lives from the call to the join.
TickerLife ==
  /\ pc \in {"gates", "start", "entry"} => ticker = "none" /\ result = "none"
  /\ pc = "call" => result = "none"
  /\ TickerJoined

\* Time slept is time that has passed.
Slept == IF ticker = "sleep" THEN Tick - nap ELSE 0
TimePassed == epoch * Tick + Slept <= elapsed
DeadlineReached == result = "Interrupted" => epoch >= Deadline

IInv == TypeOK /\ GatesBehind /\ TickerLife /\ TimePassed /\ DeadlineReached

LEMMA GateNames ==
  /\ Len(Gates) = 8 /\ GatesAt = 1 .. 8
  /\ \A g \in GatesAt : Gates[g] \in Results /\ Gates[g] # "Interrupted"
  /\ Gates[8] = "Instantiate" /\ "Instantiate" \in Results
<1>1. Gates[8] = "Instantiate" /\ 8 \in GatesAt  BY DEF Gates, GatesAt
<1> QED  BY <1>1 DEF Gates, GatesAt, Results

\* The budgets of a call are numbers.
LEMMA Budgets ==
  ASSUME call \in CallRecord
  PROVE  Wall \in Nat /\ Deadline \in Nat \ {0} /\ Fuel \in Nat
<1>1. /\ call.ask["wall"] \in Nat /\ call.ask["cpu"] \in Nat
      /\ Ceiling["wall"] \in Nat
  BY RunAssumption DEF CallRecord, Limits
<1>2. Wall \in Nat  BY <1>1 DEF Wall
<1>3. Wall \div Tick \in Nat  BY <1>2, RunAssumption
<1>4. Deadline \in Nat \ {0}  BY <1>3 DEF Deadline, MaxOf
<1>5. Fuel \in Nat
  <2>1. MaxOf(call.ask["cpu"], 1) \in Nat  BY <1>1 DEF MaxOf
  <2> QED  BY <2>1, RunAssumption DEF Fuel
<1> QED  BY <1>2, <1>4, <1>5

\* Multiplying by the length of a tick keeps the order of epochs.
LEMMA TicksGrow ==
  ASSUME NEW a \in Nat, NEW b \in Nat, a <= b
  PROVE  /\ a * Tick \in Nat /\ b * Tick \in Nat
         /\ a * Tick <= b * Tick
         /\ (a + 1) * Tick = a * Tick + Tick
BY RunAssumption, SMT

LEMMA InitIInv == Init => IInv
<1> SUFFICES ASSUME Init PROVE IInv  OBVIOUS
<1>1. TypeOK
  <2>1. MaxElapsed \in Nat  BY RunAssumption, TicksGrow DEF MaxElapsed
  <2>2. gate \in GatesAt /\ result \in Results  BY GateNames DEF Init, Results
  <2>3. call \in CallRecord  BY RunAssumption DEF Init
  <2>4. epoch \in 0 .. MaxEpoch /\ nap \in 0 .. Tick
    BY RunAssumption DEF Init
  <2>5. elapsed \in 0 .. MaxElapsed  BY <2>1 DEF Init
  <2> QED  BY <2>2, <2>3, <2>4, <2>5 DEF Init, TypeOK
<1>2. GatesBehind  BY DEF Init, GatesBehind
<1>3. TickerLife /\ TimePassed /\ DeadlineReached
  BY RunAssumption DEF Init, TickerLife, TickerJoined, TimePassed, Slept, DeadlineReached
<1> QED  BY <1>1, <1>2, <1>3 DEF IInv

\* What a gate lets pass, and the deadline, depend on the call alone.
LEMMA PassesDepends ==
  ASSUME call' = call, NEW g PROVE Passes(g)' = Passes(g)
BY DEF Passes

LEMMA DeadlineDepends ==
  ASSUME call' = call PROVE Deadline' = Deadline /\ Wall' = Wall
BY DEF Deadline, Wall

LEMMA GatesKept == IInv /\ [Next]_vars => GatesBehind'
<1> SUFFICES ASSUME IInv, [Next]_vars PROVE GatesBehind'  OBVIOUS
<1>1. call' = call
  BY DEF Next, Host, Guest, Ticker, Refuse, Return, Pass, Instantiate, NoEntry,
         StartCall, Compute, LeaveCall, StartEnds, GuestEnds, RunOut, Interrupt,
         Drop, Join, TickerCheck, Wake, Time, vars
<1>2. \A g : Passes(g)' = Passes(g)  BY <1>1, PassesDepends
<1>3. gate \in GatesAt /\ GatesBehind  BY DEF IInv, TypeOK
<1>4. CASE Pass
  BY <1>2, <1>3, <1>4, GateNames DEF Pass, GatesBehind
<1>5. CASE Instantiate
  BY <1>2, <1>3, <1>5, GateNames DEF Instantiate, GatesBehind
<1>6. CASE gate' = gate /\ pc' = pc
  BY <1>2, <1>3, <1>6 DEF GatesBehind
<1>7. CASE gate' = gate /\ pc' = "done"
  BY <1>2, <1>3, <1>7 DEF GatesBehind
<1>8. CASE /\ gate' = gate
           /\ pc \in {"start", "entry", "call", "drop", "join"}
  BY <1>2, <1>3, <1>8 DEF GatesBehind
<1> QED
  BY <1>4, <1>5, <1>6, <1>7, <1>8
  DEF Next, Host, Guest, Ticker, Refuse, Return, NoEntry, StartCall, Compute,
      LeaveCall, StartEnds, GuestEnds, RunOut, Interrupt, Drop, Join,
      TickerCheck, Wake, Time, vars

LEMMA StepIInv == IInv /\ [Next]_vars => IInv'
<1> SUFFICES ASSUME IInv, [Next]_vars PROVE (TypeOK /\ TickerLife /\ TimePassed /\ DeadlineReached)'
  BY GatesKept DEF IInv
<1> USE GateNames, RunAssumption
<1>0. /\ TypeOK /\ TickerLife /\ TickerJoined /\ TimePassed /\ DeadlineReached
      /\ Deadline \in Nat \ {0} /\ Fuel \in Nat
      /\ epoch \in Nat /\ epoch <= MaxEpoch /\ nap \in Nat /\ nap <= Tick
      /\ elapsed \in Nat /\ elapsed <= MaxElapsed
      /\ MaxElapsed \in Nat
  BY Budgets, TicksGrow DEF IInv, TypeOK, TickerLife, MaxElapsed
<1>1. CASE UNCHANGED vars
  BY <1>0, <1>1, DeadlineDepends DEF vars, thread, TypeOK, TickerLife, TickerJoined,
     TimePassed, Slept, DeadlineReached
<1>2. CASE Host
  <2>1. CASE Refuse
    BY <1>0, <2>1, DeadlineDepends DEF Refuse, Return, thread, TypeOK, TickerLife,
       TickerJoined, TimePassed, Slept, DeadlineReached
  <2>2. CASE Pass
    BY <1>0, <2>2, DeadlineDepends DEF Pass, thread, TypeOK, TickerLife,
       TickerJoined, TimePassed, Slept, DeadlineReached
  <2>3. CASE Instantiate
    BY <1>0, <2>3, DeadlineDepends DEF Instantiate, thread, TypeOK, TickerLife,
       TickerJoined, TimePassed, Slept, DeadlineReached
  <2>4. CASE NoEntry
    BY <1>0, <2>4, DeadlineDepends DEF NoEntry, Return, thread, TypeOK, Results,
       TickerLife, TickerJoined, TimePassed, Slept, DeadlineReached
  <2>5. CASE StartCall
    BY <1>0, <2>5, DeadlineDepends DEF StartCall, TypeOK, TickerLife, TickerJoined,
       TimePassed, Slept, DeadlineReached
  <2>6. CASE Drop
    BY <1>0, <2>6, DeadlineDepends DEF Drop, TypeOK, TickerLife, TickerJoined,
       TimePassed, Slept, DeadlineReached
  <2>7. CASE Join
    BY <1>0, <2>7, DeadlineDepends DEF Join, thread, TypeOK, TickerLife, TickerJoined,
       TimePassed, Slept, DeadlineReached
  <2> QED  BY <1>2, <2>1, <2>2, <2>3, <2>4, <2>5, <2>6, <2>7 DEF Host
<1>3. CASE Guest
  <2>1. CASE Compute
    BY <1>0, <2>1, DeadlineDepends DEF Compute, GuestRuns, thread, TypeOK, TickerLife,
       TickerJoined, TimePassed, Slept, DeadlineReached
  <2>2. CASE StartEnds
    BY <1>0, <2>2, DeadlineDepends DEF StartEnds, Return, thread, TypeOK,
       TickerLife, TickerJoined, TimePassed, Slept, DeadlineReached
  <2>3. ASSUME NEW r \in {"Ok", "Trap", "OutOfFuel", "Interrupted"}, LeaveCall(r),
               r = "Interrupted" => epoch >= Deadline
        PROVE  (TypeOK /\ TickerLife /\ TimePassed /\ DeadlineReached)'
    BY <1>0, <2>3, DeadlineDepends DEF LeaveCall, thread, TypeOK, Results, TickerLife,
       TickerJoined, TimePassed, Slept, DeadlineReached
  <2> QED
    BY <1>3, <2>1, <2>2, <2>3 DEF Guest, GuestEnds, RunOut, Interrupt
<1>4. CASE TickerCheck
  BY <1>0, <1>4, TicksGrow, DeadlineDepends DEF TickerCheck, TypeOK, TickerLife, TickerJoined,
     TimePassed, Slept, DeadlineReached
<1>5. CASE Wake
  <2>1. epoch' = epoch + 1 \/ epoch' = epoch
    BY <1>0, <1>5 DEF Wake, MinOf
  <2>2. epoch' * Tick <= elapsed
    <3>1. (epoch + 1) * Tick = epoch * Tick + Tick /\ epoch * Tick \in Nat
      BY <1>0, TicksGrow
    <3>2. epoch * Tick + Tick <= elapsed
      BY <1>0, <1>5 DEF Wake, TimePassed, Slept
    <3> QED  BY <1>0, <2>1, <3>1, <3>2
  <2>3. TypeOK'
    BY <1>0, <1>5 DEF Wake, MinOf, TypeOK
  <2>4. TickerLife'
    BY <1>0, <1>5 DEF Wake, TickerLife, TickerJoined
  <2>5. TimePassed'
    <3>1. Slept' = 0  BY <1>5 DEF Wake, Slept
    <3>2. epoch' * Tick \in Nat  BY <1>0, <2>1, TicksGrow
    <3>3. elapsed' = elapsed  BY <1>5 DEF Wake
    <3> QED  BY <2>2, <3>1, <3>2, <3>3 DEF TimePassed
  <2>6. DeadlineReached'
    <3>1. Deadline' = Deadline /\ result' = result
      BY <1>5, DeadlineDepends DEF Wake
    <3> QED  BY <1>0, <2>1, <3>1 DEF DeadlineReached
  <2> QED  BY <2>3, <2>4, <2>5, <2>6
<1>6. CASE Time
  <2>1. TypeOK' /\ TickerLife'
    BY <1>0, <1>6 DEF Time, MinOf, TypeOK, TickerLife, TickerJoined
  <2>2. DeadlineReached'
    BY <1>0, <1>6, DeadlineDepends DEF Time, DeadlineReached
  <2>3. epoch * Tick + Tick <= MaxElapsed /\ epoch * Tick \in Nat
    BY <1>0, TicksGrow DEF MaxElapsed
  <2>4. TimePassed'
    BY <1>0, <1>6, <2>3 DEF Time, MinOf, TimePassed, Slept
  <2> QED  BY <2>1, <2>2, <2>4
<1> QED  BY <1>1, <1>2, <1>3, <1>4, <1>5, <1>6 DEF Next, Ticker

LEMMA Invariance == Spec => []IInv
BY InitIInv, StepIInv, PTL DEF Spec

\* The fields of a run stay in their types: a ticker asleep never sleeps longer
\* than a tick, and run returns one of its own errors.
THEOREM TypeCorrect == Spec => []TypeOK
<1>1. IInv => TypeOK  BY DEF IInv
<1> QED  BY <1>1, Invariance, PTL

\* Whatever the container and the policy, an instruction of a segment is
\* executed only when its bytes are verified and all it asks for is admitted.
THEOREM Sanctioned == Spec => []RunsOnlySanctioned
<1>1. IInv => RunsOnlySanctioned
  <2> SUFFICES ASSUME IInv, GuestRuns PROVE RunsOnlySanctioned
    BY DEF RunsOnlySanctioned
  <2>1. \A g \in 1 .. 8 : Passes(Gates[g])
    BY GateNames DEF IInv, GatesBehind, GuestRuns
  <2>2. /\ Gates[1] = "NoSuchSegment" /\ Gates[2] = "IntegrityFailed"
        /\ Gates[3] = "NotPortable" /\ Gates[5] = "LimitExceedsPolicy"
        /\ Gates[7] = "UndeclaredImport" /\ Gates[8] = "Instantiate"
    BY DEF Gates
  <2>3. /\ Passes("NoSuchSegment") /\ Passes("IntegrityFailed")
        /\ Passes("NotPortable") /\ Passes("LimitExceedsPolicy")
        /\ Passes("UndeclaredImport") /\ Passes("Instantiate")
    BY <2>1, <2>2
  <2> QED  BY <2>3 DEF Passes, RunsOnlySanctioned
<1> QED  BY <1>1, Invariance, PTL

\* No ticker outlives the run that started it.
THEOREM NoThreadLeft == Spec => []TickerJoined
<1>1. IInv => TickerJoined  BY DEF IInv, TickerLife
<1> QED  BY <1>1, Invariance, PTL

\* For every wall budget and length of the tick, a segment is interrupted only
\* after its budget to the tick, and after one tick at least.
THEOREM WallBudgetGiven == Spec => []InterruptedNotEarly
<1>1. IInv => InterruptedNotEarly
  <2> SUFFICES ASSUME IInv, result = "Interrupted"
               PROVE  elapsed >= Tick /\ elapsed + Tick > Wall
    BY DEF InterruptedNotEarly
  <2>1. /\ Wall \in Nat /\ Deadline \in Nat /\ epoch \in Nat /\ elapsed \in Nat
        /\ nap \in 0 .. Tick /\ Tick \in Nat \ {0}
    BY Budgets, RunAssumption DEF IInv, TypeOK
  <2>2. epoch >= Deadline  BY DEF IInv, DeadlineReached
  <2>3. epoch * Tick <= elapsed /\ epoch * Tick \in Nat
    BY <2>1, TicksGrow DEF IInv, TimePassed, Slept
  <2>4. Wall \div Tick \in Nat /\ Wall < (Wall \div Tick) * Tick + Tick
    BY <2>1
  <2>5. Deadline >= 1 /\ Deadline >= Wall \div Tick
    BY <2>4 DEF Deadline, MaxOf
  <2>6. 1 * Tick <= epoch * Tick
    BY <2>1, <2>2, <2>5, TicksGrow
  <2>7. (Wall \div Tick) * Tick <= epoch * Tick /\ (Wall \div Tick) * Tick \in Nat
    BY <2>1, <2>2, <2>4, <2>5, TicksGrow
  <2> QED  BY <2>1, <2>3, <2>4, <2>6, <2>7
<1> QED  BY <1>1, Invariance, PTL
=============================================================================
