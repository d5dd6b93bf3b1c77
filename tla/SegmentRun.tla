----------------------------- MODULE SegmentRun -----------------------------
(***************************************************************************)
(* `skill_run::run` (skill-run/src/lib.rs): one wasm segment of an opened  *)
(* container is refused, or instantiated and its entry called under two    *)
(* budgets.  Fuel is counted by the engine.  The wall clock is counted by  *)
(* a thread, `EpochTicker`, that lives for the length of the call.         *)
(*                                                                         *)
(* The refusals are steps of one thread, in the order of the code.  From   *)
(* the call on, the guest, the ticker and the clock take turns in any      *)
(* order.  The guest and the engine are external: guest code may at any    *)
(* moment return, trap, or go on and burn a unit of fuel or less than one. *)
(* Growing memory is left out.  Times are in the unit of `wall_ms`.        *)
(***************************************************************************)
EXTENDS Naturals, Sequences

CONSTANTS
  Calls,      \* what `run` can be called with: a set of CallRecord
  Tick,       \* EPOCH_TICK_MS
  Ceiling,    \* the policy's max_mem_kib, max_cpu_ms, max_wall_ms
  FuelPerMs,  \* the policy's fuel_per_ms
  MaxEpoch    \* bound: the epoch is not counted further

(***************************************************************************)
(* imports.rs: one import stands for those of one row of each table.       *)
(***************************************************************************)
FREE == "kind 0"
CapKinds == {"stdio", "fs:read", "net:host"}

\* required_capability; "unknown" is None.
Required ==
  [proc_exit |-> FREE, yield |-> FREE, fd_write |-> "stdio",
   path_open |-> "fs:read", sock_send |-> "net:host", evil |-> "unknown"]
Imports == DOMAIN Required

\* provide: what the linker defines for the kinds declared.
Provided(declared) ==
  {"proc_exit"}
    \cup {i \in {"fd_write", "path_open"} : Required[i] \in declared}

Limits == {"mem", "cpu", "wall"}

\* What a call can find: the record of the segment, and its module.
CallRecord ==
  [present : BOOLEAN,                      \* the index names a segment
   intact : BOOLEAN,                       \* its bytes match what is signed
   trust : {"Portable", "HostTrusted"},
   allow : BOOLEAN,                        \* policy.allow_host_trusted
   abi : {"Wasm32Core", "Wasm32Wasip2", "Sh"},
   caps : SUBSET (CapKinds \cup {FREE}),   \* the kinds declared
   ask : [Limits -> Nat],
   compiles : BOOLEAN,
   imports : SUBSET Imports,
   suits : BOOLEAN,                        \* types and first memory are the host's
   start : BOOLEAN,                        \* the module has a start function
   entry : BOOLEAN]                        \* it exports the entry

\* The reader refuses a container whose portable segment has another ABI.
ASSUME RunAssumption ==
  /\ Calls \subseteq CallRecord
  /\ \A c \in Calls : c.trust = "Portable" => c.abi # "Sh"
  /\ Tick \in Nat \ {0}
  /\ Ceiling \in [Limits -> Nat]
  /\ FuelPerMs \in Nat \ {0}
  /\ MaxEpoch \in Nat \ {0} /\ MaxEpoch * Tick >= Ceiling["wall"]

VARIABLES
  call,     \* what run was called with
  pc,       \* where run stands
  gate,     \* the refusal it has come to
  fuel,     \* fuel left in the store
  result,   \* what run returns, once known
  ticker,   \* where the ticker thread stands
  stop,     \* EpochTicker.stop
  epoch,    \* the engine's epoch
  nap,      \* time the ticker still sleeps
  elapsed   \* time since the ticker was started

thread == <<ticker, stop, epoch, nap, elapsed>>
vars == <<call, pc, gate, fuel, result, thread>>

Gates == <<"NoSuchSegment", "IntegrityFailed", "NotPortable", "UnsupportedAbi",
           "LimitExceedsPolicy", "Compile", "UndeclaredImport", "Instantiate">>
GatesAt == 1 .. Len(Gates)
GuestRuns == pc \in {"start", "call"}
Results == {"none", "Ok", "NoSuchEntry", "OutOfFuel", "Interrupted", "Trap"}
             \cup {Gates[g] : g \in GatesAt}

MinOf(a, b) == IF a < b THEN a ELSE b
MaxOf(a, b) == IF a < b THEN b ELSE a

\* Bound: time is not told apart beyond the last epoch.
MaxElapsed == (MaxEpoch + 1) * Tick

\* A wall budget of 0 is the ceiling's.
Wall == IF call.ask["wall"] = 0 THEN Ceiling["wall"] ELSE call.ask["wall"]
Fuel == MaxOf(call.ask["cpu"], 1) * FuelPerMs

\* Faulty: a budget under one tick gets none.
DeadlineUnrounded == Wall \div Tick

\* Epochs the guest is given; the engine is new and its epoch 0.
Deadline == MaxOf(Wall \div Tick, 1)

\* The conditions run tests, each named for the error it returns.
Passes(g) ==
  /\ g = "NoSuchSegment" => call.present
  /\ g = "IntegrityFailed" => call.intact
  /\ g = "NotPortable" => call.trust = "Portable" \/ call.allow
  /\ g = "UnsupportedAbi" => call.abi = "Wasm32Core"
  /\ g = "LimitExceedsPolicy" => \A l \in Limits : call.ask[l] <= Ceiling[l]
  /\ g = "Compile" => call.compiles
  /\ g = "UndeclaredImport" => \A i \in call.imports : Required[i] \in call.caps
  /\ g = "Instantiate" => call.imports \subseteq Provided(call.caps) /\ call.suits

TypeOK ==
  /\ call \in CallRecord
  /\ pc \in {"gates", "start", "entry", "call", "drop", "join", "done"}
  /\ gate \in GatesAt
  /\ fuel \in Nat
  /\ result \in Results
  /\ ticker \in {"none", "check", "sleep", "exited"}
  /\ stop \in BOOLEAN
  /\ epoch \in 0 .. MaxEpoch
  /\ nap \in 0 .. Tick
  /\ elapsed \in 0 .. MaxElapsed

Init ==
  /\ call \in Calls
  /\ pc = "gates" /\ gate = 1 /\ fuel = 0 /\ result = "none"
  /\ ticker = "none" /\ stop = FALSE /\ epoch = 0 /\ nap = 0 /\ elapsed = 0
-----------------------------------------------------------------------------
(***************************************************************************)
(* run: refusals, instantiation, the call                                  *)
(***************************************************************************)
Return(r) ==
  result' = r /\ pc' = "done" /\ UNCHANGED <<call, gate, fuel, thread>>

Refuse ==
  /\ pc = "gates" /\ ~Passes(Gates[gate])
  /\ Return(Gates[gate])

\* Faulty: the payload is verified and the answer not looked at.
PassUnverified ==
  /\ pc = "gates" /\ gate < Len(Gates)
  /\ Passes(Gates[gate]) \/ Gates[gate] = "IntegrityFailed"
  /\ gate' = gate + 1
  /\ UNCHANGED <<call, pc, fuel, result, thread>>

Pass ==
  /\ pc = "gates" /\ gate < Len(Gates) /\ Passes(Gates[gate])
  /\ gate' = gate + 1
  /\ UNCHANGED <<call, pc, fuel, result, thread>>

\* The store gets its budgets and the linker its functions; linking runs the
\* module's start function, if it has one.
Instantiate ==
  /\ pc = "gates" /\ gate = Len(Gates) /\ Passes(Gates[gate])
  /\ fuel' = Fuel
  /\ pc' = IF call.start THEN "start" ELSE "entry"
  /\ UNCHANGED <<call, gate, result, thread>>

NoEntry ==
  /\ pc = "entry" /\ ~call.entry
  /\ Return("NoSuchEntry")

\* EpochTicker::start, then the call.
StartCall ==
  /\ pc = "entry" /\ call.entry
  /\ pc' = "call" /\ ticker' = "check"
  /\ UNCHANGED <<call, gate, fuel, result, stop, epoch, nap, elapsed>>

(***************************************************************************)
(* The guest.  An error of the start function is an error of instantiation *)
(* whatever its kind; one of the call is sorted out by classify_trap.      *)
(***************************************************************************)
Compute ==
  /\ GuestRuns
  /\ fuel > 0 /\ fuel' \in {fuel - 1, fuel}
  /\ UNCHANGED <<call, pc, gate, result, thread>>

LeaveCall(r) ==
  /\ pc = "call" /\ pc' = "drop" /\ result' = r
  /\ UNCHANGED <<call, gate, fuel, thread>>

StartEnds ==
  /\ pc = "start"
  /\ \/ pc' = "entry" /\ UNCHANGED <<call, gate, fuel, result, thread>>
     \/ Return("Instantiate")

GuestEnds == LeaveCall("Ok") \/ LeaveCall("Trap")

\* Faulty: the engine's error is returned as it is.
RunOutRaw == fuel = 0 /\ LeaveCall("all fuel consumed by WebAssembly")

RunOut == fuel = 0 /\ LeaveCall("OutOfFuel")
Interrupt == epoch >= Deadline /\ LeaveCall("Interrupted")

(***************************************************************************)
(* Dropping the ticker: the flag, then the join                            *)
(***************************************************************************)
Drop ==
  /\ pc = "drop" /\ pc' = "join" /\ stop' = TRUE
  /\ UNCHANGED <<call, gate, fuel, result, ticker, epoch, nap, elapsed>>

\* Faulty: the handle is dropped and the thread left to itself.
JoinDetached ==
  /\ pc = "join" /\ pc' = "done"
  /\ UNCHANGED <<call, gate, fuel, result, thread>>

Join ==
  /\ pc = "join" /\ ticker = "exited" /\ pc' = "done"
  /\ UNCHANGED <<call, gate, fuel, result, thread>>

(***************************************************************************)
(* The ticker thread and the clock                                         *)
(***************************************************************************)
TickerCheck ==
  /\ ticker = "check"
  /\ \/ stop /\ ticker' = "exited" /\ UNCHANGED nap
     \/ ~stop /\ ticker' = "sleep" /\ nap' = Tick
  /\ UNCHANGED <<call, pc, gate, fuel, result, stop, epoch, elapsed>>

\* Faulty: the thread ends after its first turn.
WakeOnce ==
  /\ ticker = "sleep" /\ nap = 0
  /\ epoch' = MinOf(epoch + 1, MaxEpoch) /\ ticker' = "exited"
  /\ UNCHANGED <<call, pc, gate, fuel, result, stop, nap, elapsed>>

Wake ==
  /\ ticker = "sleep" /\ nap = 0
  /\ epoch' = MinOf(epoch + 1, MaxEpoch) /\ ticker' = "check"
  /\ UNCHANGED <<call, pc, gate, fuel, result, stop, nap, elapsed>>

\* A sleep is never shorter than asked; it may be seen to end much later.
Time ==
  /\ ticker \in {"check", "sleep"}
  /\ elapsed' = MinOf(elapsed + 1, MaxElapsed)
  /\ nap' = IF nap > 0 THEN nap - 1 ELSE 0
  /\ UNCHANGED <<call, pc, gate, fuel, result, ticker, stop, epoch>>

Host == Refuse \/ Pass \/ Instantiate \/ NoEntry \/ StartCall \/ Drop \/ Join
Guest == Compute \/ StartEnds \/ GuestEnds \/ RunOut \/ Interrupt
Ticker == TickerCheck \/ Wake

Next == Host \/ Guest \/ Ticker \/ Time

\* run and the ticker are threads that get to run, time passes, and guest code
\* that goes on comes to a point where the engine looks at the epoch.  Nothing
\* is assumed of guest code's ending or of its fuel's running out.
Spec ==
  /\ Init /\ [][Next]_vars
  /\ WF_vars(Host) /\ WF_vars(Ticker) /\ WF_vars(Time) /\ WF_vars(Interrupt)
-----------------------------------------------------------------------------
\* No instruction of a segment is executed, by its start function or by its
\* entry, unless its bytes were verified, the policy admits its trust class,
\* its limits are under the policy's, and every import is declared and has
\* its host function.  Refusals come in several places, and instantiation
\* already runs code.
RunsOnlySanctioned ==
  GuestRuns =>
    /\ call.present /\ call.intact
    /\ call.trust = "Portable" \/ call.allow
    /\ \A l \in Limits : call.ask[l] <= Ceiling[l]
    /\ \A i \in call.imports :
         Required[i] \in call.caps /\ i \in Provided(call.caps)

\* `Interrupted` tells an operator that the wall budget was too small.  It is
\* said only after the ticker has run for the budget, to the tick, and for one
\* tick at least however small the budget.
InterruptedNotEarly ==
  result = "Interrupted" => elapsed >= Tick /\ elapsed + Tick > Wall

\* When run returns no thread of it is left asleep or turning, whichever of
\* the ways out it takes and wherever the ticker was when the call ended.
TickerJoined == pc = "done" => ticker \in {"none", "exited"}

\* run returns, even from an entry that never does and has more fuel than it
\* can burn: the ticker reaches the deadline, then stops.  A start function is
\* left only by itself or by its fuel, since the ticker comes after it.
Returns == <>(pc = "done") \/ <>[](pc = "start")

\* What imports.rs says of FREE: such an import needs no capability at all, so
\* a segment is refused for its imports only if it has another one that is
\* undeclared.
FreeNeedsNothing ==
  result = "UndeclaredImport" =>
    \E i \in call.imports :
      Required[i] # FREE /\ Required[i] \notin call.caps
=============================================================================
