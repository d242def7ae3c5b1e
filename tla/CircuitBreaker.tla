--------------------------- MODULE CircuitBreaker ---------------------------
(***************************************************************************)
(* CircuitBreaker (crates/engine/circuit-breaker): the state behind one    *)
(* mutex, the rolling window of results behind another, and the callers    *)
(* of call and call_with_timeout.                                          *)
(*                                                                         *)
(* A call takes three steps, with other callers in between: it acquires a  *)
(* permit under the state lock, its result enters the window under the     *)
(* metrics lock, and the snapshot taken there is judged under the state    *)
(* lock again.  A rejected call changes nothing and is no step.            *)
(***************************************************************************)
EXTENDS Integers, Sequences, FiniteSets

CONSTANTS
  Caller,
  Timed,         (* callers of call_with_timeout; the others use call      *)
  Fickle,        (* callers whose future may be dropped while it runs, or  *)
                 (* whose operation may fail with a breaker's own error    *)
  Window,        (* rolling_window_size                                    *)
  MinRequests,   (* minimum_requests                                       *)
  Threshold,     (* failure_rate_threshold, in percent                     *)
  ResetTimeout,
  MaxClock       (* bound on the clock, for model checking                 *)

ASSUME BreakerAssumption ==
  /\ Timed \subseteq Caller
  /\ Fickle \subseteq Caller
  /\ Window \in Nat \ {0}
  /\ MinRequests \in Nat
  /\ Threshold \in Nat
  /\ ResetTimeout \in Nat
  /\ MaxClock \in Nat

Never == -1        (* opened_at: None                                      *)

Outcome == {"Success", "Failure", "Timeout"}
Empty   == "none"  (* a bucket that holds no result                        *)
Gone    == "gone"  (* a probe whose future was dropped                     *)

VARIABLES
  circuit,     (* CircuitState                                             *)
  openedAt,    (* opened_at                                                *)
  probing,     (* half_open_probe_in_flight                                *)
  buckets,     (* the ring of results, its next_index, len and counts      *)
  nextIndex,
  filled,
  counts,
  doing,       (* what each caller does: idle, running or judging          *)
  permit,      (* the permit it runs under                                 *)
  verdict,     (* what it has still to judge                               *)
  clock,
  recent,      (* history: the results since the last clear, last Window   *)
  probers      (* history: the callers let in as the probe of this period  *)

window      == <<buckets, nextIndex, filled, counts>>
breaker     == <<circuit, openedAt, probing>>
callers     == <<doing, permit, verdict>>
breakerVars == <<breaker, window, callers, clock, recent, probers>>

NoVerdict == [outcome |-> "Success", at |-> 0, total |-> 0, errors |-> 0]

-----------------------------------------------------------------------------
BreakerInit ==
  /\ circuit = "Closed"
  /\ openedAt = Never
  /\ probing = FALSE
  /\ buckets = [i \in 0..(Window - 1) |-> Empty]
  /\ nextIndex = 0
  /\ filled = 0
  /\ counts = [o \in Outcome |-> 0]
  /\ doing = [c \in Caller |-> "idle"]
  /\ permit = [c \in Caller |-> "Closed"]
  /\ verdict = [c \in Caller |-> NoVerdict]
  /\ clock = 0
  /\ recent = << >>
  /\ probers = {}

(* The caller's operation starts.                                          *)
Run(c, p) ==
  /\ doing' = [doing EXCEPT ![c] = "running"]
  /\ permit' = [permit EXCEPT ![c] = p]
  /\ UNCHANGED <<window, verdict, clock, recent>>

Leave(c) ==
  /\ doing' = [doing EXCEPT ![c] = "idle"]
  /\ permit' = [permit EXCEPT ![c] = "Closed"]

AcquireClosed(c) ==
  /\ doing[c] = "idle"
  /\ circuit = "Closed"
  /\ Run(c, "Closed")
  /\ UNCHANGED <<breaker, probers>>

(* Mutant: the flag is not set.                                            *)
ProbeUnmarked(c) ==
  /\ doing[c] = "idle"
  /\ circuit = "HalfOpen" \/ (circuit = "Open" /\ clock - openedAt >= ResetTimeout)
  /\ probing' = FALSE
  /\ circuit' = "HalfOpen"
  /\ openedAt' = Never
  /\ probers' = (IF circuit = "Open" THEN {} ELSE probers) \cup {c}
  /\ Run(c, "HalfOpenProbe")

(* An open circuit whose time is over turns half open; half open, the      *)
(* first to come is the probe.                                             *)
AcquireProbe(c) ==
  /\ doing[c] = "idle"
  /\ \/ circuit = "Open" /\ openedAt # Never /\ clock - openedAt >= ResetTimeout
     \/ circuit = "HalfOpen" /\ ~probing
  /\ circuit' = "HalfOpen"
  /\ openedAt' = IF circuit = "Open" THEN Never ELSE openedAt
  /\ probing' = TRUE
  /\ probers' = (IF circuit = "Open" THEN {} ELSE probers) \cup {c}
  /\ Run(c, "HalfOpenProbe")

(* The future of call is dropped at its await, or the operation returns    *)
(* Open or HalfOpenProbeInFlight (another breaker's): record_result_at is  *)
(* not reached, or returns at once.                                        *)
Abandon(c) ==
  /\ c \in Fickle
  /\ doing[c] = "running"
  /\ Leave(c)
  /\ probers' = {IF p = c THEN Gone ELSE p : p \in probers}
  /\ UNCHANGED <<breaker, window, verdict, clock, recent>>

(* Mutant: the result that is overwritten stays counted.                   *)
RecordOver(o) ==
  /\ buckets' = [buckets EXCEPT ![nextIndex] = o]
  /\ counts' = [counts EXCEPT ![o] = @ + 1]
  /\ filled' = IF buckets[nextIndex] = Empty THEN filled + 1 ELSE filled
  /\ nextIndex' = (nextIndex + 1) % Window

(* RollingWindowMetrics::record.                                           *)
Record(o) ==
  LET old == buckets[nextIndex] IN
  /\ buckets' = [buckets EXCEPT ![nextIndex] = o]
  /\ counts' = [p \in Outcome |->
                  counts[p] + (IF p = o THEN 1 ELSE 0) - (IF p = old THEN 1 ELSE 0)]
  /\ filled' = IF old = Empty THEN filled + 1 ELSE filled
  /\ nextIndex' = (nextIndex + 1) % Window

(* The operation ends, or its time is up; the result enters the window,    *)
(* and what the window then shows is taken along.                          *)
Finish(c, o) ==
  /\ doing[c] = "running"
  /\ o = "Timeout" => c \in Timed
  /\ Record(o)
  /\ doing' = [doing EXCEPT ![c] = "judging"]
  /\ verdict' = [verdict EXCEPT ![c] =
                   [outcome |-> o, at |-> clock, total |-> filled',
                    errors |-> counts'["Failure"] + counts'["Timeout"]]]
  /\ recent' = IF Len(recent) < Window THEN Append(recent, o)
                                       ELSE Append(Tail(recent), o)
  /\ UNCHANGED <<breaker, permit, clock, probers>>

TooManyErrors(total, errors) ==
  total >= MinRequests /\ 100 * errors > Threshold * total

OpenCircuit(c) ==
  /\ circuit' = "Open"
  /\ openedAt' = verdict[c].at
  /\ probing' = FALSE
  /\ UNCHANGED <<window, recent>>

(* Mutant: the window survives the recovery.                               *)
CloseOnly ==
  /\ circuit' = "Closed"
  /\ openedAt' = Never
  /\ probing' = FALSE
  /\ recent' = << >>
  /\ UNCHANGED window

(* The window is cleared while the state is locked.                        *)
CloseCircuit ==
  /\ circuit' = "Closed"
  /\ openedAt' = Never
  /\ probing' = FALSE
  /\ buckets' = [i \in 0..(Window - 1) |-> Empty]
  /\ nextIndex' = 0
  /\ filled' = 0
  /\ counts' = [o \in Outcome |-> 0]
  /\ recent' = << >>

(* Mutant: a result is judged only while the circuit is as it was.         *)
JudgeIfUnchanged(c) ==
  /\ doing[c] = "judging"
  /\ IF permit[c] = "Closed"
     THEN IF circuit = "Closed" /\ TooManyErrors(verdict[c].total, verdict[c].errors)
          THEN OpenCircuit(c)
          ELSE UNCHANGED <<breaker, window, recent>>
     ELSE IF verdict[c].outcome = "Success"
          THEN CloseCircuit
          ELSE UNCHANGED <<breaker, window, recent>>
  /\ Leave(c)
  /\ verdict' = [verdict EXCEPT ![c] = NoVerdict]
  /\ UNCHANGED <<clock, probers>>

(* record_result_at under the state lock.  The permit decides how, and     *)
(* nothing asks what the state is by now.                                  *)
Judge(c) ==
  /\ doing[c] = "judging"
  /\ IF permit[c] = "Closed"
     THEN IF TooManyErrors(verdict[c].total, verdict[c].errors)
          THEN OpenCircuit(c)
          ELSE UNCHANGED <<breaker, window, recent>>
     ELSE IF verdict[c].outcome = "Success" THEN CloseCircuit ELSE OpenCircuit(c)
  /\ Leave(c)
  /\ verdict' = [verdict EXCEPT ![c] = NoVerdict]
  /\ UNCHANGED <<clock, probers>>

BreakerTick ==
  /\ clock < MaxClock
  /\ clock' = clock + 1
  /\ UNCHANGED <<breaker, window, callers, recent, probers>>

BreakerNext ==
  \/ \E c \in Caller : AcquireClosed(c)
  \/ \E c \in Caller : AcquireProbe(c)
  \/ \E c \in Caller : Abandon(c)
  \/ \E c \in Caller, o \in Outcome : Finish(c, o)
  \/ \E c \in Caller : Judge(c)
  \/ BreakerTick

(* An operation under call_with_timeout ends, and a result is judged.      *)
(* Nobody has to call, nothing ends the operation of a plain call, and     *)
(* time has to pass for nobody.                                            *)
BreakerFairness ==
  /\ \A c \in Timed : WF_breakerVars(\E o \in Outcome : Finish(c, o))
  /\ \A c \in Caller : WF_breakerVars(Judge(c))

BreakerSafety == BreakerInit /\ [][BreakerNext]_breakerVars

BreakerSpec == BreakerSafety /\ BreakerFairness

-----------------------------------------------------------------------------
(* What each variable may hold.  No circuit is half open without a probe,  *)
(* and only an open one has a time of opening.                             *)
BreakerTypeOK ==
  /\ circuit \in {"Closed", "Open", "HalfOpen"}
  /\ openedAt \in Nat \cup {Never}
  /\ openedAt # Never <=> circuit = "Open"
  /\ probing <=> circuit = "HalfOpen"
  /\ buckets \in [0..(Window - 1) -> Outcome \cup {Empty}]
  /\ nextIndex \in 0..(Window - 1)
  /\ filled \in 0..Window
  /\ counts \in [Outcome -> Nat]
  /\ doing \in [Caller -> {"idle", "running", "judging"}]
  /\ permit \in [Caller -> {"Closed", "HalfOpenProbe"}]
  /\ verdict \in [Caller -> [outcome : Outcome, at : Nat, total : Nat, errors : Nat]]
  /\ clock \in Nat
  /\ recent \in Seq(Outcome)
  /\ probers \subseteq Caller \cup {Gone}

(* The counts that decide about opening are those of the last results, as  *)
(* many as the window holds: the ring forgets each result exactly when it  *)
(* overwrites it, and all of them when the circuit recovers.               *)
CountIn(s, o) == Cardinality({i \in DOMAIN s : s[i] = o})

WindowIsRecent ==
  /\ filled = Len(recent)
  /\ \A o \in Outcome : counts[o] = CountIn(recent, o)

(* try_acquire_permission lets one probe through in each half-open period, *)
(* whoever is late, dropped or judged meanwhile.                           *)
OneProbePerPeriod == Cardinality(probers) <= 1

(* A circuit is never left closed over a window that calls for opening it: *)
(* while results and judgements of several callers interleave, the one     *)
(* that recorded last still has it to judge.                               *)
ClosedIsHealthy ==
  (circuit = "Closed" /\ \A c \in Caller : doing[c] # "judging")
    => ~TooManyErrors(filled, counts["Failure"] + counts["Timeout"])

(* No circuit is half open for ever: it comes to a decision, unless the    *)
(* caller that was its probe has gone without recording a result or still  *)
(* runs its operation with no timeout.                                     *)
ProbeMissing ==
  \/ Gone \in probers
  \/ \E c \in probers \ Timed : doing[c] = "running"

RecoveryDecided == []<>(circuit # "HalfOpen" \/ ProbeMissing)
=============================================================================
