--------------------------- MODULE CircuitBreaker ---------------------------
(***************************************************************************)
(* The circuit breaker of carrier calls: CarrierCircuitBreaker of          *)
(* src/tradehub_core/logistics/resilience/circuit_breaker.py and its only  *)
(* caller, CarrierHttpClient.request of logistics/adapters/http_client.py. *)
(*                                                                         *)
(* The state of one circuit is three Redis keys that expire, shared by all *)
(* processes.  Redis runs one command at a time; a method of the breaker   *)
(* is several commands, and commands of other callers come in between.     *)
(* The end of a call and the first command that records it are one step.   *)
(*                                                                         *)
(* Left out: the notice key, which only thins out the log; the attempts    *)
(* within one call, which end in one recorded outcome; enabled = False,    *)
(* under which every method does nothing.                                  *)
(*                                                                         *)
(* An operator named ...Mutant is the definition after it with one         *)
(* plausible bug; no specification uses it.                                *)
(***************************************************************************)
EXTENDS Integers, Functions

CONSTANTS
    Callers,    \* processes that call the carrier
    Threshold,  \* failure_threshold
    Cooldown,   \* cooldown_sec, in ticks
    Window,     \* failure_window_sec, in ticks
    MaxFaults   \* bound: failed Redis commands and killed processes

ASSUME CircuitBreakerAssumption ==
    /\ Threshold \in Nat \ {0}
    /\ Cooldown \in Nat \ {0}
    /\ Window \in Nat /\ Window >= Cooldown
    /\ MaxFaults \in Nat

VARIABLES
    open,      \* time to live of the key open
    failures,  \* the key failures: its number and its time to live
    probe,     \* time to live of the key probe
    at,        \* where each caller is
    up,        \* the carrier answers
    recent,    \* history: failures of the last Window ticks by age, since a success
    faults     \* history: failed Redis commands and killed processes

vars == <<open, failures, probe, at, up, recent, faults>>

Gate      == {"read", "claim"}
HasProbe  == {"probing", "reopening", "freeing"}
Place     == {"idle", "calling", "opening"} \union Gate \union HasProbe

Ages   == 0..(Window - 1)
Absent == [count |-> 0, ttl |-> 0]
Goes(c, place) == at' = [at EXCEPT ![c] = place]

\* Redis drops a key when its time is over.  A key that was set without a time
\* has the time to live -1, as TTL reports it, and stays.
Aged(ttl) == IF ttl > 0 THEN ttl - 1 ELSE ttl

\* n more failures now; Threshold of them are as good as any more
Recorded(n) ==
    [recent EXCEPT ![0] = IF @ + n < Threshold THEN @ + n ELSE Threshold]
None == [a \in Ages |-> 0]

-----------------------------------------------------------------------------
(* _enter_circuit: state() is two reads, acquire_probe one SET NX.  A refused  *)
(* call changes nothing.                                                       *)

ReadOpen(c) ==
    /\ at[c] = "idle"
    /\ open = 0
    /\ Goes(c, "read")
    /\ UNCHANGED <<open, failures, probe, up, recent, faults>>

ReadFailures(c) ==
    /\ at[c] = "read"
    /\ Goes(c, IF failures.count >= Threshold THEN "claim" ELSE "calling")
    /\ UNCHANGED <<open, failures, probe, up, recent, faults>>

AcquireProbe(c) ==
    /\ at[c] = "claim"
    /\ \/ probe # 0 /\ Goes(c, "idle") /\ UNCHANGED probe
       \/ probe = 0 /\ Goes(c, "probing") /\ probe' = Cooldown
    /\ UNCHANGED <<open, failures, up, recent, faults>>

-----------------------------------------------------------------------------
(* record: what a call says of the carrier                                   *)

DeleteAll ==
    /\ open' = 0 /\ failures' = Absent /\ probe' = 0
    /\ recent' = None

RecordSuccess(c) ==
    /\ at[c] \in {"calling", "probing"}
    /\ DeleteAll
    /\ Goes(c, "idle")
    /\ UNCHANGED <<up, faults>>

\* The measured fault: a probe answered with 400 kept its key
RecordNeutralMutant(c) ==
    /\ at[c] \in {"calling", "probing"}
    /\ Goes(c, "idle")
    /\ UNCHANGED <<open, failures, probe, up, recent, faults>>

\* A refusal of the request, of the address or of our own code says nothing of
\* the carrier; a probe gives its key back.
RecordNeutral(c) ==
    /\ at[c] \in {"calling", "probing"}
    /\ probe' = IF at[c] = "probing" THEN 0 ELSE probe
    /\ Goes(c, "idle")
    /\ UNCHANGED <<open, failures, up, recent, faults>>

\* INCR and then EXPIRE at every failure: a sliding window
IncrFailuresSlidingMutant == [count |-> failures.count + 1, ttl |-> Window]
\* INCR, and the EXPIRE after it lost
IncrFailuresMutant ==
    [count |-> failures.count + 1,
     ttl   |-> IF failures.ttl = 0 THEN -1 ELSE failures.ttl]

\* SET NX EX and INCR in one MULTI: the time runs from the first failure
IncrFailures ==
    [count |-> failures.count + 1,
     ttl   |-> IF failures.ttl = 0 THEN Window ELSE failures.ttl]

RecordFailure(c) ==
    /\ at[c] = "calling" /\ ~up
    /\ failures' = IncrFailures
    /\ recent' = Recorded(1)
    /\ Goes(c, IF failures'.count >= Threshold THEN "opening" ELSE "idle")
    /\ UNCHANGED <<open, probe, up, faults>>

Open(c) ==
    /\ at[c] = "opening"
    /\ open' = Cooldown
    /\ Goes(c, "idle")
    /\ UNCHANGED <<failures, probe, up, recent, faults>>

\* A failed probe starts the cooldown again: three commands
RecordProbeFailure(c) ==
    /\ at[c] = "probing" /\ ~up
    /\ open' = Cooldown
    /\ Goes(c, "reopening")
    /\ UNCHANGED <<failures, probe, up, recent, faults>>

RefillFailures(c) ==
    /\ at[c] = "reopening"
    /\ failures' = [count |-> Threshold, ttl |-> Window]
    /\ recent' = Recorded(Threshold)
    /\ Goes(c, "freeing")
    /\ UNCHANGED <<open, probe, up, faults>>

FreeProbe(c) ==
    /\ at[c] = "freeing"
    /\ probe' = 0
    /\ Goes(c, "idle")
    /\ UNCHANGED <<open, failures, up, recent, faults>>

\* reset_circuit, "test the connection"
Reset ==
    /\ DeleteAll
    /\ UNCHANGED <<at, up, faults>>

-----------------------------------------------------------------------------
(* Time and failures                                                         *)

Tick ==
    /\ open > 0 \/ failures.ttl > 0 \/ probe > 0
    /\ open' = Aged(open) /\ probe' = Aged(probe)
    /\ failures' = IF failures.ttl = 1 THEN Absent
                   ELSE [failures EXCEPT !.ttl = Aged(@)]
    /\ recent' = [a \in Ages |-> IF a = 0 THEN 0 ELSE recent[a - 1]]
    /\ UNCHANGED <<at, up, faults>>

\* Every method swallows a Redis error: state() says CLOSED, acquire_probe() says
\* yes, and nothing more is recorded.
RedisFault(c) ==
    /\ faults < MaxFaults
    /\ faults' = faults + 1
    /\ \/ at[c] \in {"idle", "read"} /\ Goes(c, "calling")
       \/ at[c] = "claim" /\ Goes(c, "probing")
       \/ at[c] \notin {"idle"} \union Gate /\ Goes(c, "idle")
    /\ UNCHANGED <<open, failures, probe, up, recent>>

Killed(c) ==
    /\ at[c] # "idle" /\ faults < MaxFaults
    /\ faults' = faults + 1
    /\ Goes(c, "idle")
    /\ UNCHANGED <<open, failures, probe, up, recent>>

CarrierTurns ==
    /\ up' = ~up
    /\ UNCHANGED <<open, failures, probe, at, recent, faults>>

-----------------------------------------------------------------------------

Init ==
    /\ open = 0 /\ failures = Absent /\ probe = 0
    /\ at = [c \in Callers |-> "idle"]
    /\ up = TRUE
    /\ recent = None
    /\ faults = 0

Next ==
    \/ \E c \in Callers :
        \/ ReadOpen(c) \/ ReadFailures(c) \/ AcquireProbe(c)
        \/ RecordSuccess(c) \/ RecordNeutral(c)
        \/ RecordFailure(c) \/ Open(c)
        \/ RecordProbeFailure(c) \/ RefillFailures(c) \/ FreeProbe(c)
        \/ RedisFault(c) \/ Killed(c)
    \/ Reset \/ Tick \/ CarrierTurns

\* Time passes; nothing is assumed of callers
Spec == Init /\ [][Next]_vars /\ WF_vars(Tick)

-----------------------------------------------------------------------------
(* Properties *)

TypeOK ==
    /\ open \in 0..Cooldown /\ probe \in 0..Cooldown
    /\ failures \in [count: Nat, ttl: 0..Window]
    /\ at \in [Callers -> Place]
    /\ up \in BOOLEAN
    /\ recent \in [Ages -> 0..Threshold]
    /\ faults \in 0..MaxFaults

\* The right to probe is never left behind: while the key is there and no command
\* failed and no process died, some caller is still probing with it, whichever way
\* earlier probes ended (the measured fault in record_neutral's docstring).
ProbeKeyHeld ==
    probe # 0 => \/ \E c \in Callers : at[c] \in HasProbe
                 \/ faults > 0

\* "Isolated failures hours apart must not open the circuit": who decides to open
\* it knows of Threshold failures within the last Window ticks and since the last
\* success; a failed probe counts as Threshold.
OpensOnRecentFailures ==
    [][\A c \in Callers :
            at'[c] = "opening" /\ at[c] # "opening"
                => SumFunction(recent') >= Threshold]_vars

\* Once the carrier stays up the circuit closes for good by itself, even if late
\* recordings of earlier failures land after a success, keys are half written or
\* nobody calls.
Recovers ==
    <>[]up => <>[](open = 0 /\ failures.count < Threshold)

\* "At the end of the cooldown HALF-OPEN: a single attempt passes": an open circuit
\* keeps its failures, without which it would end closed, to everyone at once.
OpenKeepsFailures ==
    [][open > 0 /\ open' > 0 /\ failures.count >= Threshold
            => failures'.count >= Threshold]_vars
=============================================================================
