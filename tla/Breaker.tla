------------------------------ MODULE Breaker ------------------------------
(***************************************************************************)
(* The circuit breaker between a mount and the local chunk server:         *)
(* CircuitBreaker and LocalChunkClient of src/backend/peer.rs.             *)
(*                                                                         *)
(* Threads call control_request or control_batch_request, the health       *)
(* checker connects once per interval.  The breaker's two atomics are read *)
(* and written one at a time.  What a request asks for and how its session *)
(* carries it (module Session) is left out: it succeeds, or it fails, on   *)
(* its way, by its timeout or because the server answers with an error.    *)
(* Time is relative: what the code keeps as an instant is kept as an age.  *)
(***************************************************************************)
EXTENDS Integers

CONSTANTS
    Callers,     \* threads with requests
    Checker,     \* the task of start_health_checker
    Cooldown,    \* CIRCUIT_BREAKER_COOLDOWN
    Interval     \* HEALTH_CHECK_INTERVAL

ASSUME BreakerAssumption ==
    /\ Checker \notin Callers
    /\ Cooldown \in Nat \ {0} /\ Interval \in Nat \ {0}

Clients == Callers \cup {Checker}

VARIABLES
    open,        \* CircuitBreaker.open
    last,        \* age of last_failure_ms, up to Cooldown
    up,          \* the server's socket takes connections
    pc,          \* client -> where it is
    stamp,       \* client -> age of the time it has taken in record_failure
    elapsed,     \* time since the health checker's last tick
    failure      \* history: age of the last failure, up to Cooldown

vars == <<open, last, up, pc, stamp, elapsed, failure>>

TypeOK ==
    /\ open \in BOOLEAN /\ up \in BOOLEAN
    /\ last \in 0 .. Cooldown /\ failure \in 0 .. Cooldown
    /\ pc \in [Clients -> {"idle", "open", "sent", "success", "failed", "stored"}]
    /\ stamp \in [Clients -> 0 .. Cooldown]
    /\ elapsed \in 0 .. Interval

(* CircuitBreaker::new: a last failure at the epoch, which is now.           *)
Init ==
    /\ open = FALSE /\ last = 0
    /\ up \in BOOLEAN
    /\ pc = [c \in Clients |-> "idle"]
    /\ stamp = [c \in Clients |-> 0]
    /\ elapsed = Interval
    /\ failure = Cooldown
----------------------------------------------------------------------------
Goto(c, where) == pc' = [pc EXCEPT ![c] = where]

(* Mutant: should_reject looks at the time only.                             *)
LoadOpenAlways(c) ==
    /\ pc[c] = "idle"
    /\ Goto(c, "open")
    /\ UNCHANGED <<open, last, up, stamp, elapsed, failure>>

(* should_reject, first load: a closed breaker lets the request through.     *)
LoadOpen(c) ==
    /\ pc[c] = "idle"
    /\ Goto(c, IF open THEN "open" ELSE "sent")
    /\ UNCHANGED <<open, last, up, stamp, elapsed, failure>>

(* Its second load: within the cool-down the request is rejected.            *)
LoadLast(c) ==
    /\ pc[c] = "open"
    /\ Goto(c, IF last < Cooldown THEN "idle" ELSE "sent")
    /\ UNCHANGED <<open, last, up, stamp, elapsed, failure>>

(* The checker's tick: it connects, whatever the breaker says.               *)
CheckHealth ==
    /\ pc[Checker] = "idle"
    /\ elapsed = Interval
    /\ elapsed' = 0
    /\ Goto(Checker, "sent")
    /\ UNCHANGED <<open, last, up, stamp, failure>>

(* send_control, send_control_batch: a hit or a miss.  The checker only      *)
(* connects.                                                                 *)
Succeed(c) ==
    /\ pc[c] = "sent"
    /\ up
    /\ Goto(c, "success")
    /\ UNCHANGED <<open, last, up, stamp, elapsed, failure>>

(* No connection, no answer in time, or STATUS_ERROR; a connection to a      *)
(* server that is up does not fail.  record_failure takes the time.          *)
Fail(c) ==
    /\ pc[c] = "sent"
    /\ c = Checker => ~up
    /\ stamp' = [stamp EXCEPT ![c] = 0]
    /\ failure' = 0
    /\ Goto(c, "failed")
    /\ UNCHANGED <<open, last, up, elapsed>>

(* record_failure: last_failure_ms, then open.                               *)
StoreLast(c) ==
    /\ pc[c] = "failed"
    /\ last' = stamp[c]
    /\ Goto(c, "stored")
    /\ UNCHANGED <<open, up, stamp, elapsed, failure>>

StoreOpen(c) ==
    /\ pc[c] = "stored"
    /\ open' = TRUE
    /\ Goto(c, "idle")
    /\ UNCHANGED <<last, up, stamp, elapsed, failure>>

(* Mutant: only a request closes the breaker.                                *)
RecordSuccessOfCaller(c) ==
    /\ pc[c] = "success"
    /\ open' = (open /\ c = Checker)
    /\ Goto(c, "idle")
    /\ UNCHANGED <<last, up, stamp, elapsed, failure>>

RecordSuccess(c) ==
    /\ pc[c] = "success"
    /\ open' = FALSE
    /\ Goto(c, "idle")
    /\ UNCHANGED <<last, up, stamp, elapsed, failure>>

(* The server starts or stops.                                               *)
ServerChanges ==
    /\ up' = ~up
    /\ UNCHANGED <<open, last, pc, stamp, elapsed, failure>>

Older(age) == IF age < Cooldown THEN age + 1 ELSE age

(* The checker is never an interval behind.                                  *)
Tick ==
    /\ elapsed < Interval
    /\ elapsed' = elapsed + 1
    /\ last' = Older(last)
    /\ failure' = Older(failure)
    /\ stamp' = [c \in Clients |-> Older(stamp[c])]
    /\ UNCHANGED <<open, up, pc>>

Outcome(c) == Succeed(c) \/ Fail(c) \/ StoreLast(c) \/ StoreOpen(c) \/ RecordSuccess(c)

Next ==
    \/ \E c \in Callers : LoadOpen(c) \/ LoadLast(c)
    \/ \E c \in Clients : Outcome(c)
    \/ CheckHealth \/ ServerChanges \/ Tick

(* The checker's task runs, and a request ends by its timeout at the latest. *)
(* Nobody has to make requests.                                              *)
Fairness ==
    /\ WF_vars(Tick) /\ WF_vars(CheckHealth)
    /\ \A c \in Clients : WF_vars(Outcome(c))

Spec == Init /\ [][Next]_vars /\ Fairness
----------------------------------------------------------------------------
(* Properties                                                                *)

(* A request is rejected only within the cool-down of a failure, although    *)
(* callers interleave between the two loads and the two stores, and although *)
(* the breaker starts with a last failure of just now.                       *)
RejectsAfterFailure ==
    [][\A c \in Callers : pc[c] = "open" /\ pc'[c] = "idle" => failure < Cooldown]_vars

(* An open breaker closes when the server comes back and stays, even when no *)
(* thread tries: the health checker does, if errors of late requests do not  *)
(* open it again.                                                            *)
Recovers == up /\ open ~> ~up \/ ~open
============================================================================
