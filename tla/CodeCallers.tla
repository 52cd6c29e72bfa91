----------------------------- MODULE CodeCallers ----------------------------
(***************************************************************************)
(* The Python workers of a server: the pool of CodeCallerNative objects,   *)
(* the requests that borrow them (withCodeCaller) and, behind each caller, *)
(* a zygote process that forks one worker after another.                   *)
(*                                                                         *)
(* Events of a caller (data on the pipes for answers and for restart       *)
(* confirmations, the exit of the child, timers) come in any order.  The   *)
(* code between two events runs to its end: `running` holds the callers in *)
(* the middle of such a stretch, which no event interrupts.                *)
(*                                                                         *)
(* A caller is created once; Callers has to be large enough to replace the *)
(* ones that MaxFaults faults can break.  Sources: code-caller-native.js,  *)
(* code-caller/index.js, python/zygote.py.                                 *)
(***************************************************************************)
EXTENDS Naturals, FiniteSets

CONSTANTS
  Requests,    \* calls of withCodeCaller
  Callers,     \* CodeCallerNative objects, numbered in the order of creation
  PoolSize,    \* min and max of the pool
  MaxFaults,   \* bound on slow, crashed, misbehaving or unstartable processes
  MaxCalls,    \* bound on the calls that the requests make
  NoRequest    \* not a request

ASSUME CallersAssumption ==
  /\ Callers \subseteq Nat
  /\ PoolSize \in Nat \ {0} /\ MaxFaults \in Nat /\ MaxCalls \in Nat
  /\ NoRequest \notin Requests

VARIABLES
  caller,      \* the fields of each caller
  worker,      \* the processes behind it and the pipes to them
  running,     \* callers in the middle of a stretch of code
  pooled,      \* callers in the pool, lent ones and ones being created included
  idle,        \* callers that can be acquired
  unhealthy,   \* unhealthyCodeCallers
  holder,      \* the request each lent caller is lent to
  request,     \* what each request does
  closing,     \* has finish() been called?
  calls,       \* calls made so far
  faults       \* faults so far

vars == <<caller, worker, running, pooled, idle, unhealthy, holder, request, closing, calls, faults>>
poolVars == <<pooled, idle, unhealthy, holder, request, closing>>

States    == {"CREATED", "WAITING", "IN_CALL", "RESTARTING", "EXITING", "EXITED"}
\* What the pending promise answers: a call of the pool's create, of the
\* request's function or of restart(), or the confirmation of the restart.
Callbacks == {"none", "ping", "call", "restart", "confirm"}
\* The zygote has a worker that waits or works, works without end, or has
\* exited; it was sent SIGTERM; it has exited, noticed by the caller or not.
Processes == {"none", "forked", "busy", "hung", "leaving", "killed", "dead", "gone"}
Live      == {"forked", "busy", "hung", "leaving"}

Caller == [state: States, child: BOOLEAN, callback: Callbacks, timer: BOOLEAN,
           confirmed: BOOLEAN]
Worker == [proc: Processes, input: BOOLEAN, answer: {"none", "good", "garbled"},
           confirm: BOOLEAN, served: SUBSET Requests]

TypeOK ==
  /\ caller \in [Callers -> Caller]
  /\ worker \in [Callers -> Worker]
  /\ running \subseteq Callers /\ pooled \subseteq Callers
  /\ idle \subseteq Callers /\ unhealthy \subseteq Callers
  /\ holder \in [Callers -> Requests \cup {NoRequest}]
  /\ request \in [Requests -> {"none", "waiting", "served", "ended"}]
  /\ closing \in BOOLEAN /\ calls \in 0..MaxCalls /\ faults \in 0..MaxFaults

Init ==
  /\ caller = [c \in Callers |-> [state |-> "CREATED", child |-> FALSE, callback |-> "none",
                                  timer |-> FALSE, confirmed |-> FALSE]]
  /\ worker = [c \in Callers |-> [proc |-> "none", input |-> FALSE, answer |-> "none",
                                  confirm |-> FALSE, served |-> {}]]
  /\ running = {} /\ pooled = {} /\ idle = {} /\ unhealthy = {}
  /\ holder = [c \in Callers |-> NoRequest]
  /\ request = [r \in Requests |-> "none"]
  /\ closing = FALSE /\ calls = 0 /\ faults = 0

State(c) == caller[c].state
Proc(c)  == worker[c].proc

Fault == faults < MaxFaults /\ faults' = faults + 1

\* A request gives up the caller it was lent,
Returns(c) ==
  /\ holder' = [holder EXCEPT ![c] = NoRequest]
  /\ request' = [r \in Requests |-> IF r = holder[c] THEN "ended" ELSE request[r]]

\* after a restart, to be used again,
Release(c) ==
  /\ idle' = idle \cup {c}
  /\ Returns(c)
  /\ UNCHANGED <<pooled, unhealthy, closing>>

\* or to be replaced.
Dispose(c) ==
  /\ unhealthy' = unhealthy \cup {c}
  /\ Returns(c)
  /\ UNCHANGED <<pooled, idle, closing>>

\* The pending promise is settled.  The pool's create has a new caller or
\* failed; a request goes on with the caller, or has tried to restart it.
Settled(c, ok) ==
  CASE caller[c].callback = "ping" /\ ok ->
         idle' = idle \cup {c} /\ UNCHANGED <<pooled, unhealthy, holder, request, closing>>
    [] caller[c].callback = "ping" /\ ~ok ->
         pooled' = pooled \ {c} /\ UNCHANGED <<idle, unhealthy, holder, request, closing>>
    [] caller[c].callback = "restart" /\ ~ok -> Dispose(c)
    [] caller[c].callback = "confirm" -> IF ok THEN Release(c) ELSE Dispose(c)
    [] OTHER -> UNCHANGED poolVars

\* _callCallback, with the timer cleared and the state that is left.
Answered(c, s) ==
  [caller EXCEPT ![c].state = s, ![c].callback = "none", ![c].timer = FALSE]

\* child.kill('SIGTERM')
Killed(c) ==
  [worker EXCEPT ![c].proc = IF @ \in Live THEN "killed" ELSE @]

-----------------------------------------------------------------------------
(* What the server calls. *)

\* call(): only in state WAITING; anything else throws and changes nothing.
Call(c, kind) ==
  /\ State(c) = "WAITING"
  /\ caller' = [caller EXCEPT ![c].state = "IN_CALL", ![c].callback = kind,
                              ![c].timer = TRUE, ![c].confirmed = FALSE]
  /\ worker' = [worker EXCEPT ![c].input = TRUE]

\* The pool creates a caller: ensureChild starts a child
StartChild(c) ==
  /\ State(c) = "CREATED" /\ \A d \in Callers : d < c => State(d) # "CREATED"
  /\ Cardinality(pooled) < PoolSize
  /\ closing => \E r \in Requests : request[r] = "waiting"
  /\ pooled' = pooled \cup {c}
  /\ running' = running \cup {c}
  /\ caller' = [caller EXCEPT ![c].state = "WAITING", ![c].child = TRUE]
  /\ worker' = [worker EXCEPT ![c].proc = "forked"]
  /\ UNCHANGED <<idle, unhealthy, holder, request, closing, calls, faults>>

\* and pings it.
Ping(c) ==
  /\ c \in running /\ holder[c] = NoRequest
  /\ Call(c, "ping")
  /\ running' = running \ {c}
  /\ UNCHANGED <<pooled, idle, unhealthy, holder, request, closing, calls, faults>>

Ask(r) ==
  /\ request[r] = "none" /\ ~closing
  /\ request' = [request EXCEPT ![r] = "waiting"]
  /\ UNCHANGED <<caller, worker, running, pooled, idle, unhealthy, holder, closing, calls, faults>>

\* getHealthyCodeCaller
Acquire(r) ==
  /\ request[r] = "waiting"
  /\ \E c \in idle \ unhealthy :
       /\ idle' = idle \ {c}
       /\ holder' = [holder EXCEPT ![c] = r]
  /\ request' = [request EXCEPT ![r] = "served"]
  /\ UNCHANGED <<caller, worker, running, pooled, unhealthy, closing, calls, faults>>

\* The function of the request makes a call.
MakeCall(c) ==
  /\ holder[c] # NoRequest /\ c \notin running
  /\ Call(c, "call")
  /\ calls < MaxCalls /\ calls' = calls + 1
  /\ UNCHANGED <<running, poolVars, faults>>

\* It has returned or thrown; withCodeCaller restarts the caller, which does
\* not take one whose child is gone.
Restart(c) ==
  /\ holder[c] # NoRequest /\ c \notin running /\ caller[c].callback = "none"
  /\ \/ Call(c, "restart") /\ UNCHANGED poolVars
     \/ State(c) \in {"EXITING", "EXITED"} /\ Dispose(c) /\ UNCHANGED <<caller, worker>>
  /\ UNCHANGED <<running, calls, faults>>

\* _restartIsFinished
Restarted(c) ==
  [caller EXCEPT ![c].state = "WAITING", ![c].callback = "none", ![c].timer = FALSE]

\* Mutant: the confirmation is not waited for.
ResumeAtOnce(c) ==
  /\ c \in running /\ holder[c] # NoRequest
  /\ running' = running \ {c}
  /\ caller' = Restarted(c)
  /\ Release(c)
  /\ UNCHANGED <<worker, calls, faults>>

\* restart() goes on: the worker has answered and is about to exit.  The
\* confirmation of the zygote may have come before.
Resume(c) ==
  /\ c \in running /\ holder[c] # NoRequest
  /\ running' = running \ {c}
  /\ IF caller[c].confirmed
       THEN caller' = Restarted(c) /\ Release(c)
       ELSE /\ caller' = [caller EXCEPT ![c].state = "RESTARTING", ![c].callback = "confirm",
                                        ![c].timer = TRUE]
            /\ UNCHANGED poolVars
  /\ UNCHANGED <<worker, calls, faults>>

\* done()
Done(c) ==
  IF State(c) = "WAITING"
    THEN caller' = [caller EXCEPT ![c].state = "EXITING"] /\ worker' = Killed(c)
    ELSE UNCHANGED <<caller, worker>>

\* Mutant: the pool still counts what was destroyed.
DestroyButCount(c) ==
  /\ c \in unhealthy
  /\ unhealthy' = unhealthy \ {c}
  /\ Done(c)
  /\ UNCHANGED <<running, pooled, idle, holder, request, closing, calls, faults>>

\* destroyUnhealthyCodeCallers
DestroyUnhealthy(c) ==
  /\ c \in unhealthy
  /\ unhealthy' = unhealthy \ {c}
  /\ pooled' = pooled \ {c}
  /\ Done(c)
  /\ UNCHANGED <<running, idle, holder, request, closing, calls, faults>>

\* finish() drains the pool
Finish ==
  /\ ~closing
  /\ closing' = TRUE
  /\ UNCHANGED <<caller, worker, running, pooled, idle, unhealthy, holder, request, calls, faults>>

\* and clears it.
Clear(c) ==
  /\ closing /\ \A r \in Requests : request[r] \in {"none", "ended"}
  /\ c \in idle
  /\ idle' = idle \ {c}
  /\ pooled' = pooled \ {c}
  /\ Done(c)
  /\ UNCHANGED <<running, unhealthy, holder, request, closing, calls, faults>>

-----------------------------------------------------------------------------
(* Events of a caller. *)

\* _handleStdio3Data, _callIsFinished: a line arrives on the data pipe.
Stdio3(c) ==
  /\ c \notin running /\ worker[c].answer # "none"
  /\ IF State(c) = "IN_CALL"
       THEN LET ok == worker[c].answer = "good"
            IN /\ caller' = Answered(c, IF ok THEN "WAITING" ELSE "EXITING")
               /\ worker' = [(IF ok THEN worker ELSE Killed(c)) EXCEPT ![c].answer = "none"]
               /\ running' = IF ok /\ caller[c].callback = "restart"
                               THEN running \cup {c} ELSE running
               /\ Settled(c, ok)
       ELSE /\ worker' = [worker EXCEPT ![c].answer = "none"]
            /\ UNCHANGED <<caller, running, poolVars>>
  /\ UNCHANGED <<calls, faults>>

\* Mutant: a confirmation ends the restart in any state.
Stdio4Always(c) ==
  /\ c \notin running /\ worker[c].confirm
  /\ worker' = [worker EXCEPT ![c].confirm = FALSE]
  /\ caller' = Restarted(c)
  /\ Settled(c, TRUE)
  /\ UNCHANGED <<running, calls, faults>>

\* _handleStdio4Data: the zygote confirms that its worker has exited.
Stdio4(c) ==
  /\ c \notin running /\ worker[c].confirm
  /\ worker' = [worker EXCEPT ![c].confirm = FALSE]
  /\ IF State(c) = "RESTARTING"
       THEN caller' = Restarted(c) /\ Settled(c, TRUE)
       ELSE caller' = [caller EXCEPT ![c].confirmed = TRUE] /\ UNCHANGED poolVars
  /\ UNCHANGED <<running, calls, faults>>

\* _handleChildExit: nothing happens in state RESTARTING.
ChildExit(c) ==
  /\ c \notin running /\ Proc(c) = "dead"
  /\ worker' = [worker EXCEPT ![c].proc = "gone"]
  /\ CASE State(c) = "IN_CALL" ->
            caller' = [Answered(c, "EXITED") EXCEPT ![c].child = FALSE] /\ Settled(c, FALSE)
       [] State(c) \in {"WAITING", "EXITING"} ->
            /\ caller' = [caller EXCEPT ![c].state = "EXITED", ![c].child = FALSE]
            /\ UNCHANGED poolVars
       [] OTHER -> UNCHANGED <<caller, poolVars>>
  /\ UNCHANGED <<running, calls, faults>>

\* _handleChildError: the child could not be started, and there is no process.
ChildError(c) ==
  /\ c \notin running /\ caller[c].callback = "ping" /\ Proc(c) = "forked" /\ worker[c].input
  /\ Fault
  /\ caller' = Answered(c, "EXITING")
  /\ worker' = [worker EXCEPT ![c].proc = "gone"]
  /\ Settled(c, FALSE)
  /\ UNCHANGED <<running, calls>>

\* Can the promise still be settled without the timer?
MayAnswer(c) ==
  IF caller[c].callback = "confirm"
    THEN worker[c].confirm \/ Proc(c) = "leaving"
    ELSE \/ worker[c].answer # "none" \/ Proc(c) \in {"busy", "dead"}
         \/ worker[c].input /\ Proc(c) \in {"forked", "leaving"}

\* Mutant: the child is not killed.
TimeoutOnly(c) ==
  /\ c \notin running /\ caller[c].timer
  /\ IF MayAnswer(c) THEN Fault ELSE faults' = faults
  /\ caller' = Answered(c, "EXITING")
  /\ Settled(c, FALSE)
  /\ UNCHANGED <<worker, running, calls>>

\* _timeout, _restartTimeout: a fault unless nothing else can happen.
Timeout(c) ==
  /\ c \notin running /\ caller[c].timer
  /\ IF MayAnswer(c) THEN Fault ELSE faults' = faults
  /\ caller' = Answered(c, "EXITING")
  /\ worker' = Killed(c)
  /\ Settled(c, FALSE)
  /\ UNCHANGED <<running, calls>>

-----------------------------------------------------------------------------
(* The processes of a caller. *)

procVars == <<caller, running, poolVars, calls>>

\* The worker reads a line; it runs code of the request that has the caller.
Read(c) ==
  /\ Proc(c) = "forked" /\ worker[c].input
  /\ worker' = [worker EXCEPT
       ![c].proc = "busy", ![c].input = FALSE,
       ![c].served = IF caller[c].callback = "call" THEN @ \cup {holder[c]} ELSE @]
  /\ UNCHANGED <<procVars, faults>>

\* It answers, and exits if it was told to restart.
Answer(c) ==
  /\ Proc(c) = "busy"
  /\ \E a \in {"good", "garbled"} :
       /\ worker' = [worker EXCEPT
            ![c].proc = IF caller[c].callback = "restart" THEN "leaving" ELSE "forked",
            ![c].answer = a]
       /\ IF a = "garbled" THEN Fault /\ caller[c].callback = "call" ELSE faults' = faults
  /\ UNCHANGED procVars

\* Code of a question blocks, or exits with status 0 without an answer.
Misbehave(c) ==
  /\ Proc(c) = "busy" /\ caller[c].callback = "call" /\ Fault
  /\ \E p \in {"hung", "leaving"} : worker' = [worker EXCEPT ![c].proc = p]
  /\ UNCHANGED procVars

\* The zygote confirms and forks a new worker.
Fork(c) ==
  /\ Proc(c) = "leaving"
  /\ worker' = [worker EXCEPT ![c].proc = "forked", ![c].confirm = TRUE, ![c].served = {}]
  /\ UNCHANGED <<procVars, faults>>

\* The zygote ends: it was told to, its worker crashed, or processes of the
\* worker were left.
Die(c) ==
  /\ \/ Proc(c) = "killed" /\ faults' = faults
     \/ Proc(c) \in Live /\ Fault
  /\ worker' = [worker EXCEPT ![c].proc = "dead"]
  /\ UNCHANGED procVars

Serve(c) ==
  \/ StartChild(c) \/ Ping(c) \/ Restart(c) \/ Resume(c) \/ DestroyUnhealthy(c) \/ Clear(c)
  \/ Stdio3(c) \/ Stdio4(c) \/ ChildExit(c) \/ Timeout(c) \/ Read(c) \/ Answer(c) \/ Fork(c)
  \/ Proc(c) = "killed" /\ Die(c)

Next ==
  \/ \E c \in Callers :
       \/ StartChild(c) \/ Ping(c) \/ MakeCall(c) \/ Restart(c) \/ Resume(c)
       \/ DestroyUnhealthy(c) \/ Clear(c)
       \/ Stdio3(c) \/ Stdio4(c) \/ ChildExit(c) \/ ChildError(c) \/ Timeout(c)
       \/ Read(c) \/ Answer(c) \/ Misbehave(c) \/ Fork(c) \/ Die(c)
  \/ \E r \in Requests : Ask(r) \/ Acquire(r)
  \/ Finish

Spec == Init /\ [][Next]_vars

\* Every event is served, every timer fires, every process that was told to
\* end does, and the function of a request returns.  Every behaviour is
\* finite, so one condition is as strong as one for each of these.
Progress == (\E c \in Callers : Serve(c)) \/ (\E r \in Requests : Acquire(r))

FairSpec == Spec /\ WF_vars(Progress)

-----------------------------------------------------------------------------
(* Properties. *)

\* _checkState: the child, the callback and the timer are set in the states
\* that need them and in no other, in whatever order the events came.
Consistent ==
  \A c \in Callers \ running :
    /\ caller[c].child = (State(c) \notin {"CREATED", "EXITED"})
    /\ (caller[c].callback # "none") = (State(c) \in {"IN_CALL", "RESTARTING"})
    /\ caller[c].timer = (State(c) \in {"IN_CALL", "RESTARTING"})

\* No worker process runs code of two requests: withCodeCaller restarts the
\* caller before anyone else gets it, and restart() waits for a new worker.
OneRequestPerWorker == \A c \in Callers : \A q, r \in worker[c].served : q = r

\* A caller in the pool has a worker that has run nothing and that has nothing
\* left in its pipes, unless its zygote has died since.
ReleasedClean ==
  \A c \in idle : Proc(c) \in Live =>
    /\ State(c) = "WAITING"
    /\ worker[c] = [proc |-> "forked", input |-> FALSE, answer |-> "none",
                    confirm |-> FALSE, served |-> {}]

\* No process is left behind: one that was not told to end has its caller in
\* the pool.
NoOrphans == \A c \in Callers : Proc(c) \in Live => c \in pooled

\* The callers follow the documented state machine, and the step that leaves
\* a state in which a promise is pending settles it.
Lifecycle == INSTANCE CallerLifecycle WITH
  state   <- [c \in Callers |-> caller[c].state],
  pending <- [c \in Callers |-> caller[c].callback # "none"]

FollowsLifecycle == Lifecycle!Spec

\* Every request gets a worker and ends, as long as faults do not go on for
\* ever: callers that broke are replaced.
RequestsEnd == \A r \in Requests : request[r] = "waiting" ~> request[r] = "ended"

=============================================================================
