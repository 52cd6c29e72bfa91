--------------------------- MODULE WorkspacesProofs -------------------------
(***************************************************************************)
(* For every number of workspaces, hosts, servers and launches: a          *)
(* workspace has one launch at a time, unless something else has stopped   *)
(* it in between, and the files a user works on are never replaced.        *)
(***************************************************************************)
EXTENDS Workspaces, FiniteSetTheorems, TLAPS

Row == [state: States, version: Nat, host: Hosts \cup {NoHost}, uuid: Launches \cup {0}]

StartupRow ==
  {r \in [pc: {"idle", "initialize", "lock", "pick", "write", "init"},
          w: Workspaces \cup {NoWorkspace}, read: States, version: Nat, host: Hosts \cup {NoHost}] :
     r.pc = "idle" \/ r.w \in Workspaces}

LaunchRow ==
  {r \in [pc: {"none", "uuid", "create", "check", "run", "over"},
          w: Workspaces \cup {NoWorkspace}, host: Hosts \cup {NoHost}, version: Nat] :
     r.pc \in {"none", "over"} \/ r.w \in Workspaces}

Rows ==
  /\ workspace \in [Workspaces -> Row]
  /\ startup \in [Starters -> StartupRow]
  /\ launch \in [Launches -> LaunchRow]

\* A server is looking for a host of a workspace; a host launches it.
StartsLaunch(s, w) == startup[s].w = w /\ startup[s].pc \in {"pick", "write", "init"}
Launching(u, w)    == launch[u].w = w /\ launch[u].pc \in {"uuid", "create", "check", "run"}

\* One of them does, and only while the workspace is in the launching state.
OneLaunch(w) ==
  /\ \A s, t \in Starters : StartsLaunch(s, w) /\ StartsLaunch(t, w) => s = t
  /\ \A u, v \in Launches : Launching(u, w) /\ Launching(v, w) => u = v
  /\ \A s \in Starters, u \in Launches : ~(StartsLaunch(s, w) /\ Launching(u, w))
  /\ \A s \in Starters : StartsLaunch(s, w) => workspace[w].state = "launching"
  /\ \A u \in Launches : Launching(u, w) => workspace[w].state = "launching"

WInv == Rows /\ (~disturbed => \A w \in Workspaces : OneLaunch(w))

-----------------------------------------------------------------------------
(* What steps have in common. *)

\* Nothing begins to launch a workspace, and if it leaves the launching state
\* the step counts as a disturbance.
Calm(w) ==
  /\ \A s \in Starters : StartsLaunch(s, w)' => StartsLaunch(s, w)
  /\ \A u \in Launches : Launching(u, w)' => Launching(u, w)
  /\ \/ workspace'[w].state = workspace[w].state
     \/ workspace[w].state # "launching"
     \/ disturbed'

LEMMA CalmStep ==
  ASSUME WInv, Rows', disturbed => disturbed', \A w \in Workspaces : Calm(w)
  PROVE  WInv'
<1>1. ASSUME ~disturbed', NEW w \in Workspaces
      PROVE  OneLaunch(w)'
  <2>1. ~disturbed /\ OneLaunch(w) /\ Calm(w)
    BY <1>1 DEF WInv
  <2>2. workspace'[w].state = workspace[w].state \/ workspace[w].state # "launching"
    BY <1>1, <2>1 DEF Calm
  <2>3. QED
    BY <2>1, <2>2 DEF OneLaunch, Calm
<1>2. QED
  BY <1>1 DEF WInv

LEMMA Untouched ==
  ASSUME WInv, UNCHANGED <<workspace, startup, launch>>, disturbed => disturbed'
  PROVE  WInv'
<1>1. Rows'
  BY DEF WInv, Rows
<1>2. \A w \in Workspaces : Calm(w)
  BY DEF Calm, StartsLaunch, Launching
<1>3. QED
  BY <1>1, <1>2, CalmStep

\* Workspaces whose state changes, with nothing else in their rows that counts
\* here.
LEMMA StatesChange ==
  ASSUME WInv, workspace' \in [Workspaces -> Row], startup' \in [Starters -> StartupRow],
         launch' \in [Launches -> LaunchRow], disturbed => disturbed',
         \A s \in Starters : startup'[s].pc \in {"pick", "write", "init"} =>
           startup'[s].w = startup[s].w /\ startup[s].pc \in {"pick", "write", "init"},
         \A u \in Launches : launch'[u].pc \in {"uuid", "create", "check", "run"} =>
           launch'[u].w = launch[u].w /\ launch[u].pc \in {"uuid", "create", "check", "run"},
         \A w \in Workspaces : \/ workspace'[w].state = workspace[w].state
                               \/ workspace[w].state # "launching"
                               \/ disturbed'
  PROVE  WInv'
<1>1. Rows'
  BY DEF Rows
<1>2. \A w \in Workspaces : Calm(w)
  BY DEF Calm, StartsLaunch, Launching
<1>3. QED
  BY <1>1, <1>2, CalmStep

LEMMA StateSet ==
  ASSUME Rows, NEW w, NEW state \in States, SetState(w, state)
  PROVE  /\ workspace' \in [Workspaces -> Row]
         /\ \A v \in Workspaces :
              workspace'[v].state = IF v = w THEN state ELSE workspace[v].state
<1>1. \A v \in Workspaces : [workspace[v] EXCEPT !.state = state] \in Row
  BY DEF Rows, Row
<1>2. QED
  BY <1>1 DEF Rows, Row, SetState

LEMMA Stopped ==
  ASSUME Rows, NEW w, Stop(w)
  PROVE  /\ workspace' \in [Workspaces -> Row] /\ (disturbed => disturbed')
         /\ \A v \in Workspaces : \/ workspace'[v].state = workspace[v].state
                                  \/ workspace[v].state # "launching"
                                  \/ disturbed'
<1>1. "stopped" \in States /\ SetState(w, "stopped") /\ Disturb({w})
  BY DEF States, Stop
<1>2. /\ workspace' \in [Workspaces -> Row]
      /\ \A v \in Workspaces : v # w => workspace'[v].state = workspace[v].state
  BY <1>1, StateSet
<1>3. workspace[w].state = "launching" => disturbed'
  BY <1>1 DEF Disturb
<1>4. QED
  BY <1>1, <1>2, <1>3 DEF Disturb

LEMMA StartupMoves ==
  ASSUME Rows, NEW s \in Starters, NEW r \in StartupRow, startup' = [startup EXCEPT ![s] = r]
  PROVE  /\ startup' \in [Starters -> StartupRow] /\ startup'[s] = r
         /\ \A t \in Starters \ {s} : startup'[t] = startup[t]
BY DEF Rows

LEMMA LaunchMoves ==
  ASSUME Rows, NEW u \in Launches, NEW r \in LaunchRow, launch' = [launch EXCEPT ![u] = r]
  PROVE  /\ launch' \in [Launches -> LaunchRow] /\ launch'[u] = r
         /\ \A v \in Launches \ {u} : launch'[v] = launch[v]
BY DEF Rows

LEMMA Ended ==
  ASSUME Rows, NEW s \in Starters, EndStartup(s)
  PROVE  /\ startup' \in [Starters -> StartupRow] /\ startup'[s].pc = "idle"
         /\ \A t \in Starters \ {s} : startup'[t] = startup[t]
<1>1. NoStartup \in StartupRow /\ NoStartup.pc = "idle"
  BY DEF NoStartup, StartupRow, States
<1>2. QED
  BY <1>1, StartupMoves DEF EndStartup

LEMMA LaunchStepped ==
  ASSUME Rows, NEW u \in Launches,
         NEW step \in {"none", "uuid", "create", "check", "run", "over"}, LaunchStep(u, step),
         launch[u].pc \notin {"none", "over"}
  PROVE  /\ launch' \in [Launches -> LaunchRow]
         /\ launch'[u].pc = step /\ launch'[u].w = launch[u].w
         /\ \A v \in Launches \ {u} : launch'[v] = launch[v]
<1>1. launch[u] \in LaunchRow
  BY DEF Rows
<1>2. [launch[u] EXCEPT !.pc = step] \in LaunchRow /\ [launch[u] EXCEPT !.pc = step].pc = step
      /\ [launch[u] EXCEPT !.pc = step].w = launch[u].w
  BY <1>1 DEF LaunchRow
<1>3. launch' = [launch EXCEPT ![u] = [launch[u] EXCEPT !.pc = step]]
  BY DEF LaunchStep
<1>4. QED
  BY <1>2, <1>3, LaunchMoves

LEMMA StartupStepped ==
  ASSUME Rows, NEW s \in Starters,
         NEW step \in {"idle", "initialize", "lock", "pick", "write", "init"}, StartupStep(s, step),
         startup[s].pc # "idle"
  PROVE  /\ startup' \in [Starters -> StartupRow]
         /\ startup'[s].pc = step /\ startup'[s].w = startup[s].w
         /\ \A t \in Starters \ {s} : startup'[t] = startup[t]
<1>1. startup[s] \in StartupRow
  BY DEF Rows
<1>2. [startup[s] EXCEPT !.pc = step] \in StartupRow /\ [startup[s] EXCEPT !.pc = step].pc = step
      /\ [startup[s] EXCEPT !.pc = step].w = startup[s].w
  BY <1>1 DEF StartupRow
<1>3. startup' = [startup EXCEPT ![s] = [startup[s] EXCEPT !.pc = step]]
  BY DEF StartupStep
<1>4. QED
  BY <1>2, <1>3, StartupMoves

LEMMA LaunchesEnd ==
  ASSUME Rows, NEW h, launch' = EndLaunches(h)
  PROVE  /\ launch' \in [Launches -> LaunchRow]
         /\ \A u \in Launches : launch'[u].pc \in {"uuid", "create", "check", "run"} =>
              launch'[u] = launch[u]
<1>1. \A u \in Launches : /\ launch[u] \in LaunchRow
                          /\ [launch[u] EXCEPT !.pc = "over"] \in LaunchRow
                          /\ [launch[u] EXCEPT !.pc = "over"].pc = "over"
  BY DEF Rows, LaunchRow
<1>2. \A u \in Launches : launch'[u] = IF launch[u].host = h
                            THEN [launch[u] EXCEPT !.pc = "over"] ELSE launch[u]
  BY DEF EndLaunches
<1>3. QED
  BY <1>1, <1>2 DEF EndLaunches

-----------------------------------------------------------------------------
(* A call of startup(). *)

LEMMA OpenStep ==
  ASSUME WInv, NEW s \in Starters, NEW w \in Workspaces, Open(s, w)
  PROVE  WInv'
<1> DEFINE pc == IF workspace[w].state = "uninitialized" THEN "initialize" ELSE "lock"
<1> DEFINE r == [NoStartup EXCEPT !.pc = pc, !.w = w, !.read = workspace[w].state]
<1>1. Rows /\ workspace[w].state \in States
  BY DEF WInv, Rows, Row
<1>2. r \in StartupRow /\ r.pc \in {"initialize", "lock"}
  BY <1>1 DEF StartupRow, NoStartup, States
<1>3. UNCHANGED <<workspace, launch, disturbed>> /\ startup' = [startup EXCEPT ![s] = r]
  BY DEF Open, runs
<1>4. /\ startup' \in [Starters -> StartupRow] /\ startup'[s] = r
      /\ \A t \in Starters \ {s} : startup'[t] = startup[t]
  BY <1>1, <1>2, <1>3, StartupMoves
<1>5. \A t \in Starters : startup'[t].pc \in {"pick", "write", "init"} =>
        startup'[t].w = startup[t].w /\ startup[t].pc \in {"pick", "write", "init"}
  BY <1>2, <1>4
<1>6. QED
  BY <1>1, <1>3, <1>4, <1>5, StatesChange DEF Rows

LEMMA InitializeStep ==
  ASSUME WInv, NEW s \in Starters, Initialize(s)
  PROVE  WInv'
<1> DEFINE r == [startup[s] EXCEPT !.pc = "lock", !.version = workspace[startup[s].w].version]
<1>1. Rows /\ startup[s] \in StartupRow /\ startup[s].w \in Workspaces
  BY DEF WInv, Rows, StartupRow, Initialize
<1>2. r \in StartupRow /\ r.pc = "lock"
  <2>1. workspace[startup[s].w].version \in Nat
    BY <1>1 DEF Rows, Row
  <2>2. QED
    BY <1>1, <2>1 DEF StartupRow
<1>3. UNCHANGED <<workspace, launch, disturbed>> /\ startup' = [startup EXCEPT ![s] = r]
  BY DEF Initialize, runs, count
<1>4. /\ startup' \in [Starters -> StartupRow] /\ startup'[s] = r
      /\ \A t \in Starters \ {s} : startup'[t] = startup[t]
  BY <1>1, <1>2, <1>3, StartupMoves
<1>5. \A t \in Starters : startup'[t].pc \in {"pick", "write", "init"} =>
        startup'[t].w = startup[t].w /\ startup[t].pc \in {"pick", "write", "init"}
  BY <1>2, <1>4
<1>6. QED
  BY <1>1, <1>3, <1>4, <1>5, StatesChange DEF Rows

\* A call that fails or ends, with its workspace stopped or as it is.
LEMMA CallEnds ==
  ASSUME WInv, NEW s \in Starters, EndStartup(s), UNCHANGED launch,
         \/ \E w \in Workspaces : Stop(w)
         \/ UNCHANGED <<workspace, disturbed>>
  PROVE  WInv'
<1>1. Rows
  BY DEF WInv
<1>2. /\ startup' \in [Starters -> StartupRow] /\ startup'[s].pc = "idle"
      /\ \A t \in Starters \ {s} : startup'[t] = startup[t]
  BY <1>1, Ended
<1>3. /\ workspace' \in [Workspaces -> Row] /\ (disturbed => disturbed')
      /\ \A v \in Workspaces : \/ workspace'[v].state = workspace[v].state
                               \/ workspace[v].state # "launching"
                               \/ disturbed'
  BY <1>1, Stopped DEF Rows
<1>4. \A t \in Starters : startup'[t].pc \in {"pick", "write", "init"} =>
        startup'[t].w = startup[t].w /\ startup[t].pc \in {"pick", "write", "init"}
  BY <1>2
<1>5. QED
  BY <1>1, <1>2, <1>3, <1>4, StatesChange DEF Rows

LEMMA Called ==
  ASSUME WInv, NEW s \in Starters, startup[s].pc # "idle"
  PROVE  startup[s].w \in Workspaces
BY DEF WInv, Rows, StartupRow

LEMMA LockStep ==
  ASSUME WInv, NEW s \in Starters, Lock(s)
  PROVE  WInv'
<1> DEFINE w == startup[s].w
<1>1. Rows /\ w \in Workspaces /\ startup[s].pc = "lock" /\ UNCHANGED <<launch, disturbed>>
  BY Called DEF WInv, Lock, runs, count
<1>2. CASE workspace' = workspace /\ EndStartup(s)
  BY <1>1, <1>2, CallEnds
<1>3. CASE /\ workspace[w].state \in {"uninitialized", "stopped"}
           /\ SetState(w, "launching") /\ StartupStep(s, "pick")
  <2>1. /\ workspace' \in [Workspaces -> Row] /\ workspace'[w].state = "launching"
        /\ \A v \in Workspaces \ {w} : workspace'[v].state = workspace[v].state
    BY <1>1, <1>3, StateSet DEF States
  <2>2. /\ startup' \in [Starters -> StartupRow] /\ startup'[s].pc = "pick" /\ startup'[s].w = w
        /\ \A t \in Starters \ {s} : startup'[t] = startup[t]
    BY <1>1, <1>3, StartupStepped
  <2>3. Rows'
    BY <1>1, <2>1, <2>2 DEF Rows
  <2>4. ASSUME ~disturbed', NEW v \in Workspaces
        PROVE  OneLaunch(v)'
    <3>1. OneLaunch(v) /\ OneLaunch(w)
      BY <1>1, <2>4 DEF WInv
    <3>2. CASE v = w
      <4>1. /\ \A t \in Starters : ~StartsLaunch(t, v)
            /\ \A u \in Launches : ~Launching(u, v)
        BY <1>3, <3>1, <3>2 DEF OneLaunch
      <4>2. /\ \A t \in Starters : StartsLaunch(t, v)' => t = s
            /\ \A u \in Launches : ~Launching(u, v)'
        BY <1>1, <2>2, <4>1 DEF StartsLaunch, Launching
      <4>3. workspace'[v].state = "launching"
        BY <2>1, <3>2
      <4>4. QED
        BY <4>2, <4>3 DEF OneLaunch
    <3>3. CASE v # w
      <4>1. /\ \A t \in Starters : StartsLaunch(t, v)' => StartsLaunch(t, v)
            /\ \A u \in Launches : Launching(u, v)' => Launching(u, v)
            /\ workspace'[v].state = workspace[v].state
        BY <1>1, <2>1, <2>2, <3>3 DEF StartsLaunch, Launching
      <4>2. QED
        BY <3>1, <4>1 DEF OneLaunch
    <3>4. QED
      BY <3>2, <3>3
  <2>5. QED
    BY <2>3, <2>4 DEF WInv
<1>4. QED
  BY <1>2, <1>3 DEF Lock

LEMMA PickHostStep ==
  ASSUME WInv, NEW s \in Starters, PickHost(s)
  PROVE  WInv'
<1>1. PICK h \in Hosts : startup' = [startup EXCEPT ![s].pc = "write", ![s].host = h]
  BY DEF PickHost
<1> DEFINE r == [startup[s] EXCEPT !.pc = "write", !.host = h]
<1>2. Rows /\ startup[s] \in StartupRow /\ startup[s].pc = "pick"
      /\ UNCHANGED <<workspace, launch, disturbed>>
  BY DEF WInv, Rows, PickHost, runs, count
<1>3. r \in StartupRow /\ r.pc = "write" /\ r.w = startup[s].w
  BY <1>2 DEF StartupRow
<1>4. startup' = [startup EXCEPT ![s] = r]
  BY <1>1, <1>2 DEF Rows
<1>5. /\ startup' \in [Starters -> StartupRow] /\ startup'[s] = r
      /\ \A t \in Starters \ {s} : startup'[t] = startup[t]
  BY <1>2, <1>3, <1>4, StartupMoves
<1>6. \A t \in Starters : startup'[t].pc \in {"pick", "write", "init"} =>
        startup'[t].w = startup[t].w /\ startup[t].pc \in {"pick", "write", "init"}
  BY <1>2, <1>3, <1>5
<1>7. QED
  BY <1>2, <1>5, <1>6, StatesChange DEF Rows

LEMMA WriteHostStep ==
  ASSUME WInv, NEW s \in Starters, WriteHost(s)
  PROVE  WInv'
<1>1. Rows /\ startup[s] \in StartupRow /\ startup[s].pc = "write" /\ startup[s].w \in Workspaces
      /\ UNCHANGED <<launch, disturbed>> /\ StartupStep(s, "init")
      /\ workspace' = [workspace EXCEPT ![startup[s].w].host = startup[s].host]
  BY Called DEF WInv, Rows, WriteHost, runs, count
<1>2. startup[s].host \in Hosts \cup {NoHost}
  BY <1>1 DEF StartupRow
<1>3. /\ workspace' \in [Workspaces -> Row]
      /\ \A v \in Workspaces : workspace'[v].state = workspace[v].state
  BY <1>1, <1>2 DEF Rows, Row
<1>4. /\ startup' \in [Starters -> StartupRow] /\ startup'[s].pc = "init"
      /\ startup'[s].w = startup[s].w
      /\ \A t \in Starters \ {s} : startup'[t] = startup[t]
  BY <1>1, StartupStepped
<1>5. \A t \in Starters : startup'[t].pc \in {"pick", "write", "init"} =>
        startup'[t].w = startup[t].w /\ startup[t].pc \in {"pick", "write", "init"}
  BY <1>1, <1>4
<1>6. QED
  BY <1>1, <1>3, <1>4, <1>5, StatesChange DEF Rows

LEMMA GiveUpStep ==
  ASSUME WInv, NEW s \in Starters, GiveUp(s)
  PROVE  WInv'
<1>1. startup[s].w \in Workspaces
  BY Called DEF GiveUp
<1>2. QED
  BY <1>1, CallEnds DEF GiveUp, runs

\* The server hands the launch over to a host, or stops the workspace.
LEMMA ControlStep ==
  ASSUME WInv, NEW s \in Starters, Control(s)
  PROVE  WInv'
<1> DEFINE w == startup[s].w
<1> DEFINE h == workspace[w].host
<1>1. Rows /\ w \in Workspaces /\ startup[s].pc = "init" /\ EndStartup(s)
  BY Called DEF WInv, Control
<1>2. CASE Stop(w) /\ launch' = launch
  BY <1>1, <1>2, CallEnds
<1>3. ASSUME UNCHANGED <<workspace, disturbed>>, NEW u \in Launches, launch[u].pc = "none",
             launch' = [launch EXCEPT ![u] = [NoLaunch EXCEPT !.pc = "uuid", !.w = w, !.host = h]]
      PROVE  WInv'
  <2> DEFINE r == [NoLaunch EXCEPT !.pc = "uuid", !.w = w, !.host = h]
  <2>1. h \in Hosts \cup {NoHost}
    BY <1>1 DEF Rows, Row
  <2>2. r \in LaunchRow /\ r.pc = "uuid" /\ r.w = w
    BY <1>1, <2>1 DEF LaunchRow, NoLaunch
  <2>3. /\ launch' \in [Launches -> LaunchRow] /\ launch'[u] = r
        /\ \A v \in Launches \ {u} : launch'[v] = launch[v]
    BY <1>1, <1>3, <2>2, LaunchMoves
  <2>4. /\ startup' \in [Starters -> StartupRow] /\ startup'[s].pc = "idle"
        /\ \A t \in Starters \ {s} : startup'[t] = startup[t]
    BY <1>1, Ended
  <2>5. Rows'
    BY <1>1, <1>3, <2>3, <2>4 DEF Rows
  <2>6. ASSUME ~disturbed', NEW v \in Workspaces
        PROVE  OneLaunch(v)'
    <3>1. OneLaunch(v)
      BY <1>3, <2>6 DEF WInv
    <3>2. \A t \in Starters : StartsLaunch(t, v)' => StartsLaunch(t, v) /\ t # s
      BY <2>4 DEF StartsLaunch
    <3>3. CASE v = w
      <4>1. StartsLaunch(s, v)
        BY <1>1, <3>3 DEF StartsLaunch
      <4>2. /\ \A t \in Starters : StartsLaunch(t, v) => t = s
            /\ \A y \in Launches : ~Launching(y, v)
            /\ workspace[v].state = "launching"
        BY <3>1, <4>1 DEF OneLaunch
      <4>3. \A y \in Launches : Launching(y, v)' => y = u
        BY <2>3, <4>2 DEF Launching
      <4>4. \A t \in Starters : ~StartsLaunch(t, v)'
        BY <3>2, <4>2
      <4>5. QED
        BY <1>3, <4>2, <4>3, <4>4 DEF OneLaunch
    <3>4. CASE v # w
      <4>1. \A y \in Launches : Launching(y, v)' => Launching(y, v)
        BY <2>2, <2>3, <3>4 DEF Launching
      <4>2. QED
        BY <1>3, <3>1, <3>2, <4>1 DEF OneLaunch
    <3>5. QED
      BY <3>3, <3>4
  <2>7. QED
    BY <2>5, <2>6 DEF WInv
<1>4. QED
  BY <1>2, <1>3 DEF Control

LEMMA InitializeFailsStep ==
  ASSUME WInv, NEW s \in Starters, InitializeFails(s)
  PROVE  WInv'
<1>1. startup[s].w \in Workspaces
  BY Called DEF InitializeFails
<1>2. QED
  BY <1>1, CallEnds DEF InitializeFails, runs

LEMMA CrashServerStep ==
  ASSUME WInv, NEW s \in Starters, CrashServer(s)
  PROVE  WInv'
BY CallEnds DEF CrashServer, runs

-----------------------------------------------------------------------------
(* A launch on a host. *)

LEMMA Launched ==
  ASSUME WInv, NEW u \in Launches, launch[u].pc \notin {"none", "over"}
  PROVE  launch[u].w \in Workspaces
BY DEF WInv, Rows, LaunchRow

LEMMA SetUuidStep ==
  ASSUME WInv, NEW u \in Launches, SetUuid(u)
  PROVE  WInv'
<1> DEFINE w == launch[u].w
<1> DEFINE r == [launch[u] EXCEPT !.pc = "create", !.version = workspace[w].version]
<1>1. Rows /\ w \in Workspaces /\ launch[u] \in LaunchRow /\ launch[u].pc = "uuid"
      /\ UNCHANGED <<startup, disturbed>> /\ workspace' = [workspace EXCEPT ![w].uuid = u]
  BY Launched DEF WInv, Rows, SetUuid, count
<1>2. /\ workspace' \in [Workspaces -> Row]
      /\ \A v \in Workspaces : workspace'[v].state = workspace[v].state
  BY <1>1 DEF Rows, Row
<1>3. workspace[w].version \in Nat
  BY <1>1 DEF Rows, Row
<1>4. r \in LaunchRow /\ r.pc = "create" /\ r.w = w
  BY <1>1, <1>3 DEF LaunchRow
<1>5. launch' = [launch EXCEPT ![u] = r]
  BY DEF SetUuid
<1>6. /\ launch' \in [Launches -> LaunchRow] /\ launch'[u] = r
      /\ \A v \in Launches \ {u} : launch'[v] = launch[v]
  BY <1>1, <1>4, <1>5, LaunchMoves
<1>7. \A v \in Launches : launch'[v].pc \in {"uuid", "create", "check", "run"} =>
        launch'[v].w = launch[v].w /\ launch[v].pc \in {"uuid", "create", "check", "run"}
  BY <1>1, <1>4, <1>6
<1>8. QED
  BY <1>1, <1>2, <1>6, <1>7, StatesChange DEF Rows

\* A launch goes on or is over, and its workspace keeps its state, is stopped,
\* or leaves the launching state with it.
LEMMA LaunchGoesOn ==
  ASSUME WInv, NEW u \in Launches, NEW step \in {"check", "run", "over"},
         launch[u].pc \notin {"none", "over"}, LaunchStep(u, step), UNCHANGED startup,
         \/ Stop(launch[u].w)
         \/ UNCHANGED <<workspace, disturbed>>
  PROVE  WInv'
<1>1. Rows
  BY DEF WInv
<1>2. /\ launch' \in [Launches -> LaunchRow]
      /\ launch'[u].pc = step /\ launch'[u].w = launch[u].w
      /\ \A v \in Launches \ {u} : launch'[v] = launch[v]
  BY <1>1, LaunchStepped
<1>3. /\ workspace' \in [Workspaces -> Row] /\ (disturbed => disturbed')
      /\ \A v \in Workspaces : \/ workspace'[v].state = workspace[v].state
                               \/ workspace[v].state # "launching"
                               \/ disturbed'
  BY <1>1, Stopped DEF Rows
<1>4. launch[u].pc \in {"uuid", "create", "check", "run"}
  BY <1>1 DEF Rows, LaunchRow
<1>5. \A v \in Launches : launch'[v].pc \in {"uuid", "create", "check", "run"} =>
        launch'[v].w = launch[v].w /\ launch[v].pc \in {"uuid", "create", "check", "run"}
  BY <1>2, <1>4
<1>6. QED
  BY <1>1, <1>2, <1>3, <1>5, StatesChange DEF Rows

LEMMA CreateStep ==
  ASSUME WInv, NEW u \in Launches, Create(u)
  PROVE  WInv'
<1>1. PICK step \in {"check", "over"} :
        /\ LaunchStep(u, step) /\ launch[u].pc = "create" /\ UNCHANGED startup
        /\ Stop(launch[u].w) \/ UNCHANGED <<workspace, disturbed>>
  BY DEF Create
<1>2. QED
  BY <1>1, LaunchGoesOn

LEMMA LaunchFailsStep ==
  ASSUME WInv, NEW u \in Launches, LaunchFails(u)
  PROVE  WInv'
BY LaunchGoesOn DEF LaunchFails

LEMMA CheckUuidStep ==
  ASSUME WInv, NEW u \in Launches, CheckUuid(u)
  PROVE  WInv'
<1>1. PICK step \in {"run", "over"} : LaunchStep(u, step)
  BY DEF CheckUuid
<1>2. QED
  BY <1>1, LaunchGoesOn DEF CheckUuid, count

\* The only launch of the workspace ends with it running.
LEMMA RunningStep ==
  ASSUME WInv, NEW u \in Launches, Running(u)
  PROVE  WInv'
<1> DEFINE w == launch[u].w
<1>1. Rows /\ w \in Workspaces /\ launch[u].pc = "run" /\ SetState(w, "running")
      /\ LaunchStep(u, "over") /\ UNCHANGED <<startup, disturbed>>
  BY Launched DEF WInv, Running, count
<1>2. /\ workspace' \in [Workspaces -> Row]
      /\ \A v \in Workspaces \ {w} : workspace'[v].state = workspace[v].state
  BY <1>1, StateSet DEF States
<1>3. /\ launch' \in [Launches -> LaunchRow] /\ launch'[u].pc = "over"
      /\ \A y \in Launches \ {u} : launch'[y] = launch[y]
  BY <1>1, LaunchStepped
<1>4. Rows'
  BY <1>1, <1>2, <1>3 DEF Rows
<1>5. ASSUME ~disturbed', NEW v \in Workspaces
      PROVE  OneLaunch(v)'
  <2>1. OneLaunch(v)
    BY <1>1, <1>5 DEF WInv
  <2>2. /\ \A s \in Starters : StartsLaunch(s, v)' <=> StartsLaunch(s, v)
        /\ \A y \in Launches : Launching(y, v)' => Launching(y, v) /\ y # u
    BY <1>1, <1>3 DEF StartsLaunch, Launching
  <2>3. CASE v = w
    <3>1. Launching(u, v)
      BY <1>1, <2>3 DEF Launching
    <3>2. /\ \A s \in Starters : ~StartsLaunch(s, v)'
          /\ \A y \in Launches : ~Launching(y, v)'
      BY <2>1, <2>2, <3>1 DEF OneLaunch
    <3>3. QED
      BY <3>2 DEF OneLaunch
  <2>4. CASE v # w
    BY <1>2, <2>1, <2>2, <2>4 DEF OneLaunch
  <2>5. QED
    BY <2>3, <2>4
<1>6. QED
  BY <1>4, <1>5 DEF WInv

-----------------------------------------------------------------------------
(* Hosts. *)

\* A stopped workspace is taken off its host; its state stays.
LEMMA ClearStep ==
  ASSUME WInv, NEW h \in Hosts, Clear(h)
  PROVE  WInv'
<1>1. Rows /\ UNCHANGED <<startup, launch, disturbed>>
  BY DEF WInv, Clear, count
<1>2. PICK w : workspace' = [workspace EXCEPT ![w].uuid = 0, ![w].host = NoHost]
  BY DEF Clear
<1>3. /\ workspace' \in [Workspaces -> Row]
      /\ \A v \in Workspaces : workspace'[v].state = workspace[v].state
  BY <1>1, <1>2 DEF Rows, Row
<1>4. QED
  BY <1>1, <1>3, StatesChange DEF Rows

LEMMA RecoverStep ==
  ASSUME WInv, NEW h \in Hosts, Recover(h)
  PROVE  WInv'
<1> DEFINE here      == {w \in Workspaces : workspace[w].host = h /\ Active(w)}
           launching == {w \in here : workspace[w].state = "launching"}
<1>1. /\ Rows /\ UNCHANGED <<startup, launch>> /\ Disturb(launching)
      /\ workspace' = [w \in Workspaces |-> IF w \in launching
           THEN [workspace[w] EXCEPT !.state = "stopped", !.uuid = 0, !.host = NoHost]
           ELSE workspace[w]]
  BY DEF WInv, Recover
<1> HIDE DEF here
<1>2. \A w \in Workspaces : /\ workspace[w] \in Row
        /\ [workspace[w] EXCEPT !.state = "stopped", !.uuid = 0, !.host = NoHost] \in Row
  BY <1>1 DEF Rows, Row, States
<1>3. workspace' \in [Workspaces -> Row]
  BY <1>1, <1>2
<1>4. \A w \in Workspaces : \/ workspace'[w].state = workspace[w].state
                            \/ workspace[w].state # "launching"
                            \/ disturbed'
  BY <1>1 DEF Disturb
<1>5. QED
  BY <1>1, <1>3, <1>4, StatesChange DEF Rows, Disturb

LEMMA MarkTerminatedStep ==
  ASSUME WInv, NEW h \in Hosts, MarkTerminated(h)
  PROVE  WInv'
<1> DEFINE here == {w \in Workspaces : workspace[w].host = h}
<1>1. /\ Rows /\ UNCHANGED <<startup, launch>> /\ Disturb(here)
      /\ workspace' = [w \in Workspaces |-> IF w \in here
           THEN [workspace[w] EXCEPT !.state = "stopped"] ELSE workspace[w]]
  BY DEF WInv, MarkTerminated, runs
<1>2. \A w \in Workspaces : /\ workspace[w] \in Row
                            /\ [workspace[w] EXCEPT !.state = "stopped"] \in Row
  BY <1>1 DEF Rows, Row, States
<1>3. workspace' \in [Workspaces -> Row]
  BY <1>1, <1>2
<1>4. \A w \in Workspaces : \/ workspace'[w].state = workspace[w].state
                            \/ workspace[w].state # "launching"
                            \/ disturbed'
  BY <1>1 DEF Disturb
<1>5. QED
  BY <1>1, <1>3, <1>4, StatesChange DEF Rows, Disturb

\* The process or the machine of a host ends.
LEMMA HostEnds ==
  ASSUME WInv, NEW h \in Hosts, launch' = EndLaunches(h), UNCHANGED <<workspace, startup, disturbed>>
  PROVE  WInv'
<1>1. Rows
  BY DEF WInv
<1>2. /\ launch' \in [Launches -> LaunchRow]
      /\ \A u \in Launches : launch'[u].pc \in {"uuid", "create", "check", "run"} =>
           launch'[u] = launch[u]
  BY <1>1, LaunchesEnd
<1>3. QED
  BY <1>1, <1>2, StatesChange DEF Rows

-----------------------------------------------------------------------------
(* Timeouts and users. *)

LEMMA StopStep ==
  ASSUME WInv, NEW w \in Workspaces, Stop(w), UNCHANGED <<startup, launch>>
  PROVE  WInv'
<1>1. Rows
  BY DEF WInv
<1>2. QED
  BY <1>1, Stopped, StatesChange DEF Rows

LEMMA ResetStep ==
  ASSUME WInv, NEW w \in Workspaces, Reset(w)
  PROVE  WInv'
<1>1. Rows /\ UNCHANGED <<startup, launch>> /\ SetState(w, "uninitialized") /\ Disturb({w})
  BY DEF WInv, Reset, runs
<1>2. /\ workspace' \in [Workspaces -> Row]
      /\ \A v \in Workspaces \ {w} : workspace'[v].state = workspace[v].state
  BY <1>1, StateSet DEF States
<1>3. \A v \in Workspaces : \/ workspace'[v].state = workspace[v].state
                            \/ workspace[v].state # "launching"
                            \/ disturbed'
  BY <1>1, <1>2 DEF Disturb
<1>4. QED
  BY <1>1, <1>2, <1>3, StatesChange DEF Rows, Disturb

LEMMA IncrementVersionStep ==
  ASSUME WInv, NEW w \in Workspaces, IncrementVersion(w)
  PROVE  WInv'
<1>1. Rows /\ UNCHANGED <<startup, launch, disturbed>>
      /\ workspace' = [workspace EXCEPT ![w].version = @ + 1]
  BY DEF WInv, IncrementVersion, runs, count
<1>2. workspace[w].version + 1 \in Nat
  BY <1>1 DEF Rows, Row
<1>3. /\ workspace' \in [Workspaces -> Row]
      /\ \A v \in Workspaces : workspace'[v].state = workspace[v].state
  BY <1>1, <1>2 DEF Rows, Row
<1>4. QED
  BY <1>1, <1>3, StatesChange DEF Rows

-----------------------------------------------------------------------------
(* The invariant. *)

LEMMA WInit == Init => WInv
<1> SUFFICES ASSUME Init PROVE WInv
  OBVIOUS
<1>1. [state |-> "uninitialized", version |-> 1, host |-> NoHost, uuid |-> 0] \in Row
  BY DEF Row, States
<1>2. NoStartup \in StartupRow /\ NoStartup.pc = "idle"
  BY DEF NoStartup, StartupRow, States
<1>3. NoLaunch \in LaunchRow /\ NoLaunch.pc = "none"
  BY DEF NoLaunch, LaunchRow
<1>4. Rows
  BY <1>1, <1>2, <1>3 DEF Init, Rows
<1>5. /\ \A s \in Starters : startup[s].pc = "idle"
      /\ \A u \in Launches : launch[u].pc = "none"
  BY <1>2, <1>3 DEF Init
<1>6. \A w \in Workspaces : OneLaunch(w)
  BY <1>5 DEF OneLaunch, StartsLaunch, Launching
<1>7. QED
  BY <1>4, <1>6 DEF WInv

LEMMA ServerSteps ==
  ASSUME WInv, NEW s \in Starters, ServerStep(s)
  PROVE  WInv'
BY InitializeStep, LockStep, PickHostStep, WriteHostStep, GiveUpStep, ControlStep DEF ServerStep

LEMMA LaunchingSteps ==
  ASSUME WInv, NEW u \in Launches, LaunchingStep(u)
  PROVE  WInv'
BY SetUuidStep, CreateStep, CheckUuidStep, RunningStep DEF LaunchingStep

LEMMA PruneSteps ==
  ASSUME WInv, NEW h \in Hosts, PruneStep(h)
  PROVE  WInv'
<1>1. CASE ReadStopped(h)
  BY <1>1, Untouched DEF ReadStopped, runs, count
<1>2. CASE ReadRunning(h)
  BY <1>2, Untouched DEF ReadRunning, runs, count
<1>3. CASE PruneRunaways(h)
  BY <1>3, Untouched DEF PruneRunaways, count
<1>4. QED
  BY <1>1, <1>2, <1>3, ClearStep, RecoverStep DEF PruneStep

LEMMA HostSteps ==
  ASSUME WInv, NEW h \in Hosts, Boot(h) \/ Unhealthy(h) \/ FindTerminable(h) \/ Scale(h)
  PROVE  WInv'
<1>1. UNCHANGED <<workspace, startup, launch, disturbed>>
  BY DEF Boot, Unhealthy, FindTerminable, Scale, runs, count
<1>2. QED
  BY <1>1, Untouched

LEMMA CronSteps ==
  ASSUME WInv, CronStep
  PROVE  WInv'
<1>1. ASSUME NEW h \in Hosts, Terminate(h)
      PROVE  WInv'
  BY <1>1, HostEnds DEF Terminate, count
<1>2. ASSUME NEW w \in Workspaces, SelectTimeout(w)
      PROVE  WInv'
  BY <1>2, Untouched DEF SelectTimeout, runs, count
<1>3. ASSUME NEW w \in Workspaces, StopTimeout(w)
      PROVE  WInv'
  BY <1>3, StopStep DEF StopTimeout, runs
<1>4. QED
  BY <1>1, <1>2, <1>3, HostSteps, MarkTerminatedStep DEF CronStep

LEMMA WNext ==
  ASSUME WInv, [Next]_vars
  PROVE  WInv'
<1>1. CASE UNCHANGED vars
  BY <1>1, Untouched DEF vars
<1>2. CASE Progress
  BY <1>2, ServerSteps, LaunchingSteps, HostSteps, IncrementVersionStep, CronSteps DEF Progress
<1>3. ASSUME NEW h \in Hosts, CrashHost(h)
      PROVE  WInv'
  BY <1>3, HostEnds DEF CrashHost
<1>4. ASSUME NEW w \in Workspaces, Reboot(w)
      PROVE  WInv'
  BY <1>4, StopStep DEF Reboot, runs
<1>5. QED
  BY <1>1, <1>2, <1>3, <1>4, PruneSteps, HostSteps, InitializeFailsStep, CrashServerStep,
     OpenStep, LaunchFailsStep, ResetStep DEF Next

\* Every workspace has one launch under way at most, on a server or on a host,
\* and is in the launching state for as long, until a stop, a reset, a timeout
\* or a restart of its host cuts the launch short.
THEOREM LaunchesExclude == Spec => []WInv
<1>1. WInv /\ [Next]_vars => WInv'
  BY WNext
<1>2. QED
  BY WInit, <1>1, PTL DEF Spec

\* Only one server looks for a host of a workspace (OneAssigner, startup() in
\* lib/workspace.ts), for any number of servers, workspaces and hosts.
THEOREM LaunchedByOne == Spec => []OneAssigner
<1>1. WInv => OneAssigner
  <2> SUFFICES ASSUME WInv, ~disturbed, NEW w \in Workspaces
               PROVE  Cardinality(Assigning(w)) <= 1
    BY DEF OneAssigner
  <2>1. \A s, t \in Assigning(w) : s = t
    BY DEF WInv, OneLaunch, StartsLaunch, Assigning
  <2>2. CASE Assigning(w) = {}
    BY <2>2, FS_EmptySet
  <2>3. ASSUME NEW s \in Assigning(w)
        PROVE  Cardinality(Assigning(w)) <= 1
    <3>1. Assigning(w) = {s}
      BY <2>1, <2>3
    <3>2. Cardinality({s}) = 1
      BY FS_Singleton, Zenon
    <3>3. QED
      BY <3>1, <3>2
  <2>4. QED
    BY <2>2, <2>3
<1>2. QED
  BY <1>1, LaunchesExclude, PTL

-----------------------------------------------------------------------------
(* The files of a workspace. *)

\* What a server or a host does is for the version that was current when it
\* read the row, or an earlier one; later versions have no files yet.
VersionsPass ==
  /\ \A s \in Starters : startup[s].pc # "idle" =>
       startup[s].version <= workspace[startup[s].w].version
  /\ \A u \in Launches : launch[u].pc \in {"create", "check", "run"} =>
       launch[u].version <= workspace[launch[u].w].version
  /\ \A w \in Workspaces : \A v \in Versions :
       v > workspace[w].version => home[w][v] = "none"

\* After a reset nobody has worked in the new version before it is initialized.
FreshAfterReset ==
  \A w \in Workspaces : \A v \in Versions :
    workspace[w].state = "uninitialized" /\ w \notin resetting /\ v = workspace[w].version =>
      home[w][v] # "used"

Homes == home \in [Workspaces -> [Versions -> {"none", "fresh", "used"}]]

KInv ==
  /\ WInv /\ Homes /\ VersionsPass /\ FreshAfterReset
  /\ \A w \in Workspaces : workspace[w].version >= 1

\* A step with which no version is given out or passed, no files change, and no
\* workspace becomes uninitialized.
LEMMA FilesStay ==
  ASSUME KInv, WInv', UNCHANGED <<home, resetting>>,
         \A s \in Starters : startup'[s].pc # "idle" =>
           /\ startup[s].pc # "idle" /\ startup'[s].w = startup[s].w
           /\ startup'[s].version = startup[s].version,
         \A u \in Launches : launch'[u].pc \in {"create", "check", "run"} =>
           /\ launch[u].pc \in {"create", "check", "run"} /\ launch'[u].w = launch[u].w
           /\ launch'[u].version = launch[u].version,
         \A w \in Workspaces :
           /\ workspace'[w].version = workspace[w].version
           /\ workspace'[w].state # "uninitialized" \/ workspace'[w].state = workspace[w].state
  PROVE  KInv'
<1>1. Rows
  BY DEF KInv, WInv
<1>2. \A s \in Starters : startup[s].pc # "idle" => startup[s].w \in Workspaces
  BY <1>1 DEF Rows, StartupRow
<1>3. \A u \in Launches : launch[u].pc \in {"create", "check", "run"} => launch[u].w \in Workspaces
  BY <1>1 DEF Rows, LaunchRow
<1>4. VersionsPass'
  BY <1>2, <1>3 DEF KInv, VersionsPass
<1>5. FreshAfterReset' /\ Homes'
  BY DEF KInv, FreshAfterReset, Homes
<1>6. QED
  BY <1>4, <1>5 DEF KInv

\* No workspace is given a version or initialized anew.
RowsStay ==
  \A w \in Workspaces :
    /\ workspace'[w].version = workspace[w].version
    /\ workspace'[w].state # "uninitialized" \/ workspace'[w].state = workspace[w].state

LEMMA StateSetRows ==
  ASSUME Rows, NEW w, NEW state \in States \ {"uninitialized"}, SetState(w, state)
  PROVE  RowsStay
BY DEF Rows, Row, SetState, RowsStay

LEMMA StopRows ==
  ASSUME Rows, NEW w, Stop(w)
  PROVE  RowsStay
BY StateSetRows DEF Stop, States

\* No server reads a version; no host does.
CallsStay ==
  \A s \in Starters : startup'[s].pc # "idle" =>
    /\ startup[s].pc # "idle" /\ startup'[s].w = startup[s].w
    /\ startup'[s].version = startup[s].version

LaunchesStay ==
  \A u \in Launches : launch'[u].pc \in {"create", "check", "run"} =>
    /\ launch[u].pc \in {"create", "check", "run"} /\ launch'[u].w = launch[u].w
    /\ launch'[u].version = launch[u].version

LEMMA Kept ==
  ASSUME KInv, WInv', UNCHANGED <<home, resetting>>, CallsStay, LaunchesStay, RowsStay
  PROVE  KInv'
BY FilesStay DEF CallsStay, LaunchesStay, RowsStay

LEMMA EndedStays ==
  ASSUME Rows, NEW s \in Starters, EndStartup(s)
  PROVE  CallsStay
BY Ended DEF CallsStay

LEMMA SteppedStays ==
  ASSUME Rows, NEW s \in Starters, NEW step, StartupStep(s, step), startup[s].pc # "idle"
  PROVE  CallsStay
BY DEF Rows, StartupRow, StartupStep, CallsStay

LEMMA LaunchSteppedStays ==
  ASSUME Rows, NEW u \in Launches, NEW step \in {"check", "run", "over"}, LaunchStep(u, step),
         launch[u].pc \in {"create", "check", "run"}
  PROVE  LaunchesStay
BY DEF Rows, LaunchRow, LaunchStep, LaunchesStay

LEMMA SameStays ==
  /\ UNCHANGED workspace => RowsStay
  /\ UNCHANGED startup => CallsStay
  /\ UNCHANGED launch => LaunchesStay
BY DEF RowsStay, CallsStay, LaunchesStay

LEMMA OpenFiles ==
  ASSUME KInv, WInv', NEW s \in Starters, NEW w \in Workspaces, Open(s, w)
  PROVE  KInv'
<1>1. /\ UNCHANGED <<workspace, home, resetting, launch>>
      /\ startup'[s].w = w /\ startup'[s].version = 1
      /\ \A t \in Starters \ {s} : startup'[t] = startup[t]
  BY DEF Open, sites, runs, NoStartup, KInv, WInv, Rows
<1>2. VersionsPass'
  BY <1>1 DEF KInv, VersionsPass
<1>3. FreshAfterReset' /\ Homes'
  BY <1>1 DEF KInv, FreshAfterReset, Homes
<1>4. QED
  BY <1>1, <1>2, <1>3 DEF KInv

LEMMA InitializeFiles ==
  ASSUME KInv, WInv', NEW s \in Starters, Initialize(s)
  PROVE  KInv'
<1>1. /\ UNCHANGED <<workspace, home, resetting, launch>>
      /\ startup[s] \in StartupRow /\ startup[s].w \in Workspaces
      /\ startup' = [startup EXCEPT ![s].pc = "lock", ![s].version = workspace[startup[s].w].version]
  BY Called DEF Initialize, sites, runs, KInv, WInv, Rows
<1>2. /\ startup'[s].w = startup[s].w
      /\ startup'[s].version = workspace[startup[s].w].version
      /\ \A t \in Starters \ {s} : startup'[t] = startup[t]
  BY <1>1 DEF KInv, WInv, Rows, StartupRow
<1>3. workspace[startup[s].w].version \in Nat
  BY <1>1 DEF KInv, WInv, Rows, Row
<1>4. VersionsPass'
  <2>1. startup'[s].version <= workspace'[startup'[s].w].version
    BY <1>1, <1>2, <1>3
  <2>2. \A t \in Starters \ {s} : startup'[t].pc # "idle" =>
          startup'[t].version <= workspace'[startup'[t].w].version
    BY <1>1, <1>2 DEF KInv, VersionsPass
  <2>3. QED
    BY <1>1, <2>1, <2>2 DEF KInv, VersionsPass
<1>5. FreshAfterReset' /\ Homes'
  BY <1>1 DEF KInv, FreshAfterReset, Homes
<1>6. QED
  BY <1>1, <1>4, <1>5 DEF KInv

\* The files are moved into place in a version that was current once.
LEMMA LockFiles ==
  ASSUME KInv, WInv', NEW s \in Starters, Lock(s)
  PROVE  KInv'
<1> DEFINE w == startup[s].w
           v == startup[s].version
<1>1. /\ Rows /\ w \in Workspaces /\ startup[s].pc = "lock" /\ UNCHANGED <<resetting, launch>>
      /\ \/ UNCHANGED home
         \/ home' = [home EXCEPT ![w][v] = "fresh"]
      /\ \/ UNCHANGED workspace /\ EndStartup(s)
         \/ SetState(w, "launching") /\ StartupStep(s, "pick")
  BY Called DEF Lock, runs, KInv, WInv
<1>2. CallsStay /\ LaunchesStay /\ RowsStay
  BY <1>1, EndedStays, SteppedStays, SameStays, StateSetRows DEF States
<1>3. CASE UNCHANGED home
  BY <1>1, <1>2, <1>3, Kept
<1>4. CASE home' = [home EXCEPT ![w][v] = "fresh"]
  <2>1. v <= workspace[w].version
    BY <1>1 DEF KInv, VersionsPass
  <2>2. /\ Homes'
        /\ \A x \in Workspaces, y \in Versions :
             home'[x][y] = home[x][y] \/ (x = w /\ y = v /\ home'[x][y] = "fresh")
    BY <1>1, <1>4 DEF KInv, Homes
  <2>3. \A t \in Starters : startup[t].pc # "idle" => startup[t].w \in Workspaces
    BY <1>1 DEF Rows, StartupRow
  <2>4. \A u \in Launches : launch[u].pc \in {"create", "check", "run"} => launch[u].w \in Workspaces
    BY <1>1 DEF Rows, LaunchRow
  <2>5. v \in Nat /\ workspace[w].version \in Nat
    BY <1>1 DEF Rows, Row, StartupRow
  <2>6. \A x \in Workspaces, y \in Versions : y > workspace[x].version => home'[x][y] = "none"
    BY <2>1, <2>2, <2>5 DEF KInv, VersionsPass, Versions
  <2>7. VersionsPass'
    BY <1>2, <2>3, <2>4, <2>6 DEF KInv, VersionsPass, CallsStay, LaunchesStay, RowsStay
  <2>8. FreshAfterReset'
    BY <1>1, <1>2, <2>2 DEF KInv, FreshAfterReset, RowsStay
  <2>9. QED
    BY <1>2, <2>2, <2>7, <2>8 DEF KInv, RowsStay
<1>5. QED
  BY <1>1, <1>3, <1>4

LEMMA SetUuidFiles ==
  ASSUME KInv, WInv', NEW u \in Launches, SetUuid(u)
  PROVE  KInv'
<1> DEFINE w == launch[u].w
<1>1. /\ Rows /\ w \in Workspaces /\ UNCHANGED <<home, resetting, startup>>
      /\ workspace' = [workspace EXCEPT ![w].uuid = u]
      /\ launch' = [launch EXCEPT ![u].pc = "create", ![u].version = workspace[w].version]
  BY Launched DEF SetUuid, sites, KInv, WInv
<1>2. \A x \in Workspaces : /\ workspace'[x].version = workspace[x].version
                            /\ workspace'[x].state = workspace[x].state
  BY <1>1 DEF Rows, Row
<1>3. /\ launch'[u].w = w /\ launch'[u].version = workspace[w].version
      /\ \A x \in Launches \ {u} : launch'[x] = launch[x]
  BY <1>1 DEF Rows, LaunchRow
<1>4. workspace[w].version \in Nat
  BY <1>1 DEF Rows, Row
<1>5. \A t \in Starters : startup[t].pc # "idle" => startup[t].w \in Workspaces
  BY <1>1 DEF Rows, StartupRow
<1>6. \A x \in Launches : launch[x].pc \in {"create", "check", "run"} => launch[x].w \in Workspaces
  BY <1>1 DEF Rows, LaunchRow
<1>7. VersionsPass'
  <2>1. launch'[u].version <= workspace'[launch'[u].w].version
    BY <1>1, <1>2, <1>3, <1>4
  <2>2. \A x \in Launches \ {u} : launch'[x].pc \in {"create", "check", "run"} =>
          launch'[x].version <= workspace'[launch'[x].w].version
    BY <1>2, <1>3, <1>6 DEF KInv, VersionsPass
  <2>3. \A t \in Starters : startup'[t].pc # "idle" =>
          startup'[t].version <= workspace'[startup'[t].w].version
    BY <1>1, <1>2, <1>5 DEF KInv, VersionsPass
  <2>4. \A x \in Workspaces, v \in Versions : v > workspace'[x].version => home'[x][v] = "none"
    BY <1>1, <1>2 DEF KInv, VersionsPass
  <2>5. QED
    BY <2>1, <2>2, <2>3, <2>4 DEF VersionsPass
<1>8. FreshAfterReset' /\ Homes'
  BY <1>1, <1>2 DEF KInv, FreshAfterReset, Homes
<1>9. QED
  BY <1>2, <1>7, <1>8 DEF KInv

\* A workspace that is let in is not uninitialized any more.
LEMMA RunningFiles ==
  ASSUME KInv, WInv', NEW u \in Launches, Running(u)
  PROVE  KInv'
<1> DEFINE w == launch[u].w
           v == launch[u].version
<1>1. /\ Rows /\ w \in Workspaces /\ launch[u].pc = "run" /\ UNCHANGED <<resetting, startup>>
      /\ SetState(w, "running") /\ LaunchStep(u, "over")
      /\ home' = [home EXCEPT ![w][v] = "used"]
  BY Launched DEF Running, KInv, WInv
<1>2. CallsStay /\ LaunchesStay /\ RowsStay
  BY <1>1, SameStays, LaunchSteppedStays, StateSetRows DEF States
<1>3. v <= workspace[w].version /\ v \in Nat /\ workspace[w].version \in Nat
  BY <1>1 DEF KInv, VersionsPass, Rows, Row, LaunchRow
<1>4. /\ Homes'
      /\ \A x \in Workspaces, y \in Versions : home'[x][y] = home[x][y] \/ (x = w /\ y = v)
  BY <1>1 DEF KInv, Homes
<1>5. \A t \in Starters : startup[t].pc # "idle" => startup[t].w \in Workspaces
  BY <1>1 DEF Rows, StartupRow
<1>6. \A x \in Launches : launch[x].pc \in {"create", "check", "run"} => launch[x].w \in Workspaces
  BY <1>1 DEF Rows, LaunchRow
<1>7. \A x \in Workspaces, y \in Versions : y > workspace[x].version => home'[x][y] = "none"
  BY <1>3, <1>4 DEF KInv, VersionsPass, Versions
<1>8. VersionsPass'
  BY <1>2, <1>5, <1>6, <1>7 DEF KInv, VersionsPass, CallsStay, LaunchesStay, RowsStay
<1>9. workspace'[w].state = "running"
  BY <1>1 DEF SetState, Rows, Row
<1>10. FreshAfterReset'
  BY <1>1, <1>2, <1>4, <1>9 DEF KInv, FreshAfterReset, RowsStay
<1>11. QED
  BY <1>2, <1>4, <1>8, <1>10 DEF KInv, RowsStay

\* The first write of a reset, which lasts until the second one gives out a
\* version that has no files.
LEMMA ResetFiles ==
  ASSUME KInv, WInv', NEW w \in Workspaces, Reset(w)
  PROVE  KInv'
<1>1. /\ Rows /\ UNCHANGED <<home, startup, launch>> /\ resetting' = resetting \cup {w}
      /\ workspace' = [workspace EXCEPT ![w].state = "uninitialized"]
  BY DEF Reset, SetState, runs, KInv, WInv
<1>2. \A x \in Workspaces : /\ workspace'[x].version = workspace[x].version
                            /\ x # w => workspace'[x].state = workspace[x].state
  BY <1>1 DEF Rows, Row
<1>3. \A t \in Starters : startup[t].pc # "idle" => startup[t].w \in Workspaces
  BY <1>1 DEF Rows, StartupRow
<1>4. \A x \in Launches : launch[x].pc \in {"create", "check", "run"} => launch[x].w \in Workspaces
  BY <1>1 DEF Rows, LaunchRow
<1>5. VersionsPass'
  BY <1>1, <1>2, <1>3, <1>4 DEF KInv, VersionsPass
<1>6. FreshAfterReset' /\ Homes'
  BY <1>1, <1>2 DEF KInv, FreshAfterReset, Homes
<1>7. QED
  BY <1>2, <1>5, <1>6 DEF KInv

LEMMA IncrementVersionFiles ==
  ASSUME KInv, WInv', NEW w \in Workspaces, IncrementVersion(w)
  PROVE  KInv'
<1>1. /\ Rows /\ UNCHANGED <<home, startup, launch>> /\ resetting' = resetting \ {w}
      /\ workspace' = [workspace EXCEPT ![w].version = @ + 1]
  BY DEF IncrementVersion, runs, KInv, WInv
<1>2. \A x \in Workspaces :
        /\ workspace[x].version \in Nat /\ workspace'[x].state = workspace[x].state
        /\ workspace'[x].version = IF x = w THEN workspace[x].version + 1 ELSE workspace[x].version
  BY <1>1 DEF Rows, Row
<1>3. \A t \in Starters : startup[t].pc # "idle" =>
        startup[t].w \in Workspaces /\ startup[t].version \in Nat
  BY <1>1 DEF Rows, StartupRow
<1>4. \A x \in Launches : launch[x].pc \in {"create", "check", "run"} =>
        launch[x].w \in Workspaces /\ launch[x].version \in Nat
  BY <1>1 DEF Rows, LaunchRow
<1>5. /\ \A s \in Starters : startup'[s].pc # "idle" =>
           startup'[s].version <= workspace'[startup'[s].w].version
      /\ \A u \in Launches : launch'[u].pc \in {"create", "check", "run"} =>
           launch'[u].version <= workspace'[launch'[u].w].version
  BY <1>1, <1>2, <1>3, <1>4 DEF KInv, VersionsPass
<1>6. \A x \in Workspaces, v \in Versions : v > workspace'[x].version => home'[x][v] = "none"
  BY <1>1, <1>2 DEF KInv, VersionsPass, Versions
<1>7. \A v \in Versions : v = workspace'[w].version => home'[w][v] = "none"
  BY <1>1, <1>2 DEF KInv, VersionsPass, Versions
<1>8. FreshAfterReset' /\ Homes'
  BY <1>1, <1>2, <1>7 DEF KInv, FreshAfterReset, Homes
<1>9. VersionsPass'
  BY <1>5, <1>6 DEF VersionsPass
<1>10. QED
  BY <1>2, <1>8, <1>9 DEF KInv

LEMMA ServerFiles ==
  ASSUME KInv, WInv', NEW s \in Starters,
         ServerStep(s) \/ InitializeFails(s) \/ CrashServer(s)
  PROVE  KInv'
<1>1. Rows
  BY DEF KInv, WInv
<1>2. CASE PickHost(s)
  <2>1. PICK h \in Hosts : startup' = [startup EXCEPT ![s].pc = "write", ![s].host = h]
    BY <1>2 DEF PickHost
  <2>2. CallsStay
    BY <1>1, <1>2, <2>1 DEF PickHost, Rows, StartupRow, CallsStay
  <2>3. QED
    BY <1>2, <2>2, SameStays, Kept DEF PickHost, sites, runs
<1>3. CASE WriteHost(s)
  <2>1. CallsStay /\ LaunchesStay
    BY <1>1, <1>3, SteppedStays, SameStays DEF WriteHost, runs
  <2>2. RowsStay
    BY <1>1, <1>3 DEF WriteHost, Rows, Row, RowsStay
  <2>3. QED
    BY <1>3, <2>1, <2>2, Kept DEF WriteHost, sites
<1>4. CASE Control(s)
  <2>1. CallsStay /\ RowsStay /\ UNCHANGED <<home, resetting>>
    BY <1>1, <1>4, EndedStays, SameStays, StopRows DEF Control, sites
  <2>2. LaunchesStay
    <3>1. CASE launch' = launch
      BY <3>1, SameStays
    <3>2. ASSUME NEW u \in Launches, NEW r, r.pc = "uuid", launch' = [launch EXCEPT ![u] = r]
          PROVE  LaunchesStay
      BY <1>1, <3>2 DEF Rows, LaunchesStay
    <3>3. QED
      BY <1>4, <3>1, <3>2 DEF Control, NoLaunch
  <2>3. QED
    BY <2>1, <2>2, Kept
<1>5. CASE GiveUp(s) \/ InitializeFails(s) \/ CrashServer(s)
  <2>1. /\ EndStartup(s) /\ UNCHANGED <<home, resetting, launch>>
        /\ UNCHANGED workspace \/ Stop(startup[s].w)
    BY <1>5 DEF GiveUp, InitializeFails, CrashServer, sites, runs
  <2>2. QED
    BY <1>1, <2>1, EndedStays, SameStays, StopRows, Kept
<1>6. QED
  BY <1>2, <1>3, <1>4, <1>5, InitializeFiles, LockFiles DEF ServerStep

LEMMA LaunchFiles ==
  ASSUME KInv, WInv', NEW u \in Launches, LaunchingStep(u) \/ LaunchFails(u)
  PROVE  KInv'
<1>1. Rows
  BY DEF KInv, WInv
<1>2. CASE Create(u) \/ CheckUuid(u) \/ LaunchFails(u)
  <2>1. PICK step \in {"check", "run", "over"} :
          /\ LaunchStep(u, step) /\ launch[u].pc \in {"create", "check"}
          /\ UNCHANGED <<home, resetting, startup>>
          /\ UNCHANGED workspace \/ Stop(launch[u].w)
    <3>1. CASE Create(u)
      BY <3>1 DEF Create, sites
    <3>2. CASE CheckUuid(u)
      BY <3>2 DEF CheckUuid, sites
    <3>3. CASE LaunchFails(u)
      BY <3>3 DEF LaunchFails, sites
    <3>4. QED
      BY <1>2, <3>1, <3>2, <3>3
  <2>2. QED
    BY <1>1, <2>1, LaunchSteppedStays, SameStays, StopRows, Kept
<1>3. QED
  BY <1>2, SetUuidFiles, RunningFiles DEF LaunchingStep

LEMMA HostFiles ==
  ASSUME KInv, WInv', NEW h \in Hosts,
         \/ PruneStep(h) \/ Scale(h) \/ CrashHost(h) \/ Boot(h)
         \/ Unhealthy(h) \/ FindTerminable(h) \/ Terminate(h) \/ MarkTerminated(h)
  PROVE  KInv'
<1>1. Rows
  BY DEF KInv, WInv
<1>2. UNCHANGED <<home, resetting, startup>>
  BY DEF PruneStep, ReadStopped, Clear, ReadRunning, PruneRunaways, Recover, Scale, CrashHost,
     Boot, Unhealthy, FindTerminable, Terminate, MarkTerminated, sites
<1>3. LaunchesStay
  <2>1. CASE UNCHANGED launch
    BY <2>1, SameStays
  <2>2. CASE launch' = EndLaunches(h)
    BY <1>1, <2>2, LaunchesEnd DEF LaunchesStay
  <2>3. QED
    BY <2>1, <2>2 DEF PruneStep, ReadStopped, Clear, ReadRunning, PruneRunaways, Recover, Scale,
       CrashHost, Boot, Unhealthy, FindTerminable, Terminate, MarkTerminated, runs
<1>4. RowsStay
  <2>1. CASE UNCHANGED workspace
    BY <2>1, SameStays
  <2>2. ASSUME Clear(h)
        PROVE  RowsStay
    <3>1. PICK w : workspace' = [workspace EXCEPT ![w].uuid = 0, ![w].host = NoHost]
      BY <2>2 DEF Clear
    <3>2. QED
      BY <1>1, <3>1 DEF Rows, Row, RowsStay
  <2>3. ASSUME Recover(h)
        PROVE  RowsStay
    <3>1. \A w \in Workspaces :
            \/ workspace'[w] = workspace[w]
            \/ workspace'[w] = [workspace[w] EXCEPT !.state = "stopped", !.uuid = 0, !.host = NoHost]
      BY <2>3 DEF Recover
    <3>2. QED
      BY <1>1, <3>1 DEF Rows, Row, RowsStay
  <2>4. ASSUME MarkTerminated(h)
        PROVE  RowsStay
    <3>1. \A w \in Workspaces : \/ workspace'[w] = workspace[w]
                                \/ workspace'[w] = [workspace[w] EXCEPT !.state = "stopped"]
      BY <2>4 DEF MarkTerminated
    <3>2. QED
      BY <1>1, <3>1 DEF Rows, Row, RowsStay
  <2>5. QED
    BY <2>1, <2>2, <2>3, <2>4 DEF PruneStep, ReadStopped, ReadRunning, PruneRunaways, Scale,
       CrashHost, Boot, Unhealthy, FindTerminable, Terminate
<1>5. QED
  BY <1>2, <1>3, <1>4, SameStays, Kept

LEMMA UserFiles ==
  ASSUME KInv, WInv', NEW w \in Workspaces, SelectTimeout(w) \/ StopTimeout(w) \/ Reboot(w)
  PROVE  KInv'
<1>1. /\ Rows /\ UNCHANGED <<home, resetting, startup, launch>>
      /\ UNCHANGED workspace \/ Stop(w)
  BY DEF KInv, WInv, SelectTimeout, StopTimeout, Reboot, runs, sites
<1>2. QED
  BY <1>1, StopRows, SameStays, Kept

LEMMA KInit == Init => KInv
<1> SUFFICES ASSUME Init PROVE KInv
  OBVIOUS
<1>1. /\ \A s \in Starters : startup[s].pc = "idle"
      /\ \A u \in Launches : launch[u].pc = "none"
      /\ \A w \in Workspaces : workspace[w].version = 1
  BY DEF Init, NoStartup, NoLaunch
<1>2. Homes /\ \A w \in Workspaces, v \in Versions : home[w][v] = "none"
  BY DEF Init, Homes
<1>3. QED
  BY <1>1, <1>2, WInit DEF KInv, VersionsPass, FreshAfterReset

LEMMA KNext ==
  ASSUME KInv, [Next]_vars
  PROVE  KInv'
<1>1. WInv'
  BY WNext DEF KInv
<1>2. CASE UNCHANGED vars
  BY <1>1, <1>2, SameStays, Kept DEF vars
<1>3. CASE Progress
  BY <1>1, <1>3, ServerFiles, LaunchFiles, HostFiles, UserFiles, IncrementVersionFiles
     DEF Progress, CronStep
<1>4. QED
  BY <1>1, <1>2, <1>3, HostFiles, ServerFiles, OpenFiles, LaunchFiles, UserFiles, ResetFiles
     DEF Next

\* Files that a user works on are never replaced (KeepsWork, startup() and the
\* two writes of a reset), for any number of servers, hosts and workspaces: only
\* a lock replaces files, of a workspace that is uninitialized, and in the
\* current version of such a workspace nobody has worked (KInv).
THEOREM WorkIsKept == Spec => KeepsWork
<1>1. KInv /\ [Next]_vars => KInv'
  BY KNext
<1>2. ASSUME KInv, [Next]_vars, NEW w \in Workspaces, NEW v \in Versions,
             home[w][v] = "used", home'[w][v] = "fresh"
      PROVE  w \in resetting \/ v # workspace[w].version
  <2>1. \/ UNCHANGED home
        \/ \E s \in Starters : Lock(s)
        \/ \E u \in Launches : Running(u)
    BY <1>2 DEF Next, Progress, ServerStep, LaunchingStep, PruneStep, CronStep, vars, sites,
       Initialize, PickHost, WriteHost, GiveUp, Control, SetUuid, Create, CheckUuid,
       ReadStopped, Clear, ReadRunning, PruneRunaways, Recover, Boot, Unhealthy,
       FindTerminable, Terminate, MarkTerminated, SelectTimeout, StopTimeout,
       IncrementVersion, Scale, CrashHost, InitializeFails, CrashServer, Open,
       LaunchFails, Reboot, Reset
  <2>2. Homes
    BY <1>2 DEF KInv
  <2>3. ASSUME NEW u \in Launches, Running(u)
        PROVE  FALSE
    <3>1. home' = [home EXCEPT ![launch[u].w][launch[u].version] = "used"]
      BY <2>3 DEF Running
    <3>2. QED
      BY <1>2, <2>2, <3>1 DEF Homes
  <2>4. ASSUME NEW s \in Starters, Lock(s)
        PROVE  workspace[w].state = "uninitialized"
    <3>1. \/ UNCHANGED home
          \/ /\ workspace[startup[s].w].state = "uninitialized"
             /\ home' = [home EXCEPT ![startup[s].w][startup[s].version] = "fresh"]
      BY <2>4 DEF Lock
    <3>2. QED
      BY <1>2, <2>2, <3>1 DEF Homes
  <2>5. workspace[w].state = "uninitialized"
    BY <1>2, <2>1, <2>3, <2>4
  <2>6. QED
    BY <1>2, <2>5 DEF KInv, FreshAfterReset
<1>3. KInv /\ [Next]_vars =>
        \A w \in Workspaces : \A v \in Versions :
          home[w][v] = "used" /\ home'[w][v] = "fresh" =>
            w \in resetting \/ v # workspace[w].version
  BY <1>2
<1>4. QED
  BY KInit, <1>1, <1>3, PTL DEF Spec, KeepsWork

=============================================================================
