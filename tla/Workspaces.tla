------------------------------ MODULE Workspaces ----------------------------
(***************************************************************************)
(* Workspaces and the hosts their containers run on.                       *)
(*                                                                         *)
(* A server that is asked to start a workspace initializes its files, puts *)
(* it on a host and asks that host for a container; the host launches it   *)
(* under a new uuid, and prunes the containers that should not be there.   *)
(* Cron jobs stop what has timed out and let hosts come and go; users      *)
(* reboot and reset.  They all write the rows of workspaces and            *)
(* workspace_hosts, most of them without looking at the state.             *)
(*                                                                         *)
(* Time limits are not counted: what may time out, may time out at once.   *)
(***************************************************************************)
EXTENDS Naturals, FiniteSets

CONSTANTS
  Workspaces,
  Hosts,         \* hosts that may exist
  Starters,      \* calls of startup() that may be under way at once
  Capacity,      \* workspaces for which a host has room
  NoHost, NoWorkspace,
  MaxLaunches, MaxStarts, MaxEvents   \* bounds; an event is an action of a
                                      \* user, a fault or a change of scale

ASSUME WorkspacesAssumption ==
  /\ NoHost \notin Hosts
  /\ NoWorkspace \notin Workspaces
  /\ Capacity \in Nat \ {0} /\ MaxLaunches \in Nat
  /\ MaxStarts \in Nat /\ MaxEvents \in Nat

Launches == 1..MaxLaunches     \* the launch_uuid of each; 0 is null
Versions == 1..(MaxEvents + 1)

VARIABLES
  workspace,   \* the rows of workspaces
  resetting,   \* workspaces with a reset whose version is not written yet
  home,        \* home directory of each version: none, fresh, or worked in
  host,        \* the rows of workspace_hosts
  machine,     \* the EC2 instance of each, and the process on it
  startup,     \* calls of startup()
  launch,      \* calls of initSequenceAsync(), by uuid
  container,   \* uuids of the containers that exist
  prune,       \* what the pruning of each host is at
  doomed,      \* workspaces that workspaceTimeoutStop has selected
  starts,      \* calls of startup() so far
  events,      \* events so far
  disturbed    \* has a launch been cut short by a write of another state?

vars == <<workspace, resetting, home, host, machine, startup, launch, container,
          prune, doomed, starts, events, disturbed>>

States     == {"uninitialized", "stopped", "launching", "running"}
HostStates == {"none", "launching", "ready", "draining", "unhealthy",
               "terminating", "terminated"}

NoStartup == [pc |-> "idle", w |-> NoWorkspace, read |-> "stopped", version |-> 1,
              host |-> NoHost]
NoLaunch  == [pc |-> "none", w |-> NoWorkspace, host |-> NoHost, version |-> 1]
NoPrune   == [pc |-> "idle", list |-> {}]

TypeOK ==
  /\ workspace \in [Workspaces -> [state: States, version: Versions,
                                   host: Hosts \cup {NoHost}, uuid: Launches \cup {0}]]
  /\ resetting \subseteq Workspaces
  /\ home \in [Workspaces -> [Versions -> {"none", "fresh", "used"}]]
  /\ host \in [Hosts -> [state: HostStates, load: Nat]]
  /\ machine \in [Hosts -> {"none", "booting", "up", "gone"}]
  /\ startup \in [Starters -> [pc: {"idle", "initialize", "lock", "pick", "write", "init"},
                               w: Workspaces \cup {NoWorkspace}, read: States,
                               version: Versions, host: Hosts \cup {NoHost}]]
  /\ launch \in [Launches -> [pc: {"none", "uuid", "create", "check", "run", "over"},
                              w: Workspaces \cup {NoWorkspace},
                              host: Hosts \cup {NoHost}, version: Versions]]
  /\ container \subseteq Launches
  /\ \A h \in Hosts : prune[h].pc \in {"idle", "clear", "prune", "recover"}
  /\ doomed \subseteq Workspaces
  /\ starts \in 0..MaxStarts /\ events \in 0..MaxEvents /\ disturbed \in BOOLEAN

Init ==
  /\ workspace = [w \in Workspaces |-> [state |-> "uninitialized", version |-> 1,
                                        host |-> NoHost, uuid |-> 0]]
  /\ resetting = {} /\ doomed = {} /\ container = {}
  /\ home = [w \in Workspaces |-> [v \in Versions |-> "none"]]
  /\ host = [h \in Hosts |-> [state |-> "none", load |-> 0]]
  /\ machine = [h \in Hosts |-> "none"]
  /\ startup = [s \in Starters |-> NoStartup]
  /\ launch = [u \in Launches |-> NoLaunch]
  /\ prune = [h \in Hosts |-> NoPrune]
  /\ starts = 0 /\ events = 0 /\ disturbed = FALSE

hosts == <<host, machine, prune>>
runs  == <<launch, container>>
sites == <<resetting, home, doomed>>
count == <<starts, events, disturbed>>

\* updateWorkspaceState(w, s), which looks at nothing.
SetState(w, s) == workspace' = [workspace EXCEPT ![w].state = s]

\* The workspaces of W leave the launching state, if they are in it.
Disturb(W) == disturbed' = (disturbed \/ \E w \in W : workspace[w].state = "launching")

Stop(w) == SetState(w, "stopped") /\ Disturb({w})

Event == events < MaxEvents /\ events' = events + 1

\* Workspaces that count as the load of a host.
Active(w)  == workspace[w].state \in {"launching", "running"}
LoadOf(h)  == Cardinality({w \in Workspaces : workspace[w].host = h /\ Active(w)})
UuidsOn(h) == {u \in container : launch[u].host = h}

-----------------------------------------------------------------------------
(* startup(): one call on one server. *)

StartupStep(s, step) == startup' = [startup EXCEPT ![s].pc = step]
EndStartup(s)        == startup' = [startup EXCEPT ![s] = NoStartup]

\* The state is read without a lock.
Open(s, w) ==
  /\ startup[s].pc = "idle" /\ starts < MaxStarts
  /\ workspace[w].state \in {"uninitialized", "stopped"}
  /\ startup' = [startup EXCEPT ![s] =
       [NoStartup EXCEPT !.pc = IF workspace[w].state = "uninitialized" THEN "initialize" ELSE "lock",
                         !.w = w, !.read = workspace[w].state]]
  /\ starts' = starts + 1
  /\ UNCHANGED <<workspace, sites, hosts, runs, events, disturbed>>

\* initialize() makes the files in a temporary directory of the version it reads.
Initialize(s) ==
  /\ startup[s].pc = "initialize"
  /\ startup' = [startup EXCEPT ![s].pc = "lock", ![s].version = workspace[startup[s].w].version]
  /\ UNCHANGED <<workspace, sites, hosts, runs, count>>

InitializeFails(s) ==
  /\ startup[s].pc = "initialize"
  /\ Event /\ Stop(startup[s].w)
  /\ EndStartup(s)
  /\ UNCHANGED <<sites, hosts, runs, starts>>

\* Mutant: the state that was read without a lock is trusted for launching.
LockTrustingRead(s) ==
  /\ startup[s].pc = "lock"
  /\ LET w     == startup[s].w
         fresh == startup[s].read = "uninitialized" /\ workspace[w].state = "uninitialized"
     IN /\ home' = IF fresh THEN [home EXCEPT ![w][startup[s].version] = "fresh"] ELSE home
        /\ IF fresh \/ startup[s].read = "stopped"
             THEN SetState(w, "launching") /\ StartupStep(s, "pick")
             ELSE workspace' = workspace /\ EndStartup(s)
  /\ UNCHANGED <<resetting, doomed, hosts, runs, count>>

\* Mutant: it is trusted for moving the files into place.
LockMovingFiles(s) ==
  /\ startup[s].pc = "lock"
  /\ LET w     == startup[s].w
         fresh == startup[s].read = "uninitialized"
     IN /\ home' = IF fresh THEN [home EXCEPT ![w][startup[s].version] = "fresh"] ELSE home
        /\ IF workspace[w].state \in {"uninitialized", "stopped"}
             THEN SetState(w, "launching") /\ StartupStep(s, "pick")
             ELSE workspace' = workspace /\ EndStartup(s)
  /\ UNCHANGED <<resetting, doomed, hosts, runs, count>>

\* The transaction that locks the workspace: its files are moved into place if
\* it is still uninitialized, and it is launched if it is stopped by now.
Lock(s) ==
  /\ startup[s].pc = "lock"
  /\ LET w     == startup[s].w
         fresh == startup[s].read = "uninitialized" /\ workspace[w].state = "uninitialized"
     IN /\ home' = IF fresh THEN [home EXCEPT ![w][startup[s].version] = "fresh"] ELSE home
        /\ IF fresh \/ workspace[w].state = "stopped"
             THEN SetState(w, "launching") /\ StartupStep(s, "pick")
             ELSE workspace' = workspace /\ EndStartup(s)
  /\ UNCHANGED <<resetting, doomed, hosts, runs, count>>

\* assign_workspace_to_host finds a host that is ready and has room,
HasRoom(h) == host[h].state = "ready" /\ host[h].load < Capacity

PickHost(s) ==
  /\ startup[s].pc = "pick"
  /\ \E h \in Hosts : /\ HasRoom(h)
                      /\ startup' = [startup EXCEPT ![s].pc = "write", ![s].host = h]
  /\ UNCHANGED <<workspace, sites, hosts, runs, count>>

\* and writes it whatever has become of the host; the load it counts is that
\* of the rows before this statement.
WriteHost(s) ==
  /\ startup[s].pc = "write"
  /\ workspace' = [workspace EXCEPT ![startup[s].w].host = startup[s].host]
  /\ host' = [host EXCEPT ![startup[s].host].load = LoadOf(startup[s].host)]
  /\ StartupStep(s, "init")
  /\ UNCHANGED <<machine, prune, sites, runs, count>>

\* After its last attempt to find a host it gives up.
GiveUp(s) ==
  /\ startup[s].pc = "pick" /\ \A h \in Hosts : ~HasRoom(h)
  /\ Stop(startup[s].w)
  /\ EndStartup(s)
  /\ UNCHANGED <<sites, hosts, runs, starts, events>>

\* controlContainer(init) posts to the host the row names by now.
Control(s) ==
  /\ startup[s].pc = "init"
  /\ LET w == startup[s].w
         h == workspace[w].host
     IN IF h # NoHost /\ machine[h] = "up"
          THEN /\ \E u \in Launches :
                    /\ launch[u].pc = "none" /\ \A v \in 1..(u - 1) : launch[v].pc # "none"
                    /\ launch' = [launch EXCEPT ![u] =
                         [NoLaunch EXCEPT !.pc = "uuid", !.w = w, !.host = h]]
               /\ UNCHANGED <<workspace, disturbed>>
          ELSE Stop(w) /\ launch' = launch
  /\ EndStartup(s)
  /\ UNCHANGED <<sites, hosts, container, starts, events>>

\* The server that runs it ends.
CrashServer(s) ==
  /\ startup[s].pc # "idle"
  /\ Event
  /\ EndStartup(s)
  /\ UNCHANGED <<workspace, sites, hosts, runs, starts, disturbed>>

-----------------------------------------------------------------------------
(* initSequenceAsync() on a host. *)

LaunchStep(u, step) == launch' = [launch EXCEPT ![u].pc = step]

\* The uuid is written, and the version read.
SetUuid(u) ==
  /\ launch[u].pc = "uuid"
  /\ workspace' = [workspace EXCEPT ![launch[u].w].uuid = u]
  /\ launch' = [launch EXCEPT ![u].pc = "create", ![u].version = workspace[launch[u].w].version]
  /\ UNCHANGED <<sites, hosts, startup, container, count>>

\* The container is made if the files of the version are there, and the load
\* of the host is counted; without them the launch fails.
Create(u) ==
  /\ launch[u].pc = "create"
  /\ LET w == launch[u].w
         h == launch[u].host
     IN \/ /\ home[w][launch[u].version] # "none"
           /\ container' = container \cup {u}
           /\ host' = [host EXCEPT ![h].load = LoadOf(h)]
           /\ LaunchStep(u, "check")
           /\ UNCHANGED <<workspace, disturbed>>
        \/ /\ home[w][launch[u].version] = "none"
           /\ Stop(w)
           /\ LaunchStep(u, "over")
           /\ UNCHANGED <<container, host>>
  /\ UNCHANGED <<sites, machine, prune, startup, starts, events>>

\* Configuring, pulling, creating or starting fails; the container is removed.
LaunchFails(u) ==
  /\ launch[u].pc \in {"create", "check"}
  /\ Event /\ Stop(launch[u].w)
  /\ container' = container \ {u}
  /\ LaunchStep(u, "over")
  /\ UNCHANGED <<sites, hosts, startup, starts>>

\* The transaction that looks whether the workspace was relaunched meanwhile,
CheckUuid(u) ==
  /\ launch[u].pc = "check"
  /\ LaunchStep(u, IF workspace[launch[u].w].uuid = u THEN "run" ELSE "over")
  /\ UNCHANGED <<workspace, sites, hosts, startup, container, count>>

\* and after it the write that lets the user in.
Running(u) ==
  /\ launch[u].pc = "run"
  /\ SetState(launch[u].w, "running")
  /\ home' = [home EXCEPT ![launch[u].w][launch[u].version] = "used"]
  /\ LaunchStep(u, "over")
  /\ UNCHANGED <<resetting, doomed, hosts, startup, container, count>>

-----------------------------------------------------------------------------
(* The pruning of a host. *)

PruneAt(h, step) == machine[h] = "up" /\ prune[h].pc = step

\* pruneStoppedContainers: the stopped workspaces that still have a uuid,
StoppedOn(h) == {w \in Workspaces : /\ workspace[w].state = "stopped"
                                    /\ workspace[w].uuid # 0 /\ workspace[w].host = h}

ReadStopped(h) ==
  /\ PruneAt(h, "idle") /\ StoppedOn(h) # {}
  /\ prune' = [prune EXCEPT ![h] =
       [pc |-> "clear", list |-> {<<w, workspace[w].uuid>> : w \in StoppedOn(h)}]]
  /\ UNCHANGED <<workspace, sites, host, machine, startup, runs, count>>

\* each of which is taken off this host, or whichever has it by now.
Clear(h) ==
  /\ PruneAt(h, "clear")
  /\ \E p \in prune[h].list :
       /\ workspace' = [workspace EXCEPT ![p[1]].uuid = 0, ![p[1]].host = NoHost]
       /\ container' = container \ {p[2]}
       /\ prune' = [prune EXCEPT ![h].list = @ \ {p}]
  /\ UNCHANGED <<sites, host, machine, startup, launch, count>>

\* pruneRunawayContainers: the uuids that should run here,
ReadRunning(h) ==
  /\ \/ PruneAt(h, "idle") /\ StoppedOn(h) = {}
     \/ PruneAt(h, "clear") /\ prune[h].list = {}
  /\ LET active == {w \in Workspaces : Active(w) /\ workspace[w].host = h /\ workspace[w].uuid # 0}
     IN prune' = [prune EXCEPT ![h] = [pc |-> "prune", list |-> {workspace[w].uuid : w \in active}]]
  /\ UNCHANGED <<workspace, sites, host, machine, startup, runs, count>>

\* Mutant: containers that should not run are left alone.
PruneNothing(h) ==
  /\ PruneAt(h, "prune")
  /\ host' = [host EXCEPT ![h].load = LoadOf(h)]
  /\ prune' = [prune EXCEPT ![h] = NoPrune]
  /\ UNCHANGED <<workspace, sites, machine, startup, runs, count>>

\* Mutant: the load of the host is not counted again.
PruneWithoutLoad(h) ==
  /\ PruneAt(h, "prune")
  /\ container' = container \ (UuidsOn(h) \ prune[h].list)
  /\ prune' = [prune EXCEPT ![h] = NoPrune]
  /\ UNCHANGED <<workspace, sites, host, machine, startup, launch, count>>

\* the other containers are killed, and the load of the host is counted.
PruneRunaways(h) ==
  /\ PruneAt(h, "prune")
  /\ container' = container \ (UuidsOn(h) \ prune[h].list)
  /\ host' = [host EXCEPT ![h].load = LoadOf(h)]
  /\ prune' = [prune EXCEPT ![h] = NoPrune]
  /\ UNCHANGED <<workspace, sites, machine, startup, launch, count>>

-----------------------------------------------------------------------------
(* Hosts. *)

SetHost(h, s) == host' = [host EXCEPT ![h].state = s]

\* handleWorkspaceAutoscaling: more hosts, or fewer.
Scale(h) ==
  /\ Event
  /\ \/ host[h].state = "none" /\ SetHost(h, "launching") /\ machine' = [machine EXCEPT ![h] = "booting"]
     \/ host[h].state = "draining" /\ SetHost(h, "ready") /\ machine' = machine
     \/ host[h].state = "ready" /\ SetHost(h, "draining") /\ machine' = machine
  /\ UNCHANGED <<workspace, sites, startup, runs, prune, starts, disturbed>>

\* The process on a host begins: insert_workspace_hosts sets it to ready from
\* any state,
Boot(h) ==
  /\ machine[h] = "booting"
  /\ machine' = [machine EXCEPT ![h] = "up"]
  /\ SetHost(h, "ready")
  /\ prune' = [prune EXCEPT ![h] = [pc |-> "recover", list |-> {}]]
  /\ UNCHANGED <<workspace, sites, startup, runs, count>>

\* and what an earlier process was launching is stopped; containers of
\* workspaces that are not on this host are killed.
Recover(h) ==
  /\ PruneAt(h, "recover")
  /\ LET here      == {w \in Workspaces : workspace[w].host = h /\ Active(w)}
         launching == {w \in here : workspace[w].state = "launching"}
     IN /\ workspace' = [w \in Workspaces |-> IF w \in launching
             THEN [workspace[w] EXCEPT !.state = "stopped", !.uuid = 0, !.host = NoHost]
             ELSE workspace[w]]
        /\ container' = container \ ({u \in UuidsOn(h) : launch[u].w \notin here}
                                     \cup {workspace[w].uuid : w \in launching})
        /\ Disturb(launching)
  /\ prune' = [prune EXCEPT ![h] = NoPrune]
  /\ UNCHANGED <<sites, host, machine, startup, launch, starts, events>>

EndLaunches(h) ==
  [u \in Launches |-> IF launch[u].host = h THEN [launch[u] EXCEPT !.pc = "over"] ELSE launch[u]]

\* The process on a host ends and is started again; its containers go on.
CrashHost(h) ==
  /\ machine[h] = "up"
  /\ Event
  /\ machine' = [machine EXCEPT ![h] = "booting"]
  /\ launch' = EndLaunches(h)
  /\ prune' = [prune EXCEPT ![h] = NoPrune]
  /\ UNCHANGED <<workspace, sites, host, startup, container, starts, disturbed>>

\* checkHealth: a host does not answer.
Unhealthy(h) ==
  /\ host[h].state \in {"ready", "draining"} /\ machine[h] # "up"
  /\ SetHost(h, "unhealthy")
  /\ UNCHANGED <<workspace, sites, machine, startup, runs, prune, count>>

\* find_terminable_hosts: without load, or unhealthy or launching for too long.
FindTerminable(h) ==
  /\ \/ host[h].state \in {"draining", "unhealthy"} /\ host[h].load = 0
     \/ host[h].state \in {"unhealthy", "launching"}
  /\ SetHost(h, "terminating")
  /\ UNCHANGED <<workspace, sites, machine, startup, runs, prune, count>>

\* terminateInstances, for every host that is terminating.
Terminate(h) ==
  /\ host[h].state = "terminating" /\ machine[h] # "gone"
  /\ machine' = [machine EXCEPT ![h] = "gone"]
  /\ container' = container \ UuidsOn(h)
  /\ launch' = EndLaunches(h)
  /\ prune' = [prune EXCEPT ![h] = NoPrune]
  /\ UNCHANGED <<workspace, sites, host, startup, count>>

\* terminate_hosts_if_not_launching, for hosts that EC2 does not know: their
\* workspaces are stopped.
MarkTerminated(h) ==
  /\ machine[h] = "gone" /\ host[h].state \notin {"launching", "terminated"}
  /\ SetHost(h, "terminated")
  /\ LET here == {w \in Workspaces : workspace[w].host = h}
     IN /\ workspace' = [w \in Workspaces |-> IF w \in here
             THEN [workspace[w] EXCEPT !.state = "stopped"] ELSE workspace[w]]
        /\ Disturb(here)
  /\ UNCHANGED <<sites, machine, startup, runs, prune, starts, events>>

-----------------------------------------------------------------------------
(* Timeouts and users. *)

\* Mutant: only running workspaces time out.
SelectRunningOnly(w) ==
  /\ workspace[w].state = "running" /\ w \notin doomed
  /\ doomed' = doomed \cup {w}
  /\ UNCHANGED <<workspace, resetting, home, hosts, startup, runs, count>>

\* workspaceTimeoutStop selects a workspace that has been launching or running
\* for too long, or whose user is gone,
SelectTimeout(w) ==
  /\ Active(w) /\ w \notin doomed
  /\ doomed' = doomed \cup {w}
  /\ UNCHANGED <<workspace, resetting, home, hosts, startup, runs, count>>

\* and stops it later without looking again.
StopTimeout(w) ==
  /\ w \in doomed
  /\ doomed' = doomed \ {w}
  /\ Stop(w)
  /\ UNCHANGED <<resetting, home, hosts, startup, runs, starts, events>>

Reboot(w) ==
  /\ Event /\ Stop(w)
  /\ UNCHANGED <<sites, hosts, startup, runs, starts>>

\* A reset is two statements.
Reset(w) ==
  /\ w \notin resetting
  /\ Event /\ SetState(w, "uninitialized") /\ Disturb({w})
  /\ resetting' = resetting \cup {w}
  /\ UNCHANGED <<home, doomed, hosts, startup, runs, starts>>

IncrementVersion(w) ==
  /\ w \in resetting
  /\ workspace' = [workspace EXCEPT ![w].version = @ + 1]
  /\ resetting' = resetting \ {w}
  /\ UNCHANGED <<home, doomed, hosts, startup, runs, count>>

-----------------------------------------------------------------------------
ServerStep(s) ==
  \/ Initialize(s) \/ Lock(s) \/ PickHost(s) \/ WriteHost(s) \/ GiveUp(s) \/ Control(s)

LaunchingStep(u) == SetUuid(u) \/ Create(u) \/ CheckUuid(u) \/ Running(u)

PruneStep(h) == ReadStopped(h) \/ Clear(h) \/ ReadRunning(h) \/ PruneRunaways(h) \/ Recover(h)

CronStep ==
  \/ \E h \in Hosts : Unhealthy(h) \/ FindTerminable(h) \/ Terminate(h) \/ MarkTerminated(h)
  \/ \E w \in Workspaces : SelectTimeout(w) \/ StopTimeout(w)

Progress ==
  \/ \E s \in Starters : ServerStep(s)
  \/ \E u \in Launches : LaunchingStep(u)
  \/ \E h \in Hosts : Boot(h)
  \/ \E w \in Workspaces : IncrementVersion(w)
  \/ CronStep

Next ==
  \/ Progress
  \/ \E h \in Hosts : PruneStep(h) \/ Scale(h) \/ CrashHost(h)
  \/ \E s \in Starters : InitializeFails(s) \/ CrashServer(s) \/ \E w \in Workspaces : Open(s, w)
  \/ \E u \in Launches : LaunchFails(u)
  \/ \E w \in Workspaces : Reboot(w) \/ Reset(w)

Spec == Init /\ [][Next]_vars

\* Every host keeps pruning.  Every process goes on with what it has begun, and
\* the timers of the cron jobs fire; with a bounded number of starts and events
\* there is a bounded number of these steps, so it is enough that one of them
\* is taken as long as there is one.
Fairness == WF_vars(Progress) /\ \A h \in Hosts : WF_vars(PruneStep(h))

FairSpec == Spec /\ Fairness

-----------------------------------------------------------------------------
(* Properties. *)

\* However many servers are asked to start a workspace, only one of them looks
\* for a host: another one does only after something else has stopped the
\* launch (workspace.ts, "we don't want multiple hosts trying to assign a host").
Assigning(w) == {s \in Starters : startup[s].w = w /\ startup[s].pc \in {"pick", "write", "init"}}

OneAssigner ==
  \A w \in Workspaces : disturbed \/ Cardinality(Assigning(w)) <= 1

\* The files that a user works on are never replaced, however late another
\* startup moves its files into place: files that were worked on are replaced
\* only while a reset is under way, or in a version that is not the current one
\* any more (the lock in startup(), and the order of the two writes of a reset).
KeepsWork ==
  [][\A w \in Workspaces : \A v \in Versions :
       home[w][v] = "used" /\ home'[w][v] = "fresh" =>
         w \in resetting \/ v # workspace[w].version]_vars

\* No workspace stays in the launching state, whatever crashes.
LaunchEnds == []<>(\A w \in Workspaces : workspace[w].state # "launching")

\* A container that its workspace does not know any more is removed, or the
\* workspace takes it back.
Runaways == {u \in container : workspace[launch[u].w].uuid # u}

RunawaysGo == []<>(Runaways = {})

\* A host that drains is terminated, or ready again.
DrainingEnds == []<>(\A h \in Hosts : host[h].state # "draining")

=============================================================================
