----------------------------- MODULE DedicatedHost -----------------------------
(* The dedicated Codex host: the runtime that launches it and falls back to  *)
(* the standalone surface (apps/launcher/src/codex-runtime.ts), the instance *)
(* that polls its targets (dedicated-instance.ts), the connection that       *)
(* follows the target from renderer to renderer (dedicated-adapter.ts), the  *)
(* sessions with renderers (remote-renderer.ts, cdp-session.ts) and the      *)
(* leases on their bypass of the Content Security Policy (csp-bypass.ts).    *)
(*                                                                           *)
(* A runtime attaches once, and a connection has one renderer after the      *)
(* other, so no two of them acquire or release one bypass at a time.         *)
EXTENDS Naturals, Sequences

CONSTANTS
    Targets,        \* pages of the dedicated instance
    None,           \* no target, or more than one
    MaxMissing,     \* polls without a target until it counts as lost
    First,          \* the page that is listed when the host is launched
    MaxEvents       \* bound: changes of the listed target, reloads, sessions
                    \* that break and attempts to install that are repeated

ASSUME HostAssumption ==
    /\ None \notin Targets /\ "none" \notin Targets \cup {None}
    /\ First \in Targets
    /\ MaxMissing \in Nat \ {0}

VARIABLES
    listed,      \* the target a discovery finds now
    events,      \* counter of the bound
    renderers,   \* the renderers connected so far, in order
    leases,      \* activeByOwnershipScope: the leases counted for a target
    process,     \* the process: "running", "terminating" or "exited"
    lastTarget,  \* lastTargetId
    missing,     \* missingPolls
    polled,      \* the target a poll under way has found, or "none"
    connection,  \* the managed connection
    runtime      \* the runtime

environment == <<listed, events>>
instance == <<lastTarget, missing, polled>>
hostVars == <<environment, renderers, leases, process, instance, connection, runtime>>

Stages == {"acquiring", "installing", "failed", "attached", "closing",
           "releasing", "closed", "stuck"}

(* A renderer: its session, the bypass its session has turned on, the bridge *)
(* in its page, its lease, and how far its connect or close has come; the    *)
(* step of the reinstallation under way, if any, and how many more are       *)
(* queued.  "unheard": its page was reloaded before it listened.  "refused": *)
(* what a close could not undo although its session was open.                *)
Renderers ==
    [target : Targets, session : {"open", "closed", "dropped"},
     bypass : BOOLEAN, bridge : BOOLEAN, lease : BOOLEAN, stage : Stages,
     refresh : {"none", "bypass", "install", "failed"}, queued : Nat,
     unheard : BOOLEAN, refused : SUBSET {"bridge", "lease"}]

(* The connection: its flags, whether it listens to the instance and to its  *)
(* renderer, the targets it has yet to replace its renderer by, and how far  *)
(* a replacement, a degradation and a close have come.                       *)
Connections ==
    [renderer : Nat, closed : BOOLEAN, degraded : BOOLEAN,
     subscribed : BOOLEAN, listening : BOOLEAN,
     replacement : Seq(Targets \cup {None}),
     replacing : {"no", "closing", "connecting"},
     degrading : {"no", "closing", "published"},
     closing : {"no", "replacing", "closing", "done"}]

Runtimes ==
    [phase : {"attaching", "attached", "falling back", "standalone"},
     instance : {"open", "closing", "closed"},
     closing : BOOLEAN, closed : BOOLEAN]

HostTypeOK ==
    /\ listed \in Targets \cup {None}
    /\ renderers \in Seq(Renderers)
    /\ leases \in [Targets -> Nat]
    /\ process \in {"running", "terminating", "exited"}
    /\ lastTarget \in Targets \cup {None}
    /\ missing \in 0 .. MaxMissing
    /\ polled \in Targets \cup {None, "none"}
    /\ connection \in Connections
    /\ runtime \in Runtimes

NoConnection ==
    [renderer |-> 0, closed |-> FALSE, degraded |-> FALSE, subscribed |-> FALSE,
     listening |-> FALSE, replacement |-> <<>>, replacing |-> "no",
     degrading |-> "no", closing |-> "no"]

(* A runtime that has launched its instance and is about to attach to it.    *)
HostInit ==
    /\ listed = First
    /\ events = 0
    /\ renderers = <<>>
    /\ leases = [t \in Targets |-> 0]
    /\ process = "running"
    /\ lastTarget = listed
    /\ missing = 0
    /\ polled = "none"
    /\ connection = NoConnection
    /\ runtime = [phase |-> "attaching", instance |-> "open",
                  closing |-> FALSE, closed |-> FALSE]

Newest == Len(renderers)
Current == renderers[connection.renderer]
HasEnded(r) == renderers[r].stage \in {"closed", "stuck"}

(* close() of a renderer: shared while it is under way, and tried again      *)
(* after a failure.                                                          *)
StartClose(r) ==
    renderers' = [renderers EXCEPT ![r].stage =
        IF @ \in {"attached", "stuck"} THEN "closing" ELSE @]

(* A connect that has ended is taken over, with the subscriptions that go    *)
(* with it, in the task of its last answer: no event comes between.          *)
ConnectHasEnded ==
    /\ Newest # 0
    /\ renderers[Newest].stage \in {"attached", "failed"}
    /\ \/ connection.replacing = "connecting"
       \/ runtime.phase = "attaching" /\ runtime.instance = "open"

(* ------------------------------ the environment --------------------------- *)

TargetChanges ==
    /\ events < MaxEvents
    /\ process = "running"
    /\ events' = events + 1
    /\ listed' \in (Targets \cup {None}) \ {listed}
    /\ UNCHANGED <<renderers, leases, process, instance,
                   connection, runtime>>

(* degrade: the connection gives its renderer up and listens no more.        *)
Degraded(c) ==
    [c EXCEPT !.degraded = TRUE, !.subscribed = FALSE, !.listening = FALSE,
              !.degrading = "closing"]

(* A renderer that is closed has no listeners.                               *)
Hears(r) ==
    /\ r = connection.renderer
    /\ renderers[r].stage = "attached"
    /\ connection.listening
    /\ ~connection.closed
    /\ ~connection.degraded

(* A renderer tells its listener that it cannot go on.                       *)
StandaloneRequired(r) ==
    IF Hears(r)
    THEN connection' = Degraded(connection)
    ELSE UNCHANGED connection

(* What becomes of a renderer whose session breaks: the bypass belongs to    *)
(* the session and ends with it, and the bridge stays in the page.           *)
Broken(r) ==
    IF renderers[r].session # "open"
    THEN renderers[r]
    ELSE [renderers[r] EXCEPT !.session = "dropped", !.bypass = FALSE,
              !.stage = IF Hears(r) THEN "closing" ELSE @]

SessionDrops(r) ==
    /\ ~ConnectHasEnded
    /\ events < MaxEvents
    /\ renderers[r].session = "open"
    /\ events' = events + 1
    /\ renderers' = [renderers EXCEPT ![r] = Broken(r)]
    /\ StandaloneRequired(r)
    /\ UNCHANGED <<listed, leases, process, instance, runtime>>

(* The process exits: because it was told to, or on its own.                 *)
ProcessExits ==
    /\ ~ConnectHasEnded
    /\ process # "exited"
    /\ process = "running" => events < MaxEvents
    /\ process' = "exited"
    /\ events' = IF process = "running" THEN events + 1 ELSE events
    /\ listed' = None
    /\ renderers' = [r \in DOMAIN renderers |-> Broken(r)]
    /\ IF connection.renderer # 0 /\ Current.session = "open"
       THEN StandaloneRequired(connection.renderer)
       ELSE UNCHANGED connection
    /\ UNCHANGED <<leases, instance, runtime>>

(* The observer of the bridge: another project is selected, or the page has  *)
(* lost what the bridge needs.                                               *)
PageLeavesProject(r) ==
    /\ ~ConnectHasEnded
    /\ renderers[r].session = "open"
    /\ renderers[r].bridge
    /\ Hears(r)
    /\ StartClose(r)
    /\ StandaloneRequired(r)
    /\ UNCHANGED <<environment, leases, process, instance, runtime>>

\* mutant: a reload while a reinstallation runs is left to that one
QueuedUnlessRunning(x) ==
    IF x.refresh \in {"bypass", "install"} THEN x.queued ELSE x.queued + 1

(* Every reload is queued: the reinstallation under way may be past it.      *)
Queued(x) == x.queued + 1

(* A reload takes the bridge out of the page and ends the bypass of its      *)
(* sessions.  Only a renderer that is attached listens.                      *)
Reloaded(x) ==
    IF x.session # "open" THEN [x EXCEPT !.bridge = FALSE]
    ELSE [x EXCEPT !.bridge = FALSE, !.bypass = FALSE,
              !.queued = IF x.stage = "attached" THEN Queued(x) ELSE @,
              !.unheard = @ \/ x.stage = "installing"]

PageReloads(t) ==
    /\ ~ConnectHasEnded
    /\ events < MaxEvents
    /\ \E r \in DOMAIN renderers :
         /\ renderers[r].target = t /\ renderers[r].session = "open"
         /\ renderers[r].stage # "acquiring"
    /\ events' = events + 1
    /\ renderers' = [r \in DOMAIN renderers |->
          IF renderers[r].target = t THEN Reloaded(renderers[r]) ELSE renderers[r]]
    /\ UNCHANGED <<listed, leases, process, instance, connection, runtime>>

(* -------------------------------- renderers ------------------------------- *)

Connecting(t) ==
    [target |-> t, session |-> IF process = "exited" THEN "dropped" ELSE "open",
     bypass |-> FALSE, bridge |-> FALSE, lease |-> FALSE,
     stage |-> "acquiring", refresh |-> "none", queued |-> 0,
     unheard |-> FALSE, refused |-> {}]

(* acquireDedicatedRendererCspBypass: the first lease of a target turns its  *)
(* bypass on, further ones only count.                                       *)
Acquired(r) ==
    [renderers[r] EXCEPT !.lease = TRUE, !.stage = "installing",
        !.bypass = IF leases[renderers[r].target] = 0 THEN TRUE ELSE @]

(* The session and the browser are looked at first: they may not do.  The    *)
(* command that turns the bypass on may be refused.                          *)
AcquireLease(r) ==
    LET t == renderers[r].target IN
    /\ renderers[r].stage = "acquiring"
    /\ \/ /\ renderers[r].session = "open"
          /\ renderers' = [renderers EXCEPT ![r] = Acquired(r)]
          /\ leases' = [leases EXCEPT ![t] = @ + 1]
       \/ /\ renderers' = [renderers EXCEPT ![r].stage = "failed",
                                            ![r].session = "closed"]
          /\ UNCHANGED leases
    /\ UNCHANGED <<environment, process, instance, connection, runtime>>

(* release: the last lease of a target turns the bypass off, which fails     *)
(* with the session, and may be refused on a session that is open: then the  *)
(* lease is kept, and stays counted.  Further leases are only counted off.   *)
IsLastLease(r) == leases[renderers[r].target] <= 1
CanRelease(r) == renderers[r].session = "open" \/ ~IsLastLease(r)

ClosedSession(r) ==
    IF renderers[r].session = "open" THEN "closed" ELSE renderers[r].session

Refused(r, what) ==
    IF renderers[r].session = "open"
    THEN renderers[r].refused \cup {what} ELSE renderers[r].refused

Released(r) ==
    [renderers[r] EXCEPT !.lease = FALSE, !.bypass = FALSE, !.session = ClosedSession(r)]

CountedOff(r) == [leases EXCEPT ![renderers[r].target] = @ - 1]

(* The bridge of a page takes the place of the one that is there.            *)
Mounted(r, x) ==
    [s \in DOMAIN renderers |->
        IF s = r THEN x
        ELSE IF renderers[s].target = renderers[r].target
             THEN [renderers[s] EXCEPT !.bridge = FALSE]
             ELSE renderers[s]]

(* The bridge is installed, or the lease is given back and the session       *)
(* closed, whether or not the lease could be: another project, another       *)
(* layout, or a page that is never ready.                                    *)
InstallSucceeds(r) ==
    /\ renderers[r].session = "open"
    /\ renderers' = Mounted(r, [renderers[r] EXCEPT !.bridge = TRUE,
                                                   !.stage = "attached"])
    /\ UNCHANGED leases

InstallFails(r) ==
    \/ /\ CanRelease(r)
       /\ renderers' = [renderers EXCEPT ![r] = [Released(r) EXCEPT !.stage = "failed"]]
       /\ leases' = CountedOff(r)
    \/ /\ IsLastLease(r)
       /\ renderers' = [renderers EXCEPT ![r].stage = "failed", ![r].bypass = FALSE,
              ![r].session = ClosedSession(r), ![r].refused = Refused(r, "lease")]
       /\ UNCHANGED leases

Install(r) ==
    /\ renderers[r].stage = "installing"
    /\ InstallSucceeds(r) \/ InstallFails(r)
    /\ UNCHANGED <<environment, process, instance, connection, runtime>>

(* After a reload the bypass is turned on and then the bridge installed      *)
(* again, unless the renderer is closed by then; a reinstallation that has   *)
(* begun goes on and does not look again.                                    *)
IsReinstalling(r) == renderers[r].refresh \in {"bypass", "install"}

ReinstallStarts(r) ==
    /\ renderers[r].queued # 0
    /\ ~IsReinstalling(r)
    /\ renderers' = [renderers EXCEPT ![r].queued = @ - 1, ![r].refresh =
           IF renderers[r].stage = "attached" THEN "bypass" ELSE @]
    /\ UNCHANGED <<environment, leases, process, instance, connection, runtime>>

ReinstallBypasses(r) ==
    /\ renderers[r].refresh = "bypass"
    /\ renderers[r].session = "open"
    /\ renderers' = [renderers EXCEPT ![r].bypass = TRUE, ![r].refresh = "install"]
    /\ UNCHANGED <<environment, leases, process, instance, connection, runtime>>

ReinstallMounts(r) ==
    /\ renderers[r].refresh = "install"
    /\ renderers[r].session = "open"
    /\ renderers' = Mounted(r, [renderers[r] EXCEPT !.bridge = TRUE,
                                                   !.refresh = "none"])
    /\ UNCHANGED <<environment, leases, process, instance, connection, runtime>>

(* The page is not ready, its old bridge is gone: the next attempt.          *)
ReinstallRetries(r) ==
    /\ renderers[r].refresh = "install"
    /\ renderers[r].session = "open"
    /\ events < MaxEvents
    /\ events' = events + 1
    /\ renderers' = [renderers EXCEPT ![r].refresh = "bypass", ![r].bridge = FALSE]
    /\ UNCHANGED <<listed, leases, process, instance, connection, runtime>>

(* The page is another one, or the attempts have all failed.                 *)
ReinstallFails(r) ==
    /\ IsReinstalling(r)
    /\ renderers' = [renderers EXCEPT ![r].refresh = "failed",
           ![r].stage = IF Hears(r) THEN "closing" ELSE @]
    /\ StandaloneRequired(r)
    /\ UNCHANGED <<environment, leases, process, instance, runtime>>

(* closeOnce of a renderer: when no reinstallation is under way the bridge   *)
(* is taken out of the page, then the lease is released and the session      *)
(* closed.  A bridge that stays is passed over; a lease that cannot be       *)
(* released leaves the rest undone, the session open if it was.              *)
RefreshHasEnded(r) == renderers[r].queued = 0 /\ ~IsReinstalling(r)

CloseBridge(r) ==
    /\ renderers[r].stage = "closing"
    /\ RefreshHasEnded(r)
    /\ \/ renderers' = [renderers EXCEPT ![r].stage = "releasing",
              ![r].bridge = IF renderers[r].session = "open" THEN FALSE ELSE @]
       \/ /\ renderers[r].session = "open" /\ renderers[r].bridge
          /\ renderers' = [renderers EXCEPT ![r].stage = "releasing",
                ![r].refused = @ \cup {"bridge"}]
    /\ UNCHANGED <<environment, leases, process, instance, connection, runtime>>

CloseSession(r) ==
    /\ renderers[r].stage = "releasing"
    /\ \/ /\ CanRelease(r)
          /\ renderers' = [renderers EXCEPT ![r] = [Released(r) EXCEPT !.stage = "closed"]]
          /\ leases' = CountedOff(r)
       \/ /\ IsLastLease(r)
          /\ renderers' = [renderers EXCEPT ![r].stage = "stuck",
                ![r].refused = Refused(r, "lease")]
          /\ UNCHANGED leases
    /\ UNCHANGED <<environment, process, instance, connection, runtime>>

(* -------------------------------- instance -------------------------------- *)

(* One poll at a time, while somebody listens.  A process that has exited    *)
(* does not answer, and a poll that fails says nothing.                      *)
PollReads ==
    /\ connection.subscribed
    /\ process # "exited"
    /\ polled = "none"
    /\ polled' = listed
    /\ UNCHANGED <<environment, renderers, leases, process, lastTarget, missing,
                   connection, runtime>>

\* mutant: a poll that finds no target says nothing
NeverMissing == polled = None

(* A target that is missed once or twice is waited for.                      *)
StillMissing == polled = None /\ missing + 1 < MaxMissing

Published(target) ==
    IF connection.subscribed
    THEN connection' = [connection EXCEPT !.replacement = Append(@, target)]
    ELSE UNCHANGED connection

PollEnds ==
    /\ polled # "none"
    /\ polled' = "none"
    /\ missing' = IF polled # None THEN 0
                  ELSE IF missing < MaxMissing THEN missing + 1 ELSE missing
    /\ IF StillMissing \/ polled = lastTarget
       THEN UNCHANGED <<lastTarget, connection>>
       ELSE lastTarget' = polled /\ Published(polled)
    /\ UNCHANGED <<environment, renderers, leases, process, runtime>>

(* ------------------------------- connection ------------------------------- *)

Connect(t) == renderers' = Append(renderers, Connecting(t))

Following(step) == [connection EXCEPT !.replacing = step]
Replaced == [connection EXCEPT !.replacing = "no", !.replacement = Tail(@)]
IsGivenUp == connection.closed \/ connection.degraded

(* replace: the next target of the chain.  Its renderer is closed first,     *)
(* without listening to it; a target that is lost ends the connection.       *)
ReplaceStarts ==
    /\ connection.replacement # <<>>
    /\ connection.replacing = "no"
    /\ \/ /\ IsGivenUp
          /\ connection' = Replaced
          /\ UNCHANGED renderers
       \/ /\ ~IsGivenUp
          /\ Head(connection.replacement) = None
          /\ connection' = Degraded(Replaced)
          /\ StartClose(connection.renderer)
       \/ /\ ~IsGivenUp
          /\ Head(connection.replacement) # None
          /\ connection' = [Following("closing") EXCEPT !.listening = FALSE]
          /\ StartClose(connection.renderer)
    /\ UNCHANGED <<environment, leases, process, instance, runtime>>

ReplaceConnects ==
    /\ connection.replacing = "closing"
    /\ HasEnded(connection.renderer)
    /\ connection' = Following("connecting")
    /\ Connect(Head(connection.replacement))
    /\ UNCHANGED <<environment, leases, process, instance, runtime>>

(* The new renderer is taken, whether or not the connection was closed       *)
(* meanwhile: the close waits for it.                                        *)
ReplaceEnds ==
    /\ connection.replacing = "connecting"
    /\ \/ /\ renderers[Newest].stage = "attached"
          /\ connection' = [Replaced EXCEPT !.renderer = Newest,
                                            !.listening = TRUE]
          /\ UNCHANGED renderers
       \/ /\ renderers[Newest].stage = "failed"
          /\ IF IsGivenUp
             THEN connection' = Replaced /\ UNCHANGED renderers
             ELSE /\ connection' = Degraded(Replaced)
                  /\ StartClose(connection.renderer)
    /\ UNCHANGED <<environment, leases, process, instance, runtime>>

\* mutant: the close does not wait for a replacement under way
AnyReplacement == TRUE

(* closeOnce of the connection, once its chain of replacements has ended.    *)
NoReplacement ==
    connection.replacement = <<>> /\ connection.replacing = "no"

CloseRenderer ==
    /\ connection.closing = "replacing"
    /\ NoReplacement
    /\ connection' = [connection EXCEPT !.closing = "closing"]
    /\ StartClose(connection.renderer)
    /\ UNCHANGED <<environment, leases, process, instance, runtime>>

ConnectionCloses ==
    /\ connection.closing = "closing"
    /\ HasEnded(connection.renderer)
    /\ connection' = [connection EXCEPT !.closing = "done"]
    /\ UNCHANGED <<environment, renderers, leases, process, instance, runtime>>

ClosedConnection(c) ==
    [c EXCEPT !.closed = TRUE, !.subscribed = FALSE, !.listening = FALSE,
              !.closing = IF @ = "no" THEN "replacing" ELSE @]

(* --------------------------------- runtime -------------------------------- *)

ClosedInstance(r) ==
    [r EXCEPT !.instance = IF @ = "open" THEN "closing" ELSE @]

Terminated == IF process = "running" THEN "terminating" ELSE process

Attach ==
    /\ runtime.phase = "attaching"
    /\ renderers = <<>>
    /\ runtime.instance = "open"
    /\ lastTarget' = listed
    /\ \/ /\ listed # None
          /\ Connect(listed)
          /\ UNCHANGED <<process, runtime>>
       \/ /\ listed = None
          /\ process' = Terminated
          /\ runtime' = ClosedInstance(runtime)
          /\ UNCHANGED renderers
    /\ UNCHANGED <<environment, leases, missing, polled, connection>>

AttachEnds ==
    /\ runtime.phase = "attaching"
    /\ renderers # <<>>
    /\ runtime.instance = "open"
    /\ \/ /\ renderers[1].stage = "attached"
          /\ connection' = [connection EXCEPT !.renderer = 1,
                                !.subscribed = TRUE, !.listening = TRUE]
          /\ runtime' = [runtime EXCEPT !.phase = "attached"]
          /\ UNCHANGED process
       \/ /\ renderers[1].stage = "failed"
          /\ process' = Terminated
          /\ runtime' = ClosedInstance(runtime)
          /\ UNCHANGED connection
    /\ UNCHANGED <<environment, renderers, leases, instance>>

(* The transition of a degraded connection is published when its renderer is *)
(* closed; the runtime then closes what it has, unless it is closing anyway  *)
(* or the stream of transitions has ended.                                   *)
DegradeEnds ==
    /\ connection.degrading = "closing"
    /\ HasEnded(connection.renderer)
    /\ IF runtime.closing \/ connection.closing = "done"
       THEN /\ connection' = [connection EXCEPT !.degrading = "published"]
            /\ UNCHANGED <<process, runtime>>
       ELSE /\ connection' = ClosedConnection(
                   [connection EXCEPT !.degrading = "published"])
            /\ process' = Terminated
            /\ runtime' = [ClosedInstance(runtime) EXCEPT
                               !.phase = "falling back"]
    /\ UNCHANGED <<environment, renderers, leases, instance>>

(* close of the instance: its process is told to exit, and waited for, but   *)
(* not for longer than a deadline.                                           *)
InstanceCloses ==
    /\ runtime.instance = "closing"
    /\ runtime' = [runtime EXCEPT !.instance = "closed"]
    /\ UNCHANGED <<environment, renderers, leases, process, instance, connection>>

FallbackEnds ==
    /\ \/ runtime.phase = "falling back" /\ connection.closing = "done"
       \/ runtime.phase = "attaching"
    /\ runtime.instance = "closed"
    /\ runtime' = [runtime EXCEPT !.phase = "standalone"]
    /\ UNCHANGED <<environment, renderers, leases, process, instance, connection>>

(* close of the runtime: the connection and the instance at once.            *)
Close ==
    /\ ~runtime.closing
    /\ runtime.phase # "attaching"
    /\ \/ /\ runtime.phase = "attached"
          /\ connection' = ClosedConnection(connection)
          /\ process' = Terminated
          /\ runtime' = [ClosedInstance(runtime) EXCEPT !.closing = TRUE]
       \/ /\ runtime.phase # "attached"
          /\ runtime' = [runtime EXCEPT !.closing = TRUE]
          /\ UNCHANGED <<connection, process>>
    /\ UNCHANGED <<environment, renderers, leases, instance>>

Closes ==
    /\ runtime.closing
    /\ ~runtime.closed
    /\ runtime.instance = "closed"
    /\ \/ runtime.phase = "attached" /\ connection.closing = "done"
       \/ runtime.phase = "standalone"
    /\ runtime' = [runtime EXCEPT !.closed = TRUE]
    /\ UNCHANGED <<environment, renderers, leases, process, instance, connection>>

RendererActs(r) ==
    \/ AcquireLease(r)
    \/ Install(r)
    \/ ReinstallStarts(r)
    \/ ReinstallBypasses(r)
    \/ ReinstallMounts(r)
    \/ ReinstallRetries(r)
    \/ ReinstallFails(r)
    \/ CloseBridge(r)
    \/ CloseSession(r)

Replaces == ReplaceStarts \/ ReplaceConnects \/ ReplaceEnds

(* What goes on by itself.                                                   *)
Proceeds ==
    \/ \E r \in DOMAIN renderers : RendererActs(r)
    \/ Replaces
    \/ CloseRenderer
    \/ ConnectionCloses
    \/ DegradeEnds
    \/ Attach
    \/ AttachEnds
    \/ InstanceCloses
    \/ FallbackEnds
    \/ Closes

Polls == PollReads \/ PollEnds

Environment ==
    \/ TargetChanges
    \/ \E r \in DOMAIN renderers : SessionDrops(r) \/ PageLeavesProject(r)
    \/ \E t \in Targets : PageReloads(t)
    \/ ProcessExits

HostNext == Proceeds \/ Polls \/ Environment \/ Close

HostSpec == HostInit /\ [][HostNext]_hostVars

(* Commands of a session are answered or fail with it, every wait has an     *)
(* end, and the instance is polled by a timer.                               *)
HostFairSpec == HostSpec /\ WF_hostVars(Proceeds) /\ WF_hostVars(Polls)

(* ------------------------------- properties ------------------------------- *)

(* A renderer whose bridge is to stay: it is being connected or attached,    *)
(* and no reinstallation is due or has failed.                               *)
IsInPlace(x) ==
    /\ x.stage \in {"installing", "attached"}
    /\ x.session = "open"
    /\ x.queued = 0
    /\ x.refresh \in {"none", "install"}

(* An earlier renderer of the page could not release its lease.              *)
KeptLease(r) ==
    \E s \in 1 .. r - 1 :
        renderers[s].target = renderers[r].target /\ renderers[s].lease

(* The bridge that shows the surface is in a page only under a lease.  Once  *)
(* every reload that was heard is dealt with, it is also under a bypass that *)
(* its own session has turned on, with two exceptions: an earlier renderer   *)
(* of the page has kept its lease, so that the new one was only counted, or  *)
(* the page was reloaded before anybody listened.                            *)
MountedUnderBypass ==
    \A r \in DOMAIN renderers :
        /\ renderers[r].bridge /\ renderers[r].session = "open" => renderers[r].lease
        /\ renderers[r].bridge /\ IsInPlace(renderers[r]) =>
             renderers[r].bypass \/ renderers[r].unheard \/ KeptLease(r)

(* Nothing of the host is left behind that it was not refused: when the      *)
(* runtime is closed or has fallen back no session is open, and while it is  *)
(* attached only the renderer in use has one, but for sessions that refused  *)
(* to release their lease; and a session that was closed, after an attach    *)
(* that failed too, has left a bridge or a lease only where taking it back   *)
(* was refused.                                                              *)
InUse(r) ==
    \/ r = connection.renderer
    \/ r = Newest /\ (runtime.phase = "attaching" \/ connection.replacing # "no")

IsOver == runtime.closed \/ runtime.phase = "standalone"

NothingIsLeftBehind ==
    \A r \in DOMAIN renderers :
        /\ renderers[r].session = "open" /\ "lease" \notin renderers[r].refused =>
             InUse(r) /\ ~IsOver
        /\ renderers[r].session = "closed" =>
             /\ renderers[r].bridge => "bridge" \in renderers[r].refused
             /\ renderers[r].lease => "lease" \in renderers[r].refused

(* The host follows the instance: again and again it comes to rest, with the *)
(* connection on the page that is listed, unless the host has fallen back or *)
(* is closing; and a close, like a fallback, has come to its end by then.    *)
FollowsTarget ==
    []<>(/\ runtime.phase = "attached" /\ ~runtime.closing =>
              /\ connection.renderer # 0
              /\ Current.stage = "attached"
              /\ Current.target = listed
         /\ runtime.closing => runtime.closed
         /\ runtime.phase \in {"attached", "standalone"})

===============================================================================
