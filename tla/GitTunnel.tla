----------------------------- MODULE GitTunnel ------------------------------
(***************************************************************************)
(* How the repository of one thread gets into its sandbox and back out:    *)
(* ensureRepoBootstrap and teardownSession (git/bootstrap.ts), the bot's   *)
(* end of the tunnel (git/ws-tunnel.ts) and the sandbox's end of it, one   *)
(* listener on port 6000 per WebSocket (sandbox/server/server.ts).  Every  *)
(* tool call bootstraps, and tool calls run side by side.                  *)
(*                                                                         *)
(* Git servers, tunnels and the connections of a tunnel are numbered.  The *)
(* bytes inside a stream are in TunnelStream.                              *)
(***************************************************************************)
EXTENDS Naturals, FiniteSets

CONSTANTS
  Call,         \* calls of ensureRepoBootstrap
  None,
  Mishap,       \* "drop", "refuse", "fail", "move", "wipe", "crash", "delete"
  MaxTunnels,   \* bound: git servers, and tunnels, ever started
  MaxMishaps    \* bound: mishaps

ASSUME GitTunnelAssumption ==
  /\ IsFiniteSet(Call) /\ None \notin Call
  /\ None \notin [srv : Nat, tun : Nat]
  /\ MaxTunnels \in Nat

Tunnel == 1..MaxTunnels

VARIABLES
  direct,     \* transport: the sandbox clones over SSH by itself
  ref,        \* session.git.ref is on record
  handle,     \* handles: the git server and the tunnel in use, or None
  tunMap,     \* tunnels: what startTunnel finds, or 0
  servers,    \* live git servers on loopback
  tun,        \* tun[t]: state, target and generation of its WebSocket
  conns,      \* the sandbox's side: connections with or without the port
  call,       \* call[c]: the await it is at, its server and its tunnel
  home,       \* what is in the workspace: subset of {"git","tree","ssh","branch"}
  tmp,        \* whose clone is in /tmp/agenta-clone
  box,        \* which sandbox is behind the endpoint
  made, mishaps,
  marred      \* history: what excuses a loss, see the properties

bot == <<ref, handle, tunMap, servers, tun, call>>
sandbox == <<conns, home, tmp, box>>
misc == <<direct, made, mishaps, marred>>
vars == <<bot, sandbox, misc>>

NoCall == [pc |-> "idle", srv |-> 0, tun |-> 0, stray |-> FALSE]
NoTunnel == [st |-> "none", srv |-> 0, box |-> 0, opened |-> FALSE, gen |-> 0]

Init ==
  /\ direct \in BOOLEAN
  /\ ref = FALSE /\ handle = None /\ tunMap = 0 /\ servers = {}
  /\ tun = [t \in Tunnel |-> NoTunnel]
  /\ conns = {} /\ call = [c \in Call |-> NoCall]
  /\ home = {} /\ tmp = None /\ box = 0
  /\ made = 0 /\ mishaps = 0 /\ marred = {}

Budget(k) == k \in Mishap /\ mishaps < MaxMishaps /\ mishaps' = mishaps + 1
Mar(why, cond) == marred' = IF cond THEN marred \cup {why} ELSE marred

-----------------------------------------------------------------------------
(* The tunnel.                                                             *)

Current(k) == tun[k.t].st = "open" /\ k.gen = tun[k.t].gen

\* The WebSocket opens; the sandbox's listener gets the port unless an older
\* connection still has it: then listen fails, which is logged, no more.
TunnelOpens(t) ==
  /\ tun[t].st = "connecting" /\ tun[t].box = box
  /\ tun' = [tun EXCEPT ![t].st = "open", ![t].opened = TRUE]
  /\ LET free == \A k \in conns : ~k.bound
     IN /\ conns' = conns \cup {[t |-> t, gen |-> tun[t].gen, bound |-> free]}
        /\ Mar("deaf", ~free)
  /\ UNCHANGED <<ref, handle, tunMap, servers, call, home, tmp, box, direct, made, mishaps>>

\* A close before the open: back to the timer, and whoever waits for the first
\* open is rejected.  A sandbox that is gone refuses.
TunnelRefused(t) ==
  /\ tun[t].st = "connecting"
  /\ \/ tun[t].box # box /\ UNCHANGED mishaps
     \/ Budget("refuse")
  /\ tun' = [tun EXCEPT ![t].st = "waiting"]
  /\ call' = [c \in Call |-> IF call[c].pc = "opening" /\ call[c].tun = t
                             THEN [call[c] EXCEPT !.pc = "rejected"] ELSE call[c]]
  /\ UNCHANGED <<ref, handle, tunMap, servers, sandbox, direct, made, marred>>

\* The connection breaks: the bot's side hears of it first.
TunnelDrops(t) ==
  /\ tun[t].st = "open" /\ Budget("drop")
  /\ tun' = [tun EXCEPT ![t].st = "waiting"]
  /\ UNCHANGED <<ref, handle, tunMap, servers, call, sandbox, direct, made, marred>>

\* Slip: the tunnel gives up after it has been open once.
ReconnectOnce(t) ==
  /\ tun[t].st = "waiting" /\ ~tun[t].opened
  /\ tun' = [tun EXCEPT ![t].st = "connecting", ![t].gen = 1 - @]
  /\ UNCHANGED <<ref, handle, tunMap, servers, call, sandbox, misc>>

\* The reconnect timer.  Of the generations only the last two are told apart.
Reconnect(t) ==
  /\ tun[t].st = "waiting" /\ ~ \E k \in conns : k.t = t /\ k.gen # tun[t].gen
  /\ tun' = [tun EXCEPT ![t].st = "connecting", ![t].gen = 1 - @]
  /\ UNCHANGED <<ref, handle, tunMap, servers, call, sandbox, misc>>

\* closeTunnel in the sandbox: streams and listener go.
SandboxCloses(k) ==
  /\ k \in conns /\ ~Current(k)
  /\ conns' = conns \ {k}
  /\ UNCHANGED <<bot, home, tmp, box, misc>>

\* TunnelHandle.stop.
Gone == [NoTunnel EXCEPT !.st = "stopped"]
Stopped(t) == [tun EXCEPT ![t] = Gone]

-----------------------------------------------------------------------------
(* ensureRepoBootstrap.                                                    *)

Goto(c, l) == call' = [call EXCEPT ![c].pc = l]
Throws(c) == call' = [call EXCEPT ![c] = NoCall]
Returns(c) == call' = [call EXCEPT ![c] = [NoCall EXCEPT !.pc = "done"]]

\* A command in the sandbox that does not exit with 0 makes the bootstrap throw.
Fails(c) == Budget("fail") /\ Throws(c)

Runs(c) == call[c].pc \notin {"idle", "done"}
Others(c) == \E d \in Call \ {c} : Runs(d)
\* A bound: there is a number left for another server.
Room == made + Cardinality({c \in Call : call[c].pc = "server"}) < MaxTunnels

\* The session is read; a handle without a recorded ref is torn down first.
Bootstrap(c) ==
  /\ ~Runs(c) /\ ~direct
  /\ Mar("overlap", Others(c))
  /\ \/ handle # None /\ ref /\ Goto(c, "probe")
        /\ UNCHANGED <<handle, tunMap, servers, tun>>
     \/ handle # None /\ ~ref /\ Room /\ Goto(c, "server")
        /\ tun' = Stopped(handle.tun) /\ tunMap' = 0
        /\ servers' = servers \ {handle.srv} /\ handle' = None
     \/ handle = None /\ Room /\ Goto(c, "server")
        /\ UNCHANGED <<handle, tunMap, servers, tun>>
  /\ UNCHANGED <<ref, sandbox, direct, made, mishaps>>

\* Slip: a handle and a ref are enough.
ProbeTrusts(c) ==
  /\ call[c].pc = "probe" /\ Returns(c)
  /\ UNCHANGED <<ref, handle, tunMap, servers, tun, sandbox, misc>>

\* The fast path asks for ~/.git and nothing else.
Probe(c) ==
  /\ call[c].pc = "probe"
  /\ IF "git" \in home THEN Returns(c) ELSE Goto(c, "clone")
  /\ UNCHANGED <<ref, handle, tunMap, servers, tun, sandbox, misc>>

StartGitServer(c) ==
  /\ call[c].pc = "server"
  /\ made' = made + 1 /\ servers' = servers \cup {made'}
  /\ call' = [call EXCEPT ![c].pc = "endpoint", ![c].srv = made']
  /\ UNCHANGED <<ref, handle, tunMap, tun, sandbox, direct, mishaps, marred>>

\* sandboxEndpoint, outside of the try: a throw leaves the server behind.
\* startTunnel then takes the tunnel of the thread, or connects a new one.
StartTunnel(c) ==
  /\ call[c].pc = "endpoint"
  /\ \/ /\ tunMap # 0
        /\ handle' = [srv |-> call[c].srv, tun |-> tunMap]
        /\ Goto(c, "port") /\ UNCHANGED <<tun, mishaps, marred>>
     \/ /\ tunMap = 0
        /\ LET t == call[c].srv
           IN /\ tun' = [tun EXCEPT ![t] = [NoTunnel EXCEPT !.st = "connecting",
                                              !.srv = t, !.box = box]]
              /\ call' = [call EXCEPT ![c].pc = "opening", ![c].tun = t]
        /\ UNCHANGED <<handle, mishaps, marred>>
     \/ /\ Fails(c) /\ Mar("leak", TRUE) /\ UNCHANGED <<tun, handle>>
  /\ UNCHANGED <<ref, tunMap, servers, sandbox, direct, made>>

\* The first open resolves startTunnel.
TunnelReady(c) ==
  /\ call[c].pc = "opening" /\ tun[call[c].tun].opened
  /\ tunMap' = call[c].tun
  /\ handle' = [srv |-> call[c].srv, tun |-> call[c].tun]
  /\ Goto(c, "port")
  /\ UNCHANGED <<ref, servers, tun, sandbox, misc>>

\* Slip: nobody stops the server.
TunnelFailsOpen(c) ==
  /\ call[c].pc = "rejected" /\ Throws(c)
  /\ Mar("zombie", tun[call[c].tun].st # "stopped")
  /\ UNCHANGED <<ref, handle, tunMap, servers, tun, sandbox, direct, made, mishaps>>

\* Slip: only an open ends the wait.
TunnelNeverFails(c) == FALSE /\ TunnelFailsOpen(c)

\* Rejected, or not open within 15 s: the server is stopped, the tunnel goes on
\* trying.
TunnelFails(c) ==
  /\ \/ call[c].pc = "rejected" /\ UNCHANGED mishaps
     \/ call[c].pc = "opening" /\ ~tun[call[c].tun].opened /\ Budget("refuse")
  /\ servers' = servers \ {call[c].srv} /\ Throws(c)
  /\ Mar("zombie", tun[call[c].tun].st # "stopped")
  /\ UNCHANGED <<ref, handle, tunMap, tun, sandbox, direct, made>>

\* waitForSandboxPort: somebody listens on 6000, or not within 5 s.
WaitForSandboxPort(c) ==
  /\ call[c].pc = "port"
  /\ \/ (\E k \in conns : k.bound) /\ Goto(c, "setgit")
     \/ (\A k \in conns : ~k.bound) /\ Throws(c)
  /\ UNCHANGED <<ref, handle, tunMap, servers, tun, sandbox, misc>>

SetGit(c) ==
  /\ call[c].pc = "setgit"
  /\ ref' = TRUE /\ Goto(c, "clone")
  /\ UNCHANGED <<handle, tunMap, servers, tun, sandbox, misc>>

-----------------------------------------------------------------------------
(* cloneAndCheckout and bootstrapDirect: commands in the sandbox.          *)

\* A connection to port 6000 reaches a git server that lives.
Served ==
  \E k \in conns : k.bound /\ Current(k) /\ tun[k.t].srv \in servers

Command(c) == UNCHANGED <<ref, handle, tunMap, servers, tun, conns, box, direct, made>>
\* A command that fails once there is a clone leaves the rest undone.
Breaks(c) == Fails(c) /\ Mar("cut", home # {}) /\ UNCHANGED <<home, tmp>>

\* [ -d ~/.git ] || rm -rf /tmp/agenta-clone && git clone ...
Clone(c) ==
  /\ call[c].pc = "clone"
  /\ \/ "git" \in home /\ Goto(c, "config") /\ UNCHANGED <<home, tmp, mishaps, marred>>
     \/ "git" \notin home /\ tmp' = c /\ Goto(c, "cloning")
        /\ UNCHANGED <<home, mishaps, marred>>
     \/ Breaks(c)
  /\ Command(c)

\* ... && mv agenta-clone/.git ~/ : fails if the directory is another's by now,
\* or if nobody serves the clone.
CloneMoves(c) ==
  /\ call[c].pc = "cloning"
  /\ \/ /\ tmp = c /\ (direct \/ Served)
        /\ home' = home \cup {"git"} /\ Goto(c, "copying") /\ UNCHANGED mishaps
     \/ /\ ~(tmp = c /\ (direct \/ Served)) /\ Throws(c) /\ UNCHANGED <<home, mishaps>>
  /\ UNCHANGED <<tmp, marred>> /\ Command(c)

\* ... && cp -an agenta-clone/. ~/ && rm -rf agenta-clone.
CloneCopies(c) ==
  /\ call[c].pc = "copying"
  /\ \/ /\ tmp = c
        /\ home' = home \cup {"tree"} /\ tmp' = None
        /\ IF call[c].stray THEN Throws(c) ELSE Goto(c, "config")
        /\ UNCHANGED <<mishaps, marred>>
     \/ /\ tmp # c /\ Throws(c) /\ Mar("cut", TRUE)
        /\ UNCHANGED <<home, tmp, mishaps>>
     \/ Breaks(c)
  /\ Command(c)

\* core.sshCommand (direct), the origin, the identity and the session branch.
Configure(c) ==
  /\ call[c].pc = "config"
  /\ \/ /\ home' = home \cup (IF direct THEN {"ssh", "branch"} ELSE {"branch"})
        /\ Returns(c) /\ UNCHANGED <<tmp, mishaps, marred>>
     \/ Breaks(c)
  /\ Command(c)

\* bootstrapDirect records the ref and probes; a present ~/.git only gets its
\* branch and identity.
BootstrapDirect(c) ==
  /\ ~Runs(c) /\ direct
  /\ ref' = TRUE /\ Goto(c, "dprobe")
  /\ Mar("overlap", Others(c))
  /\ UNCHANGED <<handle, tunMap, servers, tun, sandbox, direct, made, mishaps>>

DirectProbe(c) ==
  /\ call[c].pc = "dprobe"
  /\ Goto(c, IF "git" \in home THEN "branch" ELSE "clone")
  /\ UNCHANGED <<ref, handle, tunMap, servers, tun, sandbox, misc>>

EnsureBranch(c) ==
  /\ call[c].pc = "branch"
  /\ \/ home' = home \cup {"branch"} /\ Returns(c) /\ UNCHANGED <<tmp, mishaps, marred>>
     \/ Breaks(c)
  /\ Command(c)

BootstrapStep(c) ==
  \/ Probe(c) \/ StartGitServer(c) \/ StartTunnel(c) \/ TunnelReady(c) \/ TunnelFails(c)
  \/ WaitForSandboxPort(c) \/ SetGit(c) \/ Clone(c) \/ CloneMoves(c) \/ CloneCopies(c)
  \/ Configure(c) \/ DirectProbe(c) \/ EnsureBranch(c)

-----------------------------------------------------------------------------
(* teardownSession, and what befalls the rest of the world.                *)

Stops(s, t) ==
  /\ tun' = IF t = 0 THEN tun ELSE Stopped(t)
  /\ servers' = servers \ {s}

\* /delete and shutdown.  Without a handle the tunnel map is consulted.
TeardownSession ==
  /\ Budget("delete")
  /\ \/ handle # None /\ Stops(handle.srv, handle.tun)
     \/ handle = None /\ Stops(0, tunMap)
  /\ handle' = None /\ tunMap' = 0
  /\ Mar("overlap", \E c \in Call : Runs(c))
  /\ UNCHANGED <<ref, call, sandbox, direct, made>>

\* The sandbox is replaced (see Sandbox): another endpoint, on the same volume or
\* on an empty one.
SandboxMoves ==
  /\ \/ Budget("move") /\ UNCHANGED home /\ Mar("moved", TRUE)
     \/ /\ Budget("wipe") /\ home' = {}
        /\ marred' = marred \cup {"moved"} \cup
             IF \E c \in Call : Runs(c) THEN {"cut"} ELSE {}
  /\ box' = box + 1 /\ conns' = {} /\ tmp' = None
  /\ tun' = [t \in Tunnel |->
       IF tun[t].st = "open" THEN [tun[t] EXCEPT !.st = "waiting"] ELSE tun[t]]
  /\ UNCHANGED <<ref, handle, tunMap, servers, call, direct, made>>

\* The process dies with its servers and tunnels.  The sandbox signals the shell
\* of the command that ran, whose children may still finish it.
Crash ==
  /\ Budget("crash")
  /\ handle' = None /\ tunMap' = 0 /\ servers' = {}
  /\ tun' = [t \in Tunnel |-> Gone]
  /\ \E left \in SUBSET {c \in Call : call[c].pc \in {"cloning", "copying"}} :
       call' = [c \in Call |->
         IF c \in left THEN [call[c] EXCEPT !.stray = TRUE] ELSE NoCall]
  /\ Mar("cut", \E c \in Call : call[c].pc \in {"cloning", "copying", "config"})
  /\ UNCHANGED <<ref, sandbox, direct, made>>

TunnelStep(t) == TunnelOpens(t) \/ (tun[t].box # box /\ TunnelRefused(t)) \/ Reconnect(t)

Next ==
  \/ \E c \in Call : Bootstrap(c) \/ BootstrapDirect(c) \/ BootstrapStep(c)
  \/ \E t \in Tunnel :
       TunnelOpens(t) \/ TunnelRefused(t) \/ TunnelDrops(t) \/ Reconnect(t)
  \/ \E k \in conns : SandboxCloses(k)
  \/ TeardownSession \/ SandboxMoves \/ Crash

\* Timers fire, reachable sandboxes answer, closed connections are noticed.
Fairness ==
  /\ \A c \in Call : WF_vars(BootstrapStep(c))
  /\ \A t \in Tunnel : WF_vars(TunnelStep(t))
  /\ WF_vars(\E k \in conns : SandboxCloses(k))

Spec == Init /\ [][Next]_vars /\ Fairness

-----------------------------------------------------------------------------
\* A bootstrap that returns leaves a checkout of the session branch with the
\* files of the repository, and the key in direct mode (bootstrap.ts:16, 200):
\* after a wipe as well, over an old tunnel as well.  Excused: the fast path asks
\* for ~/.git alone, so it takes a bootstrap that was cut short for a finished one,
\* and calls that overlap share /tmp/agenta-clone.
ReadyOnReturn ==
  [][\A c \in Call : Runs(c) /\ call'[c].pc = "done" /\ marred' \cap {"cut", "overlap"} = {}
       => {"git", "tree", "branch"} \cup (IF direct THEN {"ssh"} ELSE {}) \subseteq home']_vars

\* The tunnel in use runs and leads to the git server in use (bootstrap.ts:134).
\* Excused: overlapping calls, where the second gets the first one's tunnel.
HandleLeadsHome ==
  handle # None /\ "overlap" \notin marred =>
    /\ handle.srv \in servers /\ tunMap = handle.tun
    /\ tun[handle.tun].srv = handle.srv /\ tun[handle.tun].st # "stopped"

\* A git server is in use or on its way there: none keeps listening for a thread
\* whose bootstrap failed (bootstrap.ts:131).  Excused: sandboxEndpoint threw,
\* calls overlapped.
NoServerLeaks ==
  marred \cap {"leak", "overlap"} = {} =>
    servers \subseteq {call[c].srv : c \in {d \in Call : Runs(d)}} \cup
                    (IF handle = None THEN {} ELSE {handle.srv})

\* The handle and the git servers account for each other.
ServersAccounted == HandleLeadsHome /\ NoServerLeaks

\* Every bootstrap ends, whatever refuses, drops or moves (ws-tunnel.ts:182).
BootstrapReturns == \A c \in Call : Runs(c) ~> ~Runs(c)

\* After a drop the tunnel in use serves port 6000 again (ws-tunnel.ts:88).
\* Excused: an older connection had the port when the new one came, a tunnel whose
\* first open had failed took it, the sandbox has moved.
Unheard == marred \cap {"deaf", "zombie", "moved", "overlap"} # {}
TunnelHeals == handle # None /\ ~Unheard ~> Served \/ handle = None \/ Unheard

\* A tunnel that is open gets the port before long (SPEC.md:214, server.ts:417).
OpenTunnelListens ==
  \A t \in Tunnel : tun[t].st = "open" ~>
    tun[t].st # "open" \/ \E k \in conns : k.t = t /\ k.bound
============================================================================
