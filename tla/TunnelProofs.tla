---------------------------- MODULE TunnelProofs ----------------------------
(***************************************************************************)
(* Theorems about both layers of the git tunnel.                           *)
(*                                                                         *)
(* GitTunnel, for any number of calls, tunnels and mishaps and both        *)
(* transports: every git server that runs is accounted for, and a          *)
(* bootstrap that returns leaves the clone ready.                          *)
(*                                                                         *)
(* TunnelStream, for any number of connections, sockets and chunks and a   *)
(* WebSocket that breaks any number of times: the bytes come out at the    *)
(* right end, in order and whole.                                          *)
(***************************************************************************)
EXTENDS GitTunnel, TunnelStream, FiniteSetTheorems, TLAPS

At == {"idle", "done", "probe", "server", "endpoint", "opening", "rejected", "port", "setgit",
       "clone", "cloning", "copying", "config", "dprobe", "branch"}
Number == 0..MaxTunnels
CallRec == [pc : At, srv : Number, tun : Number, stray : BOOLEAN]
TunRec == [st : {"none", "connecting", "open", "waiting", "stopped"},
           srv : Number, box : Nat, opened : BOOLEAN, gen : {0, 1}]
Handle == [srv : Tunnel, tun : Tunnel]

\* Calls that are about to start a git server, and those that have one of their own.
Waiting == {c \in Call : call[c].pc = "server"}
Holding == {c \in Call : call[c].pc \in {"endpoint", "opening", "rejected"}}

GitTunnelType ==
  /\ direct \in BOOLEAN /\ ref \in BOOLEAN
  /\ handle \in Handle \cup {None} /\ tunMap \in Number /\ servers \subseteq Tunnel
  /\ tun \in [Tunnel -> TunRec]
  /\ conns \subseteq [t : Tunnel, gen : {0, 1}, bound : BOOLEAN]
  /\ call \in [Call -> CallRec]
  /\ home \subseteq {"git", "tree", "ssh", "branch"} /\ tmp \in Call \cup {None}
  /\ box \in Nat /\ made \in Nat /\ mishaps \in Nat

\* The numbers suffice for the servers that are on their way.
NumbersInv ==
  /\ made + Cardinality(Waiting) <= MaxTunnels
  /\ \A c \in Holding : call[c].srv \in Tunnel
  /\ \A c \in Call : call[c].pc \in {"opening", "rejected"} => call[c].tun \in Tunnel

\* Without an overlap one call runs.
Alone == "overlap" \notin marred => \A c, d \in Call : Runs(c) /\ Runs(d) => c = d

\* The handle and the tunnel map go together; a call that brings up a server has no
\* handle beside it, and its own tunnel leads to its own server.
HandleInv ==
  "overlap" \notin marred =>
    /\ handle = None => tunMap = 0
    /\ \A c \in Waiting \cup Holding : handle = None
    /\ \A c \in Holding : call[c].srv \in servers
    /\ \A c \in Call : call[c].pc = "opening" =>
         tun[call[c].tun].srv = call[c].srv /\ tun[call[c].tun].st # "stopped"

\* A server that is not the handle's belongs to a call that can still stop it.
LeakInv ==
  marred \cap {"leak", "overlap"} = {} =>
    servers \subseteq {call[c].srv : c \in Holding} \cup
                    (IF handle = None THEN {} ELSE {handle.srv})

\* Between two bootstraps the workspace is empty or complete.
Whole == {"tree", "branch"} \cup (IF direct THEN {"ssh"} ELSE {})
HomeInv ==
  marred \cap {"cut", "overlap"} = {} =>
    /\ home # {} => "git" \in home
    /\ "git" \in home /\ (\A c \in Call : call[c].pc \notin {"copying", "config"}) =>
         Whole \subseteq home
    /\ \A c \in Call :
         /\ ~call[c].stray
         /\ call[c].pc \in {"copying", "config", "branch"} => "git" \in home
         /\ call[c].pc = "config" => "tree" \in home

-----------------------------------------------------------------------------
(* Types.                                                                  *)

LEMMA Numbers == 0 \in Number /\ Tunnel \subseteq Number
BY GitTunnelAssumption DEF Number, Tunnel

LEMMA Blank ==
  /\ NoCall \in CallRec /\ [NoCall EXCEPT !.pc = "done"] \in CallRec
  /\ NoTunnel \in TunRec /\ Gone \in TunRec
BY Numbers DEF NoCall, CallRec, At, NoTunnel, Gone, TunRec

\* Where a call goes, and that nobody else moves.
LEMMA Moves ==
  ASSUME call \in [Call -> CallRec], NEW c \in Call
  PROVE  /\ \A l \in At : Goto(c, l) =>
              /\ call' \in [Call -> CallRec]
              /\ call'[c] = [call[c] EXCEPT !.pc = l]
              /\ call'[c].pc = l /\ call'[c].srv = call[c].srv /\ call'[c].tun = call[c].tun
              /\ call'[c].stray = call[c].stray
              /\ \A d \in Call \ {c} : call'[d] = call[d]
         /\ Throws(c) =>
              /\ call' \in [Call -> CallRec]
              /\ call'[c].pc = "idle" /\ ~call'[c].stray
              /\ \A d \in Call \ {c} : call'[d] = call[d]
         /\ Returns(c) =>
              /\ call' \in [Call -> CallRec]
              /\ call'[c].pc = "done" /\ ~call'[c].stray
              /\ \A d \in Call \ {c} : call'[d] = call[d]
<1>1. ASSUME NEW l \in At, Goto(c, l)
      PROVE  /\ call' \in [Call -> CallRec]
             /\ call'[c] = [call[c] EXCEPT !.pc = l]
             /\ call'[c].pc = l /\ call'[c].srv = call[c].srv /\ call'[c].tun = call[c].tun
             /\ call'[c].stray = call[c].stray
             /\ \A d \in Call \ {c} : call'[d] = call[d]
  <2>1. [call[c] EXCEPT !.pc = l] \in CallRec /\ call[c] \in CallRec
    BY DEF CallRec
  <2>2. call' = [call EXCEPT ![c] = [call[c] EXCEPT !.pc = l]]
    BY <1>1 DEF Goto
  <2>3. QED
    BY <2>1, <2>2 DEF CallRec
<1>2. NoCall.pc = "idle" /\ ~NoCall.stray
  BY DEF NoCall
<1>3. [NoCall EXCEPT !.pc = "done"].pc = "done" /\ ~[NoCall EXCEPT !.pc = "done"].stray
  BY DEF NoCall
<1>4. QED
  BY <1>1, <1>2, <1>3, Blank DEF Throws, Returns

LEMMA Budgets ==
  ASSUME mishaps \in Nat, NEW k, Budget(k)
  PROVE  mishaps' \in Nat
BY DEF Budget

LEMMA TypeInit == Init => GitTunnelType
<1> SUFFICES ASSUME Init PROVE GitTunnelType
  OBVIOUS
<1>1. tun \in [Tunnel -> TunRec] /\ call \in [Call -> CallRec] /\ tunMap \in Number
  BY Blank, Numbers DEF Init
<1>2. QED
  BY <1>1 DEF Init, GitTunnelType

LEMMA TypeBootstrap ==
  ASSUME GitTunnelType, NEW c \in Call, Bootstrap(c) \/ BootstrapDirect(c)
  PROVE  GitTunnelType'
<1>1. CASE Bootstrap(c)
  <2>1. call' \in [Call -> CallRec]
    BY <1>1, Moves DEF Bootstrap, GitTunnelType, At
  <2>2. tun' \in [Tunnel -> TunRec] /\ servers' \subseteq Tunnel /\ tunMap' \in Number
        /\ handle' \in Handle \cup {None}
    BY <1>1, Blank, Numbers DEF Bootstrap, GitTunnelType, Stopped
  <2>3. QED
    BY <1>1, <2>1, <2>2 DEF Bootstrap, GitTunnelType, sandbox
<1>2. CASE BootstrapDirect(c)
  <2>1. call' \in [Call -> CallRec]
    BY <1>2, Moves DEF BootstrapDirect, GitTunnelType, At
  <2>2. QED
    BY <1>2, <2>1 DEF BootstrapDirect, GitTunnelType, sandbox
<1>3. QED
  BY <1>1, <1>2

LEMMA WaitingFinite ==
  IsFiniteSet(Waiting) /\ Cardinality(Waiting) \in Nat
BY GitTunnelAssumption, FS_Subset, FS_CardinalityType DEF Waiting

LEMMA ServerRoom ==
  ASSUME GitTunnelType, NumbersInv, NEW c \in Waiting
  PROVE  made + 1 \in Tunnel
<1>1. Cardinality(Waiting) # 0
  BY WaitingFinite, FS_EmptySet
<1>2. QED
  BY <1>1, WaitingFinite, GitTunnelAssumption DEF NumbersInv, GitTunnelType, Tunnel

\* Probe to SetGit: the server and its tunnel.
LEMMA TypeServer ==
  ASSUME GitTunnelType, NumbersInv, NEW c \in Call,
         \/ Probe(c) \/ StartGitServer(c) \/ StartTunnel(c) \/ TunnelReady(c)
         \/ TunnelFails(c) \/ WaitForSandboxPort(c) \/ SetGit(c)
  PROVE  GitTunnelType'
<1> USE DEF GitTunnelType
<1>1. CASE Probe(c) \/ SetGit(c) \/ WaitForSandboxPort(c)
  <2>1. call' \in [Call -> CallRec]
    BY <1>1, Moves DEF Probe, SetGit, WaitForSandboxPort, At
  <2>2. QED
    BY <1>1, <2>1 DEF Probe, SetGit, WaitForSandboxPort, sandbox, misc
<1>2. CASE StartGitServer(c)
  <2>1. made + 1 \in Tunnel
    BY <1>2, ServerRoom DEF StartGitServer, Waiting
  <2>2. call' \in [Call -> CallRec]
    <3>1. [call[c] EXCEPT !.pc = "endpoint", !.srv = made'] \in CallRec
      BY <1>2, <2>1, Numbers DEF StartGitServer, CallRec, At
    <3>2. QED
      BY <1>2, <3>1 DEF StartGitServer
  <2>3. QED
    BY <1>2, <2>1, <2>2 DEF StartGitServer, sandbox
<1>3. CASE StartTunnel(c)
  <2>1. call[c].srv \in Tunnel
    BY <1>3 DEF StartTunnel, NumbersInv, Holding
  <2>2. CASE tunMap # 0 /\ Goto(c, "port") /\ handle' = [srv |-> call[c].srv, tun |-> tunMap]
             /\ UNCHANGED <<tun, mishaps, marred>>
    <3>1. handle' \in Handle
      BY <2>1, <2>2 DEF Handle, Number, Tunnel
    <3>2. call' \in [Call -> CallRec]
      BY <2>2, Moves DEF At
    <3>3. QED
      BY <1>3, <2>2, <3>1, <3>2 DEF StartTunnel, sandbox
  <2>3. CASE /\ tun' = [tun EXCEPT ![call[c].srv] = [NoTunnel EXCEPT !.st = "connecting",
                                             !.srv = call[c].srv, !.box = box]]
             /\ call' = [call EXCEPT ![c].pc = "opening", ![c].tun = call[c].srv]
             /\ UNCHANGED <<handle, mishaps, marred>>
    <3>1. [NoTunnel EXCEPT !.st = "connecting", !.srv = call[c].srv, !.box = box] \in TunRec
      BY <2>1, Numbers DEF NoTunnel, TunRec
    <3>2. tun' \in [Tunnel -> TunRec]
      BY <2>3, <3>1
    <3>3. [call[c] EXCEPT !.pc = "opening", !.tun = call[c].srv] \in CallRec
      BY <2>1, Numbers DEF CallRec, At
    <3>4. call' \in [Call -> CallRec]
      BY <2>3, <3>3
    <3>5. QED
      BY <1>3, <2>3, <3>2, <3>4 DEF StartTunnel, sandbox
  <2>4. CASE Fails(c) /\ UNCHANGED <<tun, handle>>
    BY <1>3, <2>4, Moves, Budgets DEF StartTunnel, Fails, sandbox
  <2>5. QED
    BY <1>3, <2>2, <2>3, <2>4 DEF StartTunnel
<1>4. CASE TunnelReady(c)
  <2>1. call[c].srv \in Tunnel /\ call[c].tun \in Tunnel
    BY <1>4 DEF TunnelReady, NumbersInv, Holding
  <2>2. call' \in [Call -> CallRec]
    BY <1>4, Moves DEF TunnelReady, At
  <2>3. QED
    BY <1>4, <2>1, <2>2, Numbers DEF TunnelReady, Handle, sandbox, misc
<1>5. CASE TunnelFails(c)
  <2>1. call' \in [Call -> CallRec] /\ mishaps' \in Nat
    BY <1>5, Moves, Budgets DEF TunnelFails
  <2>2. QED
    BY <1>5, <2>1 DEF TunnelFails, sandbox
<1>6. QED
  BY <1>1, <1>2, <1>3, <1>4, <1>5

\* Clone to EnsureBranch: the commands.
LEMMA TypeCommand ==
  ASSUME GitTunnelType, NEW c \in Call,
         \/ Clone(c) \/ CloneMoves(c) \/ CloneCopies(c) \/ Configure(c) \/ DirectProbe(c)
         \/ EnsureBranch(c)
  PROVE  GitTunnelType'
<1> USE DEF GitTunnelType
<1>1. CASE Clone(c)
  <2>1. call' \in [Call -> CallRec] /\ mishaps' \in Nat
    BY <1>1, Moves, Budgets DEF Clone, Breaks, Fails, At
  <2>2. QED
    BY <1>1, <2>1 DEF Clone, Breaks, Command
<1>2. CASE CloneMoves(c)
  <2>1. call' \in [Call -> CallRec] /\ mishaps' \in Nat
    BY <1>2, Moves DEF CloneMoves, At
  <2>2. QED
    BY <1>2, <2>1 DEF CloneMoves, Command
<1>3. CASE CloneCopies(c)
  <2>1. call' \in [Call -> CallRec] /\ mishaps' \in Nat
    BY <1>3, Moves, Budgets DEF CloneCopies, Breaks, Fails, At
  <2>2. QED
    BY <1>3, <2>1 DEF CloneCopies, Breaks, Command
<1>4. CASE Configure(c)
  <2>1. call' \in [Call -> CallRec] /\ mishaps' \in Nat
    BY <1>4, Moves, Budgets DEF Configure, Breaks, Fails
  <2>2. QED
    BY <1>4, <2>1 DEF Configure, Breaks, Command
<1>5. CASE DirectProbe(c)
  <2>1. call' \in [Call -> CallRec]
    BY <1>5, Moves DEF DirectProbe, At
  <2>2. QED
    BY <1>5, <2>1 DEF DirectProbe, sandbox, misc
<1>6. CASE EnsureBranch(c)
  <2>1. call' \in [Call -> CallRec] /\ mishaps' \in Nat
    BY <1>6, Moves, Budgets DEF EnsureBranch, Breaks, Fails
  <2>2. QED
    BY <1>6, <2>1 DEF EnsureBranch, Breaks, Command
<1>7. QED
  BY <1>1, <1>2, <1>3, <1>4, <1>5, <1>6

LEMMA TypeTunnel ==
  ASSUME GitTunnelType, NEW t \in Tunnel,
         TunnelOpens(t) \/ TunnelRefused(t) \/ TunnelDrops(t) \/ Reconnect(t)
  PROVE  GitTunnelType'
<1> USE DEF GitTunnelType
<1>1. tun' \in [Tunnel -> TunRec]
  BY DEF TunnelOpens, TunnelRefused, TunnelDrops, Reconnect, TunRec
<1>2. CASE TunnelOpens(t)
  <2>1. conns' \subseteq [t : Tunnel, gen : {0, 1}, bound : BOOLEAN]
    <3>1. tun[t].gen \in {0, 1}
      BY DEF TunRec
    <3> DEFINE free == \A k \in conns : ~k.bound
    <3>2. conns' = conns \cup {[t |-> t, gen |-> tun[t].gen, bound |-> free]}
      BY <1>2 DEF TunnelOpens
    <3>3. free \in BOOLEAN
      OBVIOUS
    <3> HIDE DEF free
    <3>4. [t |-> t, gen |-> tun[t].gen, bound |-> free] \in [t : Tunnel, gen : {0, 1}, bound : BOOLEAN]
      BY <3>1, <3>3
    <3>5. QED
      BY <3>2, <3>4
  <2>2. QED
    BY <1>1, <1>2, <2>1 DEF TunnelOpens
<1>3. CASE TunnelRefused(t)
  <2>1. ASSUME NEW c \in Call PROVE [call[c] EXCEPT !.pc = "rejected"] \in CallRec
    BY DEF CallRec, At
  <2>2. call' \in [Call -> CallRec]
    BY <1>3, <2>1 DEF TunnelRefused
  <2>3. QED
    BY <1>1, <1>3, <2>2, Budgets DEF TunnelRefused, sandbox
<1>4. CASE TunnelDrops(t) \/ Reconnect(t)
  BY <1>1, <1>4, Budgets DEF TunnelDrops, Reconnect, sandbox, misc
<1>5. QED
  BY <1>2, <1>3, <1>4

LEMMA TypeWorld ==
  ASSUME GitTunnelType,
         \/ \E k \in conns : SandboxCloses(k)
         \/ TeardownSession \/ SandboxMoves \/ Crash
  PROVE  GitTunnelType'
<1> USE DEF GitTunnelType
<1>1. CASE \E k \in conns : SandboxCloses(k)
  BY <1>1 DEF SandboxCloses, bot, misc
<1>2. CASE TeardownSession
  <2>1. tun' \in [Tunnel -> TunRec] /\ servers' \subseteq Tunnel
    BY <1>2, Blank DEF TeardownSession, Stops, Stopped
  <2>2. QED
    BY <1>2, <2>1, Numbers, Budgets DEF TeardownSession, sandbox
<1>3. CASE SandboxMoves
  <2>1. tun' \in [Tunnel -> TunRec]
    BY <1>3 DEF SandboxMoves, TunRec
  <2>2. mishaps' \in Nat /\ home' \subseteq {"git", "tree", "ssh", "branch"}
    BY <1>3, Budgets DEF SandboxMoves
  <2>3. QED
    BY <1>3, <2>1, <2>2 DEF SandboxMoves
<1>4. CASE Crash
  <2>1. ASSUME NEW c \in Call PROVE [call[c] EXCEPT !.stray = TRUE] \in CallRec
    BY DEF CallRec
  <2>2. call' \in [Call -> CallRec] /\ tun' \in [Tunnel -> TunRec]
    BY <1>4, <2>1, Blank DEF Crash
  <2>3. QED
    BY <1>4, <2>2, Numbers, Budgets DEF Crash, sandbox
<1>5. QED
  BY <1>1, <1>2, <1>3, <1>4

-----------------------------------------------------------------------------
(* What the steps do to the calls, the numbers and the history.            *)

Steps(c) == Bootstrap(c) \/ BootstrapDirect(c) \/ BootstrapStep(c)
World ==
  \/ \E t \in Tunnel : TunnelOpens(t) \/ TunnelRefused(t) \/ TunnelDrops(t) \/ Reconnect(t)
  \/ \E k \in conns : SandboxCloses(k)
  \/ TeardownSession \/ SandboxMoves \/ Crash

LEMMA TypeNext ==
  ASSUME GitTunnelType, NumbersInv, [Next]_vars
  PROVE  GitTunnelType'
<1>1. CASE Next
  BY <1>1, TypeBootstrap, TypeServer, TypeCommand, TypeTunnel, TypeWorld
     DEF Next, BootstrapStep
<1>2. CASE UNCHANGED vars
  BY <1>2 DEF GitTunnelType, vars, bot, sandbox, misc
<1>3. QED
  BY <1>1, <1>2

LEMMA OneCall ==
  ASSUME GitTunnelType, NEW c \in Call, Steps(c)
  PROVE  \A d \in Call \ {c} : call'[d] = call[d]
<1> USE Moves DEF GitTunnelType, At
<1>1. CASE Bootstrap(c) \/ BootstrapDirect(c)
  BY <1>1 DEF Bootstrap, BootstrapDirect
<1>2. CASE Probe(c) \/ TunnelReady(c) \/ TunnelFails(c) \/ WaitForSandboxPort(c) \/ SetGit(c)
  BY <1>2 DEF Probe, TunnelReady, TunnelFails, WaitForSandboxPort, SetGit
<1>3. CASE StartGitServer(c) \/ StartTunnel(c)
  BY <1>3 DEF StartGitServer, StartTunnel, Fails
<1>4. CASE Clone(c) \/ CloneMoves(c) \/ CloneCopies(c)
  BY <1>4 DEF Clone, CloneMoves, CloneCopies, Breaks, Fails
<1>5. CASE Configure(c) \/ DirectProbe(c) \/ EnsureBranch(c)
  BY <1>5 DEF Configure, DirectProbe, EnsureBranch, Breaks, Fails
<1>6. QED
  BY <1>1, <1>2, <1>3, <1>4, <1>5 DEF Steps, BootstrapStep

\* History is only added to.
LEMMA MarksKept ==
  ASSUME [Next]_vars
  PROVE  marred \subseteq marred'
<1>1. ASSUME NEW c \in Call, Bootstrap(c) \/ BootstrapDirect(c) PROVE marred \subseteq marred'
  BY <1>1 DEF Bootstrap, BootstrapDirect, Mar
<1>2. ASSUME NEW c \in Call, Probe(c) \/ StartGitServer(c) \/ StartTunnel(c) \/ TunnelReady(c)
                             \/ TunnelFails(c) \/ WaitForSandboxPort(c) \/ SetGit(c)
      PROVE  marred \subseteq marred'
  BY <1>2 DEF Probe, StartGitServer, StartTunnel, TunnelReady, TunnelFails, WaitForSandboxPort,
              SetGit, Mar, misc
<1>3. ASSUME NEW c \in Call, Clone(c) \/ CloneMoves(c) \/ CloneCopies(c) \/ Configure(c)
                             \/ DirectProbe(c) \/ EnsureBranch(c)
      PROVE  marred \subseteq marred'
  BY <1>3 DEF Clone, CloneMoves, CloneCopies, Configure, DirectProbe, EnsureBranch, Breaks,
              Mar, misc
<1>4. CASE World
  BY <1>4 DEF World, TunnelOpens, TunnelRefused, TunnelDrops, Reconnect, SandboxCloses,
              TeardownSession, SandboxMoves, Crash, Mar, misc
<1>5. CASE UNCHANGED vars
  BY <1>5 DEF vars, misc
<1>6. QED
  BY <1>1, <1>2, <1>3, <1>4, <1>5 DEF Next, BootstrapStep, World

\* A call that is not on its way to a server of its own starts no other.
Quiet(d) ==
  \/ call'[d] = call[d]
  \/ call'[d].pc \notin {"server", "endpoint", "opening", "rejected"}
  \/ call[d].pc = "opening" /\ call'[d] = [call[d] EXCEPT !.pc = "rejected"]

\* Nor does it let go of one.
Steady(d) ==
  \/ call'[d] = call[d]
  \/ {call[d].pc, call'[d].pc} \cap {"server", "endpoint", "opening", "rejected"} = {}
  \/ call[d].pc = "opening" /\ call'[d] = [call[d] EXCEPT !.pc = "rejected"]

LEMMA QuietCommand ==
  ASSUME GitTunnelType, NEW c \in Call,
         \/ Probe(c) \/ WaitForSandboxPort(c) \/ SetGit(c) \/ BootstrapDirect(c)
         \/ Clone(c) \/ CloneMoves(c) \/ CloneCopies(c) \/ Configure(c) \/ DirectProbe(c)
         \/ EnsureBranch(c)
  PROVE  /\ UNCHANGED <<handle, tunMap, servers, tun, made>>
         /\ \A d \in Call : Steady(d)
<1> DEFINE Fine == /\ UNCHANGED <<handle, tunMap, servers, tun, made>>
                   /\ {call[c].pc, call'[c].pc} \cap
                        {"server", "endpoint", "opening", "rejected"} = {}
<1>0. call \in [Call -> CallRec]
  BY DEF GitTunnelType
<1> USE Moves, <1>0 DEF At
<1>1. CASE Probe(c) \/ WaitForSandboxPort(c) \/ SetGit(c) \/ BootstrapDirect(c)
  <2>1. Fine
    BY <1>1 DEF Probe, WaitForSandboxPort, SetGit, BootstrapDirect, misc, Runs, CallRec
  <2>2. QED
    BY <1>1, <2>1, OneCall DEF Steps, BootstrapStep, Steady
<1>2. CASE Clone(c) \/ CloneMoves(c) \/ CloneCopies(c)
  <2>1. Fine
    BY <1>2 DEF Clone, CloneMoves, CloneCopies, Breaks, Fails, Command
  <2>2. QED
    BY <1>2, <2>1, OneCall DEF Steps, BootstrapStep, Steady
<1>3. CASE Configure(c) \/ DirectProbe(c) \/ EnsureBranch(c)
  <2>1. Fine
    BY <1>3 DEF Configure, DirectProbe, EnsureBranch, Breaks, Fails, Command, misc
  <2>2. QED
    BY <1>3, <2>1, OneCall DEF Steps, BootstrapStep, Steady
<1>4. QED
  BY <1>1, <1>2, <1>3

\* Only what runs as a command in the sandbox outlives the process.
LEMMA CrashCalls ==
  ASSUME GitTunnelType, Crash
  PROVE  \A d \in Call : call'[d].pc \in {"cloning", "copying", "idle"}
<1>1. PICK left \in SUBSET {c \in Call : call[c].pc \in {"cloning", "copying"}} :
        call' = [c \in Call |-> IF c \in left THEN [call[c] EXCEPT !.stray = TRUE] ELSE NoCall]
  BY DEF Crash
<1> TAKE d \in Call
<1>2. call[d] \in CallRec /\ NoCall.pc = "idle"
  BY DEF NoCall, GitTunnelType
<1>3. CASE d \in left
  BY <1>1, <1>2, <1>3 DEF CallRec
<1>4. CASE d \notin left
  BY <1>1, <1>2, <1>4
<1>5. QED
  BY <1>3, <1>4

LEMMA QuietWorld ==
  ASSUME GitTunnelType, World
  PROVE  made' = made /\ \A d \in Call : Quiet(d)
<1> USE DEF GitTunnelType, Quiet
<1>1. CASE \E t \in Tunnel : TunnelOpens(t) \/ TunnelRefused(t) \/ TunnelDrops(t) \/ Reconnect(t)
  BY <1>1 DEF TunnelOpens, TunnelRefused, TunnelDrops, Reconnect, misc
<1>2. CASE (\E k \in conns : SandboxCloses(k)) \/ TeardownSession \/ SandboxMoves
  BY <1>2 DEF SandboxCloses, TeardownSession, SandboxMoves, bot, misc
<1>3. CASE Crash
  BY <1>3, CrashCalls DEF Crash
<1>4. QED
  BY <1>1, <1>2, <1>3 DEF World

-----------------------------------------------------------------------------
(* NumbersInv.                                                             *)

LEMMA NumbersInit == Init => NumbersInv
<1> SUFFICES ASSUME Init PROVE NumbersInv
  OBVIOUS
<1>1. Waiting = {} /\ Holding = {} /\ \A c \in Call : call[c].pc = "idle"
  BY DEF Init, Waiting, Holding, NoCall
<1>2. QED
  BY <1>1, FS_EmptySet, GitTunnelAssumption DEF NumbersInv, Init

LEMMA NumbersQuiet ==
  ASSUME GitTunnelType, NumbersInv, made' = made, \A d \in Call : Quiet(d)
  PROVE  NumbersInv'
<1>1. Waiting' \subseteq Waiting
  BY DEF Waiting, Quiet, GitTunnelType, CallRec
<1>2. Cardinality(Waiting') <= Cardinality(Waiting) /\ Cardinality(Waiting') \in Nat
  BY <1>1, WaitingFinite, FS_Subset, FS_CardinalityType
<1> DEFINE own == {"endpoint", "opening", "rejected"}
           its == {"opening", "rejected"}
<1>3. ASSUME NEW c \in Call
      PROVE  /\ call'[c].pc \in own => call[c].pc \in own /\ call'[c].srv = call[c].srv
             /\ call'[c].pc \in its => call[c].pc \in its /\ call'[c].tun = call[c].tun
  <2>1. call[c] \in CallRec /\ Quiet(c)
    BY DEF GitTunnelType
  <2>2. CASE call'[c] = call[c] \/ call'[c].pc \notin {"server", "endpoint", "opening", "rejected"}
    BY <2>2
  <2>3. CASE call[c].pc = "opening" /\ call'[c] = [call[c] EXCEPT !.pc = "rejected"]
    BY <2>1, <2>3 DEF CallRec
  <2>4. QED
    BY <2>1, <2>2, <2>3 DEF Quiet
<1>4. /\ \A c \in Holding' : call'[c].srv \in Tunnel
      /\ \A c \in Call : call'[c].pc \in {"opening", "rejected"} => call'[c].tun \in Tunnel
  BY <1>3 DEF NumbersInv, Holding
<1>5. Tunnel' = Tunnel /\ MaxTunnels \in Nat
  BY GitTunnelAssumption DEF Tunnel
<1>6. QED
  BY <1>2, <1>4, <1>5, WaitingFinite DEF NumbersInv, GitTunnelType

LEMMA NumbersNext ==
  ASSUME GitTunnelType, NumbersInv, [Next]_vars
  PROVE  NumbersInv'
<1> USE DEF GitTunnelType
<1>1. ASSUME NEW c \in Call, Bootstrap(c) PROVE NumbersInv'
  <2>0. Steps(c)
    BY <1>1 DEF Steps
  <2>1. CASE call'[c].pc = "server" /\ Room
    <3>1. Waiting' = Waiting \cup {c} /\ c \notin Waiting
      BY <1>1, <2>0, <2>1, OneCall DEF Waiting, Bootstrap, Runs
    <3>2. Cardinality(Waiting') = Cardinality(Waiting) + 1
      BY <3>1, WaitingFinite, FS_AddElement
    <3>3. made' + Cardinality(Waiting') <= MaxTunnels
      BY <1>1, <2>1, <3>2, WaitingFinite, GitTunnelAssumption DEF Room, Waiting, Bootstrap
    <3>4. QED
      BY <2>0, <2>1, <3>3, OneCall DEF NumbersInv, Holding
  <2>2. CASE call'[c].pc = "probe"
    BY <1>1, <2>0, <2>2, OneCall, NumbersQuiet DEF Quiet, Bootstrap
  <2>3. QED
    BY <1>1, <2>1, <2>2, Moves DEF Bootstrap, At, CallRec
<1>2. ASSUME NEW c \in Call, StartGitServer(c) PROVE NumbersInv'
  <2>0. Steps(c)
    BY <1>2 DEF Steps, BootstrapStep
  <2>1. c \in Waiting /\ made' = made + 1 /\ made + 1 \in Tunnel
    BY <1>2, ServerRoom DEF StartGitServer, Waiting
  <2>2. call'[c].pc = "endpoint" /\ call'[c].srv = made + 1
    BY <1>2 DEF StartGitServer, CallRec
  <2>3. Waiting' = Waiting \ {c}
    BY <2>0, <2>2, OneCall DEF Waiting
  <2>4. Cardinality(Waiting') = Cardinality(Waiting) - 1
    BY <2>1, <2>3, WaitingFinite, FS_RemoveElement
  <2>5. made' + Cardinality(Waiting') <= MaxTunnels
    BY <2>1, <2>4, WaitingFinite, GitTunnelAssumption DEF NumbersInv
  <2>6. QED
    BY <2>0, <2>1, <2>2, <2>5, OneCall DEF NumbersInv, Holding
<1>3. ASSUME NEW c \in Call, StartTunnel(c) PROVE NumbersInv'
  <2>0. Steps(c) /\ c \in Holding
    BY <1>3 DEF Steps, BootstrapStep, StartTunnel, Holding
  <2>1. CASE call'[c] = [call[c] EXCEPT !.pc = "opening", !.tun = call[c].srv]
    <3>1. call'[c].pc = "opening" /\ call'[c].srv \in Tunnel /\ call'[c].tun \in Tunnel
      BY <2>0, <2>1 DEF NumbersInv, CallRec, Holding
    <3>2. Waiting' = Waiting
      BY <1>3, <2>0, <3>1, OneCall DEF Waiting, StartTunnel
    <3>3. QED
      BY <1>3, <2>0, <3>1, <3>2, OneCall DEF NumbersInv, Holding, StartTunnel
  <2>2. CASE Quiet(c)
    BY <1>3, <2>0, <2>2, OneCall, NumbersQuiet DEF Quiet, StartTunnel
  <2>3. QED
    BY <1>3, <2>1, <2>2, Moves DEF StartTunnel, Fails, At, CallRec, Quiet, NoCall
<1>4. ASSUME NEW c \in Call, TunnelReady(c) \/ TunnelFails(c) PROVE NumbersInv'
  <2>1. Steps(c) /\ made' = made
    BY <1>4 DEF Steps, BootstrapStep, TunnelReady, TunnelFails, misc
  <2>2. Quiet(c)
    BY <1>4, Moves DEF TunnelReady, TunnelFails, Quiet, At, CallRec, NoCall
  <2>3. QED
    BY <2>1, <2>2, OneCall, NumbersQuiet DEF Quiet
<1>5. CASE World
  BY <1>5, QuietWorld, NumbersQuiet
<1>6. CASE UNCHANGED vars
  BY <1>6, NumbersQuiet DEF vars, bot, misc, Quiet
<1>7. ASSUME NEW c \in Call,
             \/ Probe(c) \/ WaitForSandboxPort(c) \/ SetGit(c) \/ BootstrapDirect(c)
             \/ Clone(c) \/ CloneMoves(c) \/ CloneCopies(c) \/ Configure(c) \/ DirectProbe(c)
             \/ EnsureBranch(c)
      PROVE  NumbersInv'
  BY <1>7, QuietCommand, NumbersQuiet DEF Quiet, Steady
<1>8. QED
  BY <1>1, <1>2, <1>3, <1>4, <1>5, <1>6, <1>7 DEF Next, BootstrapStep, World

-----------------------------------------------------------------------------
(* Alone.                                                                  *)

LEMMA StepRuns ==
  ASSUME NEW c \in Call, BootstrapStep(c)
  PROVE  Runs(c)
BY DEF BootstrapStep, Probe, StartGitServer, StartTunnel, TunnelReady, TunnelFails,
       WaitForSandboxPort, SetGit, Clone, CloneMoves, CloneCopies, Configure, DirectProbe,
       EnsureBranch, Runs

\* A call that starts to run beside another one is an overlap.
LEMMA AloneNext ==
  ASSUME GitTunnelType, Alone, [Next]_vars
  PROVE  Alone'
<1> SUFFICES ASSUME "overlap" \notin marred', NEW a \in Call, NEW b \in Call, Runs(a)', Runs(b)'
             PROVE  a = b
  BY DEF Alone
<1>1. "overlap" \notin marred
  BY MarksKept
<1>2. ASSUME NEW c \in Call, Bootstrap(c) \/ BootstrapDirect(c) PROVE a = b
  <2>1. ~Others(c)
    BY <1>2, <1>1 DEF Bootstrap, BootstrapDirect, Mar
  <2>2. \A d \in Call \ {c} : call'[d] = call[d]
    BY <1>2, OneCall DEF Steps
  <2>3. QED
    BY <2>1, <2>2 DEF Others, Runs
<1>3. ASSUME \A d \in Call : Runs(d)' => Runs(d) PROVE a = b
  BY <1>1, <1>3 DEF Alone
<1>4. ASSUME NEW c \in Call, BootstrapStep(c) PROVE a = b
  <2>1. \A d \in Call \ {c} : call'[d] = call[d]
    BY <1>4, OneCall DEF Steps
  <2>2. QED
    BY <1>3, <1>4, <2>1, StepRuns DEF Runs
<1>5. CASE \E t \in Tunnel : TunnelRefused(t)
  BY <1>3, <1>5 DEF TunnelRefused, Runs, GitTunnelType, CallRec
<1>6. CASE \/ \E t \in Tunnel : TunnelOpens(t) \/ TunnelDrops(t) \/ Reconnect(t)
           \/ \E k \in conns : SandboxCloses(k)
           \/ TeardownSession \/ SandboxMoves
  BY <1>3, <1>6 DEF TunnelOpens, TunnelDrops, Reconnect, SandboxCloses, TeardownSession,
                    SandboxMoves, Runs, bot, misc
<1>7. CASE Crash
  BY <1>3, <1>7 DEF Crash, Runs, GitTunnelType, NoCall
<1>8. CASE UNCHANGED vars
  BY <1>3, <1>8 DEF vars, bot, Runs
<1>9. QED
  BY <1>2, <1>4, <1>5, <1>6, <1>7, <1>8 DEF Next

LEMMA Solo ==
  ASSUME Alone, "overlap" \notin marred, NEW c \in Call, Runs(c)
  PROVE  \A d \in Call \ {c} : ~Runs(d)
BY DEF Alone

LEMMA BusyRuns == \A c \in Waiting \cup Holding : Runs(c)
BY DEF Waiting, Holding, Runs

\* A step of a call that runs is the only one in sight.
LEMMA SoloStep ==
  ASSUME GitTunnelType, Alone, "overlap" \notin marred, NEW c \in Call, Runs(c), Steps(c)
  PROVE  /\ Waiting \cup Holding \subseteq {c}
         /\ \A d \in Call \ {c} : ~Runs(d) /\ call'[d] = call[d]
         /\ Waiting' \cup Holding' \subseteq {c}
<1>1. \A d \in Call \ {c} : ~Runs(d) /\ call'[d] = call[d]
  BY Solo, OneCall
<1>2. \A d \in Call \ {c} : d \notin Waiting' \cup Holding'
  BY <1>1 DEF Waiting, Holding, Runs
<1>3. QED
  BY <1>1, <1>2, BusyRuns DEF Waiting, Holding

-----------------------------------------------------------------------------
(* HandleInv and HandleLeadsHome.                                          *)

Leads == HandleInv /\ HandleLeadsHome

LEMMA LeadsKept ==
  ASSUME GitTunnelType, NumbersInv, Leads, marred \subseteq marred',
         UNCHANGED <<handle, tunMap, servers>>,
         \A d \in Call : Quiet(d),
         \A t \in Tunnel : tun'[t].srv = tun[t].srv /\ (tun'[t].st = "stopped" => tun[t].st = "stopped")
  PROVE  Leads'
<1> SUFFICES ASSUME "overlap" \notin marred' PROVE Leads'
  BY DEF Leads, HandleInv, HandleLeadsHome
<1>1. "overlap" \notin marred
  OBVIOUS
<1>2. ASSUME NEW d \in Call
      PROVE  /\ d \in Waiting' => d \in Waiting
             /\ d \in Holding' => d \in Holding /\ call'[d].srv = call[d].srv
             /\ call'[d].pc = "opening" => call'[d] = call[d]
  <2>1. call[d] \in CallRec /\ Quiet(d)
    BY DEF GitTunnelType
  <2>2. CASE call'[d] = call[d] \/ call'[d].pc \notin {"server", "endpoint", "opening", "rejected"}
    BY <2>2 DEF Waiting, Holding
  <2>3. CASE call[d].pc = "opening" /\ call'[d] = [call[d] EXCEPT !.pc = "rejected"]
    BY <2>1, <2>3 DEF Waiting, Holding, CallRec
  <2>4. QED
    BY <2>1, <2>2, <2>3 DEF Quiet
<1>3. \A c \in Call : call[c].pc = "opening" => call[c].tun \in Tunnel
  BY DEF NumbersInv
<1>4. HandleInv'
  BY <1>1, <1>2, <1>3 DEF Leads, HandleInv, Waiting, Holding
<1>5. handle # None => handle.tun \in Tunnel
  BY DEF GitTunnelType, Handle
<1>6. HandleLeadsHome'
  BY <1>1, <1>5 DEF Leads, HandleLeadsHome
<1>7. QED
  BY <1>4, <1>6 DEF Leads

LEMMA LeadsIdle ==
  ASSUME handle' = None, tunMap' = 0, Holding' = {}
  PROVE  Leads'
BY DEF Leads, HandleInv, HandleLeadsHome, Holding

LEMMA LeadsBootstrap ==
  ASSUME GitTunnelType, NumbersInv, Alone, Leads, NEW c \in Call, Bootstrap(c),
         marred \subseteq marred'
  PROVE  Leads'
<1> SUFFICES ASSUME "overlap" \notin marred' PROVE Leads'
  BY DEF Leads, HandleInv, HandleLeadsHome
<1>1. \A d \in Call : ~Runs(d)
  BY DEF Bootstrap, Mar, Others
<1>2. \A d \in Call \ {c} : call'[d] = call[d]
  BY OneCall DEF Steps
<1>3. CASE handle # None /\ ref /\ Goto(c, "probe") /\ UNCHANGED <<handle, tunMap, servers, tun>>
  BY <1>2, <1>3, Moves, LeadsKept DEF GitTunnelType, At, Quiet
<1>4. CASE Goto(c, "server") /\ handle' = None /\ tunMap' = 0
  <2>1. Holding' = {}
    BY <1>1, <1>2, <1>4, Moves DEF Holding, Runs, GitTunnelType, At
  <2>2. QED
    BY <1>4, <2>1, LeadsIdle
<1>5. QED
  BY <1>3, <1>4 DEF Bootstrap, Leads, HandleInv

\* The call that brings a server up.
LEMMA LeadsServer ==
  ASSUME GitTunnelType, NumbersInv, Alone, Leads, NEW c \in Call, marred \subseteq marred',
         StartGitServer(c) \/ StartTunnel(c) \/ TunnelReady(c) \/ TunnelFails(c)
  PROVE  Leads'
<1> SUFFICES ASSUME "overlap" \notin marred' PROVE Leads'
  BY DEF Leads, HandleInv, HandleLeadsHome
<1>1. BootstrapStep(c) /\ Steps(c)
  BY DEF BootstrapStep, Steps
<1>2. "overlap" \notin marred /\ Runs(c)
  BY <1>1, StepRuns
<1>3. /\ Waiting \cup Holding \subseteq {c} /\ Waiting' \cup Holding' \subseteq {c}
      /\ \A d \in Call \ {c} : call'[d].pc # "opening"
  BY <1>1, <1>2, SoloStep DEF Runs
<1>4. handle = None /\ tunMap = 0
  BY <1>2 DEF StartGitServer, StartTunnel, TunnelReady, TunnelFails, Leads, HandleInv,
                   Waiting, Holding
<1>5. call[c] \in CallRec
  BY DEF GitTunnelType
<1>6. CASE StartGitServer(c)
  <2>1. call'[c].pc = "endpoint" /\ call'[c].srv \in servers'
    BY <1>5, <1>6 DEF StartGitServer, GitTunnelType, CallRec
  <2>2. handle' = None /\ tunMap' = 0
    BY <1>4, <1>6 DEF StartGitServer
  <2>3. QED
    BY <1>3, <2>1, <2>2 DEF Leads, HandleInv, HandleLeadsHome, Holding, Waiting
<1>7. CASE StartTunnel(c)
  <2>1. CASE Fails(c) /\ UNCHANGED <<tun, handle>>
    <3>1. Holding' = {}
      BY <1>3, <2>1, Moves DEF Fails, Holding, GitTunnelType
    <3>2. QED
      BY <1>4, <1>7, <2>1, <3>1, LeadsIdle DEF StartTunnel
  <2>2. CASE /\ tun' = [tun EXCEPT ![call[c].srv] = [NoTunnel EXCEPT !.st = "connecting",
                                             !.srv = call[c].srv, !.box = box]]
             /\ call' = [call EXCEPT ![c].pc = "opening", ![c].tun = call[c].srv]
             /\ UNCHANGED <<handle, mishaps, marred>>
    <3>1. c \in Holding /\ call[c].srv \in servers /\ call[c].srv \in Tunnel
      BY <1>2, <1>7 DEF StartTunnel, Holding, Leads, HandleInv, NumbersInv
    <3>2. call'[c].srv = call[c].srv /\ call'[c].tun = call[c].srv
      BY <1>5, <2>2 DEF GitTunnelType, CallRec
    <3>3. tun'[call[c].srv].srv = call[c].srv /\ tun'[call[c].srv].st = "connecting"
      BY <2>2, <3>1 DEF GitTunnelType, NoTunnel
    <3>4. handle' = None /\ tunMap' = 0 /\ servers' = servers
      BY <1>4, <1>7, <2>2 DEF StartTunnel
    <3>5. QED
      BY <1>3, <3>1, <3>2, <3>3, <3>4 DEF Leads, HandleInv, HandleLeadsHome, Holding, Waiting
  <2>3. QED
    BY <1>4, <1>7, <2>1, <2>2 DEF StartTunnel
<1>8. CASE TunnelReady(c)
  <2>1. Holding' = {} /\ Waiting' = {} /\ call'[c].pc = "port"
    BY <1>3, <1>8, Moves DEF TunnelReady, Holding, Waiting, GitTunnelType, At
  <2>2. /\ call[c].srv \in servers
        /\ tun[call[c].tun].srv = call[c].srv /\ tun[call[c].tun].st # "stopped"
    BY <1>2, <1>8 DEF TunnelReady, Holding, Leads, HandleInv
  <2>3. handle' = [srv |-> call[c].srv, tun |-> call[c].tun] /\ tunMap' = call[c].tun
        /\ UNCHANGED <<servers, tun>>
    BY <1>8 DEF TunnelReady
  <2>4. handle' # None
    BY <1>5, <2>3, GitTunnelAssumption DEF CallRec, Number
  <2>5. HandleInv'
    BY <1>3, <2>1, <2>4 DEF HandleInv
  <2>6. HandleLeadsHome'
    BY <2>2, <2>3 DEF HandleLeadsHome
  <2>7. QED
    BY <2>5, <2>6 DEF Leads
<1>9. CASE TunnelFails(c)
  <2>1. Holding' = {}
    BY <1>3, <1>9, Moves DEF TunnelFails, Holding, GitTunnelType
  <2>2. QED
    BY <1>4, <1>9, <2>1, LeadsIdle DEF TunnelFails
<1>10. QED
  BY <1>6, <1>7, <1>8, <1>9

LEMMA LeadsWorld ==
  ASSUME GitTunnelType, NumbersInv, Alone, Leads, World, marred \subseteq marred'
  PROVE  Leads'
<1>1. CASE TeardownSession
  <2> SUFFICES ASSUME "overlap" \notin marred' PROVE Leads'
    BY DEF Leads, HandleInv, HandleLeadsHome
  <2>1. \A d \in Call : ~Runs(d) /\ call' = call
    BY <1>1 DEF TeardownSession, Mar
  <2>2. Holding' = {}
    BY <2>1 DEF Holding, Runs
  <2>3. QED
    BY <1>1, <2>2, LeadsIdle DEF TeardownSession
<1>2. CASE Crash
  <2>1. \A d \in Call : call'[d].pc \in {"cloning", "copying", "idle"}
    BY <1>2, CrashCalls
  <2>2. QED
    BY <1>2, <2>1, LeadsIdle DEF Crash, Holding
<1>3. CASE SandboxMoves
  <2>1. \A t \in Tunnel : tun'[t].srv = tun[t].srv /\ (tun'[t].st = "stopped" => tun[t].st = "stopped")
    BY <1>3 DEF SandboxMoves, GitTunnelType, TunRec
  <2>2. QED
    BY <1>3, <2>1, QuietWorld, LeadsKept DEF SandboxMoves
<1>4. CASE \E t \in Tunnel : TunnelOpens(t) \/ TunnelRefused(t) \/ TunnelDrops(t) \/ Reconnect(t)
  <2>1. \A t \in Tunnel : tun'[t].srv = tun[t].srv /\ (tun'[t].st = "stopped" => tun[t].st = "stopped")
    BY <1>4 DEF TunnelOpens, TunnelRefused, TunnelDrops, Reconnect, GitTunnelType, TunRec
  <2>2. UNCHANGED <<handle, tunMap, servers>>
    BY <1>4 DEF TunnelOpens, TunnelRefused, TunnelDrops, Reconnect
  <2>3. QED
    BY <2>1, <2>2, QuietWorld, LeadsKept
<1>5. CASE \E k \in conns : SandboxCloses(k)
  BY <1>5, QuietWorld, LeadsKept DEF SandboxCloses, bot
<1>6. QED
  BY <1>1, <1>2, <1>3, <1>4, <1>5 DEF World

LEMMA LeadsNext ==
  ASSUME GitTunnelType, NumbersInv, Alone, Leads, [Next]_vars
  PROVE  Leads'
<1>1. marred \subseteq marred'
  BY MarksKept
<1>2. ASSUME NEW c \in Call,
             \/ Probe(c) \/ WaitForSandboxPort(c) \/ SetGit(c) \/ BootstrapDirect(c)
             \/ Clone(c) \/ CloneMoves(c) \/ CloneCopies(c) \/ Configure(c) \/ DirectProbe(c)
             \/ EnsureBranch(c)
      PROVE  Leads'
  BY <1>1, <1>2, QuietCommand, LeadsKept DEF Quiet, Steady
<1>3. CASE UNCHANGED vars
  BY <1>1, <1>3, LeadsKept DEF vars, bot, Quiet
<1>4. QED
  BY <1>1, <1>2, <1>3, LeadsBootstrap, LeadsServer, LeadsWorld DEF Next, BootstrapStep, World

-----------------------------------------------------------------------------
(* LeakInv.                                                                *)

LEMMA LeakKept ==
  ASSUME GitTunnelType, LeakInv, marred \subseteq marred',
         UNCHANGED <<handle, servers>>, \A d \in Call : Steady(d)
  PROVE  LeakInv'
<1>1. ASSUME NEW d \in Holding PROVE d \in Holding' /\ call'[d].srv = call[d].srv
  <2>1. call[d] \in CallRec /\ Steady(d)
    BY DEF GitTunnelType, Holding
  <2>2. CASE call[d].pc = "opening" /\ call'[d] = [call[d] EXCEPT !.pc = "rejected"]
    BY <2>1, <2>2 DEF Holding, CallRec
  <2>3. QED
    BY <2>1, <2>2 DEF Steady, Holding
<1>2. QED
  BY <1>1 DEF LeakInv

LEMMA LeakBootstrap ==
  ASSUME GitTunnelType, LeakInv, NEW c \in Call, Bootstrap(c), marred \subseteq marred'
  PROVE  LeakInv'
<1> SUFFICES ASSUME marred' \cap {"leak", "overlap"} = {} PROVE LeakInv'
  BY DEF LeakInv
<1>1. \A d \in Call : ~Runs(d)
  BY DEF Bootstrap, Mar, Others
<1>2. Holding = {}
  BY <1>1 DEF Holding, Runs
<1>3. servers \subseteq IF handle = None THEN {} ELSE {handle.srv}
  BY <1>2 DEF LeakInv
<1>4. QED
  BY <1>3 DEF LeakInv, Bootstrap

LEMMA LeakServer ==
  ASSUME GitTunnelType, Alone, Leads, LeakInv, NEW c \in Call, marred \subseteq marred',
         StartGitServer(c) \/ StartTunnel(c) \/ TunnelReady(c) \/ TunnelFails(c)
  PROVE  LeakInv'
<1> SUFFICES ASSUME marred' \cap {"leak", "overlap"} = {} PROVE LeakInv'
  BY DEF LeakInv
<1>1. BootstrapStep(c) /\ Steps(c)
  BY DEF BootstrapStep, Steps
<1>2. marred \cap {"leak", "overlap"} = {} /\ Runs(c)
  BY <1>1, StepRuns
<1>3. Waiting \cup Holding \subseteq {c}
  BY <1>1, <1>2, SoloStep
<1>4. handle = None /\ tunMap = 0
  BY <1>2 DEF StartGitServer, StartTunnel, TunnelReady, TunnelFails, Leads, HandleInv,
                   Waiting, Holding
<1>5. call[c] \in CallRec
  BY DEF GitTunnelType
<1>6. servers \subseteq {call[d].srv : d \in Holding}
  BY <1>2, <1>4 DEF LeakInv
<1>7. servers \subseteq {call[c].srv}
  BY <1>3, <1>6
<1>8. CASE StartGitServer(c)
  <2>1. Holding = {}
    BY <1>3, <1>8 DEF StartGitServer, Holding
  <2>2. servers' = {made'} /\ c \in Holding' /\ call'[c].srv = made'
    BY <1>5, <1>6, <1>8, <2>1 DEF StartGitServer, Holding, GitTunnelType, CallRec
  <2>3. QED
    BY <2>2 DEF LeakInv
<1>9. CASE StartTunnel(c)
  <2>1. c \in Holding' /\ call'[c].srv = call[c].srv /\ servers' = servers
    BY <1>4, <1>5, <1>9 DEF StartTunnel, Mar, Holding, GitTunnelType, CallRec
  <2>2. QED
    BY <1>7, <2>1 DEF LeakInv
<1>10. CASE TunnelReady(c)
  <2>1. servers' = servers /\ handle'.srv = call[c].srv /\ handle' # None
    BY <1>5, <1>10, GitTunnelAssumption DEF TunnelReady, CallRec, Number
  <2>2. QED
    BY <1>7, <2>1 DEF LeakInv
<1>11. CASE TunnelFails(c)
  BY <1>7, <1>11 DEF LeakInv, TunnelFails
<1>12. QED
  BY <1>8, <1>9, <1>10, <1>11

LEMMA LeakWorld ==
  ASSUME GitTunnelType, LeakInv, World, marred \subseteq marred'
  PROVE  LeakInv'
<1>1. CASE TeardownSession
  <2> SUFFICES ASSUME marred' \cap {"leak", "overlap"} = {} PROVE LeakInv'
    BY DEF LeakInv
  <2>1. Holding = {}
    BY <1>1, BusyRuns DEF TeardownSession, Mar, Holding
  <2>2. servers \subseteq IF handle = None THEN {} ELSE {handle.srv}
    BY <2>1 DEF LeakInv
  <2>3. QED
    BY <1>1, <2>2 DEF TeardownSession, Stops, LeakInv
<1>2. CASE Crash
  BY <1>2 DEF Crash, LeakInv
<1>3. CASE \E t \in Tunnel : TunnelOpens(t) \/ TunnelRefused(t) \/ TunnelDrops(t) \/ Reconnect(t)
  <2>1. UNCHANGED <<handle, servers>> /\ \A d \in Call : Steady(d)
    BY <1>3 DEF TunnelOpens, TunnelRefused, TunnelDrops, Reconnect, Steady, GitTunnelType, misc
  <2>2. QED
    BY <2>1, LeakKept
<1>4. CASE SandboxMoves \/ \E k \in conns : SandboxCloses(k)
  BY <1>4, LeakKept DEF SandboxMoves, SandboxCloses, bot, Steady
<1>5. QED
  BY <1>1, <1>2, <1>3, <1>4 DEF World

LEMMA LeakNext ==
  ASSUME GitTunnelType, Alone, Leads, LeakInv, [Next]_vars
  PROVE  LeakInv'
<1>1. marred \subseteq marred'
  BY MarksKept
<1>2. ASSUME NEW c \in Call,
             \/ Probe(c) \/ WaitForSandboxPort(c) \/ SetGit(c) \/ BootstrapDirect(c)
             \/ Clone(c) \/ CloneMoves(c) \/ CloneCopies(c) \/ Configure(c) \/ DirectProbe(c)
             \/ EnsureBranch(c)
      PROVE  LeakInv'
  BY <1>1, <1>2, QuietCommand, LeakKept
<1>3. CASE UNCHANGED vars
  BY <1>1, <1>3, LeakKept DEF vars, bot, Steady
<1>4. QED
  BY <1>1, <1>2, <1>3, LeakBootstrap, LeakServer, LeakWorld DEF Next, BootstrapStep, World

-----------------------------------------------------------------------------
(* HomeInv.                                                                *)

\* A step that leaves the workspace alone: nobody leaves the copy or the
\* configuration, and nobody enters where there has to be a clone.
LEMMA HomeKept ==
  ASSUME HomeInv, marred \subseteq marred', home' = home, direct' = direct,
         \A d \in Call :
           /\ call'[d].pc \in {"copying", "config", "branch"} => call'[d].pc = call[d].pc
           /\ call[d].pc \in {"copying", "config"} => call'[d].pc = call[d].pc
           /\ call'[d].stray => call[d].stray
  PROVE  HomeInv'
<1> SUFFICES ASSUME marred' \cap {"cut", "overlap"} = {} PROVE HomeInv'
  BY DEF HomeInv
<1>1. marred \cap {"cut", "overlap"} = {}
  OBVIOUS
<1>2. QED
  BY <1>1 DEF HomeInv, Whole

LEMMA HomeBootstrap ==
  ASSUME GitTunnelType, HomeInv, NEW c \in Call, Bootstrap(c) \/ BootstrapDirect(c),
         marred \subseteq marred'
  PROVE  HomeInv'
<1>1. \A d \in Call \ {c} : call'[d] = call[d]
  BY OneCall DEF Steps
<1>2. call'[c].pc \in {"probe", "server", "dprobe"} /\ call'[c].stray = call[c].stray
  BY Moves DEF Bootstrap, BootstrapDirect, GitTunnelType, At
<1>3. call[c].pc \notin {"copying", "config"}
  BY DEF Bootstrap, BootstrapDirect, Runs
<1>4. home' = home /\ direct' = direct
  BY DEF Bootstrap, BootstrapDirect, sandbox
<1>5. QED
  BY <1>1, <1>2, <1>3, <1>4, HomeKept

\* Up to the clone: nothing in the workspace changes.
LEMMA HomeServer ==
  ASSUME GitTunnelType, HomeInv, NEW c \in Call, marred \subseteq marred',
         \/ Probe(c) \/ StartGitServer(c) \/ StartTunnel(c) \/ TunnelReady(c)
         \/ TunnelFails(c) \/ WaitForSandboxPort(c) \/ SetGit(c)
  PROVE  HomeInv'
<1> DEFINE Fine == /\ call'[c].pc \notin {"copying", "config", "branch"}
                   /\ call[c].pc \notin {"copying", "config"}
                   /\ call'[c].stray => call[c].stray
                   /\ home' = home /\ direct' = direct
<1>1. \A d \in Call \ {c} : call'[d] = call[d]
  BY OneCall DEF Steps, BootstrapStep
<1>2. call \in [Call -> CallRec]
  BY DEF GitTunnelType
<1>3. CASE Probe(c) \/ TunnelReady(c) \/ TunnelFails(c) \/ WaitForSandboxPort(c) \/ SetGit(c)
  <2>1. Fine
    BY <1>2, <1>3, Moves DEF Probe, TunnelReady, TunnelFails, WaitForSandboxPort, SetGit, At,
                             sandbox, misc
  <2>2. QED
    BY <1>1, <2>1, HomeKept
<1>4. CASE StartGitServer(c)
  <2>1. Fine
    BY <1>2, <1>4 DEF StartGitServer, CallRec, sandbox
  <2>2. QED
    BY <1>1, <2>1, HomeKept
<1>5. CASE StartTunnel(c)
  <2>1. home' = home /\ direct' = direct /\ call[c].pc = "endpoint"
    BY <1>5 DEF StartTunnel, sandbox
  <2>2. CASE Goto(c, "port") \/ Fails(c)
    <3>1. Fine
      BY <1>2, <2>1, <2>2, Moves DEF Fails, At
    <3>2. QED
      BY <1>1, <3>1, HomeKept
  <2>3. CASE call' = [call EXCEPT ![c].pc = "opening", ![c].tun = call[c].srv]
    <3>1. Fine
      BY <1>2, <2>1, <2>3 DEF CallRec
    <3>2. QED
      BY <1>1, <3>1, HomeKept
  <2>4. QED
    BY <1>5, <2>2, <2>3 DEF StartTunnel
<1>6. QED
  BY <1>3, <1>4, <1>5

LEMMA HomeClone ==
  ASSUME GitTunnelType, Alone, HomeInv, NEW c \in Call, marred \subseteq marred',
         Clone(c) \/ CloneMoves(c) \/ DirectProbe(c)
  PROVE  HomeInv'
<1> SUFFICES ASSUME marred' \cap {"cut", "overlap"} = {} PROVE HomeInv'
  BY DEF HomeInv
<1>0. Steps(c) /\ Runs(c) /\ marred \cap {"cut", "overlap"} = {}
  BY StepRuns DEF Steps, BootstrapStep
<1>1. \A d \in Call \ {c} : ~Runs(d) /\ call'[d] = call[d]
  BY <1>0, SoloStep
<1>2. call \in [Call -> CallRec] /\ direct' = direct
  BY DEF GitTunnelType, Clone, CloneMoves, DirectProbe, Command, misc
<1>3. call[c].pc \notin {"copying", "config"} /\ ~call[c].stray
  BY <1>0 DEF HomeInv, Clone, CloneMoves, DirectProbe
<1>4. CASE Clone(c) /\ call'[c].pc = "config" /\ "git" \in home
  <2>1. Whole \subseteq home
    BY <1>0, <1>1, <1>3, <1>4 DEF HomeInv, Runs
  <2>2. home' = home /\ ~call'[c].stray
    BY <1>2, <1>3, <1>4, Moves DEF Clone, At, Breaks, Fails
  <2>3. QED
    BY <1>0, <1>1, <1>2, <1>4, <2>1, <2>2 DEF HomeInv, Whole
<1>5. CASE Clone(c) /\ call'[c].pc \notin {"copying", "config", "branch"}
  <2>1. home' = home /\ (call'[c].stray => call[c].stray)
    BY <1>2, <1>5, Moves DEF Clone, At, Breaks, Fails
  <2>2. QED
    BY <1>1, <1>2, <1>3, <1>5, <2>1, HomeKept
<1>6. CASE CloneMoves(c) /\ call'[c].pc = "copying"
  <2>1. "git" \in home' /\ ~call'[c].stray
    BY <1>2, <1>3, <1>6, Moves DEF CloneMoves, At
  <2>2. ASSUME NEW d \in Call \ {c}
        PROVE  ~call'[d].stray /\ call'[d].pc \notin {"copying", "config", "branch"}
    BY <1>0, <1>1 DEF HomeInv, Runs
  <2>3. QED
    BY <1>6, <2>1, <2>2 DEF HomeInv
<1>7. CASE CloneMoves(c) /\ call'[c].pc = "idle"
  <2>1. home' = home /\ (call'[c].stray => call[c].stray)
    BY <1>2, <1>7, Moves DEF CloneMoves, At
  <2>2. QED
    BY <1>1, <1>2, <1>3, <1>7, <2>1, HomeKept
<1>8. CASE DirectProbe(c)
  <2>1. home' = home /\ ~call'[c].stray /\ call'[c].pc \in {"branch", "clone"}
        /\ (call'[c].pc = "branch" => "git" \in home)
    BY <1>2, <1>3, <1>8, Moves DEF DirectProbe, At, sandbox
  <2>2. QED
    BY <1>0, <1>1, <1>2, <1>3, <2>1 DEF HomeInv, Whole
<1>9. QED
  BY <1>2, <1>4, <1>5, <1>6, <1>7, <1>8, Moves DEF Clone, CloneMoves, Breaks, Fails, At

\* The steps that complete the workspace.
LEMMA HomeFinish ==
  ASSUME GitTunnelType, Alone, HomeInv, NEW c \in Call, marred \subseteq marred',
         CloneCopies(c) \/ Configure(c) \/ EnsureBranch(c)
  PROVE  HomeInv'
<1> SUFFICES ASSUME marred' \cap {"cut", "overlap"} = {} PROVE HomeInv'
  BY DEF HomeInv
<1>0. Steps(c) /\ Runs(c) /\ marred \cap {"cut", "overlap"} = {}
  BY StepRuns DEF Steps, BootstrapStep
<1>1. \A d \in Call \ {c} : ~Runs(d) /\ call'[d] = call[d]
  BY <1>0, SoloStep
<1>2. call \in [Call -> CallRec] /\ direct' = direct
  BY DEF GitTunnelType, CloneCopies, Configure, EnsureBranch, Command
<1>3. ~call[c].stray /\ "git" \in home
  BY <1>0 DEF HomeInv, CloneCopies, Configure, EnsureBranch
<1>4. ASSUME NEW d \in Call \ {c}
      PROVE  ~call'[d].stray /\ call'[d].pc \notin {"copying", "config", "branch"}
  BY <1>0, <1>1 DEF HomeInv, Runs
<1>5. ~Breaks(c)
  BY <1>3 DEF Breaks, Mar
<1>6. CASE CloneCopies(c)
  <2>1. home' = home \cup {"tree"} /\ Goto(c, "config")
    BY <1>3, <1>5, <1>6 DEF CloneCopies, Mar
  <2>2. call'[c].pc = "config" /\ ~call'[c].stray
    BY <1>2, <1>3, <2>1, Moves DEF At
  <2>3. QED
    BY <1>3, <1>4, <2>1, <2>2 DEF HomeInv
<1>7. CASE Configure(c)
  <2>1. home' = home \cup (IF direct THEN {"ssh", "branch"} ELSE {"branch"}) /\ Returns(c)
    BY <1>5, <1>7 DEF Configure
  <2>2. call'[c].pc = "done" /\ ~call'[c].stray
    BY <1>2, <2>1, Moves
  <2>3. "tree" \in home
    BY <1>0, <1>7 DEF HomeInv, Configure
  <2>4. QED
    BY <1>2, <1>3, <1>4, <2>1, <2>2, <2>3 DEF HomeInv, Whole
<1>8. CASE EnsureBranch(c)
  <2>1. home' = home \cup {"branch"} /\ Returns(c)
    BY <1>5, <1>8 DEF EnsureBranch
  <2>2. call'[c].pc = "done" /\ ~call'[c].stray
    BY <1>2, <2>1, Moves
  <2>3. Whole \subseteq home
    BY <1>0, <1>1, <1>3, <1>8 DEF HomeInv, EnsureBranch, Runs
  <2>4. QED
    BY <1>2, <1>3, <1>4, <2>1, <2>2, <2>3 DEF HomeInv, Whole
<1>9. QED
  BY <1>6, <1>7, <1>8

LEMMA HomeWorld ==
  ASSUME GitTunnelType, HomeInv, World, marred \subseteq marred'
  PROVE  HomeInv'
<1>1. CASE Crash
  <2> SUFFICES ASSUME marred' \cap {"cut", "overlap"} = {} PROVE HomeInv'
    BY DEF HomeInv
  <2>1. \A c \in Call : call[c].pc \notin {"cloning", "copying", "config"}
    BY <1>1 DEF Crash, Mar
  <2>2. \A c \in Call : call'[c] = NoCall
    BY <1>1, <2>1 DEF Crash
  <2>3. home' = home /\ direct' = direct
    BY <1>1 DEF Crash, sandbox
  <2>4. QED
    BY <2>1, <2>2, <2>3 DEF HomeInv, Whole, NoCall
<1>2. CASE SandboxMoves
  <2> SUFFICES ASSUME marred' \cap {"cut", "overlap"} = {} PROVE HomeInv'
    BY DEF HomeInv
  <2>1. call' = call /\ direct' = direct
    BY <1>2 DEF SandboxMoves
  <2>2. CASE home' = home
    BY <2>1, <2>2, HomeKept
  <2>3. CASE home' = {} /\ \A c \in Call : ~Runs(c)
    BY <2>1, <2>3 DEF HomeInv, Runs
  <2>4. QED
    BY <1>2, <2>2, <2>3 DEF SandboxMoves
<1>3. CASE \E t \in Tunnel : TunnelOpens(t) \/ TunnelRefused(t) \/ TunnelDrops(t) \/ Reconnect(t)
  <2>1. home' = home /\ direct' = direct
    BY <1>3 DEF TunnelOpens, TunnelRefused, TunnelDrops, Reconnect, sandbox, misc
  <2>2. ASSUME NEW d \in Call
        PROVE  \/ call'[d] = call[d]
               \/ call[d].pc = "opening" /\ call'[d] = [call[d] EXCEPT !.pc = "rejected"]
    <3>1. CASE \E t \in Tunnel : TunnelRefused(t)
      BY <3>1 DEF TunnelRefused
    <3>2. CASE \E t \in Tunnel : TunnelOpens(t) \/ TunnelDrops(t) \/ Reconnect(t)
      BY <3>2 DEF TunnelOpens, TunnelDrops, Reconnect, misc
    <3>3. QED
      BY <1>3, <3>1, <3>2
  <2>3. \A d \in Call : call[d] \in CallRec
    BY DEF GitTunnelType
  <2>4. QED
    BY <2>1, <2>2, <2>3, HomeKept DEF CallRec
<1>4. CASE TeardownSession \/ \E k \in conns : SandboxCloses(k)
  BY <1>4, HomeKept DEF TeardownSession, SandboxCloses, sandbox, bot, misc
<1>5. QED
  BY <1>1, <1>2, <1>3, <1>4 DEF World

LEMMA HomeNext ==
  ASSUME GitTunnelType, Alone, HomeInv, [Next]_vars
  PROVE  HomeInv'
<1>1. marred \subseteq marred'
  BY MarksKept
<1>2. CASE UNCHANGED vars
  BY <1>1, <1>2, HomeKept DEF vars, bot, sandbox, misc
<1>3. QED
  BY <1>1, <1>2, HomeBootstrap, HomeServer, HomeClone, HomeFinish, HomeWorld
     DEF Next, BootstrapStep, World

-----------------------------------------------------------------------------
(* The theorems.                                                           *)

TunnelInv == GitTunnelType /\ NumbersInv /\ Alone /\ Leads /\ LeakInv /\ HomeInv

LEMMA TunnelInvInit == Init => TunnelInv
<1> SUFFICES ASSUME Init PROVE TunnelInv
  OBVIOUS
<1>1. \A c \in Call : call[c] = NoCall
  BY DEF Init
<1>2. Alone /\ Leads
  BY <1>1 DEF Init, Alone, Runs, NoCall, Leads, HandleInv, HandleLeadsHome, Waiting, Holding
<1>3. LeakInv /\ HomeInv
  BY <1>1 DEF Init, LeakInv, HomeInv, NoCall
<1>4. QED
  BY <1>2, <1>3, TypeInit, NumbersInit DEF TunnelInv

LEMMA TunnelInvNext == TunnelInv /\ [Next]_vars => TunnelInv'
BY TypeNext, NumbersNext, AloneNext, LeadsNext, LeakNext, HomeNext DEF TunnelInv

LEMMA TunnelInvHolds == Spec => []TunnelInv
BY TunnelInvInit, TunnelInvNext, PTL DEF Spec

\* The variables have their types, and the bound MaxTunnels is never overrun by the
\* servers that are on their way (ensureRepoBootstrap, bootstrap.ts:70).
THEOREM GitTunnelIsTyped == Spec => [](GitTunnelType /\ NumbersInv)
<1>1. TunnelInv => GitTunnelType /\ NumbersInv
  BY DEF TunnelInv
<1>2. QED
  BY <1>1, TunnelInvHolds, PTL

\* The tunnel in use leads to the git server in use, and no git server is left behind
\* by a bootstrap that failed, was torn down or was cut short by a crash
\* (bootstrap.ts:131, 134).
THEOREM ServersAreAccounted == Spec => []ServersAccounted
<1>1. TunnelInv => HandleLeadsHome
  BY DEF TunnelInv, Leads
<1>2. TunnelInv => NoServerLeaks
  BY DEF TunnelInv, LeakInv, NoServerLeaks, Holding, Runs
<1>3. QED
  BY <1>1, <1>2, TunnelInvHolds, PTL DEF ServersAccounted

\* What a call that returns leaves in the workspace.
LEMMA ReturnLeavesWhole ==
  ASSUME TunnelInv, [Next]_vars, NEW c \in Call, Runs(c), call'[c].pc = "done",
         marred' \cap {"cut", "overlap"} = {}
  PROVE  {"git"} \cup Whole \subseteq home'
<1>1. /\ GitTunnelType /\ Alone /\ HomeInv
      /\ call \in [Call -> CallRec] /\ marred \cap {"cut", "overlap"} = {}
  BY MarksKept DEF TunnelInv, GitTunnelType
<1>2. ASSUME NEW d \in Call, Steps(d), d # c PROVE FALSE
  BY <1>1, <1>2, OneCall DEF Runs
<1>3. CASE World
  <2>1. CASE Crash
    BY <1>1, <2>1, CrashCalls
  <2>2. CASE \E t \in Tunnel : TunnelRefused(t)
    BY <1>1, <2>2 DEF TunnelRefused, Runs, CallRec
  <2>3. CASE \/ \E t \in Tunnel : TunnelOpens(t) \/ TunnelDrops(t) \/ Reconnect(t)
             \/ \E k \in conns : SandboxCloses(k)
             \/ TeardownSession \/ SandboxMoves
    BY <2>3 DEF TunnelOpens, TunnelDrops, Reconnect, SandboxCloses, TeardownSession,
                SandboxMoves, Runs, bot, misc
  <2>4. QED
    BY <1>3, <2>1, <2>2, <2>3 DEF World
<1>4. CASE UNCHANGED vars
  BY <1>4 DEF vars, bot, Runs
<1>5. CASE StartGitServer(c) \/ StartTunnel(c) \/ TunnelReady(c) \/ TunnelFails(c)
           \/ WaitForSandboxPort(c) \/ SetGit(c)
  <2>1. CASE StartGitServer(c)
    <3>1. call[c] \in CallRec
      BY <1>1
    <3>2. call'[c] = [call[c] EXCEPT !.pc = "endpoint", !.srv = made']
      BY <1>1, <2>1 DEF StartGitServer
    <3>3. QED
      BY <3>1, <3>2 DEF CallRec
  <2>2. CASE StartTunnel(c)
    <3>1. CASE Goto(c, "port") \/ Fails(c)
      BY <1>1, <3>1, Moves DEF Fails, At
    <3>2. CASE call' = [call EXCEPT ![c].pc = "opening", ![c].tun = call[c].srv]
      BY <1>1, <3>2 DEF CallRec
    <3>3. QED
      BY <2>2, <3>1, <3>2 DEF StartTunnel
  <2>3. CASE TunnelReady(c) \/ TunnelFails(c) \/ WaitForSandboxPort(c) \/ SetGit(c)
    BY <1>1, <2>3, Moves DEF TunnelReady, TunnelFails, WaitForSandboxPort, SetGit, At
  <2>4. QED
    BY <1>5, <2>1, <2>2, <2>3
<1>6. CASE Clone(c) \/ CloneMoves(c) \/ CloneCopies(c) \/ DirectProbe(c)
  BY <1>1, <1>6, Moves DEF Clone, CloneMoves, CloneCopies, DirectProbe, Breaks, Fails, At
<1>7. CASE Bootstrap(c) \/ BootstrapDirect(c)
  BY <1>7 DEF Bootstrap, BootstrapDirect
<1>8. CASE Probe(c)
  <2>1. \A d \in Call : call[d].pc \notin {"copying", "config"}
    BY <1>1, <1>8, Solo DEF Probe, Runs
  <2>2. "git" \in home /\ home' = home
    BY <1>1, <1>8, Moves DEF Probe, At, sandbox
  <2>3. QED
    BY <1>1, <2>1, <2>2 DEF HomeInv
<1>9. CASE Configure(c)
  <2>1. home' = home \cup (IF direct THEN {"ssh", "branch"} ELSE {"branch"})
    BY <1>1, <1>9, Moves DEF Configure, Breaks, Fails
  <2>2. {"git", "tree"} \subseteq home
    BY <1>1, <1>9 DEF HomeInv, Configure
  <2>3. QED
    BY <2>1, <2>2 DEF Whole
<1>10. CASE EnsureBranch(c)
  <2>1. home' = home \cup {"branch"}
    BY <1>1, <1>10, Moves DEF EnsureBranch, Breaks, Fails
  <2>2. \A d \in Call : call[d].pc \notin {"copying", "config"}
    BY <1>1, <1>10, Solo DEF EnsureBranch, Runs
  <2>3. "git" \in home
    BY <1>1, <1>10 DEF HomeInv, EnsureBranch
  <2>4. QED
    BY <1>1, <2>1, <2>2, <2>3 DEF HomeInv
<1>11. QED
  BY <1>2, <1>3, <1>4, <1>5, <1>6, <1>7, <1>8, <1>9, <1>10
     DEF Next, BootstrapStep, World, Steps

\* A bootstrap that returns leaves the checkout, the files and the branch of the
\* session in the workspace, and the key in direct mode (bootstrap.ts:16, 200).
THEOREM BootstrapDelivers == Spec => ReadyOnReturn
<1>1. TunnelInv /\ [Next]_vars =>
        [\A c \in Call : Runs(c) /\ call'[c].pc = "done" /\ marred' \cap {"cut", "overlap"} = {}
           => {"git", "tree", "branch"} \cup (IF direct THEN {"ssh"} ELSE {}) \subseteq home']_vars
  BY ReturnLeavesWhole DEF Whole
<1>2. QED
  BY <1>1, TunnelInvHolds, PTL DEF Spec, ReadyOnReturn

-----------------------------------------------------------------------------
(* TunnelStream: the invariant.                                            *)

Chunk == Nat \X Nat
Chunks == Seq(Chunk)
Frame == [id : Nat, type : {"data", "close"}, chunk : Chunk]
ConnRec == [st : {"none", "open", "hungup", "cut", "lost"}, id : Nat, sent : Nat,
            out : Chunks, got : Chunks]
SockRec == [st : {"none", "connecting", "open", "closed", "ended"}, id : Nat, sent : Nat,
            first : Chunks, later : Chunks, got : Chunks, peer : Nat,
            early : BOOLEAN, late : BOOLEAN]

StreamType ==
  /\ ws \in {"open", "broken", "closed", "stopped"}
  /\ up \in Seq(Frame) /\ down \in Seq(Frame) /\ nextId \in Nat \ {0}
  /\ DOMAIN streams \subseteq Nat /\ DOMAIN local \subseteq Nat
  /\ conn \in [Conn -> ConnRec] /\ sock \in [Sock -> SockRec] /\ drops \in Nat

\* base counts the connections of the listeners before this one: this one's have
\* the ids 1, 2, 3 ...
ConnInv(base) ==
  /\ base + nextId <= MaxConns + 1
  /\ \A k \in Conn :
       /\ conn[k].st = "none" <=> k >= base + nextId
       /\ conn[k].st = "none" => conn[k] = NoConn
       /\ k <= base => conn[k].st # "open"
       /\ k > base /\ k < base + nextId => conn[k].id = k - base
       /\ conn[k].st # "open" => conn[k].out = <<>>
       /\ conn[k].st = "open" => k - base \in DOMAIN streams
  /\ \A i \in DOMAIN streams :
       base + i \in Conn /\ streams[i] = base + i /\ conn[base + i].st = "open"
  /\ ws = "closed" => DOMAIN streams = {}

\* Frames are in a queue only while the WebSocket is open, and only of ids that were given out.
QueueInv ==
  /\ ws # "open" => up = <<>> /\ down = <<>>
  /\ \A p \in DOMAIN up : up[p].id \in 1..(nextId - 1)
  /\ \A p \in DOMAIN down : down[p].id \in 1..(nextId - 1)

\* The bot's map and its live sockets agree, and a socket's peer is the connection with its id.
SockInv(base) ==
  /\ \A j \in Sock :
       /\ sock[j].st = "none" => sock[j] = NoSock
       /\ sock[j].st # "none" => sock[j].peer \in Conn /\ conn[sock[j].peer].st # "none"
       /\ Live(j) => /\ ws = "open" /\ sock[j].peer = base + sock[j].id
                     /\ sock[j].id \in DOMAIN local /\ local[sock[j].id] = j
  /\ \A i \in DOMAIN local :
       local[i] \in Sock /\ Live(local[i]) /\ sock[local[i]].id = i /\ i \in 1..(nextId - 1)

\* The frames of q at the positions I carry what maker made, from m + 1 up to top.
Run(q, I, maker, m, top) ==
  /\ m <= top
  /\ \A p \in I : q[p].chunk[1] = maker /\ q[p].chunk[2] \in (m + 1)..top
  /\ \A n \in (m + 1)..top : \E p \in I : q[p].chunk[2] = n
  /\ \A p, r \in I : p < r => q[p].chunk[2] < q[r].chunk[2]

DataOf(q, i) == {p \in DOMAIN q : q[p].id = i /\ q[p].type = "data"}
Ends(q, i, c) == q[c].id = i /\ q[c].type = "close"
\* Behind a CLOSE the sandbox takes nothing more.
HeardOf(q, i) == {p \in DataOf(q, i) : \A c \in 1..(p - 1) : ~Ends(q, i, c)}

Takes(j) == IF sock[j].st = "connecting" THEN 1 ELSE Len(sock[j].got)
Serves(j, k) == sock[j].st # "none" /\ sock[j].peer = k

\* The bot has taken m chunks of the connection k, the others are on their way.
Upwards(base, k, m) ==
  /\ Run(up, DataOf(up, k - base), k, m, conn[k].sent)
  /\ \A j \in Sock : Serves(j, k) => m >= 1
  /\ \A j \in Sock : Live(j) /\ Serves(j, k) /\ ~sock[j].early /\ ~sock[j].late => m = Takes(j)
  /\ conn[k].st = "open" => \A p \in DOMAIN up : up[p].id = k - base => up[p].type = "data"
UpInv(base) ==
  ws = "open" => \A k \in Conn : k > base /\ k < base + nextId => \E m \in Nat : Upwards(base, k, m)

RequestInv ==
  \A j \in Sock : ~sock[j].early /\ ~sock[j].late =>
    /\ sock[j].st = "connecting" =>
         sock[j].first = << <<sock[j].peer, 1>> >> /\ sock[j].later = <<>> /\ sock[j].got = <<>>
    /\ InOrder(sock[j].got, sock[j].peer)

Handed(k) == conn[k].got \o conn[k].out

\* Nobody has answered the connection k yet; or j alone has, and what is not handed
\* over is on its way, with a CLOSE behind it once j has ended.
Unanswered(i, k) ==
  /\ Handed(k) = <<>> /\ \A j \in Sock : ~Serves(j, k)
  /\ \A p \in DOMAIN down : down[p].id # i
AnsweredBy(i, k, j) ==
  /\ Serves(j, k) /\ \A h \in Sock : Serves(h, k) => h = j \/ sock[h].late
  /\ InOrder(Handed(k), j)
  /\ Run(down, HeardOf(down, i), j, Len(Handed(k)), sock[j].sent)
  /\ \/ /\ Live(j) /\ \A h \in Sock : Serves(h, k) => h = j
        /\ \A c \in DOMAIN down : ~Ends(down, i, c)
     \/ sock[j].st = "ended" /\ \E c \in DOMAIN down : Ends(down, i, c)
DownInv(base) ==
  ws = "open" => \A k \in Conn : conn[k].st = "open" =>
    Unanswered(k - base, k) \/ \E j \in Sock : AnsweredBy(k - base, k, j)

AnswerInv ==
  \A k \in Conn : Handed(k) # <<>> => \E j \in Sock : Serves(j, k) /\ InOrder(Handed(k), j)

StreamInvAt(base) ==
  /\ StreamType /\ QueueInv /\ RequestInv /\ AnswerInv
  /\ ConnInv(base) /\ SockInv(base) /\ UpInv(base) /\ DownInv(base)
StreamInv == \E base \in Nat : StreamInvAt(base)

-----------------------------------------------------------------------------
(* Runs of frames.                                                         *)

LEMMA StreamBounds ==
  /\ MaxConns \in Nat /\ MaxSocks \in Nat /\ MaxDrops \in Nat
  /\ Conn \subseteq Nat \ {0} /\ Sock \subseteq Nat \ {0}
BY TunnelStreamAssumption DEF Conn, Sock

Shifted(q, I) == {p \in 1..(Len(q) - 1) : p + 1 \in I}

\* A frame of another stream, or a CLOSE, is not part of the run.
LEMMA RunAside ==
  ASSUME NEW q \in Seq(Frame), NEW f \in Frame, NEW I, I \subseteq DOMAIN q,
         NEW maker, NEW m \in Nat, NEW top \in Nat, Run(q, I, maker, m, top)
  PROVE  Run(Append(q, f), I, maker, m, top)
<1>1. \A p \in I : Append(q, f)[p] = q[p]
  OBVIOUS
<1>2. QED
  BY <1>1 DEF Run

LEMMA RunGrows ==
  ASSUME NEW q \in Seq(Frame), NEW f \in Frame, NEW I, I \subseteq DOMAIN q,
         NEW maker, NEW m \in Nat, NEW top \in Nat, Run(q, I, maker, m, top),
         f.chunk = <<maker, top + 1>>
  PROVE  Run(Append(q, f), I \cup {Len(q) + 1}, maker, m, top + 1)
<1> DEFINE r == Append(q, f)
           e == Len(q) + 1
<1>1. r[e] = f /\ (\A p \in I : r[p] = q[p]) /\ (\A p \in I : p \in Nat /\ p < e) /\ e \in Nat
  OBVIOUS
<1>2. r[e].chunk[1] = maker /\ r[e].chunk[2] = top + 1
  BY <1>1
<1> HIDE DEF r, e
<1>3. \A p \in I : r[p].chunk[1] = maker /\ r[p].chunk[2] \in (m + 1)..top
  BY <1>1 DEF Run
<1>4. \A p \in I \cup {e} : r[p].chunk[1] = maker /\ r[p].chunk[2] \in (m + 1)..(top + 1)
  BY <1>2, <1>3 DEF Run
<1>5. \A n \in (m + 1)..(top + 1) : \E p \in I \cup {e} : r[p].chunk[2] = n
  <2> TAKE n \in (m + 1)..(top + 1)
  <2>1. CASE n = top + 1
    BY <1>2, <2>1
  <2>2. CASE n # top + 1
    <3>1. n \in (m + 1)..top
      BY <2>2
    <3>2. PICK p \in I : q[p].chunk[2] = n
      BY <3>1 DEF Run
    <3>3. QED
      BY <1>1, <3>2
  <2>3. QED
    BY <2>1, <2>2
<1>6. \A p, s \in I \cup {e} : p < s => r[p].chunk[2] < r[s].chunk[2]
  <2> TAKE p, s \in I \cup {e}
  <2> HAVE p < s
  <2>1. p \in I
    BY <1>1
  <2>2. CASE s \in I
    BY <1>1, <2>1, <2>2 DEF Run
  <2>3. CASE s = e
    BY <1>2, <1>3, <2>1, <2>3
  <2>4. QED
    BY <2>2, <2>3
<1>7. m <= top + 1
  BY DEF Run
<1>8. QED
  BY <1>4, <1>5, <1>6, <1>7 DEF Run, r, e

\* Without its head.
LEMMA RunPasses ==
  ASSUME NEW q \in Seq(Frame), q # <<>>, NEW I, I \subseteq DOMAIN q, 1 \notin I,
         NEW maker, NEW m \in Nat, NEW top \in Nat, Run(q, I, maker, m, top)
  PROVE  Run(Tail(q), Shifted(q, I), maker, m, top)
<1> DEFINE J == Shifted(q, I)
<1>1. \A p \in J : p \in Nat /\ p + 1 \in I /\ Tail(q)[p] = q[p + 1]
  BY DEF Shifted
<1>2. ASSUME NEW n \in (m + 1)..top PROVE \E p \in J : Tail(q)[p].chunk[2] = n
  <2>1. PICK p \in I : q[p].chunk[2] = n
    BY DEF Run
  <2>2. p \in 1..Len(q) /\ p # 1
    OBVIOUS
  <2>3. p - 1 \in J /\ (p - 1) + 1 = p
    BY <2>2 DEF Shifted
  <2>4. QED
    BY <1>1, <2>1, <2>3
<1>3. \A p, s \in J : p < s => Tail(q)[p].chunk[2] < Tail(q)[s].chunk[2]
  <2> TAKE p, s \in J
  <2> HAVE p < s
  <2>1. p + 1 < s + 1
    BY <1>1
  <2>2. QED
    BY <1>1, <2>1 DEF Run
<1>4. \A p \in J : Tail(q)[p].chunk[1] = maker /\ Tail(q)[p].chunk[2] \in (m + 1)..top
  BY <1>1 DEF Run
<1>5. QED
  BY <1>2, <1>3, <1>4 DEF Run

LEMMA RunTaken ==
  ASSUME NEW q \in Seq(Frame), q # <<>>, NEW I, I \subseteq DOMAIN q, 1 \in I,
         NEW maker, NEW m \in Nat, NEW top \in Nat, Run(q, I, maker, m, top)
  PROVE  /\ m + 1 <= top /\ Head(q).chunk = <<maker, m + 1>>
         /\ Run(Tail(q), Shifted(q, I), maker, m + 1, top)
<1> DEFINE J == Shifted(q, I)
<1>0. Head(q) = q[1] /\ q[1] \in Frame
  OBVIOUS
<1>1. q[1].chunk[1] = maker /\ q[1].chunk[2] \in (m + 1)..top
  BY DEF Run
<1>2. m + 1 \in (m + 1)..top
  BY <1>1
<1>3. PICK p \in I : q[p].chunk[2] = m + 1
  BY <1>2 DEF Run
<1>4. p = 1
  <2>1. p \in 1..Len(q)
    OBVIOUS
  <2>2. p > 1 => q[1].chunk[2] < m + 1
    BY <1>3 DEF Run
  <2>3. QED
    BY <1>1, <2>1, <2>2
<1>5. q[1].chunk = <<maker, m + 1>>
  BY <1>0, <1>1, <1>3, <1>4 DEF Frame, Chunk
<1>6. \A s \in J : s \in Nat /\ s + 1 \in I /\ s + 1 > 1 /\ Tail(q)[s] = q[s + 1]
  BY DEF Shifted
<1>7. \A s \in J : Tail(q)[s].chunk[1] = maker /\ Tail(q)[s].chunk[2] \in ((m + 1) + 1)..top
  <2> TAKE s \in J
  <2>1. q[s + 1].chunk[1] = maker /\ q[s + 1].chunk[2] \in (m + 1)..top
    BY <1>6 DEF Run
  <2>2. q[1].chunk[2] < q[s + 1].chunk[2]
    BY <1>6 DEF Run
  <2>3. QED
    BY <1>3, <1>4, <1>6, <2>1, <2>2
<1>8. ASSUME NEW n \in ((m + 1) + 1)..top PROVE \E s \in J : Tail(q)[s].chunk[2] = n
  <2>1. PICK s \in I : q[s].chunk[2] = n
    BY DEF Run
  <2>2. s \in 1..Len(q) /\ s # 1
    BY <1>3, <1>4, <2>1
  <2>3. s - 1 \in J /\ (s - 1) + 1 = s
    BY <2>2 DEF Shifted
  <2>4. QED
    BY <1>6, <2>1, <2>3
<1>9. \A s, t \in J : s < t => Tail(q)[s].chunk[2] < Tail(q)[t].chunk[2]
  <2> TAKE s, t \in J
  <2> HAVE s < t
  <2>1. s + 1 < t + 1
    BY <1>6
  <2>2. QED
    BY <1>6, <2>1 DEF Run
<1>10. m + 1 <= top
  BY <1>1
<1> HIDE DEF J
<1>11. Run(Tail(q), J, maker, m + 1, top)
  BY <1>7, <1>8, <1>9, <1>10 DEF Run
<1>12. QED
  BY <1>0, <1>5, <1>10, <1>11 DEF J

\* What a frame at the end, or one less at the head, does to the frames of a stream.
LEMMA DataAppend ==
  ASSUME NEW q \in Seq(Frame), NEW f \in Frame, NEW i
  PROVE  DataOf(Append(q, f), i) =
           DataOf(q, i) \cup (IF f.id = i /\ f.type = "data" THEN {Len(q) + 1} ELSE {})
<1>1. DOMAIN Append(q, f) = DOMAIN q \cup {Len(q) + 1} /\ Append(q, f)[Len(q) + 1] = f
      /\ \A p \in DOMAIN q : Append(q, f)[p] = q[p] /\ p # Len(q) + 1
  OBVIOUS
<1>2. QED
  BY <1>1 DEF DataOf

LEMMA HeardAppend ==
  ASSUME NEW q \in Seq(Frame), NEW f \in Frame, NEW i
  PROVE  HeardOf(Append(q, f), i) =
           HeardOf(q, i) \cup (IF /\ f.id = i /\ f.type = "data"
                                  /\ \A c \in DOMAIN q : ~Ends(q, i, c)
                               THEN {Len(q) + 1} ELSE {})
<1> DEFINE r == Append(q, f)
           e == Len(q) + 1
<1>1. DOMAIN q = 1..(e - 1) /\ e \in Nat /\ \A c \in DOMAIN q : r[c] = q[c]
  OBVIOUS
<1>2. DataOf(r, i) = DataOf(q, i) \cup (IF f.id = i /\ f.type = "data" THEN {e} ELSE {})
  BY DataAppend
<1> HIDE DEF r, e
<1>3. \A c \in DOMAIN q : Ends(r, i, c) <=> Ends(q, i, c)
  BY <1>1 DEF Ends
<1>4. ASSUME NEW p \in DataOf(q, i)
      PROVE  (\A c \in 1..(p - 1) : ~Ends(r, i, c)) <=> \A c \in 1..(p - 1) : ~Ends(q, i, c)
  <2>1. p \in 1..(e - 1)
    BY <1>1 DEF DataOf
  <2>2. \A c \in 1..(p - 1) : c \in DOMAIN q
    BY <1>1, <2>1
  <2>3. QED
    BY <1>3, <2>2
<1>5. (\A c \in 1..(e - 1) : ~Ends(r, i, c)) <=> \A c \in DOMAIN q : ~Ends(q, i, c)
  BY <1>1, <1>3
<1>6. e \notin DataOf(q, i)
  BY <1>1 DEF DataOf
<1>7. QED
  BY <1>2, <1>4, <1>5, <1>6 DEF HeardOf, r, e

LEMMA DataTail ==
  ASSUME NEW q \in Seq(Frame), q # <<>>, NEW i
  PROVE  DataOf(Tail(q), i) = Shifted(q, DataOf(q, i))
<1>1. DOMAIN Tail(q) = 1..(Len(q) - 1) /\ DOMAIN q = 1..Len(q)
  OBVIOUS
<1>2. \A p \in 1..(Len(q) - 1) : Tail(q)[p] = q[p + 1] /\ p + 1 \in 1..Len(q)
  OBVIOUS
<1>3. QED
  BY <1>1, <1>2 DEF DataOf, Shifted

LEMMA HeardTail ==
  ASSUME NEW q \in Seq(Frame), q # <<>>, NEW i, ~Ends(q, i, 1)
  PROVE  HeardOf(Tail(q), i) = Shifted(q, HeardOf(q, i))
<1>1. DataOf(Tail(q), i) = Shifted(q, DataOf(q, i))
  BY DataTail
<1>2. ASSUME NEW p \in Shifted(q, DataOf(q, i))
      PROVE  (\A c \in 1..(p - 1) : ~Ends(Tail(q), i, c)) <=> \A c \in 1..p : ~Ends(q, i, c)
  <2>1. p \in 1..(Len(q) - 1)
    BY DEF Shifted
  <2>2. \A c \in 1..(p - 1) : Tail(q)[c] = q[c + 1] /\ c + 1 \in 1..p
    BY <2>1
  <2>3. \A c \in 1..(p - 1) : Ends(Tail(q), i, c) <=> Ends(q, i, c + 1)
    BY <2>2 DEF Ends
  <2>4. \A c \in 1..p : c = 1 \/ (c - 1 \in 1..(p - 1) /\ (c - 1) + 1 = c)
    BY <2>1
  <2>5. QED
    BY <2>2, <2>3, <2>4
<1>3. \A p \in Shifted(q, DataOf(q, i)) : (p + 1) - 1 = p
  BY DEF Shifted
<1>4. QED
  BY <1>1, <1>2, <1>3 DEF HeardOf, Shifted

LEMMA DataAside ==
  ASSUME NEW q \in Seq(Frame), NEW f \in Frame, NEW i, ~(f.id = i /\ f.type = "data")
  PROVE  DataOf(Append(q, f), i) = DataOf(q, i)
<1>1. DOMAIN Append(q, f) = DOMAIN q \cup {Len(q) + 1} /\ Append(q, f)[Len(q) + 1] = f
      /\ \A p \in DOMAIN q : Append(q, f)[p] = q[p] /\ p # Len(q) + 1
  OBVIOUS
<1>2. QED
  BY <1>1 DEF DataOf

\* The run of a stream when a frame is sent, and when one is taken.
LEMMA DataSent ==
  ASSUME NEW q \in Seq(Frame), NEW f \in Frame, NEW i, NEW maker, NEW m \in Nat, NEW top \in Nat,
         Run(q, DataOf(q, i), maker, m, top)
  PROVE  LET r == Append(q, f)
         IN /\ ~(f.id = i /\ f.type = "data") => Run(r, DataOf(r, i), maker, m, top)
            /\ f.id = i /\ f.type = "data" /\ f.chunk = <<maker, top + 1>> =>
                 Run(r, DataOf(r, i), maker, m, top + 1)
<1> DEFINE r == Append(q, f)
<1>1. DataOf(q, i) \subseteq DOMAIN q
  BY DEF DataOf
<1>2. CASE ~(f.id = i /\ f.type = "data")
  <2>1. DataOf(r, i) = DataOf(q, i)
    BY <1>2, DataAside
  <2>2. QED
    BY <1>1, <1>2, <2>1, RunAside
<1>3. CASE f.id = i /\ f.type = "data" /\ f.chunk = <<maker, top + 1>>
  <2>1. DataOf(r, i) = DataOf(q, i) \cup {Len(q) + 1}
    BY <1>3, DataAppend
  <2>2. QED
    BY <1>1, <1>3, <2>1, RunGrows
<1>4. QED
  BY <1>2, <1>3

LEMMA HeardSent ==
  ASSUME NEW q \in Seq(Frame), NEW f \in Frame, NEW i, NEW maker, NEW m \in Nat, NEW top \in Nat,
         Run(q, HeardOf(q, i), maker, m, top)
  PROVE  LET r == Append(q, f)
         IN /\ f.id # i \/ f.type # "data" \/ (\E c \in DOMAIN q : Ends(q, i, c)) =>
                 Run(r, HeardOf(r, i), maker, m, top)
            /\ /\ f.id = i /\ f.type = "data" /\ f.chunk = <<maker, top + 1>>
               /\ \A c \in DOMAIN q : ~Ends(q, i, c)
               => Run(r, HeardOf(r, i), maker, m, top + 1)
<1> DEFINE r == Append(q, f)
<1>1. HeardOf(q, i) \subseteq DOMAIN q
  BY DEF HeardOf, DataOf
<1>2. ASSUME f.id # i \/ f.type # "data" \/ (\E c \in DOMAIN q : Ends(q, i, c))
      PROVE  Run(r, HeardOf(r, i), maker, m, top)
  <2>1. HeardOf(r, i) = HeardOf(q, i)
    BY <1>2, HeardAppend
  <2>2. QED
    BY <1>1, <2>1, RunAside
<1>3. ASSUME f.id = i, f.type = "data", f.chunk = <<maker, top + 1>>,
             \A c \in DOMAIN q : ~Ends(q, i, c)
      PROVE  Run(r, HeardOf(r, i), maker, m, top + 1)
  <2>1. HeardOf(r, i) = HeardOf(q, i) \cup {Len(q) + 1}
    BY <1>3, HeardAppend
  <2>2. QED
    BY <1>1, <1>3, <2>1, RunGrows
<1>4. QED
  BY <1>2, <1>3

LEMMA DataTaken ==
  ASSUME NEW q \in Seq(Frame), q # <<>>, NEW i, NEW maker, NEW m \in Nat, NEW top \in Nat,
         Run(q, DataOf(q, i), maker, m, top)
  PROVE  /\ ~(Head(q).id = i /\ Head(q).type = "data") =>
              Run(Tail(q), DataOf(Tail(q), i), maker, m, top)
         /\ Head(q).id = i /\ Head(q).type = "data" =>
              /\ m + 1 <= top /\ Head(q).chunk = <<maker, m + 1>>
              /\ Run(Tail(q), DataOf(Tail(q), i), maker, m + 1, top)
<1>1. DataOf(q, i) \subseteq DOMAIN q /\ DataOf(Tail(q), i) = Shifted(q, DataOf(q, i))
  BY DataTail DEF DataOf
<1>2. 1 \in DataOf(q, i) <=> Head(q).id = i /\ Head(q).type = "data"
  BY DEF DataOf
<1>3. CASE 1 \in DataOf(q, i)
  <2> DEFINE I == DataOf(q, i)
  <2>1. I \subseteq DOMAIN q /\ 1 \in I /\ Run(q, I, maker, m, top)
    BY <1>1, <1>3
  <2> HIDE DEF I
  <2>2. /\ m + 1 <= top /\ Head(q).chunk = <<maker, m + 1>>
        /\ Run(Tail(q), Shifted(q, I), maker, m + 1, top)
    BY <2>1, RunTaken
  <2>3. QED
    BY <1>1, <1>2, <1>3, <2>2 DEF I
<1>4. CASE 1 \notin DataOf(q, i)
  BY <1>1, <1>2, <1>4, RunPasses
<1>5. QED
  BY <1>3, <1>4

LEMMA HeardTaken ==
  ASSUME NEW q \in Seq(Frame), q # <<>>, NEW i, NEW maker, NEW m \in Nat, NEW top \in Nat,
         Run(q, HeardOf(q, i), maker, m, top)
  PROVE  /\ Head(q).id # i => Run(Tail(q), HeardOf(Tail(q), i), maker, m, top)
         /\ Head(q).id = i /\ Head(q).type = "data" =>
              /\ m + 1 <= top /\ Head(q).chunk = <<maker, m + 1>>
              /\ Run(Tail(q), HeardOf(Tail(q), i), maker, m + 1, top)
         /\ Ends(q, i, 1) => m = top
<1>0. Head(q) = q[1] /\ 1 \in DOMAIN q /\ HeardOf(q, i) \subseteq DOMAIN q
  BY DEF HeardOf, DataOf
<1>1. CASE Ends(q, i, 1)
  <2>1. ASSUME NEW p \in HeardOf(q, i) PROVE FALSE
    <3>1. p \in DOMAIN q /\ (p = 1 \/ 1 \in 1..(p - 1))
      BY DEF HeardOf, DataOf
    <3>2. p # 1
      BY <1>1 DEF HeardOf, DataOf, Ends
    <3>3. QED
      BY <1>1, <3>1, <3>2 DEF HeardOf
  <2>2. m = top
    <3>1. m < top => m + 1 \in (m + 1)..top
      OBVIOUS
    <3>2. QED
      BY <2>1, <3>1 DEF Run
  <2>3. QED
    BY <1>0, <1>1, <2>2 DEF Ends
<1>2. CASE Head(q).id # i
  <2>1. ~Ends(q, i, 1) /\ 1 \notin HeardOf(q, i)
    BY <1>0, <1>2 DEF Ends, HeardOf, DataOf
  <2>2. QED
    BY <1>0, <1>2, <2>1, HeardTail, RunPasses
<1>3. CASE Head(q).id = i /\ Head(q).type = "data"
  <2> DEFINE I == HeardOf(q, i)
  <2>1. ~Ends(q, i, 1)
    BY <1>0, <1>3 DEF Ends
  <2>2. HeardOf(Tail(q), i) = Shifted(q, I)
    BY <2>1, HeardTail
  <2>3. I \subseteq DOMAIN q /\ 1 \in I /\ Run(q, I, maker, m, top)
    BY <1>0, <1>3 DEF HeardOf, DataOf
  <2> HIDE DEF I
  <2>4. /\ m + 1 <= top /\ Head(q).chunk = <<maker, m + 1>>
        /\ Run(Tail(q), Shifted(q, I), maker, m + 1, top)
    BY <2>3, RunTaken
  <2>5. QED
    BY <1>3, <2>1, <2>2, <2>4
<1>4. QED
  BY <1>0, <1>1, <1>2, <1>3 DEF Ends

-----------------------------------------------------------------------------
(* Sequences in order, and the types.                                      *)

LEMMA InOrderIs ==
  ASSUME NEW s \in Seq(Chunk), NEW maker
  PROVE  InOrder(s, maker) <=> \A i \in 1..Len(s) : s[i] = <<maker, i>>
<1>1. s = [i \in 1..Len(s) |-> s[i]]
  OBVIOUS
<1>2. QED
  BY <1>1 DEF InOrder

LEMMA InOrderStarts ==
  ASSUME NEW maker \in Nat
  PROVE  InOrder(<<>>, maker) /\ InOrder(<< <<maker, 1>> >>, maker)
<1>1. <<>> \in Seq(Chunk) /\ << <<maker, 1>> >> \in Seq(Chunk)
  BY DEF Chunk
<1>2. \A i \in 1..Len(<< <<maker, 1>> >>) : << <<maker, 1>> >>[i] = <<maker, i>>
  OBVIOUS
<1>3. \A i \in 1..Len(<<>>) : <<>>[i] = <<maker, i>>
  OBVIOUS
<1>4. QED
  BY <1>1, <1>2, <1>3, InOrderIs

LEMMA InOrderGrows ==
  ASSUME NEW s \in Seq(Chunk), NEW maker \in Nat, InOrder(s, maker)
  PROVE  InOrder(Append(s, <<maker, Len(s) + 1>>), maker)
<1> DEFINE t == Append(s, <<maker, Len(s) + 1>>)
<1>1. t \in Seq(Chunk) /\ Len(t) = Len(s) + 1 /\ t[Len(s) + 1] = <<maker, Len(s) + 1>>
      /\ \A i \in 1..Len(s) : t[i] = s[i]
  BY DEF Chunk
<1>2. \A i \in 1..Len(s) : s[i] = <<maker, i>>
  BY InOrderIs
<1> HIDE DEF t
<1>3. \A i \in 1..Len(t) : t[i] = <<maker, i>>
  BY <1>1, <1>2
<1>4. QED
  BY <1>1, <1>3, InOrderIs DEF t

LEMMA InOrderPrefix ==
  ASSUME NEW a \in Seq(Chunk), NEW b \in Seq(Chunk), NEW maker, InOrder(a \o b, maker)
  PROVE  InOrder(a, maker)
<1>1. a \o b \in Seq(Chunk) /\ Len(a) <= Len(a \o b)
      /\ \A i \in 1..Len(a) : (a \o b)[i] = a[i] /\ i \in 1..Len(a \o b)
  OBVIOUS
<1>2. \A i \in 1..Len(a \o b) : (a \o b)[i] = <<maker, i>>
  BY <1>1, InOrderIs
<1>3. QED
  BY <1>1, <1>2, InOrderIs

LEMMA ReadOver ==
  ASSUME NEW a \in Seq(Chunk), NEW b \in Seq(Chunk), b # <<>>
  PROVE  Append(a, Head(b)) \o Tail(b) = a \o b
OBVIOUS

LEMMA Handing ==
  ASSUME NEW a \in Seq(Chunk), NEW b \in Seq(Chunk), NEW c \in Chunk
  PROVE  a \o Append(b, c) = Append(a \o b, c)
OBVIOUS

LEMMA Joined ==
  ASSUME NEW a \in Seq(Chunk), NEW b \in Seq(Chunk)
  PROVE  a \o <<>> = a /\ a \o b \in Seq(Chunk) /\ (a # <<>> => a \o b # <<>>)
OBVIOUS

LEMMA Removed ==
  ASSUME NEW f, NEW i
  PROVE  /\ DOMAIN Without(f, i) = DOMAIN f \ {i}
         /\ \A x \in DOMAIN f \ {i} : Without(f, i)[x] = f[x]
BY DEF Without

LEMMA Added ==
  ASSUME NEW f, NEW i, NEW v
  PROVE  /\ DOMAIN With(f, i, v) = DOMAIN f \cup {i} /\ With(f, i, v)[i] = v
         /\ \A x \in DOMAIN f \ {i} : With(f, i, v)[x] = f[x]
BY DEF With

LEMMA NoMap == DOMAIN Empty = {}
BY DEF Empty

LEMMA BlankStreams == NoConn \in ConnRec /\ NoSock \in SockRec /\ <<>> \in Chunks /\ <<>> \in Seq(Frame)
<1>1. <<>> \in Chunks /\ <<>> \in Seq(Frame)
  BY DEF Chunks
<1>2. QED
  BY <1>1 DEF NoConn, ConnRec, NoSock, SockRec

LEMMA Frames ==
  ASSUME NEW q \in Seq(Frame), NEW i \in Nat, NEW c \in Chunk
  PROVE  /\ Data(i, c) \in Frame /\ Close(i) \in Frame
         /\ Sent(q, Data(i, c)) \in Seq(Frame) /\ Sent(q, Close(i)) \in Seq(Frame)
         /\ Data(i, c).id = i /\ Data(i, c).type = "data" /\ Data(i, c).chunk = c
         /\ Close(i).id = i /\ Close(i).type = "close"
<1>1. Data(i, c) \in Frame /\ Close(i) \in Frame
  BY DEF Data, Close, Frame, Chunk
<1>2. Sent(q, Data(i, c)) \in Seq(Frame) /\ Sent(q, Close(i)) \in Seq(Frame)
  BY <1>1 DEF Sent
<1>3. QED
  BY <1>1, <1>2 DEF Data, Close

LEMMA Pops ==
  ASSUME NEW q \in Seq(Frame), q # <<>>
  PROVE  Tail(q) \in Seq(Frame) /\ Head(q) \in Frame /\ Head(q) = q[1] /\ 1 \in DOMAIN q
         /\ \A p \in DOMAIN Tail(q) : p + 1 \in DOMAIN q /\ Tail(q)[p] = q[p + 1]
OBVIOUS

\* The changes the actions make to the record of a connection and of a socket.
LEMMA ConnChanges ==
  ASSUME NEW c \in ConnRec, NEW s \in Chunks, NEW t \in Chunks
  PROVE  /\ [c EXCEPT !.sent = @ + 1] \in ConnRec
         /\ [c EXCEPT !.out = s, !.got = t] \in ConnRec
         /\ [c EXCEPT !.out = s] \in ConnRec
         /\ \A l \in {"hungup", "cut", "lost"} : [c EXCEPT !.st = l, !.out = <<>>] \in ConnRec
<1>1. <<>> \in Chunks
  BY BlankStreams
<1>2. [c EXCEPT !.sent = @ + 1] \in ConnRec
  BY DEF ConnRec
<1>3. [c EXCEPT !.out = s, !.got = t] \in ConnRec /\ [c EXCEPT !.out = s] \in ConnRec
  BY DEF ConnRec
<1>4. ASSUME NEW l \in {"hungup", "cut", "lost"} PROVE [c EXCEPT !.st = l, !.out = <<>>] \in ConnRec
  BY <1>1 DEF ConnRec
<1>5. QED
  BY <1>2, <1>3, <1>4

LEMMA SockChanges ==
  ASSUME NEW c \in SockRec, NEW s \in Chunks
  PROVE  /\ [c EXCEPT !.sent = @ + 1] \in SockRec
         /\ [c EXCEPT !.got = s] \in SockRec
         /\ [c EXCEPT !.later = s, !.early = TRUE] \in SockRec
         /\ [c EXCEPT !.st = "open", !.first = <<>>, !.later = <<>>, !.got = s] \in SockRec
         /\ Destroyed(c) \in SockRec /\ Ended(c) \in SockRec
<1>1. <<>> \in Chunks
  BY BlankStreams
<1>2. Destroyed(c) \in SockRec
  BY <1>1 DEF SockRec, Destroyed
<1>3. Ended(c) \in SockRec
  BY <1>2 DEF SockRec, Ended
<1>4. [c EXCEPT !.sent = @ + 1] \in SockRec
  BY DEF SockRec
<1>5. [c EXCEPT !.got = s] \in SockRec /\ [c EXCEPT !.later = s, !.early = TRUE] \in SockRec
  BY DEF SockRec
<1>6. [c EXCEPT !.st = "open", !.first = <<>>, !.later = <<>>, !.got = s] \in SockRec
  BY <1>1 DEF SockRec
<1>7. QED
  BY <1>2, <1>3, <1>4, <1>5, <1>6

LEMMA StreamTypeInit == StreamInit => StreamType
<1> SUFFICES ASSUME StreamInit PROVE StreamType
  OBVIOUS
<1>1. conn \in [Conn -> ConnRec] /\ sock \in [Sock -> SockRec]
  BY BlankStreams DEF StreamInit
<1>2. DOMAIN streams = {} /\ DOMAIN local = {}
  BY NoMap DEF StreamInit
<1>3. QED
  BY <1>1, <1>2 DEF StreamInit, StreamType

LEMMA StreamTypeSandbox ==
  ASSUME StreamType, NEW k \in Conn,
         Accept(k) \/ ClientWrites(k) \/ ClientReads(k) \/ ClientCloses(k)
  PROVE  StreamType'
<1>0. /\ conn[k] \in ConnRec /\ k \in Nat /\ conn \in [Conn -> ConnRec]
      /\ conn[k].id \in Nat /\ conn[k].sent \in Nat /\ conn[k].out \in Chunks
      /\ conn[k].got \in Chunks
      /\ up \in Seq(Frame) /\ DOMAIN streams \subseteq Nat /\ nextId \in Nat
  BY StreamBounds DEF StreamType, ConnRec
<1>1. CASE Accept(k)
  <2>1. [NoConn EXCEPT !.st = "open", !.id = nextId] \in ConnRec
    BY <1>0, BlankStreams DEF ConnRec
  <2>2. conn' \in [Conn -> ConnRec]
    BY <1>0, <1>1, <2>1 DEF Accept
  <2>3. streams' = With(streams, nextId, k)
    BY <1>1 DEF Accept
  <2>4. DOMAIN streams' = DOMAIN streams \cup {nextId}
    BY <2>3, Added
  <2>5. QED
    BY <1>0, <1>1, <2>2, <2>4 DEF Accept, StreamType
<1>2. CASE ClientWrites(k)
  <2>1. conn' \in [Conn -> ConnRec]
    BY <1>0, <1>2, ConnChanges DEF ClientWrites
  <2>2. <<k, conn[k].sent + 1>> \in Chunk
    BY <1>0 DEF Chunk
  <2>3. up' \in Seq(Frame)
    BY <1>0, <1>2, <2>2, Frames DEF ClientWrites
  <2>4. QED
    BY <1>2, <2>1, <2>3 DEF ClientWrites, StreamType
<1>3. CASE ClientReads(k)
  <2>1. Tail(conn[k].out) \in Chunks /\ Append(conn[k].got, Head(conn[k].out)) \in Chunks
    BY <1>0, <1>3 DEF ClientReads, Chunks
  <2>2. conn' \in [Conn -> ConnRec]
    BY <1>0, <1>3, <2>1, ConnChanges DEF ClientReads
  <2>3. QED
    BY <1>3, <2>2 DEF ClientReads, StreamType
<1>4. CASE ClientCloses(k)
  <2>1. conn' \in [Conn -> ConnRec]
    BY <1>0, <1>4, ConnChanges DEF ClientCloses
  <2>2. up' = Sent(up, Close(conn[k].id)) /\ <<0, 0>> \in Chunk
    BY <1>4 DEF ClientCloses, Chunk
  <2>3. up' \in Seq(Frame)
    BY <1>0, <2>2, Frames
  <2>4. streams' = Without(streams, conn[k].id)
    BY <1>4 DEF ClientCloses
  <2>5. DOMAIN streams' \subseteq Nat
    <3>1. DOMAIN Without(streams, conn[k].id) = DOMAIN streams \ {conn[k].id}
      BY Removed
    <3>2. QED
      BY <1>0, <2>4, <3>1
  <2>6. QED
    BY <1>4, <2>1, <2>3, <2>5 DEF ClientCloses, StreamType
<1>5. QED
  BY <1>1, <1>2, <1>3, <1>4

LEMMA StreamTypeReceives ==
  ASSUME StreamType, NEW base \in Nat, ConnInv(base), SandboxReceives
  PROVE  StreamType'
<1>0. /\ conn \in [Conn -> ConnRec] /\ down \in Seq(Frame) /\ down # <<>>
      /\ DOMAIN streams \subseteq Nat
  BY DEF StreamType, SandboxReceives
<1> DEFINE f == Head(down)
<1>1. f \in Frame /\ down' \in Seq(Frame) /\ f.chunk \in Chunk
  BY <1>0, Pops DEF SandboxReceives, Frame
<1>2. CASE f.id \notin DOMAIN streams
  BY <1>0, <1>1, <1>2 DEF SandboxReceives, StreamType
<1>3. CASE f.id \in DOMAIN streams
  <2> DEFINE k == streams[f.id]
  <2>1. k \in Conn
    BY <1>3 DEF ConnInv
  <2>2. conn[k] \in ConnRec /\ conn[k].out \in Chunks
    BY <1>0, <2>1 DEF ConnRec
  <2>3. Append(conn[k].out, f.chunk) \in Chunks
    BY <1>1, <2>2 DEF Chunks
  <2>4. conn' = [conn EXCEPT ![k] = [conn[k] EXCEPT !.st = "cut", !.out = <<>>]]
        \/ conn' = [conn EXCEPT ![k] = [conn[k] EXCEPT !.out = Append(@, f.chunk)]]
    BY <1>3 DEF SandboxReceives
  <2>5. conn' \in [Conn -> ConnRec]
    BY <1>0, <2>1, <2>2, <2>3, <2>4, ConnChanges
  <2>6. streams' = streams \/ streams' = Without(streams, f.id)
    BY <1>3 DEF SandboxReceives
  <2>7. DOMAIN streams' \subseteq Nat
    <3>1. DOMAIN Without(streams, f.id) = DOMAIN streams \ {f.id}
      BY Removed
    <3>2. QED
      BY <1>0, <2>6, <3>1
  <2>8. QED
    BY <1>1, <2>5, <2>7 DEF SandboxReceives, StreamType
<1>4. QED
  BY <1>2, <1>3

LEMMA StreamTypeBot ==
  ASSUME StreamType, NEW base \in Nat, SockInv(base), BotReceives
  PROVE  StreamType'
<1>0. /\ sock \in [Sock -> SockRec] /\ up \in Seq(Frame) /\ up # <<>>
      /\ DOMAIN local \subseteq Nat
  BY DEF StreamType, BotReceives
<1> DEFINE f == Head(up)
<1>1. f \in Frame /\ up' \in Seq(Frame) /\ f.chunk \in Chunk /\ f.id \in Nat
  BY <1>0, Pops DEF BotReceives, Frame
<1>2. CASE f.id \in DOMAIN local
  <2> DEFINE j == local[f.id]
  <2>1. j \in Sock
    BY <1>2 DEF SockInv
  <2>2. sock[j] \in SockRec /\ sock[j].got \in Chunks /\ sock[j].later \in Chunks
    BY <1>0, <2>1 DEF SockRec
  <2>3. Append(sock[j].got, f.chunk) \in Chunks /\ Append(sock[j].later, f.chunk) \in Chunks
    BY <1>1, <2>2 DEF Chunks
  <2>4. \/ sock' = [sock EXCEPT ![j] = Destroyed(sock[j])]
        \/ sock' = [sock EXCEPT ![j] = [sock[j] EXCEPT !.got = Append(@, f.chunk)]]
        \/ sock' = [sock EXCEPT ![j] = [sock[j] EXCEPT !.later = Append(@, f.chunk), !.early = TRUE]]
    BY <1>2 DEF BotReceives
  <2>5. sock' \in [Sock -> SockRec]
    BY <1>0, <2>1, <2>2, <2>3, <2>4, SockChanges
  <2>6. local' = local \/ local' = Without(local, f.id)
    BY <1>2 DEF BotReceives
  <2>7. DOMAIN local' \subseteq Nat
    <3>1. DOMAIN Without(local, f.id) = DOMAIN local \ {f.id}
      BY Removed
    <3>2. QED
      BY <1>0, <2>6, <3>1
  <2>8. QED
    BY <1>1, <2>5, <2>7 DEF BotReceives, StreamType
<1>3. CASE f.id \notin DOMAIN local /\ f.type = "data"
  <2>1. PICK j \in Sock : OpenLocalSocket(j, f)
    BY <1>3 DEF BotReceives
  <2>2. f.chunk[1] \in Nat /\ (f.chunk[2] > 1) \in BOOLEAN /\ <<f.chunk>> \in Chunks
    BY <1>1 DEF Chunk, Chunks
  <2>3. [NoSock EXCEPT !.st = "connecting", !.id = f.id, !.first = <<f.chunk>>,
           !.peer = f.chunk[1], !.late = f.chunk[2] > 1] \in SockRec
    <3> DEFINE b == f.chunk[2] > 1
               s == <<f.chunk>>
    <3>1. b \in BOOLEAN /\ s \in Chunks
      BY <2>2
    <3> HIDE DEF b, s
    <3>2. [NoSock EXCEPT !.st = "connecting", !.id = f.id, !.first = s,
             !.peer = f.chunk[1], !.late = b] \in SockRec
      BY <1>1, <2>2, <3>1, BlankStreams DEF SockRec
    <3>3. QED
      BY <3>2 DEF b, s
  <2>4. sock' \in [Sock -> SockRec]
    BY <1>0, <2>1, <2>3 DEF OpenLocalSocket
  <2>5. local' = With(local, f.id, j)
    BY <2>1 DEF OpenLocalSocket
  <2>6. DOMAIN local' \subseteq Nat
    <3>1. DOMAIN With(local, f.id, j) = DOMAIN local \cup {f.id}
      BY DEF With
    <3>2. QED
      BY <1>0, <1>1, <2>5, <3>1
  <2>7. QED
    BY <1>1, <2>4, <2>6 DEF BotReceives, StreamType
<1>4. CASE f.id \notin DOMAIN local /\ f.type = "close"
  BY <1>0, <1>1, <1>4 DEF BotReceives, StreamType
<1>5. QED
  BY <1>1, <1>2, <1>3, <1>4 DEF Frame

LEMMA StreamTypeSocket ==
  ASSUME StreamType, NEW j \in Sock, LocalConnects(j) \/ ServerWrites(j) \/ LocalCloses(j)
  PROVE  StreamType'
<1>0. /\ sock[j] \in SockRec /\ j \in Nat /\ sock \in [Sock -> SockRec]
      /\ sock[j].later \in Chunks /\ sock[j].first \in Chunks
      /\ sock[j].id \in Nat /\ sock[j].sent \in Nat
      /\ down \in Seq(Frame) /\ DOMAIN local \subseteq Nat
  BY StreamBounds DEF StreamType, SockRec
<1>1. CASE LocalConnects(j)
  <2>1. sock[j].later \o sock[j].first \in Chunks
    BY <1>0 DEF Chunks
  <2>2. sock' \in [Sock -> SockRec]
    BY <1>0, <1>1, <2>1, SockChanges DEF LocalConnects
  <2>3. QED
    BY <1>1, <2>2 DEF LocalConnects, StreamType
<1>2. CASE ServerWrites(j)
  <2>1. sock' \in [Sock -> SockRec]
    BY <1>0, <1>2, SockChanges DEF ServerWrites
  <2>2. <<j, sock[j].sent + 1>> \in Chunk
    BY <1>0 DEF Chunk
  <2>3. down' \in Seq(Frame)
    BY <1>0, <1>2, <2>2, Frames DEF ServerWrites
  <2>4. QED
    BY <1>2, <2>1, <2>3 DEF ServerWrites, StreamType
<1>3. CASE LocalCloses(j)
  <2>1. sock' \in [Sock -> SockRec]
    BY <1>0, <1>3, SockChanges DEF LocalCloses
  <2>2. down' = Sent(down, Close(sock[j].id)) /\ <<0, 0>> \in Chunk
    BY <1>3 DEF LocalCloses, Chunk
  <2>3. down' \in Seq(Frame)
    BY <1>0, <2>2, Frames
  <2>4. local' = Without(local, sock[j].id)
    BY <1>3 DEF LocalCloses
  <2>5. DOMAIN local' \subseteq Nat
    <3>1. DOMAIN Without(local, sock[j].id) = DOMAIN local \ {sock[j].id}
      BY Removed
    <3>2. QED
      BY <1>0, <2>4, <3>1
  <2>6. QED
    BY <1>3, <2>1, <2>3, <2>5 DEF LocalCloses, StreamType
<1>4. QED
  BY <1>1, <1>2, <1>3

LEMMA StreamTypeLoss ==
  ASSUME StreamType, CloseTunnel \/ WsCloses \/ WsReopens
  PROVE  StreamType'
<1>0. conn \in [Conn -> ConnRec] /\ sock \in [Sock -> SockRec] /\ DOMAIN Empty \subseteq Nat
  BY NoMap DEF StreamType
<1>1. CASE CloseTunnel
  <2>1. conn' \in [Conn -> ConnRec]
    BY <1>0, <1>1, ConnChanges, BlankStreams DEF CloseTunnel
  <2>2. QED
    BY <1>0, <1>1, <2>1 DEF CloseTunnel, StreamType
<1>2. CASE WsCloses
  <2>1. sock' \in [Sock -> SockRec]
    BY <1>0, <1>2, SockChanges, BlankStreams DEF WsCloses, CleanupStreams
  <2>2. drops' \in Nat
    BY <1>2, StreamBounds DEF WsCloses, StreamType
  <2>3. QED
    BY <1>0, <1>2, <2>1, <2>2, BlankStreams DEF WsCloses, CleanupStreams, StreamType
<1>3. CASE WsReopens
  BY <1>3 DEF WsReopens, StreamType
<1>4. QED
  BY <1>1, <1>2, <1>3

-----------------------------------------------------------------------------
(* What a step that does not touch a part of the state keeps.              *)

LEMMA ConnIs ==
  ASSUME StreamType, NEW k \in Conn
  PROVE  /\ conn[k] \in ConnRec /\ k \in Nat /\ k > 0
         /\ conn[k].id \in Nat /\ conn[k].sent \in Nat
         /\ conn[k].out \in Chunks /\ conn[k].got \in Chunks
         /\ conn[k].out \in Seq(Chunk) /\ conn[k].got \in Seq(Chunk)
         /\ Handed(k) \in Seq(Chunk)
<1>1. conn[k] \in ConnRec /\ k \in Nat /\ k > 0
  BY StreamBounds DEF StreamType
<1>2. /\ conn[k].id \in Nat /\ conn[k].sent \in Nat
      /\ conn[k].out \in Chunks /\ conn[k].got \in Chunks
  BY <1>1 DEF ConnRec
<1>3. conn[k].out \in Seq(Chunk) /\ conn[k].got \in Seq(Chunk)
  BY <1>2 DEF Chunks
<1>4. QED
  BY <1>1, <1>2, <1>3 DEF Handed

LEMMA SockIs ==
  ASSUME StreamType, NEW j \in Sock
  PROVE  /\ sock[j] \in SockRec /\ j \in Nat
         /\ sock[j].id \in Nat /\ sock[j].sent \in Nat /\ sock[j].peer \in Nat
         /\ sock[j].got \in Seq(Chunk)
<1>1. sock[j] \in SockRec /\ j \in Nat
  BY StreamBounds DEF StreamType
<1>2. QED
  BY <1>1 DEF SockRec, Chunks

LEMMA ConnKept ==
  ASSUME NEW base \in Nat, ConnInv(base), nextId' = nextId, streams' = streams,
         ws' = "closed" => ws = "closed",
         \A k \in Conn : /\ conn'[k].st = conn[k].st /\ conn'[k].id = conn[k].id
                         /\ conn'[k] = conn[k] \/ conn[k].st = "open"
  PROVE  ConnInv(base)'
BY DEF ConnInv

\* A connection leaves the map of the listener.
LEMMA ConnLeaves ==
  ASSUME NEW base \in Nat, StreamType, ConnInv(base), NEW k \in Conn, conn[k].st = "open",
         NEW l \in {"hungup", "cut"}, nextId' = nextId, ws' = ws,
         conn' = [conn EXCEPT ![k] = [conn[k] EXCEPT !.st = l, !.out = <<>>]],
         streams' = Without(streams, k - base)
  PROVE  ConnInv(base)'
<1>1. DOMAIN streams' = DOMAIN streams \ {k - base}
      /\ \A i \in DOMAIN streams' : streams'[i] = streams[i]
  BY DEF Without
<1>2. conn'[k].st = l /\ conn'[k].out = <<>> /\ conn'[k].id = conn[k].id
      /\ \A h \in Conn \ {k} : conn'[h] = conn[h]
  BY ConnIs DEF ConnRec, StreamType
<1>3. \A h \in Conn : h \in Nat
  BY StreamBounds
<1>4. \A i \in DOMAIN streams' : i \in Nat /\ base + i # k
  BY <1>1, <1>3 DEF StreamType
<1>5. \A h \in Conn :
       /\ conn'[h].st = "none" <=> h >= base + nextId
       /\ conn'[h].st = "none" => conn'[h] = NoConn
       /\ h <= base => conn'[h].st # "open"
       /\ h > base /\ h < base + nextId => conn'[h].id = h - base
       /\ conn'[h].st # "open" => conn'[h].out = <<>>
       /\ conn'[h].st = "open" => h - base \in DOMAIN streams'
  <2> TAKE h \in Conn
  <2>1. CASE h = k
    BY <1>2, <2>1 DEF ConnInv
  <2>2. CASE h # k
    BY <1>1, <1>2, <1>3, <2>2 DEF ConnInv
  <2>3. QED
    BY <2>1, <2>2
<1>6. \A i \in DOMAIN streams' :
       base + i \in Conn /\ streams'[i] = base + i /\ conn'[base + i].st = "open"
  BY <1>1, <1>2, <1>4 DEF ConnInv
<1>7. ws' = "closed" => DOMAIN streams' = {}
  BY <1>1 DEF ConnInv
<1>8. QED
  BY <1>5, <1>6, <1>7 DEF ConnInv

LEMMA SockKept ==
  ASSUME NEW base \in Nat, SockInv(base), ws' = ws, local' = local,
         nextId \in Nat, nextId' \in Nat, nextId' >= nextId,
         \A h \in Sock : /\ sock'[h].id = sock[h].id /\ sock'[h].peer = sock[h].peer
                         /\ sock'[h].st = "none" <=> sock[h].st = "none"
                         /\ sock'[h].st = "none" => sock'[h] = sock[h]
                         /\ Live(h)' <=> Live(h),
         \A k \in Conn : conn'[k].st = "none" => conn[k].st = "none"
  PROVE  SockInv(base)'
<1>1. \A j \in Sock :
       /\ sock'[j].st = "none" => sock'[j] = NoSock
       /\ sock'[j].st # "none" => sock'[j].peer \in Conn /\ conn'[sock'[j].peer].st # "none"
       /\ Live(j)' => /\ ws' = "open" /\ sock'[j].peer = base + sock'[j].id
                      /\ sock'[j].id \in DOMAIN local' /\ local'[sock'[j].id] = j
  BY DEF SockInv
<1>2. \A i \in DOMAIN local' :
       local'[i] \in Sock /\ Live(local[i])' /\ sock'[local'[i]].id = i /\ i \in 1..(nextId' - 1)
  BY DEF SockInv
<1>3. QED
  BY <1>1, <1>2 DEF SockInv

LEMMA UpKept ==
  ASSUME NEW base \in Nat, UpInv(base), ws' = ws, up' = up, nextId' = nextId,
         \A k \in Conn : /\ conn'[k].sent = conn[k].sent
                         /\ conn'[k].st = "open" => conn[k].st = "open",
         \A h \in Sock : /\ sock'[h].peer = sock[h].peer
                         /\ sock'[h].st = "none" <=> sock[h].st = "none"
                         /\ Live(h)' => Live(h)
                         /\ ~sock'[h].early /\ ~sock'[h].late /\ Live(h)' =>
                              ~sock[h].early /\ ~sock[h].late /\ Takes(h)' = Takes(h)
  PROVE  UpInv(base)'
<1> SUFFICES ASSUME ws' = "open", NEW k \in Conn, k > base, k < base + nextId
             PROVE  \E m \in Nat : Upwards(base, k, m)'
  BY DEF UpInv
<1>1. PICK m \in Nat : Upwards(base, k, m)
  BY DEF UpInv
<1>2. \A j \in Sock : Serves(j, k)' <=> Serves(j, k)
  BY DEF Serves
<1>3. Upwards(base, k, m)'
  BY <1>1, <1>2 DEF Upwards
<1>4. QED
  BY <1>3

LEMMA DownKept ==
  ASSUME NEW base \in Nat, DownInv(base), ws' = ws, down' = down,
         \A k \in Conn : conn'[k].st = "open" => conn[k].st = "open" /\ Handed(k)' = Handed(k),
         \A h \in Sock : /\ sock'[h].peer = sock[h].peer /\ sock'[h].late = sock[h].late
                         /\ sock'[h].sent = sock[h].sent
                         /\ sock'[h].st = "none" <=> sock[h].st = "none"
                         /\ Live(h) => Live(h)' \/ conn[sock[h].peer].st # "open"
                         /\ sock[h].st = "ended" => sock'[h].st = "ended"
  PROVE  DownInv(base)'
<1> SUFFICES ASSUME ws' = "open", NEW k \in Conn, conn'[k].st = "open"
             PROVE  Unanswered(k - base, k)' \/ \E j \in Sock : AnsweredBy(k - base, k, j)'
  BY DEF DownInv
<1>1. \A j \in Sock : Serves(j, k)' <=> Serves(j, k)
  BY DEF Serves
<1>2. CASE Unanswered(k - base, k)
  BY <1>1, <1>2 DEF Unanswered
<1>3. ASSUME NEW j \in Sock, AnsweredBy(k - base, k, j) PROVE AnsweredBy(k - base, k, j)'
  <2>1. Live(j) => Live(j)'
    BY <1>3 DEF AnsweredBy, Serves
  <2>2. QED
    BY <1>1, <1>3, <2>1 DEF AnsweredBy
<1>4. QED
  BY <1>2, <1>3 DEF DownInv

LEMMA AnswerKept ==
  ASSUME StreamType, AnswerInv,
         \A k \in Conn : Handed(k)' = Handed(k) \/ Handed(k)' = conn[k].got \/ Handed(k)' = <<>>,
         \A h \in Sock : /\ sock[h].st # "none" => sock'[h].peer = sock[h].peer
                         /\ sock'[h].st = "none" => sock[h].st = "none"
  PROVE  AnswerInv'
<1> SUFFICES ASSUME NEW k \in Conn, Handed(k)' # <<>>
             PROVE  \E j \in Sock : Serves(j, k)' /\ InOrder(Handed(k)', j)
  BY DEF AnswerInv, InOrder
<1>1. conn[k].got \in Seq(Chunk) /\ conn[k].out \in Seq(Chunk) /\ Handed(k) = conn[k].got \o conn[k].out
  BY ConnIs DEF Handed
<1>2. Handed(k) # <<>>
  BY <1>1, Joined
<1>3. PICK j \in Sock : Serves(j, k) /\ InOrder(Handed(k), j)
  BY <1>2 DEF AnswerInv
<1>4. InOrder(conn[k].got, j)
  BY <1>1, <1>3, InOrderPrefix
<1>5. Serves(j, k)'
  BY <1>3 DEF Serves
<1>6. QED
  BY <1>3, <1>4, <1>5

-----------------------------------------------------------------------------
(* The sandbox's side.                                                     *)

\* The connections of the present listener, by id.
LEMMA OpenConn ==
  ASSUME NEW base \in Nat, StreamType, ConnInv(base), NEW k \in Conn, conn[k].st = "open"
  PROVE  /\ k > base /\ k < base + nextId /\ conn[k].id = k - base
         /\ k - base \in Nat \ {0} /\ k - base \in 1..(nextId - 1) /\ k - base \in DOMAIN streams
<1>1. k \in Nat /\ nextId \in Nat
  BY StreamBounds DEF StreamType
<1>2. k > base /\ k < base + nextId /\ conn[k].id = k - base /\ k - base \in DOMAIN streams
  BY <1>1 DEF ConnInv
<1>3. QED
  BY <1>1, <1>2

LEMMA NextConn ==
  ASSUME NEW base \in Nat, StreamType, ConnInv(base), NEW k \in Conn, Accept(k)
  PROVE  k = base + nextId
<1>1. k \in 1..MaxConns /\ nextId \in Nat \ {0} /\ k >= base + nextId
  BY DEF StreamType, ConnInv, Accept, Conn
<1>2. base + nextId \in Conn
  BY <1>1, StreamBounds DEF Conn
<1>3. conn[base + nextId].st = "none"
  BY <1>1, <1>2 DEF ConnInv
<1>4. QED
  BY <1>1, <1>2, <1>3 DEF Accept

\* Append and Sent, while the WebSocket is open and when it is not.
LEMMA QueueGrows ==
  ASSUME StreamType, QueueInv, nextId' = nextId, ws' = ws,
         NEW f \in Frame, f.id \in 1..(nextId - 1),
         \/ up' = Sent(up, f) /\ down' = down
         \/ down' = Sent(down, f) /\ up' = up
  PROVE  QueueInv'
<1>1. up \in Seq(Frame) /\ down \in Seq(Frame)
  BY DEF StreamType
<1>2. CASE ws # "open"
  BY <1>2 DEF Sent, QueueInv
<1>3. CASE ws = "open"
  <2>1. CASE up' = Append(up, f) /\ down' = down
    <3>1. \A p \in DOMAIN up' : (p \in DOMAIN up /\ up'[p] = up[p]) \/ up'[p] = f
      BY <1>1, <2>1
    <3>2. QED
      BY <1>3, <2>1, <3>1 DEF QueueInv
  <2>2. CASE down' = Append(down, f) /\ up' = up
    <3>1. \A p \in DOMAIN down' : (p \in DOMAIN down /\ down'[p] = down[p]) \/ down'[p] = f
      BY <1>1, <2>2
    <3>2. QED
      BY <1>3, <2>2, <3>1 DEF QueueInv
  <2>3. QED
    BY <1>3, <2>1, <2>2 DEF Sent
<1>4. QED
  BY <1>2, <1>3

LEMMA QueueShrinks ==
  ASSUME StreamType, QueueInv, nextId' = nextId, ws' = ws,
         \/ up # <<>> /\ up' = Tail(up) /\ down' = down
         \/ down # <<>> /\ down' = Tail(down) /\ up' = up
  PROVE  QueueInv'
<1>1. up \in Seq(Frame) /\ down \in Seq(Frame)
  BY DEF StreamType
<1>2. ws = "open" \/ (up = <<>> /\ down = <<>>)
  BY DEF QueueInv
<1>3. ws = "open"
  BY <1>2
<1>4. CASE up # <<>> /\ up' = Tail(up) /\ down' = down
  <2>1. \A p \in DOMAIN up' : p + 1 \in DOMAIN up /\ up'[p] = up[p + 1]
    BY <1>1, <1>4, Pops
  <2>2. QED
    BY <1>3, <1>4, <2>1 DEF QueueInv
<1>5. CASE down # <<>> /\ down' = Tail(down) /\ up' = up
  <2>1. \A p \in DOMAIN down' : p + 1 \in DOMAIN down /\ down'[p] = down[p + 1]
    BY <1>1, <1>5, Pops
  <2>2. QED
    BY <1>3, <1>5, <2>1 DEF QueueInv
<1>6. QED
  BY <1>4, <1>5

LEMMA AcceptKeeps ==
  ASSUME NEW base \in Nat, StreamInvAt(base), NEW k \in Conn, Accept(k)
  PROVE  StreamInvAt(base)'
<1> USE DEF StreamInvAt
<1>1. k = base + nextId /\ StreamType'
  BY NextConn, StreamTypeSandbox
<1>2. /\ nextId \in Nat \ {0} /\ nextId' = nextId + 1 /\ ws' = ws /\ ws # "closed"
      /\ UNCHANGED <<up, down, local, sock>>
      /\ streams' = With(streams, nextId, k) /\ conn[k].st = "none"
  BY DEF Accept, StreamType
<1>3. /\ conn'[k].st = "open" /\ conn'[k].id = nextId /\ conn'[k].sent = 0
      /\ conn'[k].out = <<>> /\ conn'[k].got = <<>>
      /\ \A h \in Conn \ {k} : conn'[h] = conn[h]
  BY DEF Accept, StreamType, NoConn
<1>4. \A h \in Conn : h \in Nat /\ h <= MaxConns
  BY StreamBounds DEF Conn
<1>5. ConnInv(base)'
  <2>1. DOMAIN streams' = DOMAIN streams \cup {nextId} /\ streams'[nextId] = k
        /\ \A i \in DOMAIN streams \ {nextId} : streams'[i] = streams[i]
    BY <1>2 DEF With
  <2>2. \A h \in Conn :
          /\ conn'[h].st = "none" <=> h >= base + nextId'
          /\ conn'[h].st = "none" => conn'[h] = NoConn
          /\ h <= base => conn'[h].st # "open"
          /\ h > base /\ h < base + nextId' => conn'[h].id = h - base
          /\ conn'[h].st # "open" => conn'[h].out = <<>>
          /\ conn'[h].st = "open" => h - base \in DOMAIN streams'
    <3> TAKE h \in Conn
    <3>1. CASE h = k
      BY <1>1, <1>2, <1>3, <2>1, <3>1
    <3>2. CASE h # k
      <4>1. conn'[h] = conn[h] /\ h \in Nat
        BY <1>3, <1>4, <3>2
      <4>2. h >= base + nextId <=> h >= base + nextId'
        BY <1>1, <1>2, <3>2, <4>1
      <4>3. QED
        BY <1>2, <2>1, <4>1, <4>2 DEF ConnInv
    <3>3. QED
      BY <3>1, <3>2
  <2>3. \A i \in DOMAIN streams' :
          base + i \in Conn /\ streams'[i] = base + i /\ conn'[base + i].st = "open"
    BY <1>1, <1>3, <2>1 DEF ConnInv
  <2>4. base + nextId' <= MaxConns + 1
    BY <1>1, <1>2, <1>4, StreamBounds
  <2>5. QED
    BY <1>2, <2>2, <2>3, <2>4 DEF ConnInv
<1>6. QueueInv'
  BY <1>2 DEF QueueInv
<1>7. SockInv(base)'
  BY <1>2, <1>3, SockKept DEF SockInv, Live
<1>8. \A j \in Sock : ~Serves(j, k)
  BY <1>2 DEF SockInv, Serves
<1>9. \A p \in DOMAIN up : up[p].id # nextId
  BY <1>2 DEF QueueInv
<1>10. \A p \in DOMAIN down : down[p].id # nextId
  BY <1>2 DEF QueueInv
<1>11. UpInv(base)'
  <2> SUFFICES ASSUME ws' = "open", NEW h \in Conn, h > base, h < base + nextId'
               PROVE  \E m \in Nat : Upwards(base, h, m)'
    BY DEF UpInv
  <2>1. CASE h = k
    <3>1. DataOf(up, k - base) = {} /\ k - base = nextId
      BY <1>1, <1>2, <1>9 DEF DataOf
    <3>2. Run(up, {}, k, 0, 0)
      BY DEF Run
    <3>3. Upwards(base, k, 0)'
      BY <1>2, <1>3, <1>8, <1>9, <3>1, <3>2 DEF Upwards, Serves
    <3>4. QED
      BY <2>1, <3>3
  <2>2. CASE h # k
    <3>0. h \in Nat /\ h < base + nextId + 1 /\ h # base + nextId
      BY <1>1, <1>2, <1>4, <2>2
    <3>1. h < base + nextId /\ conn'[h] = conn[h]
      BY <1>2, <1>3, <2>2, <3>0
    <3>2. PICK m \in Nat : Upwards(base, h, m)
      BY <1>2, <3>1 DEF UpInv
    <3>3. Upwards(base, h, m)'
      BY <1>2, <3>1, <3>2 DEF Upwards, Serves, Live, Takes
    <3>4. QED
      BY <3>3
  <2>3. QED
    BY <2>1, <2>2
<1>12. RequestInv'
  BY <1>2 DEF RequestInv
<1>13. Handed(k)' = <<>> /\ \A h \in Conn \ {k} : Handed(h)' = Handed(h)
  <2>1. <<>> \o <<>> = <<>>
    OBVIOUS
  <2>2. QED
    BY <1>3, <2>1 DEF Handed
<1>14. AnswerInv'
  BY <1>2, <1>13, AnswerKept
<1>15. DownInv(base)'
  <2> SUFFICES ASSUME ws' = "open", NEW h \in Conn, conn'[h].st = "open"
               PROVE  Unanswered(h - base, h)' \/ \E j \in Sock : AnsweredBy(h - base, h, j)'
    BY DEF DownInv
  <2>1. CASE h = k
    <3>1. h - base = nextId
      BY <1>1, <1>2, <2>1
    <3>2. Unanswered(h - base, h)'
      BY <1>2, <1>8, <1>10, <1>13, <2>1, <3>1 DEF Unanswered, Serves
    <3>3. QED
      BY <3>2
  <2>2. CASE h # k
    <3>1. conn[h].st = "open" /\ Handed(h)' = Handed(h)
      BY <1>3, <1>13, <2>2
    <3>2. CASE Unanswered(h - base, h)
      BY <1>2, <3>1, <3>2 DEF Unanswered, Serves
    <3>3. ASSUME NEW j \in Sock, AnsweredBy(h - base, h, j) PROVE AnsweredBy(h - base, h, j)'
      BY <1>2, <3>1, <3>3 DEF AnsweredBy, Serves, Live
    <3>4. QED
      BY <1>2, <3>1, <3>2, <3>3 DEF DownInv
  <2>3. QED
    BY <2>1, <2>2
<1>16. QED
  BY <1>1, <1>5, <1>6, <1>7, <1>11, <1>12, <1>14, <1>15

LEMMA WriteKeeps ==
  ASSUME NEW base \in Nat, StreamInvAt(base), NEW k \in Conn, ClientWrites(k)
  PROVE  StreamInvAt(base)'
<1> USE DEF StreamInvAt
<1>1. StreamType' /\ conn[k] \in ConnRec /\ conn[k].sent \in Nat /\ k \in Nat
  BY StreamTypeSandbox, ConnIs
<1> DEFINE i == k - base
           f == Data(i, <<k, conn[k].sent + 1>>)
<1>2. /\ k > base /\ k < base + nextId /\ conn[k].id = i /\ i \in Nat \ {0} /\ i \in 1..(nextId - 1)
      /\ conn[k].st = "open"
  BY OpenConn DEF ClientWrites
<1>3. /\ ws' = ws /\ nextId' = nextId /\ UNCHANGED <<down, streams, local, sock>>
      /\ up' = Sent(up, f)
  BY <1>2 DEF ClientWrites
<1>4. /\ conn'[k] = [conn[k] EXCEPT !.sent = @ + 1]
      /\ \A h \in Conn \ {k} : conn'[h] = conn[h]
  BY DEF ClientWrites, StreamType
<1>5. /\ conn'[k].sent = conn[k].sent + 1 /\ conn'[k].st = conn[k].st /\ conn'[k].id = conn[k].id
      /\ conn'[k].out = conn[k].out /\ conn'[k].got = conn[k].got
  BY <1>1, <1>4 DEF ConnRec
<1>6. <<k, conn[k].sent + 1>> \in Chunk /\ up \in Seq(Frame)
  BY <1>1 DEF Chunk, StreamType
<1>7. f \in Frame /\ f.id = i /\ f.type = "data" /\ f.chunk = <<k, conn[k].sent + 1>>
  <2> HIDE DEF StreamInvAt
  <2> DEFINE c == <<k, conn[k].sent + 1>>
  <2>1. i \in Nat /\ c \in Chunk
    BY <1>2, <1>6
  <2> HIDE DEF c, i
  <2>2. Data(i, c) \in Frame /\ Data(i, c).id = i /\ Data(i, c).type = "data" /\ Data(i, c).chunk = c
    BY <2>1 DEF Data, Frame
  <2>3. QED
    BY <2>2 DEF c, i
<1> HIDE DEF f
<1>8. ConnInv(base)'
  BY <1>2, <1>3, <1>4, <1>5, ConnKept
<1>9. QueueInv'
  BY <1>2, <1>3, <1>7, QueueGrows
<1>10. SockInv(base)' /\ RequestInv'
  <2>1. nextId \in Nat /\ nextId' \in Nat /\ nextId' >= nextId
    BY <1>3 DEF StreamType
  <2>2. \A h \in Conn : conn'[h].st = "none" => conn[h].st = "none"
    BY <1>4, <1>5
  <2>3. \A h \in Sock : Live(h)' <=> Live(h)
    BY <1>3 DEF Live
  <2>4. SockInv(base)'
    BY <1>3, <2>1, <2>2, <2>3, SockKept
  <2>5. RequestInv'
    BY <1>3 DEF RequestInv
  <2>6. QED
    BY <2>4, <2>5
<1>11. \A h \in Conn : Handed(h)' = Handed(h)
  BY <1>4, <1>5 DEF Handed
<1>12. AnswerInv' /\ DownInv(base)'
  BY <1>3, <1>4, <1>5, <1>11, AnswerKept, DownKept DEF Live
<1>13. UpInv(base)'
  <2> SUFFICES ASSUME ws = "open", NEW h \in Conn, h > base, h < base + nextId
               PROVE  \E m \in Nat : Upwards(base, h, m)'
    BY <1>3 DEF UpInv
  <2>1. up' = Append(up, f)
    BY <1>3 DEF Sent
  <2>2. PICK m \in Nat : Upwards(base, h, m)
    BY DEF UpInv
  <2>3. h - base = i <=> h = k
    BY <1>1, StreamBounds
  <2>4. \A p \in DOMAIN up' : (p \in DOMAIN up /\ up'[p] = up[p]) \/ up'[p] = f
    BY <1>6, <1>7, <2>1
  <2>5. conn[h].sent \in Nat
    BY ConnIs
  <2>6. Run(up, DataOf(up, h - base), h, m, conn[h].sent)
    BY <2>2 DEF Upwards
  <2>7. Run(up', DataOf(up', h - base), h, m, conn'[h].sent)
    <3>1. CASE h = k
      BY <1>5, <1>6, <1>7, <2>1, <2>3, <2>5, <2>6, <3>1, DataSent
    <3>2. CASE h # k
      BY <1>4, <1>6, <1>7, <2>1, <2>3, <2>5, <2>6, <3>2, DataSent
    <3>3. QED
      BY <3>1, <3>2
  <2>8. conn'[h].st = "open" => conn[h].st = "open"
    BY <1>4, <1>5
  <2>9. Upwards(base, h, m)'
    BY <1>3, <1>7, <2>2, <2>4, <2>7, <2>8 DEF Upwards, Serves, Live, Takes
  <2>10. QED
    BY <2>9
<1>14. QED
  BY <1>1, <1>8, <1>9, <1>10, <1>12, <1>13

LEMMA ReadKeeps ==
  ASSUME NEW base \in Nat, StreamInvAt(base), NEW k \in Conn, ClientReads(k)
  PROVE  StreamInvAt(base)'
<1> USE DEF StreamInvAt
<1>1. /\ StreamType' /\ conn[k] \in ConnRec
      /\ conn[k].out \in Seq(Chunk) /\ conn[k].got \in Seq(Chunk) /\ conn[k].out # <<>>
  BY StreamTypeSandbox, ConnIs DEF ClientReads
<1>2. /\ UNCHANGED <<ws, up, down, nextId, streams, local, sock>> /\ conn[k].st = "open"
  BY DEF ClientReads
<1>3. /\ conn'[k] = [conn[k] EXCEPT !.out = Tail(@), !.got = Append(@, Head(conn[k].out))]
      /\ \A h \in Conn \ {k} : conn'[h] = conn[h]
  BY DEF ClientReads, StreamType
<1>4. /\ conn'[k].sent = conn[k].sent /\ conn'[k].st = conn[k].st /\ conn'[k].id = conn[k].id
      /\ conn'[k].out = Tail(conn[k].out) /\ conn'[k].got = Append(conn[k].got, Head(conn[k].out))
  BY <1>1, <1>3 DEF ConnRec
<1>5. \A h \in Conn : Handed(h)' = Handed(h)
  <2>1. Append(conn[k].got, Head(conn[k].out)) \o Tail(conn[k].out) = conn[k].got \o conn[k].out
    <3> DEFINE a == conn[k].got
               b == conn[k].out
    <3>1. a \in Seq(Chunk) /\ b \in Seq(Chunk) /\ b # <<>>
      BY <1>1
    <3> HIDE DEF a, b
    <3>2. Append(a, Head(b)) \o Tail(b) = a \o b
      BY <3>1, ReadOver
    <3>3. QED
      BY <3>2 DEF a, b
  <2>2. Handed(k)' = Handed(k)
    BY <1>4, <2>1 DEF Handed
  <2>3. \A h \in Conn \ {k} : Handed(h)' = Handed(h)
    BY <1>3 DEF Handed
  <2>4. QED
    BY <2>2, <2>3
<1>6. ConnInv(base)'
  BY <1>2, <1>3, <1>4, ConnKept
<1>7. QueueInv' /\ RequestInv'
  BY <1>2 DEF QueueInv, RequestInv
<1>8. SockInv(base)'
  <2>1. nextId \in Nat /\ nextId' \in Nat /\ nextId' >= nextId
    BY <1>2 DEF StreamType
  <2>2. \A h \in Conn : conn'[h].st = "none" => conn[h].st = "none"
    BY <1>3, <1>4
  <2>3. \A h \in Sock : Live(h)' <=> Live(h)
    BY <1>2 DEF Live
  <2>4. QED
    BY <1>2, <2>1, <2>2, <2>3, SockKept
<1>9. UpInv(base)'
  BY <1>2, <1>3, <1>4, UpKept DEF Live, Takes
<1>10. DownInv(base)'
  BY <1>2, <1>3, <1>4, <1>5, DownKept DEF Live
<1>11. AnswerInv'
  BY <1>2, <1>5, AnswerKept
<1>12. QED
  BY <1>1, <1>6, <1>7, <1>8, <1>9, <1>10, <1>11

LEMMA ClientCloseKeeps ==
  ASSUME NEW base \in Nat, StreamInvAt(base), NEW k \in Conn, ClientCloses(k)
  PROVE  StreamInvAt(base)'
<1> USE DEF StreamInvAt
<1>1. /\ StreamType' /\ conn[k] \in ConnRec /\ k \in Nat
      /\ conn[k].out \in Seq(Chunk) /\ conn[k].got \in Seq(Chunk)
  BY StreamTypeSandbox, ConnIs
<1> DEFINE i == k - base
           f == Close(i)
<1>2. /\ k > base /\ k < base + nextId /\ conn[k].id = i /\ i \in Nat \ {0} /\ i \in 1..(nextId - 1)
      /\ conn[k].st = "open"
  BY OpenConn DEF ClientCloses
<1>3. /\ ws' = ws /\ nextId' = nextId /\ UNCHANGED <<down, local, sock>>
      /\ up' = Sent(up, f) /\ streams' = Without(streams, i)
      /\ conn' = [conn EXCEPT ![k] = [conn[k] EXCEPT !.st = "hungup", !.out = <<>>]]
  BY <1>2 DEF ClientCloses
<1>4. /\ conn'[k] = [conn[k] EXCEPT !.st = "hungup", !.out = <<>>]
      /\ \A h \in Conn \ {k} : conn'[h] = conn[h]
  BY <1>3 DEF StreamType
<1>5. /\ conn'[k].sent = conn[k].sent /\ conn'[k].st = "hungup" /\ conn'[k].id = conn[k].id
      /\ conn'[k].out = <<>> /\ conn'[k].got = conn[k].got
  BY <1>1, <1>4 DEF ConnRec
<1>6. <<0, 0>> \in Chunk /\ up \in Seq(Frame)
  BY DEF Chunk, StreamType
<1>7. f \in Frame /\ f.id = i /\ f.type = "close"
  BY <1>2, <1>6, Frames
<1> HIDE DEF f
<1>8. ConnInv(base)'
  BY <1>2, <1>3, ConnLeaves
<1>9. QueueInv'
  BY <1>2, <1>3, <1>7, QueueGrows
<1>10. SockInv(base)' /\ RequestInv'
  <2>1. nextId \in Nat /\ nextId' \in Nat /\ nextId' >= nextId
    BY <1>3 DEF StreamType
  <2>2. \A h \in Conn : conn'[h].st = "none" => conn[h].st = "none"
    BY <1>4, <1>5
  <2>3. \A h \in Sock : Live(h)' <=> Live(h)
    BY <1>3 DEF Live
  <2>4. SockInv(base)'
    BY <1>3, <2>1, <2>2, <2>3, SockKept
  <2>5. RequestInv'
    BY <1>3 DEF RequestInv
  <2>6. QED
    BY <2>4, <2>5
<1>11. Handed(k)' = conn[k].got /\ \A h \in Conn \ {k} : Handed(h)' = Handed(h)
  BY <1>1, <1>4, <1>5, Joined DEF Handed
<1>12. AnswerInv' /\ DownInv(base)'
  <2>1. AnswerInv'
    BY <1>3, <1>11, AnswerKept
  <2>2. DownInv(base)'
    BY <1>3, <1>4, <1>5, <1>11, DownKept DEF Live
  <2>3. QED
    BY <2>1, <2>2
<1>13. UpInv(base)'
  <2> SUFFICES ASSUME ws = "open", NEW h \in Conn, h > base, h < base + nextId
               PROVE  \E m \in Nat : Upwards(base, h, m)'
    BY <1>3 DEF UpInv
  <2>1. up' = Append(up, f)
    BY <1>3 DEF Sent
  <2>2. PICK m \in Nat : Upwards(base, h, m)
    BY DEF UpInv
  <2>3. h - base = i <=> h = k
    BY <1>1, StreamBounds
  <2>4. \A p \in DOMAIN up' : (p \in DOMAIN up /\ up'[p] = up[p]) \/ up'[p] = f
    BY <1>6, <1>7, <2>1
  <2>5. conn[h].sent \in Nat /\ conn'[h].sent = conn[h].sent
    BY <1>4, <1>5, ConnIs
  <2>6. Run(up, DataOf(up, h - base), h, m, conn[h].sent)
    BY <2>2 DEF Upwards
  <2>7. Run(up', DataOf(up', h - base), h, m, conn'[h].sent)
    BY <1>6, <1>7, <2>1, <2>5, <2>6, DataSent
  <2>8. conn'[h].st = "open" => conn[h].st = "open" /\ h # k
    BY <1>4, <1>5
  <2>9. Upwards(base, h, m)'
    BY <1>3, <1>7, <2>2, <2>3, <2>4, <2>7, <2>8 DEF Upwards, Serves, Live, Takes
  <2>10. QED
    BY <2>9
<1>14. QED
  BY <1>1, <1>8, <1>9, <1>10, <1>12, <1>13

\* A CLOSE is still in the queue, or still not, without another frame at the head.
LEMMA TailEnds ==
  ASSUME NEW q \in Seq(Frame), q # <<>>, NEW i, ~Ends(q, i, 1)
  PROVE  (\E c \in DOMAIN Tail(q) : Ends(Tail(q), i, c)) <=> \E c \in DOMAIN q : Ends(q, i, c)
<1>1. DOMAIN Tail(q) = 1..(Len(q) - 1) /\ DOMAIN q = 1..Len(q) /\ Len(q) \in Nat
  OBVIOUS
<1>2. \A c \in DOMAIN Tail(q) : Tail(q)[c] = q[c + 1] /\ c + 1 \in DOMAIN q
  BY Pops
<1>3. \A c \in DOMAIN Tail(q) : Ends(Tail(q), i, c) <=> Ends(q, i, c + 1)
  BY <1>2 DEF Ends
<1>4. ASSUME NEW c \in DOMAIN q, Ends(q, i, c) PROVE \E d \in DOMAIN Tail(q) : Ends(Tail(q), i, d)
  <2>1. c # 1
    BY <1>4
  <2>2. c - 1 \in DOMAIN Tail(q) /\ (c - 1) + 1 = c
    BY <1>1, <2>1
  <2>3. QED
    BY <1>3, <1>4, <2>2
<1>5. QED
  BY <1>2, <1>3, <1>4

\* A frame of another stream leaves the queue.
LEMMA OthersTaken ==
  ASSUME NEW base \in Nat, StreamInvAt(base), SandboxReceives, NEW k \in Conn,
         conn[k].st = "open", Head(down).id # k - base, Handed(k)' = Handed(k)
  PROVE  Unanswered(k - base, k)' \/ \E j \in Sock : AnsweredBy(k - base, k, j)'
<1> DEFINE i == k - base
<1>1. down \in Seq(Frame) /\ down # <<>> /\ down' = Tail(down) /\ sock' = sock /\ ws = "open"
  BY DEF SandboxReceives, StreamInvAt, StreamType
<1>2. \A j \in Sock : Serves(j, k)' <=> Serves(j, k)
  BY <1>1 DEF Serves
<1>3. Head(down) = down[1] /\ \A p \in DOMAIN down' : p + 1 \in DOMAIN down /\ down'[p] = down[p + 1]
  BY <1>1, Pops
<1>4. CASE Unanswered(i, k)
  BY <1>2, <1>3, <1>4 DEF Unanswered
<1>5. ASSUME NEW j \in Sock, AnsweredBy(i, k, j) PROVE AnsweredBy(i, k, j)'
  <2>1. Run(down, HeardOf(down, i), j, Len(Handed(k)), sock[j].sent)
    BY <1>5 DEF AnsweredBy
  <2>2. Len(Handed(k)) \in Nat /\ sock[j].sent \in Nat
    BY ConnIs, SockIs DEF StreamInvAt
  <2>3. Run(down', HeardOf(down', i), j, Len(Handed(k)), sock[j].sent)
    BY <1>1, <2>1, <2>2, HeardTaken
  <2>4. ~Ends(down, i, 1)
    BY <1>3 DEF Ends
  <2>5. (\E c \in DOMAIN down' : Ends(down', i, c)) <=> \E c \in DOMAIN down : Ends(down, i, c)
    BY <1>1, <2>4, TailEnds
  <2>6. Live(j)' <=> Live(j)
    BY <1>1 DEF Live
  <2>7. QED
    BY <1>1, <1>2, <1>5, <2>3, <2>5, <2>6 DEF AnsweredBy
<1>6. QED
  BY <1>1, <1>4, <1>5 DEF StreamInvAt, DownInv

\* The connection that a frame in the queue is for is answered by one socket.
LEMMA Answers ==
  ASSUME NEW base \in Nat, StreamInvAt(base), SandboxReceives, Head(down).id \in DOMAIN streams
  PROVE  /\ streams[Head(down).id] \in Conn /\ Head(down).id = streams[Head(down).id] - base
         /\ conn[streams[Head(down).id]].st = "open"
         /\ \E j \in Sock : AnsweredBy(Head(down).id, streams[Head(down).id], j)
<1> DEFINE i == Head(down).id
           k == base + i
<1>1. down \in Seq(Frame) /\ down # <<>> /\ ws = "open" /\ i \in Nat
  BY DEF SandboxReceives, StreamInvAt, StreamType
<1>2. k \in Conn /\ streams[i] = k /\ conn[k].st = "open"
  BY DEF StreamInvAt, ConnInv
<1>3. k - base = i
  BY <1>1
<1>4. ~Unanswered(i, k)
  <2>1. 1 \in DOMAIN down /\ down[1].id = i
    BY <1>1, Pops
  <2>2. QED
    BY <2>1 DEF Unanswered
<1>5. \E j \in Sock : AnsweredBy(i, k, j)
  BY <1>1, <1>2, <1>3, <1>4 DEF StreamInvAt, DownInv
<1>6. QED
  BY <1>2, <1>3, <1>5

\* A step of the sandbox's receiver touches one connection.
LEMMA SandboxFrame ==
  ASSUME NEW base \in Nat, StreamInvAt(base), SandboxReceives
  PROVE  /\ UNCHANGED <<ws, up, nextId, local, sock>> /\ ws = "open"
         /\ down \in Seq(Frame) /\ down # <<>> /\ down' = Tail(down)
         /\ StreamType' /\ QueueInv' /\ RequestInv'
<1>1. /\ UNCHANGED <<ws, up, nextId, local, sock>> /\ ws = "open"
      /\ down \in Seq(Frame) /\ down # <<>> /\ down' = Tail(down)
  BY DEF SandboxReceives, StreamInvAt, StreamType
<1>2. StreamType'
  BY StreamTypeReceives DEF StreamInvAt
<1>3. QueueInv'
  BY <1>1, QueueShrinks DEF StreamInvAt
<1>4. RequestInv'
  BY <1>1 DEF StreamInvAt, RequestInv
<1>5. QED
  BY <1>1, <1>2, <1>3, <1>4

LEMMA SandboxDrops ==
  ASSUME NEW base \in Nat, StreamInvAt(base), SandboxReceives, Head(down).id \notin DOMAIN streams
  PROVE  StreamInvAt(base)'
<1> USE DEF StreamInvAt
<1>1. /\ UNCHANGED <<ws, up, nextId, local, sock>> /\ ws = "open"
      /\ StreamType' /\ QueueInv' /\ RequestInv'
  BY SandboxFrame
<1>2. conn' = conn /\ streams' = streams
  BY DEF SandboxReceives
<1>3. \A k \in Conn : Handed(k)' = Handed(k)
  BY <1>2 DEF Handed
<1>4. ConnInv(base)' /\ SockInv(base)' /\ UpInv(base)'
  <2>1. ConnInv(base)'
    BY <1>1, <1>2 DEF ConnInv
  <2>2. SockInv(base)'
    BY <1>1, <1>2 DEF SockInv, Live
  <2>3. UpInv(base)'
    BY <1>1, <1>2 DEF UpInv, Upwards, Serves, Live, Takes
  <2>4. QED
    BY <2>1, <2>2, <2>3
<1>5. AnswerInv'
  BY <1>1, <1>3, AnswerKept
<1>6. DownInv(base)'
  <2> SUFFICES ASSUME NEW k \in Conn, conn[k].st = "open"
               PROVE  Unanswered(k - base, k)' \/ \E j \in Sock : AnsweredBy(k - base, k, j)'
    BY <1>2 DEF DownInv
  <2>1. k - base \in DOMAIN streams
    BY OpenConn
  <2>2. QED
    BY <1>3, <2>1, OthersTaken
<1>7. QED
  BY <1>1, <1>4, <1>5, <1>6

LEMMA SandboxCuts ==
  ASSUME NEW base \in Nat, StreamInvAt(base), SandboxReceives, Head(down).id \in DOMAIN streams,
         Head(down).type = "close"
  PROVE  StreamInvAt(base)'
<1> USE DEF StreamInvAt
<1>1. /\ UNCHANGED <<ws, up, nextId, local, sock>> /\ ws = "open"
      /\ StreamType' /\ QueueInv' /\ RequestInv'
  BY SandboxFrame
<1>2. PICK k \in Conn : /\ k = streams[Head(down).id] /\ Head(down).id = k - base
                        /\ conn[k].st = "open"
  BY Answers
<1>3. /\ conn' = [conn EXCEPT ![k] = [conn[k] EXCEPT !.st = "cut", !.out = <<>>]]
      /\ streams' = Without(streams, k - base)
  BY <1>2 DEF SandboxReceives
<1>4. conn[k] \in ConnRec /\ k \in Nat /\ conn[k].out \in Seq(Chunk) /\ conn[k].got \in Seq(Chunk)
  BY <1>2, ConnIs
<1>5. /\ conn'[k] = [conn[k] EXCEPT !.st = "cut", !.out = <<>>]
      /\ \A h \in Conn \ {k} : conn'[h] = conn[h]
  BY <1>2, <1>3 DEF StreamType
<1>6. /\ conn'[k].sent = conn[k].sent /\ conn'[k].st = "cut" /\ conn'[k].id = conn[k].id
      /\ conn'[k].out = <<>> /\ conn'[k].got = conn[k].got
  BY <1>4, <1>5 DEF ConnRec
<1>7. ConnInv(base)'
  BY <1>1, <1>2, <1>3, ConnLeaves
<1>8. SockInv(base)'
  <2>1. nextId \in Nat /\ nextId' \in Nat /\ nextId' >= nextId
    BY <1>1 DEF StreamType
  <2>2. \A h \in Conn : conn'[h].st = "none" => conn[h].st = "none"
    BY <1>5, <1>6
  <2>3. \A h \in Sock : Live(h)' <=> Live(h)
    BY <1>1 DEF Live
  <2>4. QED
    BY <1>1, <2>1, <2>2, <2>3, SockKept
<1>9. UpInv(base)'
  BY <1>1, <1>5, <1>6, UpKept DEF Live, Takes
<1>10. Handed(k)' = conn[k].got /\ \A h \in Conn \ {k} : Handed(h)' = Handed(h)
  BY <1>4, <1>5, <1>6, Joined DEF Handed
<1>11. AnswerInv'
  BY <1>1, <1>10, AnswerKept
<1>12. DownInv(base)'
  <2> SUFFICES ASSUME NEW h \in Conn, conn'[h].st = "open"
               PROVE  Unanswered(h - base, h)' \/ \E j \in Sock : AnsweredBy(h - base, h, j)'
    BY DEF DownInv
  <2>1. h # k /\ conn[h].st = "open" /\ Handed(h)' = Handed(h)
    BY <1>5, <1>6, <1>10
  <2>2. Head(down).id # h - base
    <3>1. h \in Nat /\ k \in Nat /\ h # k
      BY <1>4, <2>1, ConnIs
    <3>2. h - base # k - base
      BY <3>1
    <3>3. QED
      BY <1>2, <3>2
  <2>3. QED
    BY <2>1, <2>2, OthersTaken
<1>13. QED
  BY <1>1, <1>7, <1>8, <1>9, <1>11, <1>12

LEMMA SandboxHands ==
  ASSUME NEW base \in Nat, StreamInvAt(base), SandboxReceives, Head(down).id \in DOMAIN streams,
         Head(down).type = "data"
  PROVE  StreamInvAt(base)'
<1> USE DEF StreamInvAt
<1>1. /\ UNCHANGED <<ws, up, nextId, local, sock>> /\ ws = "open"
      /\ down \in Seq(Frame) /\ down # <<>> /\ down' = Tail(down)
      /\ StreamType' /\ QueueInv' /\ RequestInv'
  BY SandboxFrame
<1>0. PICK f \in Frame : f = Head(down)
  BY <1>1, Pops
<1>2. PICK k \in Conn : /\ k = streams[f.id] /\ f.id = k - base /\ conn[k].st = "open"
                        /\ \E j \in Sock : AnsweredBy(f.id, k, j)
  BY <1>0, Answers
<1>3. conn' = [conn EXCEPT ![k] = [conn[k] EXCEPT !.out = Append(@, f.chunk)]] /\ streams' = streams
  BY <1>0, <1>2 DEF SandboxReceives
<1>4. f.chunk \in Chunk
  BY DEF Frame
<1>5. /\ conn[k] \in ConnRec /\ k \in Nat /\ conn[k].out \in Seq(Chunk) /\ conn[k].got \in Seq(Chunk)
      /\ Handed(k) \in Seq(Chunk)
  BY <1>2, ConnIs
<1>6. /\ conn'[k] = [conn[k] EXCEPT !.out = Append(@, f.chunk)]
      /\ \A h \in Conn \ {k} : conn'[h] = conn[h]
  BY <1>2, <1>3 DEF StreamType
<1>7. /\ conn'[k].sent = conn[k].sent /\ conn'[k].st = conn[k].st /\ conn'[k].id = conn[k].id
      /\ conn'[k].out = Append(conn[k].out, f.chunk) /\ conn'[k].got = conn[k].got
  BY <1>5, <1>6 DEF ConnRec
<1>8. ConnInv(base)'
  BY <1>1, <1>2, <1>3, <1>6, <1>7, ConnKept
<1>9. SockInv(base)'
  <2>1. nextId \in Nat /\ nextId' \in Nat /\ nextId' >= nextId
    BY <1>1 DEF StreamType
  <2>2. \A h \in Conn : conn'[h].st = "none" => conn[h].st = "none"
    BY <1>6, <1>7
  <2>3. \A h \in Sock : Live(h)' <=> Live(h)
    BY <1>1 DEF Live
  <2>4. QED
    BY <1>1, <2>1, <2>2, <2>3, SockKept
<1>10. UpInv(base)'
  BY <1>1, <1>6, <1>7, UpKept DEF Live, Takes
<1>11. Handed(k)' = Append(Handed(k), f.chunk) /\ \A h \in Conn \ {k} : Handed(h)' = Handed(h)
  <2>1. conn[k].got \o Append(conn[k].out, f.chunk) = Append(conn[k].got \o conn[k].out, f.chunk)
    BY <1>4, <1>5, Handing
  <2>2. Handed(k)' = Append(Handed(k), f.chunk)
    BY <1>7, <2>1 DEF Handed
  <2>3. \A h \in Conn \ {k} : Handed(h)' = Handed(h)
    BY <1>6 DEF Handed
  <2>4. QED
    BY <2>2, <2>3
<1>12. \A j, h \in Sock : (Serves(j, h)' <=> Serves(j, h)) /\ (Live(j)' <=> Live(j))
  BY <1>1 DEF Serves, Live
<1>13. PICK j \in Sock : AnsweredBy(f.id, k, j)
  BY <1>2
<1>14. /\ f.chunk = <<j, Len(Handed(k)) + 1>> /\ InOrder(Handed(k)', j) /\ Serves(j, k)
       /\ Run(down', HeardOf(down', f.id), j, Len(Handed(k)) + 1, sock[j].sent)
  <2>1. Run(down, HeardOf(down, f.id), j, Len(Handed(k)), sock[j].sent) /\ InOrder(Handed(k), j)
        /\ Serves(j, k)
    BY <1>13 DEF AnsweredBy
  <2>2. Len(Handed(k)) \in Nat /\ sock[j].sent \in Nat /\ j \in Nat
    BY <1>5, SockIs
  <2>3. f.chunk = <<j, Len(Handed(k)) + 1>>
        /\ Run(down', HeardOf(down', f.id), j, Len(Handed(k)) + 1, sock[j].sent)
    BY <1>1, <2>1, <2>2, <1>0, HeardTaken
  <2>4. InOrder(Handed(k)', j)
    BY <1>5, <1>11, <2>1, <2>2, <2>3, InOrderGrows
  <2>5. QED
    BY <2>1, <2>3, <2>4
<1>15. AnswerInv'
  <2> SUFFICES ASSUME NEW h \in Conn, Handed(h)' # <<>>
               PROVE  \E l \in Sock : Serves(l, h)' /\ InOrder(Handed(h)', l)
    BY DEF AnswerInv
  <2>1. CASE h = k
    BY <1>1, <1>14, <2>1 DEF Serves
  <2>2. CASE h # k
    <3>1. Handed(h)' = Handed(h)
      BY <1>11, <2>2
    <3>2. PICK l \in Sock : Serves(l, h) /\ InOrder(Handed(h), l)
      BY <3>1 DEF AnswerInv
    <3>3. Serves(l, h)'
      BY <1>1, <3>2 DEF Serves
    <3>4. QED
      BY <3>1, <3>2, <3>3
  <2>3. QED
    BY <2>1, <2>2
<1>16. DownInv(base)'
  <2> SUFFICES ASSUME NEW h \in Conn, conn'[h].st = "open"
               PROVE  Unanswered(h - base, h)' \/ \E l \in Sock : AnsweredBy(h - base, h, l)'
    BY DEF DownInv
  <2>1. CASE h = k
    <3>1. Len(Handed(k)') = Len(Handed(k)) + 1
      BY <1>4, <1>5, <1>11
    <3>2. ~Ends(down, f.id, 1)
      BY <1>0, <1>1, Pops DEF Ends
    <3>3. (\E c \in DOMAIN down' : Ends(down', f.id, c)) <=> \E c \in DOMAIN down : Ends(down, f.id, c)
      BY <1>1, <3>2, TailEnds
    <3>4. \A l \in Sock : Serves(l, k)' <=> Serves(l, k)
      BY <1>1 DEF Serves
    <3>5. Live(j)' <=> Live(j)
      BY <1>1 DEF Live
    <3>6. AnsweredBy(k - base, k, j)'
      BY <1>1, <1>2, <1>13, <1>14, <3>1, <3>3, <3>4, <3>5 DEF AnsweredBy
    <3>7. QED
      BY <2>1, <3>6
  <2>2. CASE h # k
    <3>1. conn[h].st = "open" /\ Handed(h)' = Handed(h)
      BY <1>6, <1>11, <2>2
    <3>2. f.id # h - base
      <4>1. h \in Nat /\ k \in Nat /\ h # k
        BY <1>5, <2>2, ConnIs
      <4>2. h - base # k - base
        BY <4>1
      <4>3. QED
        BY <1>2, <4>2
    <3>3. QED
      BY <1>0, <3>1, <3>2, OthersTaken
  <2>3. QED
    BY <2>1, <2>2
<1>17. QED
  BY <1>1, <1>8, <1>9, <1>10, <1>15, <1>16

\* The whole answer has been handed over when the connection is cut.
LEMMA CutIsWhole ==
  ASSUME NEW base \in Nat, StreamInvAt(base), SandboxReceives, NEW k \in Conn
  PROVE  AnswerWhole(k)
<1> USE DEF StreamInvAt
<1> SUFFICES ASSUME conn[k].st = "open", conn'[k].st = "cut", conn[k].out = <<>>,
                    NEW j \in Sock, sock[j].peer = k, ~sock[j].late
             PROVE  Len(conn[k].got) = sock[j].sent
  BY DEF AnswerWhole
<1>1. down \in Seq(Frame) /\ down # <<>>
  BY SandboxFrame
<1> DEFINE f == Head(down)
<1>2. f.id \in DOMAIN streams
  BY DEF SandboxReceives
<1> DEFINE l == streams[f.id]
<1>3. l \in Conn /\ f.id = l - base /\ \E h \in Sock : AnsweredBy(f.id, l, h)
  BY <1>2, Answers
<1>4. f.type = "close" /\ l = k
  <2>1. CASE f.type = "close"
    <3>1. conn' = [conn EXCEPT ![l] = [conn[l] EXCEPT !.st = "cut", !.out = <<>>]]
      BY <1>2, <2>1 DEF SandboxReceives
    <3>2. l # k => conn'[k] = conn[k]
      BY <1>3, <3>1 DEF StreamType
    <3>3. QED
      BY <2>1, <3>2
  <2>2. CASE f.type # "close"
    <3>1. conn' = [conn EXCEPT ![l] = [conn[l] EXCEPT !.out = Append(@, f.chunk)]]
      BY <1>2, <2>2 DEF SandboxReceives
    <3>2. conn[k] \in ConnRec
      BY ConnIs
    <3>3. conn'[k].st = conn[k].st
      BY <1>3, <3>1, <3>2 DEF StreamType, ConnRec
    <3>4. QED
      BY <3>3
  <2>3. QED
    BY <2>1, <2>2
<1>5. PICK h \in Sock : AnsweredBy(f.id, k, h)
  BY <1>3, <1>4
<1>6. sock[j].st # "none"
  <2>1. k # 0
    BY StreamBounds
  <2>2. QED
    BY <2>1 DEF SockInv, NoSock
<1>7. h = j
  BY <1>5, <1>6 DEF AnsweredBy, Serves
<1>8. Ends(down, f.id, 1)
  BY <1>1, <1>4, Pops DEF Ends
<1>9. Run(down, HeardOf(down, f.id), j, Len(Handed(k)), sock[j].sent)
  BY <1>5, <1>7 DEF AnsweredBy
<1>10. Len(Handed(k)) \in Nat /\ sock[j].sent \in Nat
  BY ConnIs, SockIs
<1>11. Len(Handed(k)) = sock[j].sent
  <2> DEFINE i == f.id
             m == Len(Handed(k))
             top == sock[j].sent
  <2>1. Ends(down, i, 1) /\ Run(down, HeardOf(down, i), j, m, top) /\ m \in Nat /\ top \in Nat
    BY <1>8, <1>9, <1>10
  <2> HIDE DEF StreamInvAt, i, m, top
  <2>2. m = top
    BY <1>1, <2>1, HeardTaken
  <2>3. QED
    BY <2>2 DEF m, top
<1>12. Handed(k) = conn[k].got
  BY ConnIs, Joined DEF Handed
<1>13. QED
  BY <1>11, <1>12

-----------------------------------------------------------------------------
(* The WebSocket breaks, is given up and comes back.                       *)

\* Without the WebSocket the bot holds no socket.
LEMMA NobodyLives ==
  ASSUME NEW base \in Nat, SockInv(base), ws # "open"
  PROVE  (\A j \in Sock : ~Live(j)) /\ DOMAIN local = {}
BY DEF SockInv

LEMMA CloseTunnelKeeps ==
  ASSUME NEW base \in Nat, StreamInvAt(base), CloseTunnel
  PROVE  StreamInvAt(base)'
<1> USE DEF StreamInvAt
<1>1. /\ ws = "broken" /\ ws' = "closed" /\ UNCHANGED <<up, down, nextId, local, sock>>
      /\ DOMAIN streams' = {} /\ StreamType'
  BY StreamTypeLoss, NoMap DEF CloseTunnel
<1>2. \A k \in Conn :
        /\ conn'[k].st = (IF conn[k].st = "open" THEN "lost" ELSE conn[k].st)
        /\ conn'[k].out = (IF conn[k].st = "open" THEN <<>> ELSE conn[k].out)
        /\ conn'[k].id = conn[k].id /\ conn'[k].got = conn[k].got
        /\ conn[k].st # "open" => conn'[k] = conn[k]
  <2> TAKE k \in Conn
  <2>1. conn'[k] = IF conn[k].st = "open" THEN [conn[k] EXCEPT !.st = "lost", !.out = <<>>]
                                          ELSE conn[k]
    BY DEF CloseTunnel
  <2>2. conn[k] \in ConnRec
    BY ConnIs
  <2>3. QED
    BY <2>1, <2>2 DEF ConnRec
<1>3. ConnInv(base)'
  <2>1. \A k \in Conn :
          /\ conn'[k].st = "none" <=> k >= base + nextId'
          /\ conn'[k].st = "none" => conn'[k] = NoConn
          /\ k <= base => conn'[k].st # "open"
          /\ k > base /\ k < base + nextId' => conn'[k].id = k - base
          /\ conn'[k].st # "open" => conn'[k].out = <<>>
          /\ conn'[k].st # "open"
    <3> TAKE k \in Conn
    <3>1. CASE conn[k].st = "open"
      BY <1>1, <1>2, <3>1 DEF ConnInv
    <3>2. CASE conn[k].st # "open"
      BY <1>1, <1>2, <3>2 DEF ConnInv
    <3>3. QED
      BY <3>1, <3>2
  <2>2. base + nextId' <= MaxConns + 1
    BY <1>1 DEF ConnInv
  <2>3. QED
    BY <1>1, <2>1, <2>2 DEF ConnInv
<1>4. QueueInv' /\ RequestInv'
  BY <1>1 DEF QueueInv, RequestInv
<1>5. SockInv(base)'
  <2>1. \A j \in Sock : ~Live(j)'
    BY <1>1, NobodyLives DEF Live
  <2>2. DOMAIN local' = {}
    BY <1>1, NobodyLives
  <2>3. \A j \in Sock :
          /\ sock'[j].st = "none" => sock'[j] = NoSock
          /\ sock'[j].st # "none" => sock'[j].peer \in Conn /\ conn'[sock'[j].peer].st # "none"
    BY <1>1, <1>2 DEF SockInv
  <2>4. QED
    BY <2>1, <2>2, <2>3 DEF SockInv
<1>6. UpInv(base)' /\ DownInv(base)'
  BY <1>1 DEF UpInv, DownInv
<1>7. AnswerInv'
  <2>1. \A k \in Conn : Handed(k)' = Handed(k) \/ Handed(k)' = conn[k].got
    <3> TAKE k \in Conn
    <3>1. conn[k].st = "open" => Handed(k)' = conn[k].got
      BY <1>2, ConnIs, Joined DEF Handed
    <3>2. conn[k].st # "open" => Handed(k)' = Handed(k)
      BY <1>2 DEF Handed
    <3>3. QED
      BY <3>1, <3>2
  <2>2. QED
    BY <1>1, <2>1, AnswerKept
<1>8. QED
  BY <1>1, <1>3, <1>4, <1>5, <1>6, <1>7

LEMMA WsCloseKeeps ==
  ASSUME NEW base \in Nat, StreamInvAt(base), WsCloses
  PROVE  StreamInvAt(base)'
<1> USE DEF StreamInvAt
<1>1. /\ ws = "open" /\ ws' = "broken" /\ UNCHANGED <<nextId, streams, conn>>
      /\ up' = <<>> /\ down' = <<>> /\ DOMAIN local' = {} /\ StreamType'
  BY StreamTypeLoss, NoMap DEF WsCloses, CleanupStreams
<1>2. \A j \in Sock :
        /\ ~Live(j)'
        /\ sock'[j].peer = sock[j].peer /\ sock'[j].got = sock[j].got
        /\ sock'[j].early = sock[j].early /\ sock'[j].late = sock[j].late
        /\ sock'[j].st = "none" <=> sock[j].st = "none"
        /\ sock'[j].st = "none" => sock'[j] = sock[j]
        /\ sock'[j].st # "connecting"
  <2> TAKE j \in Sock
  <2>1. sock'[j] = IF Live(j) THEN Destroyed(sock[j]) ELSE sock[j]
    BY DEF WsCloses, CleanupStreams
  <2>2. sock[j] \in SockRec
    BY SockIs
  <2>3. QED
    BY <2>1, <2>2 DEF SockRec, Destroyed, Live
<1>3. ConnInv(base)'
  BY <1>1 DEF ConnInv
<1>4. QueueInv'
  BY <1>1 DEF QueueInv
<1>5. RequestInv'
  BY <1>2 DEF RequestInv
<1>6. SockInv(base)'
  BY <1>1, <1>2 DEF SockInv
<1>7. UpInv(base)' /\ DownInv(base)'
  BY <1>1 DEF UpInv, DownInv
<1>8. \A k \in Conn : Handed(k)' = Handed(k)
  BY <1>1 DEF Handed
<1>9. AnswerInv'
  BY <1>2, <1>8, AnswerKept
<1>10. QED
  BY <1>1, <1>3, <1>4, <1>5, <1>6, <1>7, <1>9

\* The ids start over: the connections so far belong to listeners that are gone.
LEMMA WsReopenKeeps ==
  ASSUME NEW base \in Nat, StreamInvAt(base), WsReopens
  PROVE  \E now \in Nat : StreamInvAt(now)'
<1> USE DEF StreamInvAt
<1>1. /\ ws = "closed" /\ ws' = "open" /\ nextId' = 1 /\ nextId \in Nat \ {0}
      /\ UNCHANGED <<up, down, streams, local, conn, sock>> /\ StreamType'
  BY StreamTypeLoss DEF WsReopens, StreamType
<1>2. PICK now \in Nat : now = base + (nextId - 1)
  BY <1>1
<1>3. now + nextId' = base + nextId
  BY <1>1, <1>2
<1>4. up = <<>> /\ down = <<>> /\ DOMAIN streams = {} /\ DOMAIN local = {}
      /\ \A j \in Sock : ~Live(j)
  BY <1>1, NobodyLives DEF QueueInv, ConnInv
<1>5. \A k \in Conn : k \in Nat /\ conn[k].st # "open"
  BY <1>4, StreamBounds DEF ConnInv
<1>6. \A k \in Conn : ~(k > now /\ k < now + nextId')
  BY <1>1, <1>5
<1>7. ConnInv(now)'
  <2>1. \A k \in Conn :
          /\ conn'[k].st = "none" <=> k >= now + nextId'
          /\ conn'[k].st = "none" => conn'[k] = NoConn
          /\ conn'[k].st # "open" => conn'[k].out = <<>>
          /\ conn'[k].st # "open"
    BY <1>1, <1>3, <1>5 DEF ConnInv
  <2>2. now + nextId' <= MaxConns + 1
    BY <1>3 DEF ConnInv
  <2>3. QED
    BY <1>1, <1>4, <1>6, <2>1, <2>2 DEF ConnInv
<1>8. QueueInv' /\ RequestInv'
  <2>1. DOMAIN up' = {} /\ DOMAIN down' = {}
    BY <1>1, <1>4
  <2>2. RequestInv'
    BY <1>1 DEF RequestInv
  <2>3. QED
    BY <1>1, <2>1, <2>2 DEF QueueInv
<1>9. SockInv(now)'
  <2>1. \A j \in Sock : ~Live(j)'
    BY <1>1, <1>4 DEF Live
  <2>2. QED
    BY <1>1, <1>4, <2>1 DEF SockInv
<1>10. UpInv(now)' /\ DownInv(now)'
  BY <1>1, <1>5, <1>6 DEF UpInv, DownInv
<1>11. AnswerInv'
  BY <1>1 DEF AnswerInv, Handed, Serves
<1>12. StreamInvAt(now)'
  BY <1>1, <1>7, <1>8, <1>9, <1>10, <1>11
<1>13. QED
  BY <1>12

-----------------------------------------------------------------------------
(* The bot's side.                                                         *)

\* No two live sockets serve one connection.
LEMMA LiveAlone ==
  ASSUME NEW base \in Nat, StreamType, SockInv(base), NEW h \in Sock, NEW j \in Sock,
         Live(h), Live(j), sock[h].peer = sock[j].peer
  PROVE  h = j
<1>1. sock[h].id \in Nat /\ sock[j].id \in Nat
  BY SockIs
<1>2. sock[h].peer = base + sock[h].id /\ sock[j].peer = base + sock[j].id
      /\ local[sock[h].id] = h /\ local[sock[j].id] = j
  BY DEF SockInv
<1>3. sock[h].id = sock[j].id
  <2>1. PICK a \in Nat, b \in Nat : a = sock[h].id /\ b = sock[j].id
    BY <1>1
  <2>2. base + a = base + b
    BY <1>2, <2>1
  <2>3. QED
    BY <2>1, <2>2
<1>4. QED
  BY <1>2, <1>3

\* A socket leaves the bot's map.
LEMMA SockLeaves ==
  ASSUME NEW base \in Nat, StreamType, SockInv(base), NEW j \in Sock, Live(j),
         nextId' = nextId, ws' = ws, conn' = conn, local' = Without(local, sock[j].id),
         sock'[j].peer = sock[j].peer, sock'[j].st \in {"closed", "ended"},
         \A h \in Sock \ {j} : sock'[h] = sock[h]
  PROVE  SockInv(base)'
<1>1. DOMAIN local' = DOMAIN local \ {sock[j].id}
      /\ \A i \in DOMAIN local' : local'[i] = local[i]
  BY DEF Without
<1>2. ~Live(j)' /\ \A h \in Sock \ {j} : Live(h)' <=> Live(h)
  BY DEF Live
<1>3. local[sock[j].id] = j
  BY DEF SockInv
<1>4. \A h \in Sock :
       /\ sock'[h].st = "none" => sock'[h] = NoSock
       /\ sock'[h].st # "none" => sock'[h].peer \in Conn /\ conn'[sock'[h].peer].st # "none"
       /\ Live(h)' => /\ ws' = "open" /\ sock'[h].peer = base + sock'[h].id
                      /\ sock'[h].id \in DOMAIN local' /\ local'[sock'[h].id] = h
  <2> TAKE h \in Sock
  <2>1. CASE h = j
    BY <1>2, <2>1 DEF SockInv, Live
  <2>2. CASE h # j
    <3>1. sock'[h] = sock[h] /\ (Live(h)' <=> Live(h))
      BY <1>2, <2>2
    <3>2. Live(h) => sock[h].id # sock[j].id
      BY <1>3, <2>2 DEF SockInv
    <3>3. QED
      BY <1>1, <3>1, <3>2 DEF SockInv
  <2>3. QED
    BY <2>1, <2>2
<1>5. ASSUME NEW i \in DOMAIN local'
      PROVE  /\ local'[i] \in Sock /\ Live(local[i])' /\ sock'[local'[i]].id = i
             /\ i \in 1..(nextId' - 1)
  <2>1. i \in DOMAIN local /\ local'[i] = local[i] /\ i # sock[j].id
    BY <1>1
  <2>2. local[i] \in Sock /\ Live(local[i]) /\ sock[local[i]].id = i /\ i \in 1..(nextId - 1)
    BY <2>1 DEF SockInv
  <2>3. PICK h \in Sock : h = local[i]
    BY <2>2
  <2>4. h # j
    BY <2>1, <2>2, <2>3
  <2>5. sock'[h] = sock[h]
    BY <2>4
  <2>6. local'[i] = h /\ Live(h) /\ sock[h].id = i
    BY <2>1, <2>2, <2>3
  <2>7. QED
    BY <2>2, <2>5, <2>6 DEF Live
<1>6. QED
  BY <1>4, <1>5 DEF SockInv

\* The bot takes a frame, of a connection of the present listener.
LEMMA BotFrame ==
  ASSUME NEW base \in Nat, StreamInvAt(base), BotReceives
  PROVE  /\ UNCHANGED <<ws, down, nextId, streams, conn>> /\ ws = "open"
         /\ up \in Seq(Frame) /\ up # <<>> /\ up' = Tail(up)
         /\ StreamType' /\ QueueInv' /\ ConnInv(base)' /\ \A k \in Conn : Handed(k)' = Handed(k)
         /\ \E f \in Frame, k \in Conn :
              /\ f = Head(up) /\ f.id = k - base /\ f.id \in Nat
              /\ f.id \in 1..(nextId - 1) /\ k > base /\ k < base + nextId
<1> USE DEF StreamInvAt
<1>1. /\ UNCHANGED <<ws, down, nextId, streams, conn>> /\ ws = "open"
      /\ up \in Seq(Frame) /\ up # <<>> /\ up' = Tail(up)
  BY DEF BotReceives, StreamType
<1>2. StreamType'
  BY StreamTypeBot
<1>3. QueueInv'
  BY <1>1, QueueShrinks
<1>4. ConnInv(base)'
  BY <1>1 DEF ConnInv
<1>5. \A k \in Conn : Handed(k)' = Handed(k)
  BY <1>1 DEF Handed
<1>6. PICK f \in Frame : f = Head(up) /\ f = up[1] /\ 1 \in DOMAIN up
  BY <1>1, Pops
<1>7. f.id \in Nat /\ f.id \in 1..(nextId - 1)
  BY <1>6 DEF Frame, QueueInv
<1>8. PICK k \in Nat : k = base + f.id
  BY <1>7
<1>9. nextId \in Nat /\ base + nextId <= MaxConns + 1
  BY DEF StreamType, ConnInv
<1>10. k \in Conn /\ k > base /\ k < base + nextId /\ f.id = k - base
  BY <1>7, <1>8, <1>9, StreamBounds DEF Conn
<1>11. QED
  BY <1>1, <1>2, <1>3, <1>4, <1>5, <1>6, <1>7, <1>10

\* A connection whose data the frame is not.
LEMMA UpPasses ==
  ASSUME NEW base \in Nat, StreamInvAt(base), BotReceives,
         NEW k \in Conn, k > base, k < base + nextId,
         ~(Head(up).id = k - base /\ Head(up).type = "data"),
         \A h \in Sock : /\ Serves(h, k)' => Serves(h, k)
                         /\ Serves(h, k)' /\ Live(h)' /\ ~sock'[h].early /\ ~sock'[h].late =>
                              Live(h) /\ ~sock[h].early /\ ~sock[h].late /\ Takes(h)' = Takes(h)
  PROVE  \E m \in Nat : Upwards(base, k, m)'
<1>1. /\ UNCHANGED <<ws, down, nextId, streams, conn>> /\ ws = "open"
      /\ up \in Seq(Frame) /\ up # <<>> /\ up' = Tail(up)
  BY BotFrame
<1>2. PICK m \in Nat : Upwards(base, k, m)
  BY <1>1 DEF StreamInvAt, UpInv
<1>3. Run(up, DataOf(up, k - base), k, m, conn[k].sent) /\ conn[k].sent \in Nat
  BY <1>2, ConnIs DEF Upwards, StreamInvAt
<1>4. Run(up', DataOf(up', k - base), k, m, conn[k].sent)
  <2> DEFINE i == k - base
             top == conn[k].sent
  <2>1. Run(up, DataOf(up, i), k, m, top) /\ top \in Nat /\ ~(Head(up).id = i /\ Head(up).type = "data")
    BY <1>3
  <2> HIDE DEF i, top
  <2>2. Run(Tail(up), DataOf(Tail(up), i), k, m, top)
    BY <1>1, <2>1, DataTaken
  <2>3. QED
    BY <1>1, <2>2 DEF i, top
<1>5. \A p \in DOMAIN up' : p + 1 \in DOMAIN up /\ up'[p] = up[p + 1]
  BY <1>1, Pops
<1>6. Upwards(base, k, m)'
  BY <1>1, <1>2, <1>4, <1>5 DEF Upwards
<1>7. QED
  BY <1>6

\* The connection whose data it is.
LEMMA UpTakes ==
  ASSUME NEW base \in Nat, StreamInvAt(base), BotReceives,
         NEW k \in Conn, k > base, k < base + nextId,
         Head(up).id = k - base, Head(up).type = "data"
  PROVE  \E m \in Nat :
           /\ Upwards(base, k, m) /\ Head(up).chunk = <<k, m + 1>>
           /\ Run(up', DataOf(up', k - base), k, m + 1, conn[k].sent)
           /\ conn[k].st = "open" => \A p \in DOMAIN up' : up'[p].id = k - base => up'[p].type = "data"
<1>1. /\ UNCHANGED <<ws, down, nextId, streams, conn>> /\ ws = "open"
      /\ up \in Seq(Frame) /\ up # <<>> /\ up' = Tail(up)
  BY BotFrame
<1>2. PICK m \in Nat : Upwards(base, k, m)
  BY <1>1 DEF StreamInvAt, UpInv
<1>3. Run(up, DataOf(up, k - base), k, m, conn[k].sent) /\ conn[k].sent \in Nat
  BY <1>2, ConnIs DEF Upwards, StreamInvAt
<1>4. /\ Head(up).chunk = <<k, m + 1>>
      /\ Run(up', DataOf(up', k - base), k, m + 1, conn[k].sent)
  <2> DEFINE i == k - base
             top == conn[k].sent
  <2>1. Run(up, DataOf(up, i), k, m, top) /\ top \in Nat /\ Head(up).id = i /\ Head(up).type = "data"
    BY <1>3
  <2> HIDE DEF i, top
  <2>2. Head(up).chunk = <<k, m + 1>> /\ Run(Tail(up), DataOf(Tail(up), i), k, m + 1, top)
    BY <1>1, <2>1, DataTaken
  <2>3. QED
    BY <1>1, <2>2 DEF i, top
<1>5. \A p \in DOMAIN up' : p + 1 \in DOMAIN up /\ up'[p] = up[p + 1]
  BY <1>1, Pops
<1>6. conn[k].st = "open" => \A p \in DOMAIN up' : up'[p].id = k - base => up'[p].type = "data"
  BY <1>2, <1>5 DEF Upwards
<1>7. QED
  BY <1>2, <1>4, <1>6

\* The data of a known stream goes to its socket.
LEMMA BotHands ==
  ASSUME NEW base \in Nat, StreamInvAt(base), BotReceives,
         Head(up).id \in DOMAIN local, Head(up).type = "data"
  PROVE  StreamInvAt(base)'
<1> USE DEF StreamInvAt
<1>1. /\ UNCHANGED <<ws, down, nextId, streams, conn>> /\ ws = "open"
      /\ up \in Seq(Frame) /\ up # <<>> /\ up' = Tail(up)
      /\ StreamType' /\ QueueInv' /\ ConnInv(base)' /\ \A k \in Conn : Handed(k)' = Handed(k)
  BY BotFrame
<1>2. PICK f \in Frame, k \in Conn :
        /\ f = Head(up) /\ f.id = k - base /\ f.id \in Nat
        /\ f.id \in 1..(nextId - 1) /\ k > base /\ k < base + nextId
  BY BotFrame
<1>3. PICK j \in Sock : j = local[f.id] /\ Live(j) /\ sock[j].id = f.id
  BY <1>2 DEF SockInv
<1>4. sock[j].peer = k /\ Serves(j, k)
  <2>1. sock[j].peer = base + f.id /\ sock[j].st # "none"
    BY <1>3 DEF SockInv, Live
  <2>2. base + f.id = k
    BY <1>2, ConnIs
  <2>3. QED
    BY <2>1, <2>2 DEF Serves
<1>5. PICK m \in Nat :
        /\ Upwards(base, k, m) /\ f.chunk = <<k, m + 1>>
        /\ Run(up', DataOf(up', k - base), k, m + 1, conn[k].sent)
        /\ conn[k].st = "open" => \A p \in DOMAIN up' : up'[p].id = k - base => up'[p].type = "data"
  BY <1>2, UpTakes
<1>6. /\ sock' = IF sock[j].st = "open"
                 THEN [sock EXCEPT ![j] = [sock[j] EXCEPT !.got = Append(@, f.chunk)]]
                 ELSE [sock EXCEPT ![j] = [sock[j] EXCEPT !.later = Append(@, f.chunk), !.early = TRUE]]
      /\ local' = local
  BY <1>2, <1>3 DEF BotReceives
<1>7. sock[j] \in SockRec /\ sock[j].got \in Seq(Chunk) /\ f.chunk \in Chunk
  BY SockIs DEF Frame
<1>8. /\ \A h \in Sock \ {j} : sock'[h] = sock[h]
      /\ sock[j].st = "open" => sock'[j] = [sock[j] EXCEPT !.got = Append(@, f.chunk)]
      /\ sock[j].st # "open" =>
           sock'[j] = [sock[j] EXCEPT !.later = Append(@, f.chunk), !.early = TRUE]
  BY <1>6 DEF StreamType
<1>9. /\ sock'[j].st = sock[j].st /\ sock'[j].id = sock[j].id /\ sock'[j].peer = sock[j].peer
      /\ sock'[j].sent = sock[j].sent /\ sock'[j].late = sock[j].late
      /\ sock[j].st = "open" => /\ sock'[j].early = sock[j].early
                                /\ sock'[j].got = Append(sock[j].got, f.chunk)
      /\ sock[j].st # "open" => sock'[j].early
  BY <1>7, <1>8 DEF SockRec
<1>10. \A h \in Sock : (Live(h)' <=> Live(h)) /\ \A l \in Conn : Serves(h, l)' <=> Serves(h, l)
  BY <1>8, <1>9 DEF Live, Serves
<1>11. SockInv(base)'
  <2>1. nextId \in Nat /\ nextId' \in Nat /\ nextId' >= nextId
    BY <1>1 DEF StreamType
  <2>2. \A h \in Sock : /\ sock'[h].id = sock[h].id /\ sock'[h].peer = sock[h].peer
                        /\ sock'[h].st = "none" <=> sock[h].st = "none"
                        /\ sock'[h].st = "none" => sock'[h] = sock[h]
    BY <1>3, <1>8, <1>9 DEF Live
  <2>3. QED
    BY <1>1, <1>6, <1>10, <2>1, <2>2, SockKept
<1>12. ~sock[j].early /\ ~sock[j].late => m = Takes(j)
  BY <1>3, <1>4, <1>5 DEF Upwards
<1>13. sock[j].st = "open" => Takes(j) = Len(sock[j].got)
                              /\ Takes(j)' = Len(sock[j].got) + 1
  BY <1>7, <1>9 DEF Takes
<1>14. RequestInv'
  <2> SUFFICES ASSUME NEW h \in Sock, ~sock'[h].early, ~sock'[h].late
               PROVE  /\ sock'[h].st = "connecting" =>
                           /\ sock'[h].first = << <<sock'[h].peer, 1>> >>
                           /\ sock'[h].later = <<>> /\ sock'[h].got = <<>>
                      /\ InOrder(sock'[h].got, sock'[h].peer)
    BY DEF RequestInv
  <2>1. CASE h # j
    BY <1>8, <2>1 DEF RequestInv
  <2>2. CASE h = j
    <3>1. sock[j].st = "open" /\ ~sock[j].early /\ ~sock[j].late
      BY <1>9, <2>2
    <3>2. InOrder(sock[j].got, k) /\ k \in Nat
      BY <1>4, <3>1, ConnIs DEF RequestInv
    <3>3. f.chunk = <<k, Len(sock[j].got) + 1>>
      BY <1>5, <1>12, <1>13, <3>1
    <3>4. InOrder(sock'[j].got, k)
      <4> DEFINE s == sock[j].got
      <4>1. s \in Seq(Chunk) /\ InOrder(s, k) /\ sock'[j].got = Append(s, <<k, Len(s) + 1>>)
        BY <1>7, <1>9, <3>1, <3>2, <3>3
      <4> HIDE DEF s
      <4>2. QED
        BY <3>2, <4>1, InOrderGrows
    <3>5. QED
      BY <1>4, <1>9, <2>2, <3>1, <3>4
  <2>3. QED
    BY <2>1, <2>2
<1>15. UpInv(base)'
  <2> SUFFICES ASSUME NEW l \in Conn, l > base, l < base + nextId
               PROVE  \E n \in Nat : Upwards(base, l, n)'
    BY <1>1 DEF UpInv
  <2>1. CASE l = k
    <3>1. \A h \in Sock : Live(h)' /\ Serves(h, k)' => h = j
      BY <1>3, <1>4, <1>10, LiveAlone DEF Serves
    <3>2. ~sock'[j].early /\ ~sock'[j].late => m + 1 = Takes(j)'
      BY <1>9, <1>12, <1>13
    <3>3. Upwards(base, k, m + 1)'
      BY <1>1, <1>5, <3>1, <3>2 DEF Upwards
    <3>4. QED
      BY <2>1, <3>3
  <2>2. CASE l # k
    <3>1. Head(up).id # l - base
      <4>1. l \in Nat /\ k \in Nat
        BY ConnIs
      <4>2. l - base # k - base
        BY <2>2, <4>1
      <4>3. QED
        BY <1>2, <4>2
    <3>2. \A h \in Sock : Serves(h, l)' => Serves(h, l) /\ sock'[h] = sock[h]
      BY <1>4, <1>8, <1>10, <2>2 DEF Serves
    <3>3. \A h \in Sock : /\ Serves(h, l)' => Serves(h, l)
                          /\ Serves(h, l)' /\ Live(h)' /\ ~sock'[h].early /\ ~sock'[h].late =>
                               Live(h) /\ ~sock[h].early /\ ~sock[h].late /\ Takes(h)' = Takes(h)
      BY <1>10, <3>2 DEF Takes
    <3>4. QED
      BY <3>1, <3>3, UpPasses
  <2>3. QED
    BY <2>1, <2>2
<1>16. DownInv(base)'
  <2>1. \A h \in Conn : conn'[h].st = "open" => conn[h].st = "open" /\ Handed(h)' = Handed(h)
    BY <1>1
  <2>2. \A h \in Sock : /\ sock'[h].peer = sock[h].peer /\ sock'[h].late = sock[h].late
                        /\ sock'[h].sent = sock[h].sent /\ sock'[h].st = sock[h].st
    BY <1>8, <1>9
  <2>3. QED
    BY <1>1, <1>10, <2>1, <2>2, DownKept
<1>17. AnswerInv'
  <2>1. \A h \in Sock : sock'[h].peer = sock[h].peer /\ sock'[h].st = sock[h].st
    BY <1>8, <1>9
  <2>2. QED
    BY <1>1, <2>1, AnswerKept
<1>18. QED
  BY <1>1, <1>11, <1>14, <1>15, <1>16, <1>17

\* A CLOSE ends the stream's socket, or finds none.  Its connection has hung up.
LEMMA BotCloses ==
  ASSUME NEW base \in Nat, StreamInvAt(base), BotReceives, Head(up).type = "close"
  PROVE  StreamInvAt(base)'
<1> USE DEF StreamInvAt
<1>1. /\ UNCHANGED <<ws, down, nextId, streams, conn>> /\ ws = "open"
      /\ up \in Seq(Frame) /\ up # <<>> /\ up' = Tail(up)
      /\ StreamType' /\ QueueInv' /\ ConnInv(base)' /\ \A k \in Conn : Handed(k)' = Handed(k)
  BY BotFrame
<1>2. PICK f \in Frame, k \in Conn :
        /\ f = Head(up) /\ f.id = k - base /\ f.id \in Nat
        /\ f.id \in 1..(nextId - 1) /\ k > base /\ k < base + nextId
  BY BotFrame
<1>3. conn[k].st # "open"
  <2>1. PICK m \in Nat : Upwards(base, k, m)
    BY <1>1, <1>2 DEF UpInv
  <2>2. 1 \in DOMAIN up /\ up[1].id = k - base /\ up[1].type = "close"
    BY <1>1, <1>2, Pops
  <2>3. QED
    BY <2>1, <2>2 DEF Upwards
<1>4. CASE f.id \notin DOMAIN local
  <2>1. sock' = sock /\ local' = local
    BY <1>2, <1>4 DEF BotReceives
  <2>2. SockInv(base)' /\ RequestInv'
    BY <1>1, <2>1 DEF SockInv, RequestInv, Live
  <2>3. UpInv(base)'
    <3> SUFFICES ASSUME NEW l \in Conn, l > base, l < base + nextId
                 PROVE  \E n \in Nat : Upwards(base, l, n)'
      BY <1>1 DEF UpInv
    <3>1. \A h \in Sock : /\ Serves(h, l)' => Serves(h, l)
                          /\ Serves(h, l)' /\ Live(h)' /\ ~sock'[h].early /\ ~sock'[h].late =>
                               Live(h) /\ ~sock[h].early /\ ~sock[h].late /\ Takes(h)' = Takes(h)
      BY <2>1 DEF Serves, Live, Takes
    <3>2. QED
      BY <3>1, UpPasses
  <2>4. DownInv(base)'
    <3>1. \A h \in Sock : Live(h) => Live(h)'
      BY <2>1 DEF Live
    <3>2. QED
      BY <1>1, <2>1, <3>1, DownKept
  <2>5. AnswerInv'
    BY <1>1, <2>1, AnswerKept
  <2>6. QED
    BY <1>1, <2>2, <2>3, <2>4, <2>5
<1>5. CASE f.id \in DOMAIN local
  <2>1. PICK j \in Sock : j = local[f.id] /\ Live(j) /\ sock[j].id = f.id
    BY <1>5 DEF SockInv
  <2>2. sock[j].peer = k
    <3>1. sock[j].peer = base + f.id
      BY <2>1 DEF SockInv
    <3>2. base + f.id = k
      BY <1>2, ConnIs
    <3>3. QED
      BY <3>1, <3>2
  <2>3. sock' = [sock EXCEPT ![j] = Destroyed(sock[j])] /\ local' = Without(local, sock[j].id)
    BY <1>2, <1>5, <2>1 DEF BotReceives
  <2>4. sock[j] \in SockRec
    BY SockIs
  <2>5. /\ \A h \in Sock \ {j} : sock'[h] = sock[h]
        /\ sock'[j].st = "closed" /\ sock'[j].id = sock[j].id /\ sock'[j].peer = sock[j].peer
        /\ sock'[j].sent = sock[j].sent /\ sock'[j].got = sock[j].got
        /\ sock'[j].early = sock[j].early /\ sock'[j].late = sock[j].late
    BY <2>3, <2>4 DEF StreamType, Destroyed, SockRec
  <2>6. sock[j].st # "none" /\ sock[j].st # "ended"
    BY <2>1 DEF Live
  <2>7. ~Live(j)' /\ \A h \in Sock \ {j} : Live(h)' <=> Live(h)
    BY <2>5 DEF Live
  <2>8. \A h \in Sock : /\ sock'[h].peer = sock[h].peer /\ sock'[h].late = sock[h].late
                        /\ sock'[h].sent = sock[h].sent /\ sock'[h].early = sock[h].early
                        /\ sock'[h].got = sock[h].got
                        /\ sock'[h].st = "none" <=> sock[h].st = "none"
                        /\ sock[h].st = "ended" => sock'[h].st = "ended"
    BY <2>5, <2>6
  <2>9. SockInv(base)'
    BY <1>1, <2>1, <2>3, <2>5, SockLeaves
  <2>10. RequestInv'
    <3> SUFFICES ASSUME NEW h \in Sock, ~sock'[h].early, ~sock'[h].late
                 PROVE  /\ sock'[h].st = "connecting" =>
                             /\ sock'[h].first = << <<sock'[h].peer, 1>> >>
                             /\ sock'[h].later = <<>> /\ sock'[h].got = <<>>
                        /\ InOrder(sock'[h].got, sock'[h].peer)
      BY DEF RequestInv
    <3>1. CASE h = j
      BY <2>5, <3>1 DEF RequestInv
    <3>2. CASE h # j
      BY <2>5, <3>2 DEF RequestInv
    <3>3. QED
      BY <3>1, <3>2
  <2>11. UpInv(base)'
    <3> SUFFICES ASSUME NEW l \in Conn, l > base, l < base + nextId
                 PROVE  \E n \in Nat : Upwards(base, l, n)'
      BY <1>1 DEF UpInv
    <3>1. \A h \in Sock : /\ Serves(h, l)' => Serves(h, l)
                          /\ Serves(h, l)' /\ Live(h)' /\ ~sock'[h].early /\ ~sock'[h].late =>
                               Live(h) /\ ~sock[h].early /\ ~sock[h].late /\ Takes(h)' = Takes(h)
      <4> TAKE h \in Sock
      <4>1. Serves(h, l)' => Serves(h, l)
        BY <2>8 DEF Serves
      <4>2. CASE h = j
        BY <2>7, <4>1, <4>2
      <4>3. CASE h # j
        BY <2>5, <2>7, <4>1, <4>3 DEF Takes
      <4>4. QED
        BY <4>2, <4>3
    <3>2. QED
      BY <3>1, UpPasses
  <2>12. DownInv(base)'
    <3>1. \A h \in Sock : Live(h) => Live(h)' \/ conn[sock[h].peer].st # "open"
      BY <1>3, <2>2, <2>7
    <3>2. QED
      BY <1>1, <2>8, <3>1, DownKept
  <2>13. AnswerInv'
    BY <1>1, <2>8, AnswerKept
  <2>14. QED
    BY <1>1, <2>9, <2>10, <2>11, <2>12, <2>13
<1>6. QED
  BY <1>4, <1>5

\* Data of a stream the bot does not know opens a socket for it.
LEMMA BotOpens ==
  ASSUME NEW base \in Nat, StreamInvAt(base), BotReceives,
         Head(up).id \notin DOMAIN local, Head(up).type = "data"
  PROVE  StreamInvAt(base)'
<1> USE DEF StreamInvAt
<1>1. /\ UNCHANGED <<ws, down, nextId, streams, conn>> /\ ws = "open"
      /\ up \in Seq(Frame) /\ up # <<>> /\ up' = Tail(up)
      /\ StreamType' /\ QueueInv' /\ ConnInv(base)' /\ \A k \in Conn : Handed(k)' = Handed(k)
  BY BotFrame
<1>2. PICK f \in Frame, k \in Conn :
        /\ f = Head(up) /\ f.id = k - base /\ f.id \in Nat
        /\ f.id \in 1..(nextId - 1) /\ k > base /\ k < base + nextId
  BY BotFrame
<1>3. PICK j \in Sock : OpenLocalSocket(j, f)
  BY <1>2 DEF BotReceives
<1>4. PICK m \in Nat :
        /\ Upwards(base, k, m) /\ f.chunk = <<k, m + 1>>
        /\ Run(up', DataOf(up', k - base), k, m + 1, conn[k].sent)
        /\ conn[k].st = "open" => \A p \in DOMAIN up' : up'[p].id = k - base => up'[p].type = "data"
  BY <1>2, UpTakes
<1>5. k \in Nat /\ base + f.id = k /\ nextId \in Nat
  BY <1>2, ConnIs DEF StreamType
<1>6. /\ sock'[j].st = "connecting" /\ sock'[j].id = f.id /\ sock'[j].first = << <<k, m + 1>> >>
      /\ sock'[j].peer = k /\ (sock'[j].late <=> m + 1 > 1)
      /\ sock'[j].later = <<>> /\ sock'[j].got = <<>> /\ sock'[j].sent = 0
      /\ sock[j].st = "none" /\ \A h \in Sock \ {j} : sock'[h] = sock[h]
  <2>1. sock' = [sock EXCEPT ![j] = [NoSock EXCEPT
          !.st = "connecting", !.id = f.id, !.first = <<f.chunk>>,
          !.peer = f.chunk[1], !.late = f.chunk[2] > 1]] /\ sock[j].st = "none"
    BY <1>3 DEF OpenLocalSocket
  <2>2. f.chunk[1] = k /\ f.chunk[2] = m + 1
    BY <1>4
  <2>3. sock'[j] = [NoSock EXCEPT
          !.st = "connecting", !.id = f.id, !.first = <<f.chunk>>,
          !.peer = f.chunk[1], !.late = f.chunk[2] > 1]
    BY <2>1 DEF StreamType
  <2>4. \A h \in Sock \ {j} : sock'[h] = sock[h]
    BY <2>1 DEF StreamType
  <2>5. /\ sock'[j].st = "connecting" /\ sock'[j].id = f.id /\ sock'[j].first = <<f.chunk>>
        /\ sock'[j].peer = f.chunk[1] /\ sock'[j].late = (f.chunk[2] > 1)
        /\ sock'[j].later = <<>> /\ sock'[j].got = <<>> /\ sock'[j].sent = 0
    <3> DEFINE s == <<f.chunk>>
               b == f.chunk[2] > 1
               c == f.chunk[1]
    <3>1. sock'[j] = [NoSock EXCEPT !.st = "connecting", !.id = f.id, !.first = s,
                        !.peer = c, !.late = b]
      BY <2>3
    <3> HIDE DEF s, b, c
    <3>2. /\ sock'[j].st = "connecting" /\ sock'[j].id = f.id /\ sock'[j].first = s
          /\ sock'[j].peer = c /\ sock'[j].late = b
          /\ sock'[j].later = <<>> /\ sock'[j].got = <<>> /\ sock'[j].sent = 0
      BY <3>1 DEF NoSock
    <3>3. QED
      BY <3>2 DEF s, b, c
  <2>6. QED
    BY <1>4, <2>1, <2>2, <2>4, <2>5
<1>7. local' = With(local, f.id, j)
  BY <1>3 DEF OpenLocalSocket
<1>8. DOMAIN local' = DOMAIN local \cup {f.id} /\ local'[f.id] = j
      /\ \A i \in DOMAIN local \ {f.id} : local'[i] = local[i]
  BY <1>7 DEF With
<1>9. f.id \notin DOMAIN local
  BY <1>2
<1>10. Live(j)' /\ ~Live(j) /\ \A h \in Sock \ {j} : Live(h)' <=> Live(h)
  BY <1>6 DEF Live
<1>11. \A h \in Sock : Live(h) => sock[h].peer # k
  <2> SUFFICES ASSUME NEW h \in Sock, Live(h), sock[h].peer = k PROVE FALSE
    OBVIOUS
  <2>1. sock[h].id \in DOMAIN local /\ k = base + sock[h].id /\ sock[h].id \in Nat
    BY SockIs DEF SockInv
  <2>2. PICK a \in Nat : a = sock[h].id
    BY <2>1
  <2>3. a = f.id
    BY <1>2, <1>5, <2>1, <2>2
  <2>4. QED
    BY <1>9, <2>1, <2>2, <2>3
<1>12. \A h \in Sock : \A l \in Conn : Serves(h, l)' <=> Serves(h, l) \/ (h = j /\ l = k)
  BY <1>6 DEF Serves
<1>13. ~\E l \in Conn : Serves(j, l)
  BY <1>6 DEF Serves
<1>14. conn[k].st # "none"
  BY <1>2, <1>5 DEF ConnInv
<1>15. SockInv(base)'
  <2>1. ASSUME NEW h \in Sock
        PROVE
       /\ sock'[h].st = "none" => sock'[h] = NoSock
       /\ sock'[h].st # "none" => sock'[h].peer \in Conn /\ conn'[sock'[h].peer].st # "none"
       /\ Live(h)' => /\ ws' = "open" /\ sock'[h].peer = base + sock'[h].id
                      /\ sock'[h].id \in DOMAIN local' /\ local'[sock'[h].id] = h
    <3>1. CASE h = j
      BY <1>1, <1>5, <1>6, <1>8, <1>14, <3>1
    <3>2. CASE h # j
      <4>1. sock'[h] = sock[h] /\ (Live(h)' <=> Live(h))
        BY <1>6, <1>10, <3>2
      <4>2. QED
        BY <1>1, <1>8, <1>9, <4>1 DEF SockInv
    <3>3. QED
      BY <3>1, <3>2
  <2>2. ASSUME NEW i \in DOMAIN local'
        PROVE  /\ local'[i] \in Sock /\ Live(local[i])' /\ sock'[local'[i]].id = i
               /\ i \in 1..(nextId' - 1)
    <3>1. CASE i = f.id
      BY <1>1, <1>2, <1>6, <1>8, <3>1 DEF Live
    <3>2. CASE i # f.id
      <4>1. i \in DOMAIN local /\ local'[i] = local[i]
        BY <1>8, <3>2
      <4>2. PICK h \in Sock : h = local[i] /\ Live(h) /\ sock[h].id = i /\ i \in 1..(nextId - 1)
        BY <4>1 DEF SockInv
      <4>3. h # j
        BY <1>10, <4>2
      <4>4. sock'[h] = sock[h]
        BY <1>6, <4>3
      <4>5. QED
        BY <1>1, <4>1, <4>2, <4>4 DEF Live
    <3>3. QED
      BY <3>1, <3>2
  <2>3. QED
    BY <2>1, <2>2 DEF SockInv
<1>16. ~sock'[j].late => m = 0
  BY <1>6
<1>17. RequestInv'
  <2> SUFFICES ASSUME NEW h \in Sock, ~sock'[h].early, ~sock'[h].late
               PROVE  /\ sock'[h].st = "connecting" =>
                           /\ sock'[h].first = << <<sock'[h].peer, 1>> >>
                           /\ sock'[h].later = <<>> /\ sock'[h].got = <<>>
                      /\ InOrder(sock'[h].got, sock'[h].peer)
    BY DEF RequestInv
  <2>1. CASE h = j
    <3>1. m + 1 = 1
      BY <1>16, <2>1
    <3>2. InOrder(<<>>, k)
      BY <1>5, InOrderStarts
    <3>3. QED
      BY <1>6, <2>1, <3>1, <3>2
  <2>2. CASE h # j
    BY <1>6, <2>2 DEF RequestInv
  <2>3. QED
    BY <2>1, <2>2
<1>18. UpInv(base)'
  <2> SUFFICES ASSUME NEW l \in Conn, l > base, l < base + nextId
               PROVE  \E n \in Nat : Upwards(base, l, n)'
    BY <1>1 DEF UpInv
  <2>1. CASE l = k
    <3>1. \A h \in Sock : Live(h)' /\ Serves(h, k)' => h = j
      BY <1>10, <1>11, <1>12 DEF Serves
    <3>2. ~sock'[j].early /\ ~sock'[j].late => m + 1 = Takes(j)'
      BY <1>6, <1>16 DEF Takes
    <3>3. Upwards(base, k, m + 1)'
      BY <1>1, <1>4, <3>1, <3>2 DEF Upwards
    <3>4. QED
      BY <2>1, <3>3
  <2>2. CASE l # k
    <3>1. Head(up).id # l - base
      <4>1. l \in Nat
        BY ConnIs
      <4>2. l - base # k - base
        BY <1>5, <2>2, <4>1
      <4>3. QED
        BY <1>2, <4>2
    <3>2. \A h \in Sock : Serves(h, l)' => Serves(h, l) /\ sock'[h] = sock[h] /\ (Live(h)' <=> Live(h))
      BY <1>6, <1>10, <1>12, <1>13, <2>2
    <3>3. \A h \in Sock : /\ Serves(h, l)' => Serves(h, l)
                          /\ Serves(h, l)' /\ Live(h)' /\ ~sock'[h].early /\ ~sock'[h].late =>
                               Live(h) /\ ~sock[h].early /\ ~sock[h].late /\ Takes(h)' = Takes(h)
      BY <3>2 DEF Takes
    <3>4. QED
      BY <3>1, <3>3, UpPasses
  <2>3. QED
    BY <2>1, <2>2
<1>19. DownInv(base)'
  <2> SUFFICES ASSUME NEW l \in Conn, conn[l].st = "open"
               PROVE  Unanswered(l - base, l)' \/ \E h \in Sock : AnsweredBy(l - base, l, h)'
    BY <1>1 DEF DownInv
  <2>1. CASE Unanswered(l - base, l)
    <3>1. CASE l = k
      <4>1. DataOf(down, k - base) = {}
        BY <2>1, <3>1 DEF Unanswered, DataOf
      <4>2. HeardOf(down, k - base) = {}
        BY <4>1 DEF HeardOf
      <4>3. Run(down, {}, j, 0, 0)
        BY DEF Run
      <4>4. Handed(k)' = <<>> /\ Len(Handed(k)') = 0
        BY <1>1, <2>1, <3>1 DEF Unanswered
      <4>5. InOrder(<<>>, j)
        BY SockIs, InOrderStarts
      <4>6. \A c \in DOMAIN down : ~Ends(down, k - base, c)
        BY <2>1, <3>1 DEF Unanswered, Ends
      <4>7. \A h \in Sock : Serves(h, k)' <=> h = j
        BY <1>12, <2>1, <3>1 DEF Unanswered
      <4>8. AnsweredBy(k - base, k, j)'
        BY <1>1, <1>6, <1>10, <4>2, <4>3, <4>4, <4>5, <4>6, <4>7 DEF AnsweredBy
      <4>9. QED
        BY <3>1, <4>8
    <3>2. CASE l # k
      BY <1>1, <1>12, <2>1, <3>2 DEF Unanswered
    <3>3. QED
      BY <3>1, <3>2
  <2>2. ASSUME NEW h \in Sock, AnsweredBy(l - base, l, h) PROVE AnsweredBy(l - base, l, h)'
    <3>1. Serves(h, l) /\ h # j
      BY <1>13, <2>2 DEF AnsweredBy
    <3>2. sock'[h] = sock[h] /\ Serves(h, l)' /\ (Live(h)' <=> Live(h))
      BY <1>6, <1>10, <1>12, <3>1
    <3>3. CASE l = k
      <4>1. ~Live(h)
        BY <1>11, <3>1, <3>3 DEF Serves
      <4>2. m >= 1
        BY <1>4, <3>1, <3>3 DEF Upwards
      <4>3. sock'[j].late
        BY <1>6, <4>2
      <4>4. \A g \in Sock : Serves(g, k)' => g = h \/ sock'[g].late
        <5> TAKE g \in Sock
        <5>1. CASE g = j
          BY <4>3, <5>1
        <5>2. CASE g # j
          BY <1>6, <1>12, <2>2, <3>3, <5>2 DEF AnsweredBy
        <5>3. QED
          BY <5>1, <5>2
      <4>5. QED
        BY <1>1, <2>2, <3>2, <3>3, <4>1, <4>4 DEF AnsweredBy
    <3>4. CASE l # k
      <4>1. \A g \in Sock : Serves(g, l)' <=> Serves(g, l)
        BY <1>12, <3>4
      <4>2. \A g \in Sock : Serves(g, l) => sock'[g] = sock[g]
        BY <1>6, <1>13
      <4>3. QED
        BY <1>1, <2>2, <3>2, <4>1, <4>2 DEF AnsweredBy
    <3>5. QED
      BY <3>3, <3>4
  <2>3. QED
    BY <1>1, <2>1, <2>2 DEF DownInv
<1>20. AnswerInv'
  <2>1. \A h \in Sock : /\ sock[h].st # "none" => sock'[h].peer = sock[h].peer
                        /\ sock'[h].st = "none" => sock[h].st = "none"
    BY <1>6
  <2>2. QED
    BY <1>1, <2>1, AnswerKept
<1>21. QED
  BY <1>1, <1>15, <1>17, <1>18, <1>19, <1>20

\* What was written before 'connect' waits no longer.
LEMMA ConnectKeeps ==
  ASSUME NEW base \in Nat, StreamInvAt(base), NEW j \in Sock, LocalConnects(j)
  PROVE  StreamInvAt(base)'
<1> USE DEF StreamInvAt
<1>1. /\ UNCHANGED <<ws, up, down, nextId, streams, local, conn>> /\ sock[j].st = "connecting"
      /\ StreamType'
  BY StreamTypeSocket DEF LocalConnects
<1>2. sock[j] \in SockRec
  BY SockIs
<1>3. /\ sock'[j].st = "open" /\ sock'[j].got = sock[j].later \o sock[j].first
      /\ sock'[j].id = sock[j].id /\ sock'[j].peer = sock[j].peer /\ sock'[j].sent = sock[j].sent
      /\ sock'[j].early = sock[j].early /\ sock'[j].late = sock[j].late
      /\ \A h \in Sock \ {j} : sock'[h] = sock[h]
  <2> DEFINE s == sock[j].later \o sock[j].first
  <2>1. sock' = [sock EXCEPT ![j] = [sock[j] EXCEPT !.st = "open", !.first = <<>>, !.later = <<>>,
                                                     !.got = s]]
    BY DEF LocalConnects
  <2> HIDE DEF s
  <2>2. sock'[j] = [sock[j] EXCEPT !.st = "open", !.first = <<>>, !.later = <<>>, !.got = s]
        /\ \A h \in Sock \ {j} : sock'[h] = sock[h]
    BY <2>1 DEF StreamType
  <2>3. QED
    BY <1>2, <2>2 DEF SockRec, s
<1>4. \A h \in Sock : Live(h)' <=> Live(h)
  BY <1>1, <1>3 DEF Live
<1>5. ~sock[j].early /\ ~sock[j].late => sock'[j].got = << <<sock[j].peer, 1>> >>
  <2> SUFFICES ASSUME ~sock[j].early, ~sock[j].late
               PROVE  sock'[j].got = << <<sock[j].peer, 1>> >>
    OBVIOUS
  <2>1. sock[j].later = <<>> /\ sock[j].first = << <<sock[j].peer, 1>> >>
    BY <1>1 DEF RequestInv
  <2>2. QED
    BY <1>3, <2>1
<1>6. \A h \in Sock :
        /\ sock'[h].id = sock[h].id /\ sock'[h].peer = sock[h].peer /\ sock'[h].sent = sock[h].sent
        /\ sock'[h].early = sock[h].early /\ sock'[h].late = sock[h].late
        /\ sock'[h].st = "none" <=> sock[h].st = "none"
        /\ sock'[h].st = "none" => sock'[h] = sock[h]
        /\ sock[h].st = "ended" => sock'[h].st = "ended"
  BY <1>1, <1>3
<1>7. ConnInv(base)' /\ QueueInv'
  BY <1>1 DEF ConnInv, QueueInv
<1>8. SockInv(base)'
  <2>1. nextId \in Nat /\ nextId' \in Nat /\ nextId' >= nextId
    BY <1>1 DEF StreamType
  <2>2. QED
    BY <1>1, <1>4, <1>6, <2>1, SockKept
<1>9. RequestInv'
  <2> SUFFICES ASSUME NEW h \in Sock, ~sock'[h].early, ~sock'[h].late
               PROVE  /\ sock'[h].st = "connecting" =>
                           /\ sock'[h].first = << <<sock'[h].peer, 1>> >>
                           /\ sock'[h].later = <<>> /\ sock'[h].got = <<>>
                      /\ InOrder(sock'[h].got, sock'[h].peer)
    BY DEF RequestInv
  <2>1. CASE h = j
    <3>1. sock[j].peer \in Nat
      BY SockIs
    <3>2. InOrder(<< <<sock[j].peer, 1>> >>, sock[j].peer)
      BY <3>1, InOrderStarts
    <3>3. QED
      BY <1>3, <1>5, <2>1, <3>2
  <2>2. CASE h # j
    BY <1>3, <2>2 DEF RequestInv
  <2>3. QED
    BY <2>1, <2>2
<1>10. UpInv(base)'
  <2>1. ASSUME NEW h \in Sock, ~sock'[h].early, ~sock'[h].late, Live(h)'
        PROVE  ~sock[h].early /\ ~sock[h].late /\ Takes(h)' = Takes(h)
    <3>1. CASE h = j
      <4>1. Len(sock'[j].got) = 1
        BY <1>5, <1>6, <2>1, <3>1
      <4>2. QED
        BY <1>1, <1>3, <1>6, <2>1, <3>1, <4>1 DEF Takes
    <3>2. CASE h # j
      BY <1>3, <2>1, <3>2 DEF Takes
    <3>3. QED
      BY <3>1, <3>2
  <2>2. QED
    BY <1>1, <1>4, <1>6, <2>1, UpKept
<1>11. \A k \in Conn : Handed(k)' = Handed(k)
  BY <1>1 DEF Handed
<1>12. DownInv(base)' /\ AnswerInv'
  <2>1. DownInv(base)'
    BY <1>1, <1>4, <1>6, <1>11, DownKept
  <2>2. AnswerInv'
    BY <1>6, <1>11, AnswerKept
  <2>3. QED
    BY <2>1, <2>2
<1>13. QED
  BY <1>1, <1>7, <1>8, <1>9, <1>10, <1>12

\* A frame a socket sends is its own connection's.
LEMMA SocketOf ==
  ASSUME NEW base \in Nat, StreamInvAt(base), NEW j \in Sock, Live(j)
  PROVE  /\ ws = "open" /\ sock[j].id \in 1..(nextId - 1)
         /\ \A k \in Conn : sock[j].id = k - base <=> Serves(j, k)
<1> USE DEF StreamInvAt
<1>1. /\ ws = "open" /\ sock[j].peer = base + sock[j].id
      /\ sock[j].id \in DOMAIN local /\ local[sock[j].id] = j
  BY DEF SockInv
<1>2. sock[j].id \in 1..(nextId - 1)
  BY <1>1 DEF SockInv
<1>3. sock[j].st # "none" /\ sock[j].id \in Nat
  BY SockIs DEF Live
<1>4. ASSUME NEW k \in Conn PROVE sock[j].id = k - base <=> sock[j].peer = k
  <2>1. PICK a \in Nat : a = sock[j].id
    BY <1>3
  <2>2. k \in Nat
    BY ConnIs
  <2>3. a = k - base <=> base + a = k
    BY <2>2
  <2>4. QED
    BY <1>1, <2>1, <2>3
<1>5. QED
  BY <1>1, <1>2, <1>3, <1>4 DEF Serves

\* A frame goes at the end of the queue.
LEMMA EndsSent ==
  ASSUME NEW q \in Seq(Frame), NEW f \in Frame, NEW i
  PROVE  (\E c \in DOMAIN Append(q, f) : Ends(Append(q, f), i, c)) <=>
           (\E c \in DOMAIN q : Ends(q, i, c)) \/ (f.id = i /\ f.type = "close")
<1>1. DOMAIN Append(q, f) = DOMAIN q \cup {Len(q) + 1} /\ Append(q, f)[Len(q) + 1] = f
      /\ \A c \in DOMAIN q : Append(q, f)[c] = q[c]
  OBVIOUS
<1>2. QED
  BY <1>1 DEF Ends

LEMMA AnswerKeeps ==
  ASSUME NEW base \in Nat, StreamInvAt(base), NEW j \in Sock, ServerWrites(j)
  PROVE  StreamInvAt(base)'
<1> USE DEF StreamInvAt
<1>1. /\ UNCHANGED <<ws, up, nextId, streams, local, conn>> /\ StreamType'
      /\ Live(j) /\ sock[j].st = "open"
  BY StreamTypeSocket DEF ServerWrites, Live
<1>2. sock[j] \in SockRec /\ sock[j].sent \in Nat /\ sock[j].id \in Nat /\ j \in Nat
      /\ down \in Seq(Frame)
  BY SockIs DEF StreamType
<1>3. PICK f \in Frame :
        /\ f = Data(sock[j].id, <<j, sock[j].sent + 1>>)
        /\ f.id = sock[j].id /\ f.type = "data" /\ f.chunk = <<j, sock[j].sent + 1>>
  <2> DEFINE c == <<j, sock[j].sent + 1>>
             i == sock[j].id
  <2>1. i \in Nat /\ c \in Chunk
    BY <1>2 DEF Chunk
  <2> HIDE DEF StreamInvAt, c, i
  <2>2. Data(i, c) \in Frame /\ Data(i, c).id = i /\ Data(i, c).type = "data" /\ Data(i, c).chunk = c
    BY <2>1 DEF Data, Frame
  <2>3. QED
    BY <2>2 DEF c, i
<1>4. /\ ws = "open" /\ f.id \in 1..(nextId - 1)
      /\ \A k \in Conn : f.id = k - base <=> Serves(j, k)
  BY <1>1, <1>3, SocketOf
<1>5. down' = Append(down, f)
  BY <1>3, <1>4 DEF ServerWrites, Sent
<1>6. /\ sock'[j] = [sock[j] EXCEPT !.sent = @ + 1]
      /\ \A h \in Sock \ {j} : sock'[h] = sock[h]
  BY DEF ServerWrites, StreamType
<1>7. /\ sock'[j].sent = sock[j].sent + 1 /\ sock'[j].st = sock[j].st /\ sock'[j].id = sock[j].id
      /\ sock'[j].peer = sock[j].peer /\ sock'[j].got = sock[j].got
      /\ sock'[j].early = sock[j].early /\ sock'[j].late = sock[j].late
  BY <1>2, <1>6 DEF SockRec
<1>8. \A h \in Sock :
        /\ sock'[h].id = sock[h].id /\ sock'[h].peer = sock[h].peer
        /\ sock'[h].early = sock[h].early /\ sock'[h].late = sock[h].late
        /\ sock'[h].st = sock[h].st /\ sock'[h].got = sock[h].got
        /\ sock'[h].st = "none" => sock'[h] = sock[h]
  BY <1>1, <1>6, <1>7
<1>9. \A h \in Sock : /\ Live(h)' <=> Live(h)
                      /\ Takes(h)' = Takes(h) /\ \A k \in Conn : Serves(h, k)' <=> Serves(h, k)
  BY <1>8 DEF Live, Serves, Takes
<1>10. ConnInv(base)'
  BY <1>1 DEF ConnInv
<1>11. QueueInv'
  BY <1>1, <1>4, <1>5, QueueGrows DEF Sent
<1>12. SockInv(base)'
  <2>1. nextId \in Nat /\ nextId' \in Nat /\ nextId' >= nextId
    BY <1>1 DEF StreamType
  <2>2. QED
    BY <1>1, <1>8, <1>9, <2>1, SockKept
<1>13. RequestInv'
  <2> SUFFICES ASSUME NEW h \in Sock, ~sock'[h].early, ~sock'[h].late
               PROVE  /\ sock'[h].st = "connecting" =>
                           /\ sock'[h].first = << <<sock'[h].peer, 1>> >>
                           /\ sock'[h].later = <<>> /\ sock'[h].got = <<>>
                      /\ InOrder(sock'[h].got, sock'[h].peer)
    BY DEF RequestInv
  <2>1. CASE h = j
    BY <1>1, <1>7, <2>1 DEF RequestInv
  <2>2. CASE h # j
    BY <1>6, <2>2 DEF RequestInv
  <2>3. QED
    BY <2>1, <2>2
<1>14. UpInv(base)'
  BY <1>1, <1>8, <1>9, UpKept
<1>15. \A k \in Conn : Handed(k)' = Handed(k)
  BY <1>1 DEF Handed
<1>16. AnswerInv'
  BY <1>8, <1>15, AnswerKept
<1>17. DownInv(base)'
  <2> SUFFICES ASSUME NEW k \in Conn, conn[k].st = "open"
               PROVE  Unanswered(k - base, k)' \/ \E h \in Sock : AnsweredBy(k - base, k, h)'
    BY <1>1 DEF DownInv
  <2>1. \A p \in DOMAIN down' : (p \in DOMAIN down /\ down'[p] = down[p]) \/ down'[p] = f
    BY <1>2, <1>5
  <2>2. (\E c \in DOMAIN down' : Ends(down', k - base, c)) <=> \E c \in DOMAIN down : Ends(down, k - base, c)
    BY <1>2, <1>3, <1>5, EndsSent
  <2>3. CASE Unanswered(k - base, k)
    <3>1. f.id # k - base
      BY <1>4, <2>3 DEF Unanswered
    <3>2. QED
      BY <1>9, <1>15, <2>1, <2>3, <3>1 DEF Unanswered
  <2>4. ASSUME NEW h \in Sock, AnsweredBy(k - base, k, h) PROVE AnsweredBy(k - base, k, h)'
    <3>1. Len(Handed(k)) \in Nat /\ sock[h].sent \in Nat
      BY ConnIs, SockIs
    <3>2. Run(down, HeardOf(down, k - base), h, Len(Handed(k)), sock[h].sent)
      BY <2>4 DEF AnsweredBy
    <3>3. Run(down', HeardOf(down', k - base), h, Len(Handed(k)), sock'[h].sent)
      <4> DEFINE i == k - base
                 m == Len(Handed(k))
                 top == sock[h].sent
      <4>0. m \in Nat /\ top \in Nat /\ Run(down, HeardOf(down, i), h, m, top)
        BY <3>1, <3>2
      <4>1. CASE h = j
        <5>1. \A c \in DOMAIN down : ~Ends(down, i, c)
          BY <1>1, <2>4, <4>1 DEF AnsweredBy
        <5>2. f.id = i /\ f.type = "data" /\ f.chunk = <<h, top + 1>>
          BY <1>3, <1>4, <2>4, <4>1 DEF AnsweredBy
        <5> HIDE DEF StreamInvAt, i, m, top
        <5>3. Run(Append(down, f), HeardOf(Append(down, f), i), h, m, top + 1)
          BY <1>2, <4>0, <5>1, <5>2, HeardSent
        <5>4. QED
          BY <1>5, <1>7, <4>1, <5>3 DEF i, m, top
      <4>2. CASE h # j
        <5>1. f.id # i \/ \E c \in DOMAIN down : Ends(down, i, c)
          BY <1>4, <2>4, <4>2 DEF AnsweredBy
        <5>2. sock'[h].sent = top
          BY <1>6, <4>2
        <5> HIDE DEF StreamInvAt, i, m, top
        <5>3. Run(Append(down, f), HeardOf(Append(down, f), i), h, m, top)
          BY <1>2, <4>0, <5>1, HeardSent
        <5>4. QED
          BY <1>5, <5>2, <5>3 DEF i, m
      <4>3. QED
        BY <4>1, <4>2
    <3>4. QED
      BY <1>8, <1>9, <1>15, <2>2, <2>4, <3>3 DEF AnsweredBy
  <2>5. QED
    BY <1>4, <2>3, <2>4 DEF DownInv
<1>18. QED
  BY <1>1, <1>10, <1>11, <1>12, <1>13, <1>14, <1>16, <1>17

LEMMA LocalCloseKeeps ==
  ASSUME NEW base \in Nat, StreamInvAt(base), NEW j \in Sock, LocalCloses(j)
  PROVE  StreamInvAt(base)'
<1> USE DEF StreamInvAt
<1>1. /\ UNCHANGED <<ws, up, nextId, streams, conn>> /\ StreamType' /\ Live(j)
      /\ local' = Without(local, sock[j].id)
  BY StreamTypeSocket DEF LocalCloses, MayEnd
<1>2. sock[j] \in SockRec /\ sock[j].id \in Nat /\ down \in Seq(Frame)
  BY SockIs DEF StreamType
<1>3. PICK f \in Frame : f = Close(sock[j].id) /\ f.id = sock[j].id /\ f.type = "close"
  <2> DEFINE i == sock[j].id
  <2>1. i \in Nat /\ <<0, 0>> \in Chunk
    BY <1>2 DEF Chunk
  <2> HIDE DEF StreamInvAt, i
  <2>2. Close(i) \in Frame /\ Close(i).id = i /\ Close(i).type = "close"
    BY <2>1 DEF Close, Frame
  <2>3. QED
    BY <2>2 DEF i
<1>4. /\ ws = "open" /\ f.id \in 1..(nextId - 1)
      /\ \A k \in Conn : f.id = k - base <=> Serves(j, k)
  BY <1>1, <1>3, SocketOf
<1>5. down' = Append(down, f)
  BY <1>3, <1>4 DEF LocalCloses, Sent
<1>6. /\ sock'[j] = Ended(sock[j])
      /\ \A h \in Sock \ {j} : sock'[h] = sock[h]
  BY DEF LocalCloses, StreamType
<1>7. /\ sock'[j].st = "ended" /\ sock'[j].sent = sock[j].sent /\ sock'[j].id = sock[j].id
      /\ sock'[j].peer = sock[j].peer /\ sock'[j].got = sock[j].got
      /\ sock'[j].early = sock[j].early /\ sock'[j].late = sock[j].late
  BY <1>2, <1>6 DEF SockRec, Ended, Destroyed
<1>8. \A h \in Sock :
        /\ sock'[h].id = sock[h].id /\ sock'[h].peer = sock[h].peer /\ sock'[h].sent = sock[h].sent
        /\ sock'[h].early = sock[h].early /\ sock'[h].late = sock[h].late
        /\ sock'[h].st = "none" <=> sock[h].st = "none"
        /\ sock[h].st = "ended" => sock'[h].st = "ended"
  BY <1>1, <1>6, <1>7 DEF Live
<1>9. /\ ~Live(j)' /\ \A h \in Sock \ {j} : Live(h)' <=> Live(h)
      /\ \A h \in Sock \ {j} : Takes(h)' = Takes(h)
      /\ \A h \in Sock : \A k \in Conn : Serves(h, k)' <=> Serves(h, k)
  BY <1>6, <1>7, <1>8 DEF Live, Serves, Takes
<1>10. ConnInv(base)'
  BY <1>1 DEF ConnInv
<1>11. QueueInv'
  BY <1>1, <1>4, <1>5, QueueGrows DEF Sent
<1>12. SockInv(base)'
  BY <1>1, <1>6, <1>7, SockLeaves
<1>13. RequestInv'
  <2> SUFFICES ASSUME NEW h \in Sock, ~sock'[h].early, ~sock'[h].late
               PROVE  /\ sock'[h].st = "connecting" =>
                           /\ sock'[h].first = << <<sock'[h].peer, 1>> >>
                           /\ sock'[h].later = <<>> /\ sock'[h].got = <<>>
                      /\ InOrder(sock'[h].got, sock'[h].peer)
    BY DEF RequestInv
  <2>1. CASE h = j
    BY <1>7, <2>1 DEF RequestInv
  <2>2. CASE h # j
    BY <1>6, <2>2 DEF RequestInv
  <2>3. QED
    BY <2>1, <2>2
<1>14. UpInv(base)'
  <2>1. \A h \in Sock :
          /\ Live(h)' => Live(h)
          /\ ~sock'[h].early /\ ~sock'[h].late /\ Live(h)' =>
               ~sock[h].early /\ ~sock[h].late /\ Takes(h)' = Takes(h)
    BY <1>8, <1>9
  <2>2. QED
    BY <1>1, <1>8, <2>1, UpKept
<1>15. \A k \in Conn : Handed(k)' = Handed(k)
  BY <1>1 DEF Handed
<1>16. AnswerInv'
  BY <1>8, <1>15, AnswerKept
<1>17. DownInv(base)'
  <2> SUFFICES ASSUME NEW k \in Conn, conn[k].st = "open"
               PROVE  Unanswered(k - base, k)' \/ \E h \in Sock : AnsweredBy(k - base, k, h)'
    BY <1>1 DEF DownInv
  <2>1. \A p \in DOMAIN down' : (p \in DOMAIN down /\ down'[p] = down[p]) \/ down'[p] = f
    BY <1>2, <1>5
  <2>2. (\E c \in DOMAIN down' : Ends(down', k - base, c)) <=>
          (\E c \in DOMAIN down : Ends(down, k - base, c)) \/ f.id = k - base
    BY <1>2, <1>3, <1>5, EndsSent
  <2>3. CASE Unanswered(k - base, k)
    <3>1. f.id # k - base
      BY <1>4, <2>3 DEF Unanswered
    <3>2. QED
      BY <1>9, <1>15, <2>1, <2>3, <3>1 DEF Unanswered
  <2>4. ASSUME NEW h \in Sock, AnsweredBy(k - base, k, h) PROVE AnsweredBy(k - base, k, h)'
    <3>1. Len(Handed(k)) \in Nat /\ sock[h].sent \in Nat
      BY ConnIs, SockIs
    <3>2. Run(down, HeardOf(down, k - base), h, Len(Handed(k)), sock[h].sent)
      BY <2>4 DEF AnsweredBy
    <3>3. Run(down', HeardOf(down', k - base), h, Len(Handed(k)), sock'[h].sent)
      <4> DEFINE i == k - base
                 m == Len(Handed(k))
                 top == sock[h].sent
      <4>0. m \in Nat /\ top \in Nat /\ Run(down, HeardOf(down, i), h, m, top) /\ sock'[h].sent = top
        BY <1>8, <3>1, <3>2
      <4>1. f.type # "data"
        BY <1>3
      <4> HIDE DEF StreamInvAt, i, m, top
      <4>2. Run(Append(down, f), HeardOf(Append(down, f), i), h, m, top)
        BY <1>2, <4>0, <4>1, HeardSent
      <4>3. QED
        BY <1>5, <4>0, <4>2 DEF i, m
    <3>4. CASE h = j
      <4>1. \E c \in DOMAIN down' : Ends(down', k - base, c)
        BY <1>4, <2>2, <2>4, <3>4 DEF AnsweredBy
      <4>2. \A g \in Sock : Serves(g, k)' => g = h \/ sock'[g].late
        BY <1>8, <1>9, <2>4 DEF AnsweredBy
      <4>3. QED
        BY <1>7, <1>9, <1>15, <2>4, <3>3, <3>4, <4>1, <4>2 DEF AnsweredBy
    <3>5. CASE h # j
      <4>1. \A g \in Sock : Serves(g, k)' => g = h \/ sock'[g].late
        BY <1>8, <1>9, <2>4 DEF AnsweredBy
      <4>2. CASE Live(h) /\ (\A g \in Sock : Serves(g, k) => g = h)
                 /\ \A c \in DOMAIN down : ~Ends(down, k - base, c)
        <5>1. f.id # k - base
          BY <1>4, <3>5, <4>2
        <5>2. QED
          BY <1>9, <1>15, <2>2, <2>4, <3>3, <3>5, <4>1, <4>2, <5>1 DEF AnsweredBy
      <4>3. CASE sock[h].st = "ended" /\ \E c \in DOMAIN down : Ends(down, k - base, c)
        BY <1>8, <1>9, <1>15, <2>2, <2>4, <3>3, <4>1, <4>3 DEF AnsweredBy
      <4>4. QED
        BY <2>4, <4>2, <4>3 DEF AnsweredBy
    <3>6. QED
      BY <3>4, <3>5
  <2>5. QED
    BY <1>4, <2>3, <2>4 DEF DownInv
<1>18. QED
  BY <1>1, <1>10, <1>11, <1>12, <1>13, <1>14, <1>16, <1>17

-----------------------------------------------------------------------------
(* The theorems about the streams.                                         *)

LEMMA StreamInvStarts ==
  ASSUME StreamInit
  PROVE  StreamInvAt(0)
<1>1. /\ ws = "open" /\ up = <<>> /\ down = <<>> /\ nextId = 1
      /\ DOMAIN streams = {} /\ DOMAIN local = {}
      /\ (\A k \in Conn : conn[k] = NoConn) /\ \A j \in Sock : sock[j] = NoSock
  BY NoMap DEF StreamInit
<1>2. StreamType
  BY StreamTypeInit
<1>3. DOMAIN up = {} /\ DOMAIN down = {}
  BY <1>1
<1>4. \A k \in Conn : k \in Nat /\ k >= 1
  BY DEF Conn
<1>5. ConnInv(0)
  BY <1>1, <1>4, StreamBounds DEF ConnInv, NoConn
<1>6. QueueInv
  BY <1>1, <1>3 DEF QueueInv
<1>7. SockInv(0)
  BY <1>1 DEF SockInv, NoSock, Live
<1>8. UpInv(0)
  BY <1>1, <1>4 DEF UpInv
<1>9. DownInv(0)
  BY <1>1 DEF DownInv, NoConn
<1>10. RequestInv
  <2>1. InOrder(<<>>, 0)
    BY InOrderStarts
  <2>2. QED
    BY <1>1, <2>1 DEF RequestInv, NoSock
<1>11. AnswerInv
  <2>1. \A k \in Conn : Handed(k) = <<>> \o <<>>
    BY <1>1 DEF Handed, NoConn
  <2>2. <<>> \o <<>> = <<>>
    OBVIOUS
  <2>3. QED
    BY <2>1, <2>2 DEF AnswerInv
<1>12. QED
  BY <1>2, <1>5, <1>6, <1>7, <1>8, <1>9, <1>10, <1>11 DEF StreamInvAt

LEMMA SandboxKeeps ==
  ASSUME NEW base \in Nat, StreamInvAt(base), SandboxReceives
  PROVE  StreamInvAt(base)'
<1>1. Head(down) \in Frame
  BY SandboxFrame, Pops
<1>2. Head(down).type \in {"data", "close"}
  BY <1>1 DEF Frame
<1>3. QED
  BY <1>2, SandboxDrops, SandboxCuts, SandboxHands

LEMMA BotKeeps ==
  ASSUME NEW base \in Nat, StreamInvAt(base), BotReceives
  PROVE  StreamInvAt(base)'
<1>1. Head(up) \in Frame
  BY BotFrame, Pops
<1>2. Head(up).type \in {"data", "close"}
  BY <1>1 DEF Frame
<1>3. QED
  BY <1>2, BotCloses, BotHands, BotOpens

LEMMA StreamInvHolds ==
  ASSUME StreamInv, [StreamNext]_streamVars
  PROVE  StreamInv'
<1>1. PICK base \in Nat : StreamInvAt(base)
  BY DEF StreamInv
<1>2. CASE StreamNext
  <2>1. ASSUME NEW k \in Conn, Accept(k) PROVE StreamInvAt(base)'
    BY <1>1, <2>1, AcceptKeeps
  <2>2. ASSUME NEW k \in Conn, ClientWrites(k) PROVE StreamInvAt(base)'
    BY <1>1, <2>2, WriteKeeps
  <2>3. ASSUME NEW k \in Conn, ClientReads(k) PROVE StreamInvAt(base)'
    BY <1>1, <2>3, ReadKeeps
  <2>4. ASSUME NEW k \in Conn, ClientCloses(k) PROVE StreamInvAt(base)'
    BY <1>1, <2>4, ClientCloseKeeps
  <2>5. ASSUME NEW j \in Sock, LocalConnects(j) PROVE StreamInvAt(base)'
    BY <1>1, <2>5, ConnectKeeps
  <2>6. ASSUME NEW j \in Sock, ServerWrites(j) PROVE StreamInvAt(base)'
    BY <1>1, <2>6, AnswerKeeps
  <2>7. ASSUME NEW j \in Sock, LocalCloses(j) PROVE StreamInvAt(base)'
    BY <1>1, <2>7, LocalCloseKeeps
  <2>8. CASE SandboxReceives
    BY <1>1, <2>8, SandboxKeeps DEF StreamInv
  <2>9. CASE BotReceives
    BY <1>1, <2>9, BotKeeps DEF StreamInv
  <2>10. CASE CloseTunnel
    BY <1>1, <2>10, CloseTunnelKeeps DEF StreamInv
  <2>11. CASE WsCloses
    BY <1>1, <2>11, WsCloseKeeps DEF StreamInv
  <2>12. CASE WsReopens
    BY <1>1, <2>12, WsReopenKeeps DEF StreamInv
  <2>13. QED
    BY <1>2, <2>1, <2>2, <2>3, <2>4, <2>5, <2>6, <2>7, <2>8, <2>9, <2>10, <2>11, <2>12
       DEF StreamNext, StreamInv
<1>3. CASE UNCHANGED streamVars
  <2> USE DEF StreamInvAt
  <2>1. UNCHANGED <<ws, up, down, nextId, streams, local, conn, sock, drops>>
    BY <1>3 DEF streamVars
  <2>2. /\ \A k \in Conn : Handed(k)' = Handed(k)
        /\ \A j \in Sock : /\ Takes(j)' = Takes(j) /\ (Live(j)' <=> Live(j))
                          /\ \A k \in Conn : Serves(j, k)' <=> Serves(j, k)
    BY <2>1 DEF Handed, Takes, Live, Serves
  <2>3. StreamType' /\ QueueInv' /\ RequestInv'
    BY <1>1, <2>1 DEF StreamType, QueueInv, RequestInv
  <2>4. AnswerInv'
    BY <1>1, <2>1, <2>2 DEF AnswerInv
  <2>5. ConnInv(base)'
    BY <1>1, <2>1 DEF ConnInv
  <2>6. SockInv(base)'
    BY <1>1, <2>1 DEF SockInv, Live
  <2>7. UpInv(base)'
    BY <1>1, <2>1, <2>2, UpKept
  <2>8. DownInv(base)'
    BY <1>1, <2>1, <2>2, DownKept
  <2>9. QED
    BY <2>3, <2>4, <2>5, <2>6, <2>7, <2>8 DEF StreamInv
<1>4. QED
  BY <1>2, <1>3

LEMMA AnswersInOrder ==
  ASSUME StreamType, AnswerInv
  PROVE  AnswerInOrder
<1> SUFFICES ASSUME NEW k \in Conn, conn[k].got # <<>>
             PROVE  /\ InOrder(conn[k].got, conn[k].got[1][1])
                    /\ sock[conn[k].got[1][1]].peer = k
  BY DEF AnswerInOrder
<1>1. conn[k].got \in Seq(Chunk) /\ conn[k].out \in Seq(Chunk) /\ Handed(k) = conn[k].got \o conn[k].out
  BY ConnIs DEF Handed
<1>2. Handed(k) # <<>>
  BY <1>1, Joined
<1>3. PICK j \in Sock : Serves(j, k) /\ InOrder(Handed(k), j)
  BY <1>2 DEF AnswerInv
<1>4. InOrder(conn[k].got, j)
  BY <1>1, <1>3, InOrderPrefix
<1>5. conn[k].got[1] = <<j, 1>>
  <2>1. \A i \in 1..Len(conn[k].got) : conn[k].got[i] = <<j, i>>
    BY <1>1, <1>4, InOrderIs
  <2>2. 1 \in 1..Len(conn[k].got)
    BY <1>1
  <2>3. QED
    BY <2>1, <2>2
<1>6. conn[k].got[1][1] = j
  BY <1>5
<1>7. QED
  BY <1>3, <1>4, <1>6 DEF Serves

\* Only a CLOSE that the sandbox receives cuts a connection.
LEMMA OnlyCloseCuts ==
  ASSUME StreamType, StreamNext, NEW k \in Conn, conn[k].st = "open", conn'[k].st = "cut"
  PROVE  SandboxReceives
<1>1. conn[k] \in ConnRec
  BY ConnIs
<1>2. ASSUME NEW h \in Conn, Accept(h) PROVE FALSE
  <2>1. h # k
    BY <1>2 DEF Accept
  <2>2. QED
    BY <1>2, <2>1 DEF Accept, StreamType
<1>3. ASSUME NEW h \in Conn, ClientWrites(h) PROVE FALSE
  <2>1. conn' = [conn EXCEPT ![h] = [conn[h] EXCEPT !.sent = @ + 1]]
    BY <1>3 DEF ClientWrites
  <2>2. conn'[k].st = conn[k].st
    BY <1>1, <2>1 DEF StreamType, ConnRec
  <2>3. QED
    BY <2>2
<1>4. ASSUME NEW h \in Conn, ClientReads(h) PROVE FALSE
  <2>1. conn' = [conn EXCEPT ![h] = [conn[h] EXCEPT !.out = Tail(@), !.got = Append(@, Head(conn[h].out))]]
    BY <1>4 DEF ClientReads
  <2>2. conn'[k].st = conn[k].st
    BY <1>1, <2>1 DEF StreamType, ConnRec
  <2>3. QED
    BY <2>2
<1>5. ASSUME NEW h \in Conn, ClientCloses(h) PROVE FALSE
  <2>1. conn' = [conn EXCEPT ![h] = [conn[h] EXCEPT !.st = "hungup", !.out = <<>>]]
    BY <1>5 DEF ClientCloses
  <2>2. conn'[k].st = conn[k].st \/ conn'[k].st = "hungup"
    BY <1>1, <2>1 DEF StreamType, ConnRec
  <2>3. QED
    BY <2>2
<1>6. CASE CloseTunnel
  <2>1. conn'[k] = [conn[k] EXCEPT !.st = "lost", !.out = <<>>]
    BY <1>6 DEF CloseTunnel
  <2>2. conn'[k].st = "lost"
    BY <1>1, <2>1 DEF ConnRec
  <2>3. QED
    BY <2>2
<1>7. ASSUME conn' = conn PROVE FALSE
  BY <1>7
<1>8. QED
  BY <1>2, <1>3, <1>4, <1>5, <1>6, <1>7
     DEF StreamNext, LocalConnects, ServerWrites, LocalCloses, BotReceives, WsCloses, WsReopens

LEMMA WholeWhenCut ==
  ASSUME StreamInv, StreamNext, NEW k \in Conn
  PROVE  AnswerWhole(k)
<1>1. PICK base \in Nat : StreamInvAt(base)
  BY DEF StreamInv
<1>2. CASE SandboxReceives
  BY <1>1, <1>2, CutIsWhole
<1>3. CASE ~SandboxReceives
  BY <1>1, <1>3, OnlyCloseCuts DEF AnswerWhole, StreamInvAt
<1>4. QED
  BY <1>2, <1>3

\* What goes through the tunnel comes out at the right end, in order and whole: a
\* request at the git server (server.ts:331, ws-tunnel.ts:128), an answer at the
\* client that asked, which has read all of it when a CLOSE cuts it, if it kept up
\* (ws-tunnel.ts:117, server.ts:423).
THEOREM StreamsAreKept == StreamSpec => StreamsKept
<1>1. StreamInit => StreamInv
  BY StreamInvStarts DEF StreamInv
<1>2. StreamInv /\ [StreamNext]_streamVars => StreamInv'
  BY StreamInvHolds
<1>3. StreamInv => RequestInOrder
  BY DEF StreamInv, StreamInvAt, RequestInv, RequestInOrder
<1>4. StreamInv => AnswerInOrder
  BY AnswersInOrder DEF StreamInv, StreamInvAt
<1>5. StreamInv /\ [StreamNext]_streamVars => [\A k \in Conn : AnswerWhole(k)]_streamVars
  BY WholeWhenCut
<1>6. QED
  BY <1>1, <1>2, <1>3, <1>4, <1>5, PTL DEF StreamSpec, StreamsKept
=============================================================================
