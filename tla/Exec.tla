-------------------------------- MODULE Exec --------------------------------
(***************************************************************************)
(* Commands run in the sandbox: handleExec (sandbox/server/server.ts),     *)
(* which streams the output of a shell as frames, and the bot's end of the *)
(* stream, runBash and consumeExecStream (src/tenant/sandbox/index.ts).    *)
(*                                                                         *)
(* Output is counted in chunks.  A shell that dies may leave processes     *)
(* behind that keep its pipes open, and a SIGTERM need not kill it.        *)
(***************************************************************************)
EXTENDS Naturals, Sequences, SequencesExt

CONSTANTS
  Cmd,      \* commands
  MaxOut    \* bound: chunks of output of each command

VARIABLE
  exec      \* exec[c]: both ends of the request, see NoExec

\* req: the bot's fetch; shell ("due": asked for), kids: the processes; made, pipe: output written
\* and not yet read by the server; wire: frames on their way ("exit" is the last);
\* got, exit: what the bot has read; timer: of the server; cut: the server's end of
\* a lost request.
NoExec == [req |-> "none", shell |-> "none", kids |-> FALSE, made |-> 0, pipe |-> 0,
           wire |-> <<>>, got |-> 0, exit |-> FALSE, timer |-> "off", cut |-> "no"]

ExecInit == exec = [c \in Cmd |-> NoExec]

\* send: nothing is written once the stream is closed.
Send(e, frame) == IF e.cut = "no" THEN Append(e.wire, frame) ELSE e.wire

\* Children of a dead shell may live on.  Its timer has no effect any more.
Dead(e) == {[e EXCEPT !.shell = "dead", !.timer = "off", !.kids = k] : k \in BOOLEAN}

\* The bot's fetch: the request is on its way.
Requests(c) ==
  /\ exec[c].req = "none"
  /\ exec' = [exec EXCEPT ![c].req = "open", ![c].shell = "due"]

\* The server has read the body and spawns; a spawn that fails is answered at once.
\* A request that is lost by now may have come in half, or its abort is not heard
\* any more, for the listener is only added here.
Spawns(c) ==
  /\ exec[c].shell = "due"
  /\ \/ exec' = [exec EXCEPT ![c].shell = "running", ![c].timer = "armed"]
     \/ exec' = [exec EXCEPT ![c].shell = "closed", ![c].wire = Send(exec[c], "exit")]
     \/ /\ exec[c].cut = "cut"
        /\ exec' = [exec EXCEPT ![c].shell = "running", ![c].timer = "armed", ![c].cut = "heard"]

\* The processes write, the shell exits, its children go: nobody promises when.
\* Output that nobody reads any more is left out.
Writes(c) ==
  /\ exec[c].cut = "no"
  /\ exec[c].shell = "running" \/ exec[c].kids
  /\ exec[c].made < MaxOut[c]
  /\ exec' = [exec EXCEPT ![c].made = @ + 1, ![c].pipe = @ + 1]

ShellExits(c) ==
  /\ exec[c].shell = "running"
  /\ \E e \in Dead(exec[c]) : exec' = [exec EXCEPT ![c] = e]

KidsLeave(c) == exec[c].kids /\ exec' = [exec EXCEPT ![c].kids = FALSE]

\* stdout.on('data').
ServerReads(c) ==
  /\ exec[c].pipe > 0
  /\ exec' = [exec EXCEPT ![c].pipe = @ - 1, ![c].wire = Send(exec[c], "out")]

\* Slip: on 'exit', when the pipes may still hold output.
ClosesOnExit(c) ==
  /\ exec[c].shell = "dead"
  /\ exec' = [exec EXCEPT ![c].shell = "closed", ![c].pipe = 0,
                          ![c].wire = Send(exec[c], "exit")]

\* on('close'): the shell has exited and nobody holds its pipes.
Closes(c) ==
  /\ exec[c].shell = "dead" /\ exec[c].pipe = 0 /\ ~exec[c].kids
  /\ exec' = [exec EXCEPT ![c].shell = "closed", ![c].wire = Send(exec[c], "exit")]

\* A line on stderr, a SIGTERM that need not be obeyed, and two seconds later SIGKILL.
TimesOut(c) ==
  /\ exec[c].shell = "running" /\ exec[c].timer = "armed"
  /\ \E e \in Dead(exec[c]) \cup {[exec[c] EXCEPT !.timer = "termed"]} :
       exec' = [exec EXCEPT ![c] = e]

\* Slip: SIGTERM once more.
KillsSoftly(c) ==
  /\ exec[c].shell = "running" /\ exec[c].timer = "termed"
  /\ \E e \in Dead(exec[c]) \cup {[exec[c] EXCEPT !.timer = "off"]} :
       exec' = [exec EXCEPT ![c] = e]

Kills(c) ==
  /\ exec[c].shell = "running" /\ exec[c].timer = "termed"
  /\ \E e \in Dead(exec[c]) : exec' = [exec EXCEPT ![c] = e]

\* onAbort and cancel(): a SIGTERM; the timer stays.
HearsAbort(c) ==
  /\ exec[c].shell = "running" /\ exec[c].cut = "cut"
  /\ \E e \in Dead(exec[c]) \cup {[exec[c] EXCEPT !.cut = "heard"]} :
       exec' = [exec EXCEPT ![c] = e]

\* The signal rejects the fetch, or the read of its body, at once.
Cut(c, how) ==
  exec' = [exec EXCEPT ![c].req = how, ![c].cut = "cut", ![c].made = 0, ![c].pipe = 0,
                       ![c].wire = <<>>, ![c].got = 0]
Aborts(c) == exec[c].req = "open" /\ Cut(c, "thrown")

\* A connection that breaks: the read throws, or ends without an exit frame.
Breaks(c) == exec[c].req = "open" /\ \E how \in {"thrown", "returned"} : Cut(c, how)

\* consumeExecStream.
Receives(c) ==
  /\ exec[c].req = "open" /\ exec[c].wire # <<>>
  /\ LET f == Head(exec[c].wire)
     IN exec' = [exec EXCEPT ![c].wire = Tail(@),
                   ![c].got = IF f = "out" THEN @ + 1 ELSE @,
                   ![c].exit = @ \/ f = "exit",
                   ![c].req = IF f = "exit" THEN "returned" ELSE @]

\* What the server and the bot do by themselves.
ExecStep(c) ==
  Spawns(c) \/ ServerReads(c) \/ Closes(c) \/ TimesOut(c) \/ Kills(c) \/ HearsAbort(c) \/ Receives(c)
ProcessStep(c) == Writes(c) \/ ShellExits(c) \/ KidsLeave(c)

-----------------------------------------------------------------------------
\* A command that returns with an exit code has returned all of its output, that
\* of processes it left behind included (server.ts:127, not 'exit').
OutputWhole ==
  \A c \in Cmd : exec[c].req = "returned" /\ exec[c].exit => exec[c].got = exec[c].made

\* Every command returns, however stubborn its shell, unless a process it left
\* behind keeps the pipes open (server.ts:138); and a shell whose request is lost
\* dies before long (server.ts:132): its SIGTERM may be ignored, or never be sent
\* because the abort came before the listener, the timer is still there.
CommandsEnd ==
  \A c \in Cmd :
    exec[c].req # "none" ~>
      IF exec[c].cut = "no" THEN exec[c].req # "open" \/ exec[c].kids
                            ELSE exec[c].shell \notin {"due", "running"}
=============================================================================
