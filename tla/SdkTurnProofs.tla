--------------------------- MODULE SdkTurnProofs ---------------------------
(***************************************************************************)
(* Theorems about SdkTurn and its commands (Exec) for any number of tool   *)
(* calls, any output and any number of faults.                             *)
(***************************************************************************)
EXTENDS SdkTurn, SequenceTheorems, TLAPS

-----------------------------------------------------------------------------
(* Commands.                                                               *)

ExecType ==
  [req : {"none", "open", "returned", "thrown"}, shell : {"none", "due", "running", "dead", "closed"},
   kids : BOOLEAN, made : Nat, pipe : Nat, wire : Seq({"out", "exit"}), got : Nat,
   exit : BOOLEAN, timer : {"off", "armed", "termed"}, cut : {"no", "cut", "heard"}]

\* Frames of output that are under way: the exit frame is the last.
Ends(e) == Len(e.wire) # 0 /\ e.wire[Len(e.wire)] = "exit"
Outs(e) == IF Ends(e) THEN Len(e.wire) - 1 ELSE Len(e.wire)

\* One command: the output it has made is in the pipe, under way, or read; once the
\* shell is closed nobody writes; and the bot sees the exit behind all the output.
Sound(e) ==
  /\ e \in ExecType
  /\ e.req = "none" => e = NoExec
  /\ \A i \in 1 .. Len(e.wire) : i # Len(e.wire) => e.wire[i] = "out"
  /\ Ends(e) => e.shell = "closed"
  /\ e.shell \in {"due", "closed"} => e.pipe = 0 /\ ~e.kids
  /\ e.cut = "no" => e.made = e.pipe + Outs(e) + e.got
  /\ e.cut # "no" => e.req # "open" /\ ~e.exit /\ e.wire = <<>> /\ e.pipe = 0
  /\ e.exit => e.shell = "closed" /\ e.wire = <<>> /\ e.req # "open"

Commands == exec \in [Cmd -> ExecType] /\ \A c \in Cmd : Sound(exec[c])

LEMMA NoExecSound == Sound(NoExec)
<1>1. NoExec \in ExecType
  BY DEF NoExec, ExecType
<1>2. Len(NoExec.wire) = 0
  BY DEF NoExec
<1>3. ~Ends(NoExec) /\ Outs(NoExec) = 0
  BY <1>2 DEF Ends, Outs
<1>4. QED
  BY <1>1, <1>2, <1>3 DEF Sound, NoExec

\* Who changes a command changes that one alone.
LEMMA OneCommand ==
  ASSUME Commands, NEW c \in Cmd, NEW e, Sound(e), exec' = [exec EXCEPT ![c] = e]
  PROVE  Commands'
BY DEF Commands, Sound

LEMMA RequestsSound ==
  ASSUME Commands, NEW c \in Cmd, Requests(c)
  PROVE  Commands'
<1> DEFINE d == [NoExec EXCEPT !.req = "open", !.shell = "due"]
<1>1. exec[c] = NoExec
  BY DEF Commands, Sound, Requests
<1>2. exec' = [exec EXCEPT ![c] = d]
  BY <1>1 DEF Commands, Requests
<1>3. /\ d \in ExecType /\ d.req = "open" /\ d.shell = "due" /\ d.pipe = 0 /\ ~d.kids
      /\ d.made = 0 /\ d.got = 0 /\ ~d.exit /\ d.cut = "no" /\ d.wire = <<>>
  BY NoExecSound DEF Sound, ExecType, NoExec
<1> HIDE DEF d
<1>4. Len(d.wire) = 0
  BY <1>3
<1>5. ~Ends(d) /\ Outs(d) = 0
  BY <1>4 DEF Ends, Outs
<1>6. Sound(d)
  BY <1>3, <1>4, <1>5 DEF Sound
<1>7. QED
  BY <1>2, <1>6, OneCommand

LEMMA AppendWire ==
  ASSUME NEW w \in Seq({"out", "exit"}), NEW f \in {"out", "exit"}
  PROVE  /\ Append(w, f) \in Seq({"out", "exit"})
         /\ Len(Append(w, f)) = Len(w) + 1
         /\ Append(w, f)[Len(w) + 1] = f
         /\ \A i \in 1 .. Len(w) : Append(w, f)[i] = w[i]
OBVIOUS

LEMMA TailWire ==
  ASSUME NEW w \in Seq({"out", "exit"}), w # <<>>
  PROVE  /\ Len(w) \in Nat /\ Len(w) > 0 /\ Head(w) = w[1] /\ Head(w) \in {"out", "exit"}
         /\ Tail(w) \in Seq({"out", "exit"}) /\ Len(Tail(w)) = Len(w) - 1
         /\ \A i \in 1 .. Len(Tail(w)) : Tail(w)[i] = w[i + 1]
         /\ Len(w) # 1 => Tail(w)[Len(w) - 1] = w[Len(w)]
         /\ Len(w) = 1 => w[Len(w)] = Head(w)
         /\ (\A i \in 1 .. Len(w) : i # Len(w) => w[i] = "out") /\ Head(w) = "exit" => Len(w) = 1
<1>1. /\ Len(w) \in Nat /\ Len(w) > 0 /\ Head(w) = w[1]
      /\ Tail(w) \in Seq({"out", "exit"}) /\ Len(Tail(w)) = Len(w) - 1
      /\ \A i \in 1 .. Len(Tail(w)) : Tail(w)[i] = w[i + 1]
  BY EmptySeq, HeadTailProperties
<1>2. Head(w) \in {"out", "exit"}
  BY <1>1, ElementOfSeq
<1>3. ASSUME Len(w) # 1 PROVE Tail(w)[Len(w) - 1] = w[Len(w)]
  <2>1. Len(w) - 1 \in 1 .. Len(Tail(w)) /\ (Len(w) - 1) + 1 = Len(w)
    BY <1>1, <1>3
  <2>2. QED
    BY <1>1, <2>1
<1>4. Len(w) = 1 => w[Len(w)] = Head(w)
  BY <1>1, Zenon
<1>5. ASSUME \A i \in 1 .. Len(w) : i # Len(w) => w[i] = "out", Head(w) = "exit", Len(w) # 1
      PROVE  FALSE
  <2>1. 1 \in 1 .. Len(w)
    BY <1>1
  <2>2. w[1] = "out"
    BY <1>5, <2>1, Zenon
  <2>3. w[1] = "exit"
    BY <1>1, <1>5, Zenon
  <2>4. QED
    BY <2>2, <2>3
<1>6. QED
  BY <1>1, <1>2, <1>3, <1>4, <1>5

\* The processes and the server's timer leave what is read and under way alone.
LEMMA SoundKept ==
  ASSUME NEW e, Sound(e), e.req # "none", NEW d \in ExecType,
         d.req = e.req, d.wire = e.wire, d.got = e.got, d.exit = e.exit,
         d.cut = e.cut \/ (e.cut = "cut" /\ d.cut = "heard"),
         d.made - d.pipe = e.made - e.pipe, d.cut # "no" => d.pipe = e.pipe,
         d.shell # "due", d.shell = "closed" <=> e.shell = "closed",
         e.shell = "closed" => d.pipe = e.pipe /\ d.kids = e.kids
  PROVE  Sound(d)
<1>1. Ends(d) <=> Ends(e)
  BY DEF Ends
<1>2. Outs(d) = Outs(e)
  BY <1>1 DEF Outs
<1>3. /\ d.made \in Nat /\ d.pipe \in Nat /\ d.got \in Nat
      /\ e.made \in Nat /\ e.pipe \in Nat /\ e.got \in Nat
      /\ d.cut \in {"no", "cut", "heard"} /\ Len(d.wire) \in Nat
  BY DEF Sound, ExecType
<1>4. Outs(d) \in Int
  BY <1>3 DEF Outs
<1>5. d.cut = "no" => d.made = d.pipe + Outs(d) + d.got
  <2>1. d.cut = "no" => e.made = e.pipe + Outs(e) + e.got
    BY DEF Sound
  <2>2. d.cut = "no" => e.cut = "no"
    OBVIOUS
  <2>3. ASSUME e.made = e.pipe + Outs(e) + e.got PROVE d.made = d.pipe + Outs(d) + d.got
    <3>1. Outs(e) = Outs(d) /\ e.got = d.got /\ d.made - d.pipe = e.made - e.pipe
      BY <1>2
    <3>2. PICK k \in Int : k = Outs(d) + d.got
      BY <1>3, <1>4
    <3>3. e.made - e.pipe = k
      BY ONLY <1>3, <1>4, <2>3, <3>1, <3>2
    <3>4. d.made = d.pipe + k
      BY ONLY <1>3, <3>1, <3>2, <3>3
    <3>5. QED
      BY ONLY <1>3, <1>4, <3>2, <3>4
  <2>4. QED
    BY <2>1, <2>2, <2>3
<1>6. /\ d.req # "none"
      /\ \A i \in 1 .. Len(d.wire) : i # Len(d.wire) => d.wire[i] = "out"
      /\ Ends(d) => d.shell = "closed"
  BY <1>1 DEF Sound
<1>7. d.shell \in {"due", "closed"} => d.pipe = 0 /\ ~d.kids
  BY DEF Sound
<1>8. /\ d.cut # "no" => d.req # "open" /\ ~d.exit /\ d.wire = <<>> /\ d.pipe = 0
      /\ d.exit => d.shell = "closed" /\ d.wire = <<>> /\ d.req # "open"
  BY DEF Sound
<1>9. QED
  BY <1>5, <1>6, <1>7, <1>8 DEF Sound

LEMMA DeadSound ==
  ASSUME NEW e, Sound(e), e.shell = "running", NEW d \in Dead(e)
  PROVE  Sound(d) /\ d.cut = e.cut /\ d.req = e.req
<1>1. e \in ExecType /\ e.req # "none"
  BY DEF Sound, NoExec
<1>2. /\ d \in ExecType /\ d.req = e.req /\ d.wire = e.wire /\ d.got = e.got
      /\ d.exit = e.exit /\ d.cut = e.cut /\ d.made = e.made /\ d.pipe = e.pipe
      /\ d.shell = "dead"
  BY <1>1 DEF ExecType, Dead
<1>3. QED
  BY <1>1, <1>2, SoundKept

LEMMA ProcessSound ==
  ASSUME Commands, NEW c \in Cmd, ProcessStep(c)
  PROVE  Commands'
<1> DEFINE e == exec[c]
<1>0. Sound(e) /\ e \in ExecType
  BY DEF Commands
<1>1. CASE Writes(c)
  <2> DEFINE d == [e EXCEPT !.made = @ + 1, !.pipe = @ + 1]
  <2>1. exec' = [exec EXCEPT ![c] = d]
    BY <1>1 DEF Writes, Commands
  <2>2. e.req # "none" /\ e.cut = "no" /\ e.shell \notin {"due", "closed"}
    BY <1>0, <1>1 DEF Writes, Sound, NoExec
  <2>n. /\ e.made \in Nat /\ e.pipe \in Nat
        /\ e.made + 1 \in Nat /\ e.pipe + 1 \in Nat
    BY <1>0 DEF ExecType
  <2>3. /\ d \in ExecType /\ d.req = e.req /\ d.wire = e.wire /\ d.got = e.got
        /\ d.exit = e.exit /\ d.cut = e.cut /\ d.shell = e.shell
        /\ d.made = e.made + 1 /\ d.pipe = e.pipe + 1
    BY <1>0, <2>n DEF ExecType
  <2> HIDE DEF d
  <2>4. d.made - d.pipe = e.made - e.pipe
    BY <2>n, <2>3
  <2>5. Sound(d)
    BY <1>0, <2>2, <2>3, <2>4, SoundKept
  <2>6. QED
    BY <2>1, <2>5, OneCommand
<1>2. CASE ShellExits(c)
  BY <1>0, <1>2, DeadSound, OneCommand DEF ShellExits
<1>3. CASE KidsLeave(c)
  <2> DEFINE d == [e EXCEPT !.kids = FALSE]
  <2>1. exec' = [exec EXCEPT ![c] = d]
    BY <1>3 DEF KidsLeave, Commands
  <2>2. e.req # "none" /\ e.shell \notin {"due", "closed"}
    BY <1>0, <1>3 DEF KidsLeave, Sound, NoExec
  <2>3. /\ d \in ExecType /\ d.req = e.req /\ d.wire = e.wire /\ d.got = e.got
        /\ d.exit = e.exit /\ d.cut = e.cut /\ d.shell = e.shell
        /\ d.made = e.made /\ d.pipe = e.pipe
    BY <1>0 DEF ExecType
  <2> HIDE DEF d
  <2>4. Sound(d)
    BY <1>0, <2>2, <2>3, SoundKept
  <2>5. QED
    BY <2>1, <2>4, OneCommand
<1>4. QED
  BY <1>1, <1>2, <1>3 DEF ProcessStep

LEMMA CutSound ==
  ASSUME Commands, NEW c \in Cmd, Aborts(c) \/ Breaks(c)
  PROVE  Commands'
<1> DEFINE e == exec[c]
<1>0. Sound(e) /\ e \in ExecType /\ e.req = "open"
  BY DEF Commands, Aborts, Breaks
<1>1. PICK how \in {"thrown", "returned"} : Cut(c, how)
  BY DEF Aborts, Breaks
<1> DEFINE w == <<>>
<1>w. w = <<>> /\ w \in Seq({"out", "exit"})
  OBVIOUS
<1> HIDE DEF w
<1> DEFINE x == [e EXCEPT !.req = how, !.cut = "cut", !.made = 0, !.pipe = 0, !.wire = w,
                          !.got = 0]
<1>2. /\ x \in ExecType /\ x.req = how /\ x.cut = "cut" /\ x.made = 0 /\ x.pipe = 0
      /\ x.wire = w /\ x.got = 0 /\ x.exit = e.exit /\ x.shell = e.shell /\ x.kids = e.kids
  BY <1>0, <1>w DEF ExecType
<1>x. exec' = [exec EXCEPT ![c] = x]
  BY <1>1, <1>w DEF Cut, Commands
<1> HIDE DEF x
<1>3. ~e.exit /\ Len(x.wire) = 0
  BY <1>0, <1>2, <1>w DEF Sound
<1>4. ~Ends(x)
  BY <1>3 DEF Ends
<1>5. /\ x.shell \in {"due", "closed"} => x.pipe = 0 /\ ~x.kids
      /\ \A i \in 1 .. Len(x.wire) : i # Len(x.wire) => x.wire[i] = "out"
  BY <1>0, <1>2, <1>3 DEF Sound
<1>6. Sound(x)
  BY <1>2, <1>3, <1>4, <1>5, <1>w DEF Sound
<1>7. QED
  BY <1>x, <1>6, OneCommand

LEMMA ReadsSound ==
  ASSUME Commands, NEW c \in Cmd, ServerReads(c)
  PROVE  Commands'
<1> DEFINE e == exec[c]
           w == Send(e, "out")
           p == e.pipe - 1
           d == [e EXCEPT !.pipe = p, !.wire = w]
<1>1. Sound(e) /\ e \in ExecType /\ e.wire \in Seq({"out", "exit"})
  BY DEF Commands, ExecType
<1>2. e.pipe > 0 /\ e.pipe \in Nat /\ e.made \in Nat /\ e.got \in Nat /\ Outs(e) \in Int
  BY <1>1 DEF ServerReads, ExecType, Outs
<1>3. e.cut = "no" /\ ~Ends(e) /\ e.shell \notin {"due", "closed"} /\ ~e.exit /\ e.req # "none"
  BY <1>1, <1>2 DEF Sound, NoExec
<1>4. w = Append(e.wire, "out") /\ w \in Seq({"out", "exit"}) /\ p \in Nat
  BY <1>1, <1>2, <1>3, AppendWire DEF Send
<1>5. exec' = [exec EXCEPT ![c] = d]
  BY DEF ServerReads, Commands
<1> HIDE DEF w, p
<1>6. /\ d \in ExecType /\ d.req = e.req /\ d.wire = w /\ d.got = e.got /\ d.exit = e.exit
      /\ d.cut = e.cut /\ d.shell = e.shell /\ d.kids = e.kids /\ d.made = e.made /\ d.pipe = p
  BY <1>1, <1>4 DEF ExecType
<1> HIDE DEF d
<1>7. Len(w) = Len(e.wire) + 1 /\ w[Len(w)] = "out" /\ \A i \in 1 .. Len(e.wire) : w[i] = e.wire[i]
  BY <1>1, <1>4, AppendWire
<1>8. ~Ends(d) /\ Outs(d) = Outs(e) + 1
  BY <1>1, <1>3, <1>6, <1>7 DEF Ends, Outs
<1>9. \A i \in 1 .. Len(e.wire) : e.wire[i] = "out"
  BY <1>1, <1>3, AppendWire DEF Ends, Sound
<1>10. \A i \in 1 .. Len(d.wire) : i # Len(d.wire) => d.wire[i] = "out"
  BY <1>1, <1>6, <1>7, <1>9
<1>11. d.made = d.pipe + Outs(d) + d.got
  <2>1. e.made = e.pipe + Outs(e) + e.got
    BY <1>1, <1>3 DEF Sound
  <2>2. QED
    BY <2>1, <1>2, <1>6, <1>8 DEF p
<1>12. Sound(d)
  BY <1>3, <1>6, <1>8, <1>10, <1>11 DEF Sound
<1>13. QED
  BY <1>5, <1>12, OneCommand

\* The exit frame is sent when nobody writes any more.
LEMMA ExitSound ==
  ASSUME NEW e, Sound(e), e.shell \in {"due", "dead"}, e.pipe = 0, ~e.kids
  PROVE  Sound([e EXCEPT !.shell = "closed", !.wire = Send(e, "exit")])
<1> DEFINE w == Send(e, "exit")
           d == [e EXCEPT !.shell = "closed", !.wire = w]
<1>1. Sound(e) /\ e \in ExecType /\ e.wire \in Seq({"out", "exit"})
  BY DEF Sound, ExecType
<1>2. /\ e.shell \in {"due", "dead"} /\ e.pipe = 0 /\ ~e.kids
      /\ ~Ends(e) /\ ~e.exit /\ e.req # "none" /\ Outs(e) = Len(e.wire)
  BY <1>1 DEF Sound, NoExec, Outs
<1>3. w = (IF e.cut = "no" THEN Append(e.wire, "exit") ELSE e.wire) /\ w \in Seq({"out", "exit"})
  BY <1>1, AppendWire DEF Send
<1> HIDE DEF w
<1>5. /\ d \in ExecType /\ d.req = e.req /\ d.wire = w /\ d.got = e.got /\ d.exit = e.exit
      /\ d.cut = e.cut /\ d.shell = "closed" /\ d.kids = e.kids /\ d.made = e.made
      /\ d.pipe = e.pipe
  BY <1>1, <1>3 DEF ExecType
<1> HIDE DEF d
<1>6. \A i \in 1 .. Len(e.wire) : e.wire[i] = "out"
  BY <1>1, <1>2 DEF Ends, Sound
<1>7. CASE e.cut = "no"
  <2>1. Len(w) = Len(e.wire) + 1 /\ w[Len(w)] = "exit" /\ \A i \in 1 .. Len(e.wire) : w[i] = e.wire[i]
    BY <1>1, <1>3, <1>7, AppendWire
  <2>2. Ends(d) /\ Outs(d) = Outs(e)
    BY <1>1, <1>2, <1>5, <2>1 DEF Ends, Outs
  <2>3. \A i \in 1 .. Len(d.wire) : i # Len(d.wire) => d.wire[i] = "out"
    BY <1>1, <1>5, <1>6, <2>1
  <2>4. d.made = d.pipe + Outs(d) + d.got
    BY <1>1, <1>5, <1>7, <2>2 DEF Sound
  <2>5. Sound(d)
    BY <1>2, <1>5, <1>7, <2>2, <2>3, <2>4 DEF Sound
  <2>6. QED
    BY <2>5 DEF d, w
<1>8. CASE e.cut # "no"
  <2>1. d.wire = <<>> /\ d.cut # "no" /\ ~Ends(d) /\ d.req # "open"
    BY <1>1, <1>2, <1>3, <1>5, <1>8 DEF Sound, Ends
  <2>2. Sound(d)
    BY <1>2, <1>5, <2>1 DEF Sound
  <2>3. QED
    BY <2>2 DEF d, w
<1>9. QED
  BY <1>7, <1>8

LEMMA ClosesSound ==
  ASSUME Commands, NEW c \in Cmd, Closes(c)
  PROVE  Commands'
<1>1. Sound(exec[c]) /\ exec[c].shell = "dead" /\ exec[c].pipe = 0 /\ ~exec[c].kids
  BY DEF Commands, Closes
<1>2. exec' = [exec EXCEPT ![c] = [exec[c] EXCEPT !.shell = "closed", !.wire = Send(exec[c], "exit")]]
  BY DEF Commands, Closes
<1>3. QED
  BY <1>1, <1>2, ExitSound, OneCommand

LEMMA SpawnsSound ==
  ASSUME Commands, NEW c \in Cmd, Spawns(c)
  PROVE  Commands'
<1> DEFINE e == exec[c]
           run == [e EXCEPT !.shell = "running", !.timer = "armed"]
           deaf == [e EXCEPT !.shell = "running", !.timer = "armed", !.cut = "heard"]
<1>1. Sound(e) /\ e \in ExecType /\ e.shell = "due" /\ e.pipe = 0 /\ ~e.kids /\ e.req # "none"
  BY DEF Commands, Spawns, Sound, NoExec
<1>2. \/ exec' = [exec EXCEPT ![c] = run]
      \/ exec' = [exec EXCEPT ![c] = [e EXCEPT !.shell = "closed", !.wire = Send(e, "exit")]]
      \/ e.cut = "cut" /\ exec' = [exec EXCEPT ![c] = deaf]
  BY DEF Commands, Spawns
<1>3. Sound(run)
  <2>1. /\ run \in ExecType /\ run.req = e.req /\ run.wire = e.wire /\ run.got = e.got
        /\ run.exit = e.exit /\ run.cut = e.cut /\ run.shell = "running"
        /\ run.kids = e.kids /\ run.made = e.made /\ run.pipe = e.pipe
    BY <1>1 DEF ExecType
  <2> HIDE DEF run
  <2>2. QED
    BY <1>1, <2>1, SoundKept
<1>4. ASSUME e.cut = "cut" PROVE Sound(deaf)
  <2>1. /\ deaf \in ExecType /\ deaf.req = e.req /\ deaf.wire = e.wire /\ deaf.got = e.got
        /\ deaf.exit = e.exit /\ deaf.cut = "heard" /\ deaf.shell = "running"
        /\ deaf.kids = e.kids /\ deaf.made = e.made /\ deaf.pipe = e.pipe
    BY <1>1 DEF ExecType
  <2> HIDE DEF deaf
  <2>2. QED
    BY <1>1, <1>4, <2>1, SoundKept
<1>5. Sound([e EXCEPT !.shell = "closed", !.wire = Send(e, "exit")])
  BY <1>1, ExitSound
<1>6. QED
  BY <1>2, <1>3, <1>4, <1>5, OneCommand

LEMMA TimersSound ==
  ASSUME Commands, NEW c \in Cmd, TimesOut(c) \/ Kills(c) \/ HearsAbort(c)
  PROVE  Commands'
<1> DEFINE e == exec[c]
           termed == [e EXCEPT !.timer = "termed"]
           heard == [e EXCEPT !.cut = "heard"]
<1>1. Sound(e) /\ e \in ExecType /\ e.shell = "running" /\ e.req # "none"
  BY DEF Commands, TimesOut, Kills, HearsAbort, Sound, NoExec
<1>2. \/ \E d \in Dead(e) : exec' = [exec EXCEPT ![c] = d]
      \/ exec' = [exec EXCEPT ![c] = termed]
      \/ e.cut = "cut" /\ exec' = [exec EXCEPT ![c] = heard]
  BY DEF TimesOut, Kills, HearsAbort
<1>3. \A d \in Dead(e) : Sound(d)
  BY <1>1, DeadSound
<1>4. Sound(termed)
  <2>1. /\ termed \in ExecType /\ termed.req = e.req /\ termed.wire = e.wire
        /\ termed.got = e.got /\ termed.exit = e.exit /\ termed.cut = e.cut
        /\ termed.shell = e.shell /\ termed.kids = e.kids /\ termed.made = e.made
        /\ termed.pipe = e.pipe
    BY <1>1 DEF ExecType
  <2> HIDE DEF termed
  <2>2. QED
    BY <1>1, <2>1, SoundKept
<1>5. ASSUME e.cut = "cut" PROVE Sound(heard)
  <2>1. /\ heard \in ExecType /\ heard.req = e.req /\ heard.wire = e.wire
        /\ heard.got = e.got /\ heard.exit = e.exit /\ heard.cut = "heard"
        /\ heard.shell = e.shell /\ heard.kids = e.kids /\ heard.made = e.made
        /\ heard.pipe = e.pipe
    BY <1>1 DEF ExecType
  <2> HIDE DEF heard
  <2>2. QED
    BY <1>1, <1>5, <2>1, SoundKept
<1>6. QED
  BY <1>2, <1>3, <1>4, <1>5, OneCommand

LEMMA ReceivesSound ==
  ASSUME Commands, NEW c \in Cmd, Receives(c)
  PROVE  Commands'
<1> DEFINE e == exec[c]
           f == Head(e.wire)
           w == Tail(e.wire)
           g == IF f = "out" THEN e.got + 1 ELSE e.got
           q == IF f = "exit" THEN "returned" ELSE e.req
           d == [e EXCEPT !.wire = w, !.got = g, !.exit = @ \/ f = "exit", !.req = q]
<1>1. Sound(e) /\ e \in ExecType /\ e.wire \in Seq({"out", "exit"})
  BY DEF Commands, ExecType
<1>2. /\ e.req = "open" /\ e.wire # <<>> /\ e.cut = "no" /\ ~e.exit
      /\ e.pipe \in Nat /\ e.made \in Nat /\ e.got \in Nat
  BY <1>1 DEF Receives, Sound, ExecType
<1>3. /\ Len(e.wire) \in Nat /\ Len(e.wire) > 0 /\ f = e.wire[1] /\ f \in {"out", "exit"}
      /\ w \in Seq({"out", "exit"}) /\ Len(w) = Len(e.wire) - 1
      /\ \A i \in 1 .. Len(w) : w[i] = e.wire[i + 1]
      /\ Len(e.wire) # 1 => w[Len(e.wire) - 1] = e.wire[Len(e.wire)]
      /\ Len(e.wire) = 1 => e.wire[Len(e.wire)] = f
      /\ (\A i \in 1 .. Len(e.wire) : i # Len(e.wire) => e.wire[i] = "out") /\ f = "exit"
           => Len(e.wire) = 1
  BY <1>1, <1>2, TailWire
<1>4. exec' = [exec EXCEPT ![c] = d]
  BY DEF Receives, Commands
<1>5. g \in Nat /\ q \in {"open", "returned"}
  BY <1>2
<1> HIDE DEF f, w, g, q
<1>6. /\ d \in ExecType /\ d.req = q /\ d.wire = w /\ d.got = g /\ (d.exit <=> f = "exit")
      /\ d.cut = e.cut /\ d.shell = e.shell /\ d.kids = e.kids /\ d.made = e.made
      /\ d.pipe = e.pipe
  BY <1>1, <1>2, <1>3, <1>5 DEF ExecType
<1> HIDE DEF d
<1>7. e.made = e.pipe + Outs(e) + e.got /\ (e.shell \in {"due", "closed"} => e.pipe = 0 /\ ~e.kids)
  BY <1>1, <1>2 DEF Sound
<1>s. \A i \in 1 .. Len(e.wire) : i # Len(e.wire) => e.wire[i] = "out"
  BY <1>1 DEF Sound
<1>8. \A i \in 1 .. Len(w) : i # Len(w) => w[i] = "out"
  BY <1>3, <1>s
<1>9. CASE f = "exit"
  <2>1. Len(e.wire) = 1
    BY <1>3, <1>9, <1>s
  <2>e. Ends(e)
    BY <1>3, <1>9, <2>1 DEF Ends
  <2>2. Outs(e) = 0 /\ Len(w) = 0 /\ e.shell = "closed"
    BY <1>1, <1>3, <2>1, <2>e DEF Outs, Sound
  <2>3. w = <<>> /\ ~Ends(d) /\ Outs(d) = 0
    BY <1>3, <1>6, <2>2, EmptySeq DEF Ends, Outs
  <2>4. d.made = d.pipe + Outs(d) + d.got
    BY <1>2, <1>6, <1>7, <1>9, <2>2, <2>3 DEF g
  <2>5. d.req = "returned"
    BY <1>6, <1>9 DEF q
  <2>6. QED
    BY <1>2, <1>4, <1>6, <1>7, <1>8, <2>2, <2>3, <2>4, <2>5, OneCommand DEF Sound
<1>10. CASE f = "out"
  <2>n. Len(d.wire) = Len(e.wire) - 1
    BY <1>3, <1>6
  <2>e. Ends(d) <=> Ends(e)
    <3>1. CASE Len(e.wire) = 1
      BY <1>3, <1>10, <2>n, <3>1 DEF Ends
    <3>2. CASE Len(e.wire) # 1
      <4>1. d.wire[Len(d.wire)] = e.wire[Len(e.wire)]
        BY <1>3, <1>6, <2>n, <3>2
      <4>2. QED
        BY <1>3, <2>n, <3>2, <4>1 DEF Ends
    <3>3. QED
      BY <3>1, <3>2
  <2>1. Outs(d) = Outs(e) - 1
    BY <1>3, <2>n, <2>e DEF Outs
  <2>2. Outs(e) \in Int
    BY <1>3 DEF Outs
  <2>g. d.got = e.got + 1
    BY <1>6, <1>10 DEF g
  <2>3. d.made = d.pipe + Outs(d) + d.got
    BY <1>2, <1>6, <1>7, <2>1, <2>2, <2>g
  <2>4. d.req = "open" /\ ~d.exit
    BY <1>2, <1>6, <1>10 DEF q
  <2>5. Ends(d) => d.shell = "closed"
    BY <1>1, <1>6, <2>e DEF Sound
  <2>6. Sound(d)
    BY <1>2, <1>6, <1>7, <1>8, <2>3, <2>4, <2>5 DEF Sound
  <2>7. QED
    BY <1>4, <2>6, OneCommand
<1>11. QED
  BY <1>3, <1>9, <1>10

\* What a turn does to its commands.
LEMMA CommandsStep ==
  ASSUME Commands, [Next]_vars
  PROVE  Commands'
<1>0. \A t \in Run : Boot(t) \in Cmd /\ Own(t) \in Cmd
  BY SdkTurnAssumption DEF Boot, Own
<1>1. \/ \E c \in Cmd : Requests(c) \/ Aborts(c) \/ Breaks(c) \/ ExecStep(c) \/ ProcessStep(c)
      \/ UNCHANGED exec
  BY <1>0
  DEF Next, vars, Calls, Tells, Prepares, Prepared, Invokes, Invoked, ToolAborts, Connection,
      Shell, Answers, Concludes, SdkEnds, Consumes, LoopEnds, WorksOff, Saves, Stop, ConsumerKeeps
<1>2. QED
  BY <1>1, RequestsSound, SpawnsSound, CutSound, ReadsSound, ClosesSound, TimersSound,
     ReceivesSound, ProcessSound DEF Commands, ExecStep

\* A command that returns with an exit code has returned all of its output, whoever
\* kept its pipes open (sandbox/server/server.ts:127, on('close')).
THEOREM OutputIsWhole == Spec => []OutputWhole
<1>1. Init => Commands
  BY NoExecSound DEF Init, ExecInit, Commands, Sound
<1>2. Commands => OutputWhole
  <2> SUFFICES ASSUME Commands, NEW c \in Cmd, exec[c].exit PROVE exec[c].got = exec[c].made
    BY DEF OutputWhole
  <2>1. Sound(exec[c]) /\ Len(exec[c].wire) = 0
    BY DEF Commands, Sound
  <2>2. QED
    BY <2>1 DEF Sound, Ends, Outs, ExecType
<1>3. QED
  BY <1>1, <1>2, CommandsStep, PTL DEF Spec

-----------------------------------------------------------------------------
(* What the consumer has in hand.                                          *)

Frame == ({"use"} \X Tool) \cup ({"result"} \X Tool \X {"complete", "error"})
           \cup {<<"success">>, <<"failure">>}

RowState == {"none", "in_progress", "complete", "error"}
CallOf ==
  {<<"plan">>, <<"forget">>, <<"fin">>} \cup ({"row"} \X Tool \X RowState)
    \cup ({"body"} \X {"reply", "error", "stopped"})
    \cup ({"rec"} \X {"call", "result", "reply"} \X (Tool \cup {None}))

Slacks == {c \in CallOf : c[1] \in {"plan", "row", "body"}}
Rows(t, states) == {c \in CallOf : c[1] = "row" /\ c[2] = t /\ c[3] \in states}
Bodies == {c \in CallOf : c[1] = "body"}
Replies == {c \in CallOf : c[1] = "body" /\ c[2] = "reply"}
ReplyRecords == {c \in CallOf : c[1] = "rec" /\ c[2] = "reply" /\ c[3] = None}
Forgets == {c \in CallOf : c[1] = "forget"}
Fins == {c \in CallOf : c[1] = "fin"}

ToolState == {"none", "prep", "boot", "ready", "exec", "ok", "error", "told"}

TurnType ==
  /\ frames \in Seq(Frame) /\ todo \in Seq(CallOf)
  /\ active \in Tool \cup {None}
  /\ rows \in [Tool -> RowState]
  /\ tool \in [Tool -> ToolState]
  /\ src \in {"live", "result", "ended", "threw"} /\ mode \in {"loop", "catch", "ended"}

\* A call of B in s has one of A before it; s contains one of A.
Behind(s, A, B) == \A i \in 1 .. Len(s) : s[i] \in B => \E j \in 1 .. i - 1 : s[j] \in A
Has(s, A) == \E i \in 1 .. Len(s) : s[i] \in A

LEMMA TailFacts ==
  ASSUME NEW S, NEW s \in Seq(S), s # <<>>
  PROVE  /\ Len(s) \in Nat /\ Len(s) > 0 /\ Head(s) = s[1] /\ Head(s) \in S
         /\ Tail(s) \in Seq(S) /\ Len(Tail(s)) = Len(s) - 1
         /\ \A i \in 1 .. Len(Tail(s)) : Tail(s)[i] = s[i + 1]
         /\ Tail(s) = <<>> <=> Len(s) = 1
<1>1. /\ Len(s) \in Nat /\ Len(s) > 0 /\ Head(s) = s[1]
      /\ Tail(s) \in Seq(S) /\ Len(Tail(s)) = Len(s) - 1
      /\ \A i \in 1 .. Len(Tail(s)) : Tail(s)[i] = s[i + 1]
  BY EmptySeq, HeadTailProperties
<1>2. Head(s) \in S
  BY <1>1, ElementOfSeq
<1>3. ASSUME Tail(s) = <<>> PROVE Len(s) = 1
  <2>1. Len(<<>>) = 0
    OBVIOUS
  <2>2. Len(s) - 1 = 0
    BY <1>1, <1>3, <2>1, Zenon
  <2>3. \A n \in Nat : n - 1 = 0 => n = 1
    OBVIOUS
  <2>4. QED
    BY <1>1, <2>2, <2>3, Zenon
<1>4. ASSUME Len(s) = 1 PROVE Tail(s) = <<>>
  <2>1. Len(Tail(s)) = 0
    BY <1>1, <1>4
  <2>2. QED
    BY <1>1, <2>1, EmptySeq
<1>5. QED
  BY <1>1, <1>2, <1>3, <1>4

LEMMA BehindTail ==
  ASSUME NEW S, NEW s \in Seq(S), s # <<>>, NEW A, NEW B, Behind(s, A, B)
  PROVE  Head(s) \notin B /\ (Head(s) \notin A => Behind(Tail(s), A, B))
<1>1. Head(s) \notin B
  <2>1. 1 \in 1 .. Len(s) /\ 1 .. 1 - 1 = {}
    BY TailFacts
  <2>2. s[1] \notin B
    BY <2>1, Zenon DEF Behind
  <2>3. QED
    BY <2>2, TailFacts
<1>2. ASSUME Head(s) \notin A PROVE Behind(Tail(s), A, B)
  <2> SUFFICES ASSUME NEW i \in 1 .. Len(Tail(s)), Tail(s)[i] \in B
               PROVE  \E j \in 1 .. i - 1 : Tail(s)[j] \in A
    BY DEF Behind
  <2>1. i \in Nat /\ i + 1 \in 1 .. Len(s) /\ s[i + 1] \in B
    BY TailFacts
  <2>2. PICK j \in 1 .. (i + 1) - 1 : s[j] \in A
    BY <2>1 DEF Behind
  <2>3. j # 1
    BY <1>2, <2>2, TailFacts
  <2>4. j - 1 \in 1 .. i - 1 /\ j - 1 \in 1 .. Len(Tail(s)) /\ (j - 1) + 1 = j
    BY <2>1, <2>2, <2>3, TailFacts
  <2>5. Tail(s)[j - 1] \in A
    BY <2>2, <2>4, TailFacts
  <2>6. QED
    BY <2>4, <2>5
<1>3. QED
  BY <1>1, <1>2

LEMMA HasTail ==
  ASSUME NEW S, NEW s \in Seq(S), s # <<>>, NEW A
  PROVE  Has(s, A) <=> Head(s) \in A \/ Has(Tail(s), A)
<1>1. ASSUME NEW i \in 1 .. Len(s), s[i] \in A PROVE Head(s) \in A \/ Has(Tail(s), A)
  <2>1. CASE i = 1
    BY <1>1, <2>1, TailFacts
  <2>2. CASE i # 1
    <3>1. i - 1 \in 1 .. Len(Tail(s)) /\ (i - 1) + 1 = i
      BY <2>2, TailFacts
    <3>2. Tail(s)[i - 1] \in A
      BY <1>1, <3>1, TailFacts
    <3>3. QED
      BY <3>1, <3>2 DEF Has
  <2>3. QED
    BY <2>1, <2>2
<1>2. ASSUME Head(s) \in A PROVE Has(s, A)
  <2>1. 1 \in 1 .. Len(s) /\ s[1] \in A
    BY <1>2, TailFacts
  <2>2. QED
    BY <2>1 DEF Has
<1>3. ASSUME NEW i \in 1 .. Len(Tail(s)), Tail(s)[i] \in A PROVE Has(s, A)
  <2>1. i + 1 \in 1 .. Len(s) /\ s[i + 1] \in A
    BY <1>3, TailFacts
  <2>2. QED
    BY <2>1 DEF Has
<1>4. QED
  BY <1>1, <1>2, <1>3 DEF Has

\* finalize is the last call of a list, if it is in it.
Closed(s) == \A i \in 1 .. Len(s) : s[i] \in Fins => i = Len(s)
EndsInFin(s) == Len(s) > 0 /\ s[Len(s)] \in Fins

LEMMA ClosedTail ==
  ASSUME NEW s \in Seq(CallOf), s # <<>>, Closed(s)
  PROVE  /\ Closed(Tail(s))
         /\ Head(s) \in Fins => Tail(s) = <<>>
         /\ EndsInFin(s) /\ Tail(s) = <<>> => Head(s) \in Fins
         /\ EndsInFin(s) /\ Tail(s) # <<>> => EndsInFin(Tail(s))
<1>1. Closed(Tail(s))
  <2> SUFFICES ASSUME NEW i \in 1 .. Len(Tail(s)), Tail(s)[i] \in Fins PROVE i = Len(Tail(s))
    BY DEF Closed
  <2>1. i + 1 \in 1 .. Len(s) /\ s[i + 1] \in Fins
    BY TailFacts
  <2>2. i + 1 = Len(s)
    BY <2>1 DEF Closed
  <2>3. QED
    BY <2>2, TailFacts
<1>2. ASSUME Head(s) \in Fins PROVE Tail(s) = <<>>
  <2>1. 1 \in 1 .. Len(s) /\ s[1] \in Fins
    BY <1>2, TailFacts
  <2>2. Len(s) = 1
    BY <2>1 DEF Closed
  <2>3. QED
    BY <2>2, TailFacts
<1>3. ASSUME EndsInFin(s), Tail(s) = <<>> PROVE Head(s) \in Fins
  <2>1. Len(s) = 1
    BY <1>3, TailFacts
  <2>2. s[1] \in Fins
    BY <1>3, <2>1, Zenon DEF EndsInFin
  <2>3. QED
    BY <2>2, TailFacts
<1>4. ASSUME EndsInFin(s), Tail(s) # <<>> PROVE EndsInFin(Tail(s))
  <2>1. Len(Tail(s)) > 0
    BY <1>4, TailFacts
  <2>2. Len(Tail(s)) \in 1 .. Len(Tail(s)) /\ Len(Tail(s)) + 1 = Len(s)
    BY <2>1, TailFacts
  <2>3. Tail(s)[Len(Tail(s))] = s[Len(s)]
    BY <2>2, TailFacts
  <2>4. QED
    BY <1>4, <2>1, <2>3 DEF EndsInFin
<1>5. QED
  BY <1>1, <1>2, <1>3, <1>4
-----------------------------------------------------------------------------
(* The lists of calls the consumer draws up.                               *)

NoRowStarts(L) == \A t \in Tool : ~Has(L, Rows(t, {"in_progress"}))

\* How a frame that ends the turn, or an exception, is worked off.
Final(L) ==
  /\ L \in Seq(CallOf) /\ Closed(L) /\ EndsInFin(L)
  /\ Behind(L, Bodies, Fins) /\ Behind(L, Slacks, Fins) /\ Has(L, Bodies)
  /\ ~Has(L, Forgets) /\ NoRowStarts(L)

LEMMA FlipFinal ==
  ASSUME active \in Tool \cup {None}, NEW b \in Bodies, b \notin Replies, NEW f \in Fins
  PROVE  /\ Final(FlipActive \o <<b, f>>)
         /\ ~Has(FlipActive \o <<b, f>>, Replies)
         /\ active # None => Has(FlipActive \o <<b, f>>, Rows(active, {"error"}))
<1> DEFINE L == FlipActive \o <<b, f>>
<1>1. /\ b \in CallOf /\ b[1] = "body" /\ b[2] # "reply" /\ f \in CallOf /\ f[1] = "fin"
      /\ b \in Slacks
  BY DEF Bodies, Fins, Replies, Slacks
<1>2. CASE active = None
  <2>1. L = <<b, f>>
    BY <1>2 DEF FlipActive
  <2> HIDE DEF L
  <2>2. L \in Seq(CallOf) /\ Len(L) = 2 /\ L[1] = b /\ L[2] = f
    BY <1>1, <2>1
  <2>3. Closed(L) /\ EndsInFin(L)
    BY <1>1, <2>2 DEF Closed, EndsInFin, Fins
  <2>4. Behind(L, Bodies, Fins) /\ Behind(L, Slacks, Fins) /\ Has(L, Bodies)
    BY <1>1, <2>2 DEF Behind, Has, Fins
  <2>5. ~Has(L, Forgets) /\ NoRowStarts(L) /\ ~Has(L, Replies)
    BY <1>1, <2>2 DEF Has, NoRowStarts, Forgets, Rows, Replies
  <2>6. QED
    BY <1>2, <2>2, <2>3, <2>4, <2>5 DEF Final, L
<1>3. CASE active # None
  <2> DEFINE r == Row(active, "error")
  <2>1. r \in CallOf /\ r[1] = "row" /\ r[2] = active /\ r[3] = "error"
    BY <1>3 DEF Row, CallOf, RowState
  <2>2. L = <<r>> \o <<b, f>>
    BY <1>3 DEF FlipActive
  <2> HIDE DEF r
  <2>3. /\ <<r>> \in Seq(CallOf) /\ Len(<<r>>) = 1 /\ <<r>>[1] = r
        /\ <<b, f>> \in Seq(CallOf) /\ Len(<<b, f>>) = 2 /\ <<b, f>>[1] = b /\ <<b, f>>[2] = f
    BY <1>1, <2>1
  <2> HIDE DEF L
  <2>4. L \in Seq(CallOf) /\ Len(L) = 3 /\ L[1] = r /\ L[2] = b /\ L[3] = f
    BY <2>2, <2>3, ConcatProperties
  <2>5. Closed(L) /\ EndsInFin(L)
    BY <1>1, <2>1, <2>4 DEF Closed, EndsInFin, Fins
  <2>6. Behind(L, Bodies, Fins) /\ Behind(L, Slacks, Fins) /\ Has(L, Bodies)
    BY <1>1, <2>1, <2>4 DEF Behind, Has, Fins
  <2>7. ~Has(L, Forgets) /\ NoRowStarts(L) /\ ~Has(L, Replies)
    BY <1>1, <2>1, <2>4 DEF Has, NoRowStarts, Forgets, Rows, Replies
  <2>8. Has(L, Rows(active, {"error"}))
    BY <2>1, <2>4 DEF Has, Rows
  <2>9. QED
    BY <2>4, <2>5, <2>6, <2>7, <2>8 DEF Final, L
<1>4. QED
  BY <1>2, <1>3

LEMMA FinalCalls ==
  /\ <<"fin">> \in Fins
  /\ \A w \in {"error", "stopped"} : <<"body", w>> \in Bodies \ Replies
BY DEF Fins, Bodies, Replies, CallOf

LEMMA RescueList ==
  ASSUME TurnType
  PROVE  /\ Final(Rescue) /\ ~Has(Rescue, Replies)
         /\ active # None => Has(Rescue, Rows(active, {"error"}))
<1>1. PICK w \in {"error", "stopped"} : Rescue = FlipActive \o <<<<"body", w>>, <<"fin">>>>
  BY DEF Rescue
<1>2. QED
  BY <1>1, FinalCalls, FlipFinal DEF TurnType

LEMMA FailureList ==
  ASSUME TurnType, NEW f, f[1] = "failure"
  PROVE  Final(Work(f)) /\ ~Has(Work(f), Replies)
<1>1. Work(f) = FlipActive \o <<<<"body", "error">>, <<"fin">>>>
  BY DEF Work
<1>2. QED
  BY <1>1, FinalCalls, FlipFinal DEF TurnType

LEMMA SuccessList ==
  ASSUME NEW f, f[1] = "success"
  PROVE  /\ Final(Work(f))
         /\ Behind(Work(f), ReplyRecords, Replies)
<1> DEFINE L == Work(f)
           r == <<"rec", "reply", None>>
           b == <<"body", "reply">>
           e == <<"fin">>
<1>1. /\ r \in ReplyRecords /\ r \in CallOf /\ r[1] = "rec"
      /\ b \in Bodies /\ b \in CallOf /\ b[1] = "body" /\ b \in Slacks
      /\ e \in Fins /\ e \in CallOf /\ e[1] = "fin"
  BY DEF CallOf, ReplyRecords, Bodies, Fins, Slacks
<1>2. L = <<r, b, e>>
  BY DEF Work
<1> HIDE DEF L, r, b, e
<1>3. L \in Seq(CallOf) /\ Len(L) = 3 /\ L[1] = r /\ L[2] = b /\ L[3] = e
  BY <1>1, <1>2
<1>4. Closed(L) /\ EndsInFin(L)
  BY <1>1, <1>3 DEF Closed, EndsInFin, Fins
<1>5. Behind(L, Bodies, Fins) /\ Behind(L, Slacks, Fins) /\ Has(L, Bodies)
  BY <1>1, <1>3 DEF Behind, Has, Fins
<1>6. ~Has(L, Forgets) /\ NoRowStarts(L)
  BY <1>1, <1>3 DEF Has, NoRowStarts, Forgets, Rows
<1>7. Behind(L, ReplyRecords, Replies)
  BY <1>1, <1>3 DEF Behind, Replies
<1>8. QED
  BY <1>3, <1>4, <1>5, <1>6, <1>7 DEF Final, L

\* A list that does not end the turn.
Plain(L) ==
  /\ L \in Seq(CallOf) /\ Closed(L)
  /\ ~Has(L, Fins) /\ ~Has(L, Bodies) /\ ~Has(L, Replies)

LEMMA UseList ==
  ASSUME NEW f \in Frame, f[1] = "use"
  PROVE  /\ Plain(Work(f)) /\ ~Has(Work(f), Forgets) /\ f[2] \in Tool
         /\ \A t \in Tool : Has(Work(f), Rows(t, {"in_progress"})) => t = f[2]
<1> DEFINE L == Work(f)
           p == <<"plan">>
           r == Row(f[2], "in_progress")
           c == <<"rec", "call", f[2]>>
<1>0. f[2] \in Tool
  BY DEF Frame
<1>1. /\ p \in CallOf /\ p[1] = "plan" /\ c \in CallOf /\ c[1] = "rec"
      /\ r \in CallOf /\ r[1] = "row" /\ r[2] = f[2]
  BY <1>0 DEF CallOf, Row, RowState
<1>2. L = <<p, r, c>>
  BY DEF Work
<1> HIDE DEF L, p, r, c
<1>3. L \in Seq(CallOf) /\ Len(L) = 3 /\ L[1] = p /\ L[2] = r /\ L[3] = c
  BY <1>1, <1>2
<1>4. ~Has(L, Fins) /\ ~Has(L, Bodies) /\ ~Has(L, Replies) /\ ~Has(L, Forgets)
  BY <1>1, <1>3 DEF Has, Fins, Bodies, Replies, Forgets
<1>5. Closed(L)
  BY <1>4 DEF Closed, Has
<1>6. \A t \in Tool : Has(L, Rows(t, {"in_progress"})) => t = f[2]
  BY <1>1, <1>3 DEF Has, Rows
<1>7. QED
  BY <1>0, <1>3, <1>4, <1>5, <1>6 DEF Plain, L

LEMMA ResultList ==
  ASSUME NEW f \in Frame, f[1] = "result"
  PROVE  /\ Plain(Work(f)) /\ f[2] \in Tool /\ NoRowStarts(Work(f))
         /\ Has(Work(f), Forgets)
         /\ Behind(Work(f), Rows(f[2], {"complete", "error"}), Forgets)
<1> DEFINE L == Work(f)
           r == Row(f[2], f[3])
           g == <<"forget">>
           c == <<"rec", "result", f[2]>>
<1>0. f[2] \in Tool /\ f[3] \in {"complete", "error"}
  BY DEF Frame
<1>1. /\ g \in CallOf /\ g[1] = "forget" /\ c \in CallOf /\ c[1] = "rec"
      /\ r \in CallOf /\ r[1] = "row" /\ r[2] = f[2] /\ r[3] \in {"complete", "error"}
  BY <1>0 DEF CallOf, Row, RowState
<1>2. L = <<r, g, c>>
  BY DEF Work
<1> HIDE DEF L, r, g, c
<1>3. L \in Seq(CallOf) /\ Len(L) = 3 /\ L[1] = r /\ L[2] = g /\ L[3] = c
  BY <1>1, <1>2
<1>4. ~Has(L, Fins) /\ ~Has(L, Bodies) /\ ~Has(L, Replies) /\ NoRowStarts(L)
  BY <1>1, <1>3 DEF Has, NoRowStarts, Rows, Fins, Bodies, Replies
<1>5. Closed(L)
  BY <1>4 DEF Closed, Has
<1>6. Has(L, Forgets)
  BY <1>1, <1>3 DEF Has, Forgets
<1>7. Behind(L, Rows(f[2], {"complete", "error"}), Forgets)
  BY <1>1, <1>3 DEF Behind, Rows, Forgets
<1>8. QED
  BY <1>0, <1>3, <1>4, <1>5, <1>6, <1>7 DEF Plain, L
-----------------------------------------------------------------------------
(* The steps of a turn, as the consumer sees them.                         *)

\* What the SDK, the tools and /stop leave alone; the SDK alone adds to the stream.
Held ==
  /\ UNCHANGED <<mode, todo, active, opened, finalized, msg, rows, body, log>>
  /\ marred \subseteq marred'
  /\ (\E t \in Tool : Calls(t) \/ Tells(t)) \/ Concludes \/ SdkEnds \/ UNCHANGED <<frames, src>>

LEMMA Kinds ==
  ASSUME [Next]_vars
  PROVE  Consumes \/ LoopEnds \/ WorksOff \/ Saves \/ Held
BY DEF Next, vars, Held, Calls, Tells, Prepares, Prepared, Invokes, Invoked, ToolAborts,
       Connection, Shell, Answers, Concludes, SdkEnds, Stop, SdkKeeps, HandlerKeeps, consumer, display, Mar

\* A call is made, or rejects and sends the consumer to its catch block.
LEMMA CallEnds ==
  ASSUME TurnType, WorksOff
  PROVE  /\ todo # <<>> /\ Head(todo) \in CallOf
         /\ marred \subseteq marred' /\ UNCHANGED <<frames, src, tool>>
         /\ active' = active \/ Head(todo)[1] = "forget"
         /\ \/ mode' = mode /\ todo' = Tail(todo)
            \/ /\ mode' = "catch" /\ todo' = Rescue
               /\ Head(todo)[1] = "rec" \/ "lost" \in marred'
               /\ UNCHANGED <<active, opened, finalized, rows, body, log>>
<1>1. todo # <<>> /\ Head(todo) \in CallOf
  BY TailFacts DEF TurnType, WorksOff
<1>2. QED
  BY <1>1
  DEF WorksOff, SlackCall, RecordCall, Forget, Finalize, Rejects, Goes, Mar, ConsumerKeeps, display

\* What a call does to the active row and to the message as a whole.
LEMMA CallEffect ==
  ASSUME TurnType, WorksOff
  PROVE  /\ Head(todo) \in Fins => finalized'
         /\ Head(todo) \notin Fins => finalized' = finalized
         /\ todo' = Tail(todo) /\ Head(todo) \in Forgets => active' = None
         /\ Head(todo) \notin Forgets => active' = active
<1>1. Head(todo) \in CallOf
  BY CallEnds
<1>2. QED
  BY <1>1 DEF WorksOff, SlackCall, RecordCall, Forget, Finalize, Fins, Forgets

LEMMA WorkLists ==
  ASSUME TurnType, NEW f \in Frame
  PROVE  /\ f[1] \in {"use", "result", "success", "failure"}
         /\ f[1] \in {"use", "result"} => Plain(Work(f))
         /\ f[1] \in {"success", "failure"} => Final(Work(f))
         /\ Work(f) \in Seq(CallOf) /\ Closed(Work(f))
         /\ Behind(Work(f), ReplyRecords, Replies)
         /\ Behind(Work(f), Bodies, Fins) /\ Behind(Work(f), Slacks, Fins)
<1>1. f[1] \in {"use", "result", "success", "failure"}
  BY DEF Frame
<1>2. f[1] \in {"use", "result"} => Plain(Work(f))
  BY UseList, ResultList
<1>3. f[1] \in {"success", "failure"} => Final(Work(f))
  BY SuccessList, FailureList
<1>4. f[1] # "success" => ~Has(Work(f), Replies)
  BY <1>1, <1>2, FailureList DEF Plain
<1>5. Behind(Work(f), ReplyRecords, Replies)
  BY <1>4, SuccessList DEF Behind, Has
<1>6. Behind(Work(f), Bodies, Fins) /\ Behind(Work(f), Slacks, Fins)
  BY <1>1, <1>2, <1>3 DEF Final, Plain, Behind, Has
<1>7. QED
  BY <1>1, <1>2, <1>3, <1>5, <1>6 DEF Final, Plain

LEMMA LastFinalize ==
  /\ <<<<"fin">>>> \in Seq(CallOf) /\ Len(<<<<"fin">>>>) = 1
  /\ Closed(<<<<"fin">>>>) /\ EndsInFin(<<<<"fin">>>>)
  /\ ~Has(<<<<"fin">>>>, Replies) /\ ~Has(<<<<"fin">>>>, Bodies) /\ ~Has(<<<<"fin">>>>, Forgets)
  /\ NoRowStarts(<<<<"fin">>>>)
<1> DEFINE g == <<"fin">>
           L == <<g>>
<1>1. g \in CallOf /\ g[1] = "fin"
  BY DEF CallOf
<1> HIDE DEF g
<1>2. L \in Seq(CallOf) /\ Len(L) = 1 /\ L[1] = g
  BY <1>1
<1> HIDE DEF L
<1>3. Closed(L) /\ EndsInFin(L)
  BY <1>1, <1>2 DEF Closed, EndsInFin, Fins
<1>4. ~Has(L, Replies) /\ ~Has(L, Bodies) /\ ~Has(L, Forgets) /\ NoRowStarts(L)
  BY <1>1, <1>2 DEF Has, NoRowStarts, Rows, Replies, Bodies, Forgets
<1>5. QED
  BY <1>2, <1>3, <1>4 DEF L, g

LEMMA FramesType ==
  ASSUME TurnType, [Next]_vars
  PROVE  frames' \in Seq(Frame)
<1>0. frames \in Seq(Frame) /\ <<>> \in Seq(Frame) /\ tool \in [Tool -> ToolState]
  BY DEF TurnType
<1>1. /\ \A t \in Tool : <<"use", t>> \in Frame /\ <<"result", t, "complete">> \in Frame
           /\ <<"result", t, "error">> \in Frame
      /\ <<"success">> \in Frame /\ <<"failure">> \in Frame
  BY DEF Frame
<1>2. \A f \in Frame : Append(frames, f) \in Seq(Frame)
  BY <1>0
<1>3. \/ \E f \in Frame : frames' = Append(frames, f)
      \/ frames' \in {frames, <<>>}
      \/ frames # <<>> /\ frames' = Tail(frames)
  <2>1. ASSUME NEW t \in Tool, Calls(t) PROVE frames' = Append(frames, <<"use", t>>)
    BY <2>1 DEF Calls
  <2>2. ASSUME NEW t \in Tool, Tells(t)
        PROVE  \E how \in {"complete", "error"} : frames' = Append(frames, <<"result", t, how>>)
    BY <2>2 DEF Tells
  <2>3. ASSUME Concludes
        PROVE  \E how \in {"success", "failure"} : frames' = Append(frames, <<how>>)
    BY <2>3 DEF Concludes
  <2>4. CASE SdkEnds
    BY <2>4 DEF SdkEnds
  <2>5. CASE Consumes
    BY <2>5 DEF Consumes
  <2>6. \/ \E t \in Tool : Calls(t) \/ Tells(t)
        \/ Concludes \/ SdkEnds \/ Consumes \/ frames' = frames
    BY DEF Next, vars, Prepares, Prepared, Invokes, Invoked, ToolAborts, Connection, Shell,
           Answers, HandlerKeeps, LoopEnds, WorksOff, Saves, Stop
  <2>7. QED
    BY <1>1, <2>1, <2>2, <2>3, <2>4, <2>5, <2>6
<1>4. QED
  BY <1>0, <1>2, <1>3, TailFacts

LEMMA TodoType ==
  ASSUME TurnType, [Next]_vars
  PROVE  todo' \in Seq(CallOf) /\ active' \in Tool \cup {None} /\ mode' \in {"loop", "catch", "ended"}
<1>1. CASE Consumes
  <2> DEFINE f == Head(frames)
  <2>1. f \in Frame /\ mode' = mode /\ todo' = Work(f)
        /\ active' = IF f[1] = "use" THEN f[2] ELSE active
    BY <1>1, TailFacts DEF Consumes, TurnType
  <2>2. f[1] = "use" => f[2] \in Tool
    BY <2>1, UseList
  <2> HIDE DEF f
  <2>3. Work(f) \in Seq(CallOf)
    BY <2>1, WorkLists
  <2>4. QED
    BY <2>1, <2>2, <2>3 DEF TurnType
<1>2. CASE LoopEnds
  BY <1>2, RescueList, LastFinalize DEF LoopEnds, TurnType, Final
<1>3. CASE WorksOff
  <2>1. todo' = Tail(todo) \/ todo' = Rescue
    BY <1>3, CallEnds
  <2>2. todo # <<>> => Tail(todo) \in Seq(CallOf)
    BY TailFacts DEF TurnType
  <2>3. active' \in {active, None}
    BY <1>3 DEF WorksOff, SlackCall, RecordCall, Forget, Finalize
  <2>4. mode' \in {mode, "catch"}
    BY <1>3, CallEnds
  <2>5. QED
    BY <1>3, <2>1, <2>2, <2>3, <2>4, RescueList DEF WorksOff, TurnType, Final
<1>4. CASE Saves
  BY <1>4 DEF Saves, TurnType
<1>5. CASE Held
  BY <1>5 DEF Held, TurnType
<1>6. QED
  BY <1>1, <1>2, <1>3, <1>4, <1>5, Kinds

LEMMA RowsType ==
  ASSUME TurnType, [Next]_vars
  PROVE  rows' \in [Tool -> RowState]
<1>0. rows \in [Tool -> RowState]
  BY DEF TurnType
<1>1. CASE WorksOff
  <2> DEFINE call == Head(todo)
  <2>1. call \in CallOf
    BY <1>1, CallEnds
  <2>2. call[1] = "row" => call[2] \in Tool /\ call[3] \in RowState
    BY <2>1 DEF CallOf
  <2>3. rows' = rows \/ (call[1] = "row" /\ rows' = [rows EXCEPT ![call[2]] = call[3]])
    BY <1>1 DEF WorksOff, SlackCall, RecordCall, Forget, Finalize, Shows, display
  <2> HIDE DEF call
  <2>4. QED
    BY <1>0, <2>2, <2>3
<1>2. rows' = rows \/ WorksOff
  BY Kinds DEF Held, Consumes, LoopEnds, Saves, display
<1>3. QED
  BY <1>0, <1>1, <1>2

\* What the handler of a call does to it.
Handled(t) ==
  /\ tool[t] \in {"prep", "boot", "ready", "exec"}
  /\ \E s \in {"boot", "ready", "exec", "ok", "error"} : tool' = [tool EXCEPT ![t] = s]

LEMMA ToolStep ==
  ASSUME [Next]_vars
  PROVE  UNCHANGED tool \/ \E t \in Tool : Calls(t) \/ Tells(t) \/ Handled(t)
<1>1. ASSUME NEW t \in Run
      PROVE  t \in Tool /\ (Prepares(t) \/ Prepared(t) \/ Invokes(t) \/ Answers(t) => Handled(t))
  BY SdkTurnAssumption DEF Prepares, Prepared, Invokes, Answers, Handled
<1>2. \A t \in Tool : Invoked(t) => Handled(t)
  BY DEF Invoked, Handled
<1>3. \/ UNCHANGED tool
      \/ \E t \in Tool : Calls(t) \/ Tells(t) \/ Invoked(t)
      \/ \E t \in Run : Prepares(t) \/ Prepared(t) \/ Invokes(t) \/ Answers(t)
  BY DEF Next, vars, ToolAborts, Connection, Shell, Concludes, SdkEnds, Consumes, LoopEnds,
         WorksOff, Saves, Stop, ConsumerKeeps
<1>4. QED
  BY <1>1, <1>2, <1>3

LEMMA ToolType ==
  ASSUME TurnType, [Next]_vars
  PROVE  tool' \in [Tool -> ToolState]
<1>0. tool \in [Tool -> ToolState]
  BY DEF TurnType
<1>1. ASSUME NEW t \in Tool, Calls(t) \/ Tells(t) \/ Handled(t)
      PROVE  \E s \in ToolState : tool' = [tool EXCEPT ![t] = s]
  BY <1>1 DEF Calls, Tells, Handled, ToolState
<1>2. QED
  BY <1>0, <1>1, ToolStep

LEMMA TurnTypeStep ==
  ASSUME TurnType, [Next]_vars
  PROVE  TurnType'
<1>1. src' \in {"live", "result", "ended", "threw"}
  BY DEF TurnType, Next, vars, Calls, Tells, Prepares, Prepared, Invokes, Invoked, ToolAborts,
         Connection, Shell, Answers, HandlerKeeps, Concludes, SdkEnds, Consumes, LoopEnds,
         WorksOff, Saves, Stop, ConsumerKeeps
<1>2. QED
  BY <1>1, FramesType, TodoType, RowsType, ToolType DEF TurnType

LEMMA TurnTypeInit == Init => TurnType
BY DEF Init, TurnType, RowState, ToolState

-----------------------------------------------------------------------------
(* The reply is recorded before it is shown.                               *)

ReplyInv ==
  /\ ReplyIsRecorded
  /\ <<"reply", None>> \in log \/ Behind(todo, ReplyRecords, Replies)

LEMMA ReplyInvStep ==
  ASSUME TurnType, ReplyInv, [Next]_vars
  PROVE  ReplyInv'
<1> DEFINE R == <<"reply", None>>
<1>1. CASE Consumes
  <2>1. Head(frames) \in Frame /\ todo' = Work(Head(frames)) /\ UNCHANGED <<body, log>>
    BY <1>1, TailFacts DEF Consumes, TurnType, display
  <2>2. Behind(todo', ReplyRecords, Replies)
    BY <2>1, WorkLists
  <2>3. QED
    BY <2>1, <2>2 DEF ReplyInv, ReplyIsRecorded
<1>2. CASE LoopEnds
  <2>1. UNCHANGED <<body, log>> /\ (todo' = Rescue \/ todo' = <<<<"fin">>>>)
    BY <1>2 DEF LoopEnds, display
  <2>2. Behind(todo', ReplyRecords, Replies)
    BY <2>1, RescueList, LastFinalize DEF Behind, Has
  <2>3. QED
    BY <2>1, <2>2 DEF ReplyInv, ReplyIsRecorded
<1>3. CASE WorksOff
  <2> DEFINE call == Head(todo)
  <2>0. todo \in Seq(CallOf) /\ todo # <<>> /\ call \in CallOf
    BY <1>3, CallEnds DEF TurnType
  <2>1. R \in log \/ (call \notin Replies /\
                        (call \notin ReplyRecords => Behind(Tail(todo), ReplyRecords, Replies)))
    BY <2>0, BehindTail DEF ReplyInv
  <2>2. /\ log \subseteq log'
        /\ call \in ReplyRecords => R \in log' \/ todo' = Rescue
        /\ "reply" \in body' => "reply" \in body \/ call \in Replies
    <3>1. CASE SlackCall(call)
      BY <2>0, <3>1 DEF SlackCall, Shows, Replies, ReplyRecords
    <3>2. CASE RecordCall(call)
      BY <2>0, <3>2 DEF RecordCall, Goes, ReplyRecords, display
    <3>3. CASE Forget(call) \/ Finalize(call)
      BY <2>0, <3>3 DEF Forget, Finalize, display, ReplyRecords
    <3>4. QED
      BY <1>3, <3>1, <3>2, <3>3 DEF WorksOff
  <2>3. todo' = Tail(todo) \/ todo' = Rescue
    BY <1>3, CallEnds
  <2>4. Behind(Rescue, ReplyRecords, Replies)
    BY RescueList DEF Behind, Has
  <2> HIDE DEF call
  <2>5. R \in log' \/ Behind(todo', ReplyRecords, Replies)
    BY <2>1, <2>2, <2>3, <2>4
  <2>6. "reply" \in body' => R \in log'
    BY <2>1, <2>2 DEF ReplyInv, ReplyIsRecorded
  <2>7. QED
    BY <2>5, <2>6 DEF ReplyInv, ReplyIsRecorded
<1>4. CASE Saves
  BY <1>4 DEF Saves, ReplyInv, ReplyIsRecorded
<1>5. CASE Held
  BY <1>5 DEF Held, ReplyInv, ReplyIsRecorded
<1>6. QED
  BY <1>1, <1>2, <1>3, <1>4, <1>5, Kinds

\* The reply a user sees is in the log, however the turn goes on: a failing disk
\* keeps the reply from being shown (sdk-stream.ts:314).
THEOREM ReplyRecorded == Spec => []ReplyIsRecorded
<1>1. Init => ReplyInv
  BY DEF Init, ReplyInv, ReplyIsRecorded, Behind
<1>2. ReplyInv => ReplyIsRecorded
  BY DEF ReplyInv
<1>3. TurnType /\ ReplyInv /\ [Next]_vars => TurnType' /\ ReplyInv'
  BY TurnTypeStep, ReplyInvStep
<1>4. QED
  BY <1>1, <1>2, <1>3, TurnTypeInit, PTL DEF Spec

-----------------------------------------------------------------------------
(* The message is finalized in the end, and only in the end.               *)

FinInv ==
  /\ Closed(todo)
  /\ mode = "ended" => finalized /\ todo = <<>>
  /\ mode = "catch" => IF todo = <<>> THEN finalized ELSE EndsInFin(todo)

LEMMA FinInvStep ==
  ASSUME TurnType, FinInv, [Next]_vars
  PROVE  FinInv'
<1>1. CASE Consumes
  <2>1. Head(frames) \in Frame /\ todo' = Work(Head(frames)) /\ mode' = "loop"
    BY <1>1, TailFacts DEF Consumes, TurnType, display
  <2>2. QED
    BY <2>1, WorkLists DEF FinInv
<1>2. CASE LoopEnds
  <2>1. mode' = "catch" /\ (todo' = Rescue \/ todo' = <<<<"fin">>>>)
    BY <1>2 DEF LoopEnds
  <2>2. Closed(todo') /\ EndsInFin(todo')
    BY <2>1, RescueList, LastFinalize DEF Final
  <2>3. todo' # <<>>
    BY <2>2 DEF EndsInFin
  <2>4. QED
    BY <2>1, <2>2, <2>3 DEF FinInv, EndsInFin
<1>3. CASE WorksOff
  <2>0. todo \in Seq(CallOf) /\ todo # <<>> /\ Closed(todo)
    BY <1>3, CallEnds DEF TurnType, FinInv
  <2>1. (Head(todo) \in Fins => finalized') /\ (Head(todo) \notin Fins => finalized' = finalized)
    BY <1>3, CallEffect
  <2>2. CASE mode' = mode /\ todo' = Tail(todo)
    <3>1. /\ Closed(todo')
          /\ EndsInFin(todo) /\ todo' = <<>> => finalized'
          /\ EndsInFin(todo) /\ todo' # <<>> => EndsInFin(todo')
      BY <2>0, <2>1, <2>2, ClosedTail
    <3>2. mode # "ended"
      BY <2>0 DEF FinInv
    <3>3. QED
      BY <2>0, <2>2, <3>1, <3>2 DEF FinInv, EndsInFin
  <2>3. CASE mode' = "catch" /\ todo' = Rescue
    <3>1. Closed(todo') /\ EndsInFin(todo')
      BY <2>3, RescueList DEF Final
    <3>2. todo' # <<>>
      BY <3>1 DEF EndsInFin
    <3>3. QED
      BY <2>3, <3>1, <3>2 DEF FinInv, EndsInFin
  <2>4. QED
    BY <1>3, <2>2, <2>3, CallEnds
<1>4. CASE Saves
  BY <1>4 DEF Saves, FinInv
<1>5. CASE Held
  BY <1>5 DEF Held, FinInv, EndsInFin
<1>6. QED
  BY <1>1, <1>2, <1>3, <1>4, <1>5, Kinds

\* Without a lost call, the message is open from the first call that needs it to the
\* last finalize; a call that needs it comes before any finalize.
MsgInv ==
  "lost" \notin marred =>
    /\ opened => msg = IF finalized THEN "stopped" ELSE "open"
    /\ ~opened => msg = "none"
    /\ \/ opened
       \/ mode # "loop" /\ todo = <<>>
       \/ ~finalized /\ (Behind(todo, Slacks, Fins) \/ (mode = "catch" /\ Len(todo) = 1))

LEMMA MsgInvStep ==
  ASSUME TurnType, MsgInv, [Next]_vars
  PROVE  MsgInv'
<1> SUFFICES ASSUME "lost" \notin marred' PROVE MsgInv'
  BY DEF MsgInv
<1>1. CASE Consumes
  <2>1. Head(frames) \in Frame /\ todo' = Work(Head(frames))
    BY <1>1, TailFacts DEF Consumes, TurnType
  <2>2. Behind(todo', Slacks, Fins)
    BY <2>1, WorkLists
  <2>3. UNCHANGED <<mode, opened, finalized, msg>> /\ mode = "loop" /\ "lost" \notin marred
    BY <1>1 DEF Consumes, Mar, display
  <2>4. QED
    BY <2>2, <2>3 DEF MsgInv
<1>2. CASE LoopEnds
  <2>1. /\ UNCHANGED <<opened, finalized, msg, marred>> /\ mode = "loop" /\ mode' = "catch"
        /\ todo' = Rescue \/ todo' = <<<<"fin">>>>
    BY <1>2 DEF LoopEnds, display
  <2>2. Behind(todo', Slacks, Fins) \/ Len(todo') = 1
    BY <2>1, RescueList, LastFinalize DEF Final
  <2>3. QED
    BY <2>1, <2>2 DEF MsgInv
<1>3. CASE WorksOff
  <2> DEFINE call == Head(todo)
  <2>0. /\ todo \in Seq(CallOf) /\ todo # <<>> /\ call \in CallOf /\ "lost" \notin marred
        /\ \/ mode' = mode /\ todo' = Tail(todo)
           \/ mode' = "catch" /\ todo' = Rescue /\ UNCHANGED <<opened, finalized>> /\ call[1] = "rec"
    BY <1>3, CallEnds DEF TurnType
  <2>1. ~opened => ~finalized /\ (Behind(todo, Slacks, Fins) \/ (mode = "catch" /\ Len(todo) = 1))
    BY <2>0 DEF MsgInv
  <2>2. /\ Behind(todo, Slacks, Fins) =>
             call \notin Fins /\ (call \notin Slacks => Behind(Tail(todo), Slacks, Fins))
        /\ Len(todo) = 1 => Tail(todo) = <<>>
    BY <2>0, BehindTail, TailFacts
  <2>3. Behind(Rescue, Slacks, Fins)
    BY RescueList DEF Final
  <2>4. CASE SlackCall(call)
    <3>1. call \in Slacks
      BY <2>0, <2>4 DEF SlackCall, Slacks
    <3>2. \/ ~opened /\ msg' = "open" /\ opened' = TRUE /\ finalized' = finalized
          \/ opened /\ UNCHANGED <<msg, opened, finalized>>
      BY <2>4 DEF SlackCall, Mar
    <3>3. QED
      BY <2>0, <2>1, <3>2 DEF MsgInv
  <2>5. CASE RecordCall(call) \/ Forget(call)
    <3>1. call \notin Slacks /\ UNCHANGED <<msg, opened, finalized>>
      BY <2>0, <2>5 DEF RecordCall, Forget, Slacks, display
    <3>2. CASE mode' = mode /\ todo' = Tail(todo)
      BY <2>0, <2>1, <2>2, <3>1, <3>2 DEF MsgInv
    <3>3. CASE todo' = Rescue
      BY <2>0, <2>1, <2>3, <3>1, <3>3 DEF MsgInv
    <3>4. QED
      BY <2>0, <3>2, <3>3
  <2>6. CASE Finalize(call)
    <3>1. call \in Fins /\ opened' = opened /\ finalized' = TRUE
          /\ msg' = IF opened /\ ~finalized THEN "stopped" ELSE msg
      BY <2>0, <2>6 DEF Finalize, Fins, Mar
    <3>2. mode' = mode /\ todo' = Tail(todo)
      BY <2>6 DEF Finalize, Goes
    <3>3. ~opened => mode = "catch" /\ Tail(todo) = <<>>
      BY <2>1, <2>2, <3>1
    <3>4. QED
      BY <2>0, <3>1, <3>2, <3>3 DEF MsgInv
  <2>7. QED
    BY <1>3, <2>4, <2>5, <2>6 DEF WorksOff
<1>4. CASE Saves
  BY <1>4 DEF Saves, MsgInv
<1>5. CASE Held
  BY <1>5 DEF Held, MsgInv
<1>6. QED
  BY <1>1, <1>2, <1>3, <1>4, <1>5, Kinds

-----------------------------------------------------------------------------
(* The user is told how the turn ended.                                    *)

Verdicts == {f \in Frame : f[1] \in {"success", "failure"}}

\* Without a lost call or a quiet end, what is written under the rows comes before
\* finalize; and a result frame is in the stream until it is.
VerdictInv ==
  marred \cap {"lost", "quiet"} = {} =>
    /\ body # {} \/ (~finalized /\ Behind(todo, Bodies, Fins))
    /\ src \in {"result", "ended"} /\ mode = "loop" =>
         Has(frames, Verdicts) \/ body # {} \/ Has(todo, Bodies)

\* A frame put at the end leaves the ones before it where they are.
LEMMA HasAppend ==
  ASSUME NEW S, NEW s \in Seq(S), NEW f \in S, NEW A
  PROVE  Has(Append(s, f), A) <=> Has(s, A) \/ f \in A
<1>1. /\ Len(s) \in Nat /\ Len(Append(s, f)) = Len(s) + 1
      /\ Append(s, f)[Len(s) + 1] = f
      /\ \A i \in 1 .. Len(s) : Append(s, f)[i] = s[i]
  BY AppendProperties
<1>2. /\ \A i \in 1 .. Len(s) + 1 : i = Len(s) + 1 \/ i \in 1 .. Len(s)
      /\ Len(s) + 1 \in 1 .. Len(s) + 1
      /\ \A i \in 1 .. Len(s) : i \in 1 .. Len(s) + 1
  BY <1>1
<1>3. QED
  BY <1>1, <1>2, Zenon DEF Has

LEMMA VerdictInvStep ==
  ASSUME TurnType, MsgInv, VerdictInv, [Next]_vars
  PROVE  VerdictInv'
<1> SUFFICES ASSUME marred' \cap {"lost", "quiet"} = {} PROVE VerdictInv'
  BY DEF VerdictInv
<1>1. CASE Consumes
  <2> DEFINE f == Head(frames)
  <2>1. /\ frames \in Seq(Frame) /\ frames # <<>> /\ f \in Frame /\ todo' = Work(f)
        /\ frames' = Tail(frames) /\ UNCHANGED <<body, finalized, mode, src>> /\ todo = <<>>
        /\ mode = "loop" /\ marred \cap {"lost", "quiet"} = {}
    BY <1>1, TailFacts DEF Consumes, TurnType, ConsumerKeeps, display, Mar
  <2>2. Behind(Work(f), Bodies, Fins) /\ (f \in Verdicts => Has(Work(f), Bodies))
    BY <2>1, WorkLists DEF Verdicts, Final
  <2>3. Has(frames, Verdicts) => f \in Verdicts \/ Has(Tail(frames), Verdicts)
    BY <2>1, HasTail
  <2>4. ~Has(todo, Bodies)
    BY <2>1 DEF Has
  <2> HIDE DEF f
  <2>5. QED
    BY <2>1, <2>2, <2>3, <2>4 DEF VerdictInv
<1>2. CASE LoopEnds
  <2>1. /\ todo = <<>> /\ frames = <<>> /\ UNCHANGED <<body, finalized, marred>> /\ mode = "loop"
        /\ mode' = "catch" /\ (todo' = Rescue \/ src = "ended")
    BY <1>2 DEF LoopEnds, display
  <2>2. ~Has(todo, Bodies) /\ ~Has(frames, Verdicts)
    BY <2>1 DEF Has
  <2>3. Behind(Rescue, Bodies, Fins)
    BY RescueList DEF Final
  <2>4. QED
    BY <2>1, <2>2, <2>3 DEF VerdictInv
<1>3. CASE WorksOff
  <2> DEFINE call == Head(todo)
  <2>0. /\ todo \in Seq(CallOf) /\ todo # <<>> /\ call \in CallOf
        /\ marred \cap {"lost", "quiet"} = {} /\ "lost" \notin marred'
        /\ \/ mode' = mode /\ todo' = Tail(todo)
           \/ mode' = "catch" /\ todo' = Rescue /\ UNCHANGED <<finalized, body>>
        /\ UNCHANGED <<frames, src>>
    BY <1>3, CallEnds DEF TurnType
  <2>1. /\ Behind(todo, Bodies, Fins) =>
             call \notin Fins /\ (call \notin Bodies => Behind(Tail(todo), Bodies, Fins))
        /\ Has(todo, Bodies) => call \in Bodies \/ Has(Tail(todo), Bodies)
    BY <2>0, BehindTail, HasTail
  <2>2. Behind(Rescue, Bodies, Fins)
    BY RescueList DEF Final
  <2>3. /\ body \subseteq body'
        /\ call \notin Fins => finalized' = finalized
        /\ call \in Bodies /\ ~finalized => body' # {}
    <3>1. CASE SlackCall(call)
      <4>1. finalized' = finalized /\ body \subseteq body'
        BY <3>1 DEF SlackCall, Shows
      <4>2. opened /\ ~finalized => msg = "open"
        BY <2>0 DEF MsgInv
      <4>3. call \in Bodies => call[1] = "body"
        BY DEF Bodies
      <4>4. call \in Bodies /\ ~finalized => body' # {}
        BY <2>0, <3>1, <4>2, <4>3 DEF SlackCall, Shows, Mar
      <4>5. QED
        BY <4>1, <4>4
    <3>2. CASE RecordCall(call) \/ Forget(call)
      BY <3>2 DEF RecordCall, Forget, Bodies, display
    <3>3. CASE Finalize(call)
      BY <2>0, <3>3 DEF Finalize, Bodies, Fins
    <3>4. QED
      BY <1>3, <3>1, <3>2, <3>3 DEF WorksOff
  <2> HIDE DEF call
  <2>4. body' # {} \/ (~finalized' /\ Behind(todo', Bodies, Fins))
    BY <2>0, <2>1, <2>2, <2>3 DEF VerdictInv
  <2>5. src' \in {"result", "ended"} /\ mode' = "loop" =>
          Has(frames', Verdicts) \/ body' # {} \/ Has(todo', Bodies)
    BY <2>0, <2>1, <2>3 DEF VerdictInv
  <2>6. QED
    BY <2>4, <2>5 DEF VerdictInv
<1>4. CASE Saves
  BY <1>4 DEF Saves, VerdictInv
<1>5. CASE Held
  <2>0. marred \cap {"lost", "quiet"} = {} /\ frames \in Seq(Frame)
    BY <1>5 DEF Held, TurnType
  <2>1. src' \in {"result", "ended"} =>
          Has(frames', Verdicts) \/ (UNCHANGED frames /\ src \in {"result", "ended"})
    <3>1. CASE Concludes
      <4>1. PICK how \in {"success", "failure"} : frames' = Append(frames, <<how>>)
        BY <3>1 DEF Concludes
      <4>2. <<how>> \in Frame /\ <<how>> \in Verdicts
        BY DEF Frame, Verdicts
      <4>3. QED
        BY <2>0, <4>1, <4>2, HasAppend
    <3>2. CASE SdkEnds
      BY <3>2 DEF SdkEnds, Mar
    <3>3. CASE \E t \in Tool : Calls(t) \/ Tells(t)
      BY <3>3 DEF Calls, Tells
    <3>4. CASE UNCHANGED <<frames, src>>
      BY <3>4
    <3>5. QED
      BY <1>5, <3>1, <3>2, <3>3, <3>4 DEF Held
  <2>2. QED
    BY <1>5, <2>0, <2>1 DEF Held, VerdictInv
<1>6. QED
  BY <1>1, <1>2, <1>3, <1>4, <1>5, Kinds

-----------------------------------------------------------------------------
(* The order of the frames in the stream.                                  *)

Uses(t) == {f \in Frame : f[1] = "use" /\ f[2] = t}
Results(t) == {f \in Frame : f[1] = "result" /\ f[2] = t}

\* All of A in s comes before all of B; A is in s at most once; A is at the end of s.
Precedes(s, A, B) == \A i, j \in 1 .. Len(s) : s[i] \in A /\ s[j] \in B => i < j
Once(s, A) == \A i, j \in 1 .. Len(s) : s[i] \in A /\ s[j] \in A => i = j
Latest(s, A) == \A i \in 1 .. Len(s) : s[i] \in A => i = Len(s)

Settled == \A t \in Tool : tool[t] \in {"none", "told"}

FramesInv ==
  /\ \A t \in Tool :
       /\ Once(frames, Results(t)) /\ Precedes(frames, Uses(t), Results(t))
       /\ Has(frames, Uses(t)) => tool[t] # "none"
       /\ Has(frames, Results(t)) => tool[t] = "told"
       /\ Has(frames, Uses(t)) /\ tool[t] = "told" => Has(frames, Results(t))
  /\ Latest(frames, Verdicts)
  /\ Has(frames, Verdicts) => src # "live" /\ Settled
  /\ src \in {"result", "ended"} => "quiet" \in marred \/ Settled

LEMMA AppendOrder ==
  ASSUME NEW S, NEW s \in Seq(S), NEW f \in S, NEW A, NEW B
  PROVE  /\ Precedes(s, A, B) /\ (f \in A => f \notin B /\ ~Has(s, B)) => Precedes(Append(s, f), A, B)
         /\ Once(s, A) /\ (f \in A => ~Has(s, A)) => Once(Append(s, f), A)
         /\ ~Has(s, A) => Latest(Append(s, f), A)
<1> DEFINE n == Len(s) + 1
           p == Append(s, f)
<1>1. /\ Len(s) \in Nat /\ Len(p) = n /\ p[n] = f /\ \A i \in 1 .. Len(s) : p[i] = s[i]
  BY AppendProperties
<1>2. /\ \A i \in 1 .. n : i = n \/ i \in 1 .. Len(s)
      /\ \A i \in 1 .. Len(s) : i < n
  BY <1>1
<1> HIDE DEF n, p
<1>3. ASSUME Precedes(s, A, B), f \in A => f \notin B /\ ~Has(s, B) PROVE Precedes(p, A, B)
  BY <1>1, <1>2, <1>3 DEF Precedes, Has
<1>4. ASSUME Once(s, A), f \in A => ~Has(s, A) PROVE Once(p, A)
  BY <1>1, <1>2, <1>4 DEF Once, Has
<1>5. ASSUME ~Has(s, A) PROVE Latest(p, A)
  BY <1>1, <1>2, <1>5 DEF Latest, Has
<1>6. QED
  BY <1>3, <1>4, <1>5 DEF p

LEMMA TailOrder ==
  ASSUME NEW S, NEW s \in Seq(S), s # <<>>, NEW A, NEW B
  PROVE  /\ Precedes(s, A, B) => Precedes(Tail(s), A, B) /\ (Head(s) \in B => ~Has(s, A))
         /\ Once(s, A) => Once(Tail(s), A) /\ (Head(s) \in A => ~Has(Tail(s), A))
         /\ Latest(s, A) => Latest(Tail(s), A) /\ (Head(s) \in A => Tail(s) = <<>>)
<1> DEFINE p == Tail(s)
<1>1. /\ Len(s) \in Nat /\ Len(s) > 0 /\ Head(s) = s[1] /\ Len(p) = Len(s) - 1
      /\ \A i \in 1 .. Len(p) : p[i] = s[i + 1]
      /\ p = <<>> <=> Len(s) = 1
  BY TailFacts
<1>2. \A i \in 1 .. Len(p) : i + 1 \in 1 .. Len(s) /\ i + 1 # 1
  BY <1>1
<1>3. 1 \in 1 .. Len(s)
  BY <1>1
<1> HIDE DEF p
<1>4. ASSUME Precedes(s, A, B) PROVE Precedes(p, A, B) /\ (Head(s) \in B => ~Has(s, A))
  <2>1. Precedes(p, A, B)
    BY <1>1, <1>2, <1>4 DEF Precedes
  <2>2. ASSUME Head(s) \in B, NEW i \in 1 .. Len(s), s[i] \in A PROVE FALSE
    <3>1. i < 1
      BY <1>1, <1>3, <1>4, <2>2, Zenon DEF Precedes
    <3>2. QED
      BY <3>1
  <2>3. QED
    BY <2>1, <2>2 DEF Has
<1>5. ASSUME Once(s, A) PROVE Once(p, A) /\ (Head(s) \in A => ~Has(p, A))
  <2>1. Once(p, A)
    <3> SUFFICES ASSUME NEW i \in 1 .. Len(p), NEW j \in 1 .. Len(p), p[i] \in A, p[j] \in A
                 PROVE  i = j
      BY DEF Once
    <3>1. i + 1 = j + 1
      BY <1>1, <1>2, <1>5, Zenon DEF Once
    <3>2. QED
      BY <1>1, <3>1
  <2>2. ASSUME Head(s) \in A, NEW i \in 1 .. Len(p), p[i] \in A PROVE FALSE
    <3>1. i + 1 = 1
      BY <1>1, <1>2, <1>3, <1>5, <2>2, Zenon DEF Once
    <3>2. QED
      BY <1>2, <3>1
  <2>3. QED
    BY <2>1, <2>2 DEF Has
<1>6. ASSUME Latest(s, A) PROVE Latest(p, A) /\ (Head(s) \in A => p = <<>>)
  <2>1. Latest(p, A)
    BY <1>1, <1>2, <1>6 DEF Latest
  <2>2. ASSUME Head(s) \in A PROVE p = <<>>
    <3>1. 1 = Len(s)
      BY <1>1, <1>3, <1>6, <2>2, Zenon DEF Latest
    <3>2. QED
      BY <1>1, <3>1
  <2>3. QED
    BY <2>1, <2>2
<1>7. QED
  BY <1>4, <1>5, <1>6 DEF p

\* A frame is of one kind and of one call.
LEMMA FrameKinds ==
  /\ \A t \in Tool, u \in Tool :
       /\ <<"use", t>> \in Frame /\ <<"use", t>> \notin Results(u) /\ <<"use", t>> \notin Verdicts
       /\ <<"use", t>> \in Uses(u) <=> t = u
       /\ \A how \in {"complete", "error"} :
            LET f == <<"result", t, how>>
            IN  f \in Frame /\ f \notin Uses(u) /\ f \notin Verdicts /\ (f \in Results(u) <=> t = u)
  /\ \A how \in {"success", "failure"} :
       <<how>> \in Frame /\ <<how>> \in Verdicts /\ \A t \in Tool : <<how>> \notin Uses(t) \cup Results(t)
  /\ \A t \in Tool : Uses(t) \cap Results(t) = {} /\ Verdicts \cap (Uses(t) \cup Results(t)) = {}
BY DEF Frame, Uses, Results, Verdicts

\* The moves of the tools that do not touch the stream.
LEMMA ToolMoves ==
  ASSUME TurnType, [Next]_vars, NEW u \in Tool
  PROVE  \/ \E t \in Tool : Calls(t) \/ Tells(t)
         \/ (tool'[u] = "none" <=> tool[u] = "none") /\ (tool'[u] = "told" <=> tool[u] = "told")
<1>1. tool \in [Tool -> ToolState]
  BY DEF TurnType
<1>2. QED
  BY <1>1, ToolStep DEF Handled

\* Who adds to the stream, takes from it, or leaves it alone.
LEMMA StreamKinds ==
  ASSUME TurnType, [Next]_vars
  PROVE  \/ \E t \in Tool : Calls(t) \/ Tells(t)
         \/ Concludes \/ SdkEnds \/ Consumes
         \/ UNCHANGED <<frames, src>>
BY Kinds, CallEnds DEF Held, LoopEnds, Saves, ConsumerKeeps

LEMMA MarredGrows ==
  ASSUME TurnType, [Next]_vars
  PROVE  marred \subseteq marred'
BY Kinds, CallEnds DEF Held, Consumes, LoopEnds, Saves, Mar

LEMMA FramesInvStep ==
  ASSUME TurnType, FramesInv, [Next]_vars
  PROVE  FramesInv'
<1>0. /\ frames \in Seq(Frame) /\ marred \subseteq marred'
      /\ tool \in [Tool -> ToolState]
  BY MarredGrows DEF TurnType
<1>1. ASSUME NEW t \in Tool, Calls(t) PROVE FramesInv'
  <2> DEFINE f == <<"use", t>>
  <2>1. frames' = Append(frames, f) /\ tool[t] = "none" /\ src = "live" /\ src' = "live"
        /\ tool' = [tool EXCEPT ![t] = "prep"]
    BY <1>1 DEF Calls
  <2>2. f \in Frame /\ f \notin Verdicts /\ \A u \in Tool : f \notin Results(u) /\ (f \in Uses(u) <=> t = u)
    BY FrameKinds
  <2> HIDE DEF f
  <2>3. ASSUME NEW u \in Tool
        PROVE  /\ Once(frames', Results(u)) /\ Precedes(frames', Uses(u), Results(u))
               /\ Has(frames', Uses(u)) <=> Has(frames, Uses(u)) \/ t = u
               /\ Has(frames', Results(u)) <=> Has(frames, Results(u))
    <3>1. t = u => ~Has(frames, Results(u))
      BY <2>1 DEF FramesInv
    <3>2. QED
      BY <1>0, <2>1, <2>2, <3>1, AppendOrder, HasAppend DEF FramesInv
  <2>4. ~Has(frames, Verdicts)
    BY <2>1 DEF FramesInv
  <2>5. Latest(frames', Verdicts) /\ ~Has(frames', Verdicts)
    BY <1>0, <2>1, <2>2, <2>4, AppendOrder, HasAppend
  <2>6. \A u \in Tool : tool'[u] = IF u = t THEN "prep" ELSE tool[u]
    BY <1>0, <2>1
  <2>7. \A u \in Tool : /\ Has(frames, Uses(u)) => tool[u] # "none"
                        /\ Has(frames, Results(u)) => tool[u] = "told"
                        /\ Has(frames, Uses(u)) /\ tool[u] = "told" => Has(frames, Results(u))
    BY DEF FramesInv
  <2>8. ASSUME NEW u \in Tool
        PROVE  /\ Has(frames', Uses(u)) => tool'[u] # "none"
               /\ Has(frames', Results(u)) => tool'[u] = "told"
               /\ Has(frames', Uses(u)) /\ tool'[u] = "told" => Has(frames', Results(u))
    BY <2>1, <2>3, <2>6, <2>7
  <2>9. QED
    BY <2>1, <2>3, <2>5, <2>8 DEF FramesInv
<1>2. ASSUME NEW t \in Tool, Tells(t) PROVE FramesInv'
  <2>1. PICK how \in {"complete", "error"} : frames' = Append(frames, <<"result", t, how>>)
    BY <1>2 DEF Tells
  <2> DEFINE f == <<"result", t, how>>
  <2>2. /\ tool[t] \in {"ok", "error"} /\ src = "live" /\ src' = "live"
        /\ tool' = [tool EXCEPT ![t] = "told"]
    BY <1>2 DEF Tells
  <2>3. f \in Frame /\ f \notin Verdicts /\ \A u \in Tool : f \notin Uses(u) /\ (f \in Results(u) <=> t = u)
    BY FrameKinds
  <2>4. frames' = Append(frames, f)
    BY <2>1
  <2> HIDE DEF f
  <2>5. ASSUME NEW u \in Tool
        PROVE  /\ Once(frames', Results(u)) /\ Precedes(frames', Uses(u), Results(u))
               /\ Has(frames', Uses(u)) <=> Has(frames, Uses(u))
               /\ Has(frames', Results(u)) <=> Has(frames, Results(u)) \/ t = u
    <3>1. t = u => ~Has(frames, Results(u))
      BY <2>2 DEF FramesInv
    <3>2. QED
      BY <1>0, <2>3, <2>4, <3>1, AppendOrder, HasAppend DEF FramesInv
  <2>6. ~Has(frames, Verdicts)
    BY <2>2 DEF FramesInv
  <2>7. Latest(frames', Verdicts) /\ ~Has(frames', Verdicts)
    BY <1>0, <2>3, <2>4, <2>6, AppendOrder, HasAppend
  <2>8. \A u \in Tool : tool'[u] = IF u = t THEN "told" ELSE tool[u]
    BY <1>0, <2>2
  <2>9. \A u \in Tool : /\ Has(frames, Uses(u)) => tool[u] # "none"
                        /\ Has(frames, Results(u)) => tool[u] = "told"
                        /\ Has(frames, Uses(u)) /\ tool[u] = "told" => Has(frames, Results(u))
    BY DEF FramesInv
  <2>10. ASSUME NEW u \in Tool
         PROVE  /\ Has(frames', Uses(u)) => tool'[u] # "none"
                /\ Has(frames', Results(u)) => tool'[u] = "told"
                /\ Has(frames', Uses(u)) /\ tool'[u] = "told" => Has(frames', Results(u))
    BY <2>5, <2>8, <2>9
  <2>11. QED
    BY <2>2, <2>5, <2>7, <2>10 DEF FramesInv
<1>3. ASSUME Concludes PROVE FramesInv'
  <2>1. PICK how \in {"success", "failure"} : frames' = Append(frames, <<how>>)
    BY <1>3 DEF Concludes
  <2> DEFINE f == <<how>>
  <2>2. src = "live" /\ src' = "result" /\ tool' = tool /\ Settled
    BY <1>3 DEF Concludes, Settled
  <2>3. f \in Frame /\ \A u \in Tool : f \notin Uses(u) /\ f \notin Results(u)
    BY FrameKinds
  <2>4. frames' = Append(frames, f)
    BY <2>1
  <2> HIDE DEF f
  <2>5. \A u \in Tool :
          /\ Once(frames', Results(u)) /\ Precedes(frames', Uses(u), Results(u))
          /\ Has(frames', Uses(u)) <=> Has(frames, Uses(u))
          /\ Has(frames', Results(u)) <=> Has(frames, Results(u))
    BY <1>0, <2>3, <2>4, AppendOrder, HasAppend DEF FramesInv
  <2>6. Latest(frames', Verdicts)
    BY <1>0, <2>2, <2>3, <2>4, AppendOrder DEF FramesInv
  <2>7. Settled'
    BY <2>2 DEF Settled
  <2>8. QED
    BY <2>2, <2>5, <2>6, <2>7 DEF FramesInv
<1>4. ASSUME SdkEnds PROVE FramesInv'
  <2>1. /\ tool' = tool /\ frames' \in {frames, <<>>} /\ src' # "live"
        /\ src' = "ended" => frames' = frames /\ (src = "result" \/ "quiet" \in marred')
        /\ src' # "result"
    BY <1>4 DEF SdkEnds, Mar
  <2>2. Settled' <=> Settled
    BY <2>1 DEF Settled
  <2>3. CASE frames' = frames
    BY <1>0, <2>1, <2>2, <2>3 DEF FramesInv
  <2>4. CASE frames' = <<>>
    <3>1. Len(frames') = 0
      BY <2>4
    <3>2. \A A, B : /\ Once(frames', A) /\ Precedes(frames', A, B) /\ Latest(frames', A)
                    /\ ~Has(frames', A)
      BY <3>1 DEF Once, Precedes, Latest, Has
    <3>3. QED
      BY <1>0, <2>1, <2>2, <3>2 DEF FramesInv
  <2>5. QED
    BY <2>1, <2>3, <2>4
<1>5. ASSUME Consumes PROVE FramesInv'
  <2> DEFINE f == Head(frames)
  <2>1. /\ frames # <<>> /\ f \in Frame /\ frames' = Tail(frames) /\ tool' = tool /\ src' = src
    BY <1>0, <1>5, TailFacts DEF Consumes, ConsumerKeeps
  <2>2. ASSUME NEW u \in Tool
        PROVE  /\ Once(frames', Results(u)) /\ Precedes(frames', Uses(u), Results(u))
               /\ Has(frames', Uses(u)) => Has(frames, Uses(u))
               /\ Has(frames', Results(u)) => Has(frames, Results(u))
               /\ Has(frames', Uses(u)) /\ Has(frames, Results(u)) => Has(frames', Results(u))
    <3>1. Has(frames, Uses(u)) => f \notin Results(u)
      BY <1>0, <2>1, TailOrder DEF FramesInv
    <3>2. QED
      BY <1>0, <2>1, <3>1, TailOrder, HasTail DEF FramesInv
  <2>3. Latest(frames', Verdicts) /\ (Has(frames', Verdicts) => Has(frames, Verdicts))
    BY <1>0, <2>1, TailOrder, HasTail DEF FramesInv
  <2> HIDE DEF f
  <2>4. Settled' <=> Settled
    BY <2>1 DEF Settled
  <2>5. QED
    BY <1>0, <2>1, <2>2, <2>3, <2>4 DEF FramesInv
<1>6. ASSUME UNCHANGED <<frames, src>>, ~\E t \in Tool : Calls(t) \/ Tells(t) PROVE FramesInv'
  <2>1. \A u \in Tool : (tool'[u] = "none" <=> tool[u] = "none") /\ (tool'[u] = "told" <=> tool[u] = "told")
    BY <1>6, ToolMoves
  <2>2. Settled' <=> Settled
    BY <2>1 DEF Settled
  <2>3. QED
    BY <1>0, <1>6, <2>1, <2>2 DEF FramesInv
<1>7. QED
  BY <1>1, <1>2, <1>3, <1>4, <1>5, <1>6, StreamKinds

-----------------------------------------------------------------------------
(* The one active row.                                                     *)

Clean == marred \cap {"overlap", "lost", "quiet"} = {}
NoRow == \A t \in Tool : rows[t] # "in_progress"

\* A call whose result is still to come; one whose use has been consumed, too.
Pending(t) == tool[t] # "none" /\ (tool[t] # "told" \/ Has(frames, Results(t)))
Open(t) == Pending(t) /\ ~Has(frames, Uses(t))
Dropped == src = "threw" /\ frames = <<>>

\* The active row is that of the one call that is open, until its result is worked
\* off; once the turn is decided there is none.
ActiveInv ==
  Clean /\ mode = "loop" =>
    /\ \A t \in Tool : Open(t) => active = t \/ Dropped
    /\ active # None => Pending(active) \/ Has(todo, Forgets) \/ Dropped
    /\ Has(todo, Forgets) => (\A t \in Tool : ~Open(t)) \/ Dropped
    /\ Has(todo, Fins) \/ finalized => active = None /\ frames = <<>> /\ src # "live"

\* A row at work is the active one: its outcome is written before it is forgotten,
\* and before the message is finalized.
RowInv ==
  Clean =>
    /\ \A t \in Tool : rows[t] = "in_progress" => active = t
    /\ finalized => NoRow
    /\ \A t \in Tool : Has(todo, Rows(t, {"in_progress"})) =>
         mode = "loop" /\ active = t /\ ~Has(todo, Forgets)
    /\ NoRow \/ Behind(todo, Rows(active, {"complete", "error"}), Forgets)
    /\ mode # "loop" =>
         /\ ~Has(todo, Forgets)
         /\ \A t \in Tool : rows[t] = "in_progress" => Has(todo, Rows(t, {"error"}))

\* Only the consumer opens a call; nobody else closes one, unless frames are lost.
LEMMA OpenMoves ==
  ASSUME TurnType, [Next]_vars, ~Consumes
  PROVE  /\ Dropped' \/ \A t \in Tool : (Open(t)' => Open(t)) /\ (Pending(t) => Pending(t)')
         /\ Dropped => Dropped'
         /\ frames = <<>> /\ src # "live" => frames' = <<>> /\ src' # "live"
<1>0. /\ frames \in Seq(Frame)
      /\ tool \in [Tool -> ToolState]
  BY DEF TurnType
<1>1. ASSUME NEW t \in Tool, Calls(t), NEW u \in Tool
      PROVE  (Open(u)' => Open(u)) /\ (Pending(u) => Pending(u)')
  <2>1. /\ frames' = Append(frames, <<"use", t>>) /\ tool[t] = "none" /\ src = "live"
        /\ tool'[u] = IF u = t THEN "prep" ELSE tool[u]
    BY <1>0, <1>1 DEF Calls
  <2>2. <<"use", t>> \in Frame /\ <<"use", t>> \notin Results(u) /\ (<<"use", t>> \in Uses(u) <=> t = u)
    BY FrameKinds
  <2>3. /\ Has(frames', Uses(u)) <=> Has(frames, Uses(u)) \/ t = u
        /\ Has(frames', Results(u)) <=> Has(frames, Results(u))
    BY <1>0, <2>1, <2>2, HasAppend
  <2>4. QED
    BY <2>1, <2>3 DEF Open, Pending
<1>2. ASSUME NEW t \in Tool, Tells(t), NEW u \in Tool
      PROVE  (Open(u)' => Open(u)) /\ (Pending(u) => Pending(u)')
  <2>1. PICK how \in {"complete", "error"} : frames' = Append(frames, <<"result", t, how>>)
    BY <1>2 DEF Tells
  <2> DEFINE f == <<"result", t, how>>
  <2>2. /\ tool[t] \in {"ok", "error"} /\ src = "live"
        /\ tool'[u] = IF u = t THEN "told" ELSE tool[u]
    BY <1>0, <1>2 DEF Tells
  <2>3. f \in Frame /\ f \notin Uses(u) /\ (f \in Results(u) <=> t = u)
    BY FrameKinds
  <2>4. frames' = Append(frames, f)
    BY <2>1
  <2> HIDE DEF f
  <2>5. /\ Has(frames', Uses(u)) <=> Has(frames, Uses(u))
        /\ Has(frames', Results(u)) <=> Has(frames, Results(u)) \/ t = u
    BY <1>0, <2>3, <2>4, HasAppend
  <2>6. QED
    BY <2>2, <2>5 DEF Open, Pending
<1>3. ASSUME Concludes, NEW u \in Tool
      PROVE  (Open(u)' => Open(u)) /\ (Pending(u) => Pending(u)')
  <2>1. PICK how \in {"success", "failure"} : frames' = Append(frames, <<how>>)
    BY <1>3 DEF Concludes
  <2> DEFINE f == <<how>>
  <2>2. f \in Frame /\ f \notin Uses(u) /\ f \notin Results(u)
    BY FrameKinds
  <2>3. frames' = Append(frames, f)
    BY <2>1
  <2> HIDE DEF f
  <2>4. /\ Has(frames', Uses(u)) <=> Has(frames, Uses(u))
        /\ Has(frames', Results(u)) <=> Has(frames, Results(u))
    BY <1>0, <2>2, <2>3, HasAppend
  <2>5. src = "live" /\ tool' = tool
    BY <1>3 DEF Concludes
  <2>6. QED
    BY <2>4, <2>5 DEF Open, Pending
<1>4. ASSUME SdkEnds
      PROVE  /\ Dropped' \/ \A t \in Tool : (Open(t)' => Open(t)) /\ (Pending(t) => Pending(t)')
             /\ src # "threw" /\ src' # "live" /\ frames' \in {frames, <<>>}
  <2>1. /\ tool' = tool /\ (frames' = frames \/ (frames' = <<>> /\ src' = "threw"))
        /\ src # "threw" /\ src' # "live"
    BY <1>4 DEF SdkEnds
  <2>2. QED
    BY <2>1 DEF Open, Pending, Dropped
<1>5. ASSUME UNCHANGED <<frames, src>>, ~\E t \in Tool : Calls(t) \/ Tells(t), NEW u \in Tool
      PROVE  (Open(u)' => Open(u)) /\ (Pending(u) => Pending(u)')
  <2>1. (tool'[u] = "none" <=> tool[u] = "none") /\ (tool'[u] = "told" <=> tool[u] = "told")
    BY <1>5, ToolMoves
  <2>2. QED
    BY <1>5, <2>1 DEF Open, Pending
<1>6. CASE (\E t \in Tool : Calls(t) \/ Tells(t)) \/ Concludes
  <2>1. \A t \in Tool : (Open(t)' => Open(t)) /\ (Pending(t) => Pending(t)')
    BY <1>1, <1>2, <1>3, <1>6
  <2>2. src = "live"
    BY <1>6 DEF Calls, Tells, Concludes
  <2>3. QED
    BY <2>1, <2>2 DEF Dropped
<1>7. CASE SdkEnds
  BY <1>4, <1>7 DEF Dropped
<1>8. CASE UNCHANGED <<frames, src>> /\ ~\E t \in Tool : Calls(t) \/ Tells(t)
  <2>1. \A t \in Tool : (Open(t)' => Open(t)) /\ (Pending(t) => Pending(t)')
    BY <1>5, <1>8
  <2>2. QED
    BY <1>8, <2>1 DEF Dropped
<1>9. QED
  BY <1>6, <1>7, <1>8, StreamKinds

LEMMA UseConsumed ==
  ASSUME TurnType, FramesInv, ActiveInv, RowInv, Consumes, Clean', Head(frames)[1] = "use"
  PROVE  ActiveInv' /\ RowInv'
<1> DEFINE f == Head(frames)
<1>a. /\ frames \in Seq(Frame) /\ frames # <<>> /\ f \in Frame /\ frames' = Tail(frames)
      /\ todo' = Work(f) /\ active' = f[2] /\ mode = "loop"
      /\ UNCHANGED <<mode, rows, tool, src, finalized>>
      /\ marred' = IF active # None THEN marred \cup {"overlap"} ELSE marred
  BY TailFacts DEF TurnType, Consumes, ConsumerKeeps, display, Mar
<1>b. f[2] \in Tool
  BY <1>a, UseList
<1>c. PICK t \in Tool : t = f[2]
  BY <1>b
<1>d. active = None /\ Clean
  BY <1>a DEF Clean
<1>1. /\ frames \in Seq(Frame) /\ frames # <<>> /\ f \in Frame /\ frames' = Tail(frames)
      /\ todo' = Work(f) /\ active' = t /\ active = None /\ mode = "loop" /\ Clean
      /\ UNCHANGED <<mode, rows, tool, src, finalized>>
  BY <1>a, <1>c, <1>d
<1>2. /\ t \in Tool /\ Plain(Work(f)) /\ ~Has(Work(f), Forgets)
      /\ \A u \in Tool : Has(Work(f), Rows(u, {"in_progress"})) => u = t
  BY <1>1, <1>c, UseList
<1>3. f \in Uses(t) /\ \A u \in Tool : f \notin Results(u) /\ (f \in Uses(u) <=> u = t)
  BY <1>1, <1>c DEF Uses, Results
<1>4. ~Dropped /\ ~finalized /\ ~Has(todo, Forgets)
  BY <1>1 DEF Dropped, ActiveInv, Consumes, Has
<1>5. NoRow
  BY <1>1, <1>2, SdkTurnAssumption DEF RowInv, NoRow
<1>6. \A u \in Tool : ~Open(u)
  BY <1>1, <1>4, SdkTurnAssumption DEF ActiveInv
<1> HIDE DEF f
<1>7. \A u \in Tool : /\ Has(frames', Results(u)) <=> Has(frames, Results(u))
                      /\ Has(frames, Uses(u)) <=> Has(frames', Uses(u)) \/ u = t
  BY <1>1, <1>3, HasTail DEF f
<1>8. Pending(t)'
  <2>1. /\ Has(frames, Uses(t)) => tool[t] # "none"
        /\ Has(frames, Uses(t)) /\ tool[t] = "told" => Has(frames, Results(t))
    BY <1>2 DEF FramesInv
  <2>2. QED
    BY <1>1, <1>2, <1>7, <2>1 DEF Pending
<1>9. \A u \in Tool : Open(u)' => u = t
  BY <1>1, <1>6, <1>7 DEF Open, Pending
<1>10. ~Has(Work(f), Fins)
  BY <1>2 DEF Plain
<1>11. ActiveInv'
  BY <1>1, <1>2, <1>4, <1>8, <1>9, <1>10 DEF ActiveInv
<1>12. NoRow'
  BY <1>1, <1>5 DEF NoRow
<1>13. RowInv'
  BY <1>1, <1>2, <1>12 DEF RowInv, NoRow
<1>14. QED
  BY <1>11, <1>13

LEMMA ResultConsumed ==
  ASSUME TurnType, FramesInv, ActiveInv, RowInv, Consumes, Clean', Head(frames)[1] = "result"
  PROVE  ActiveInv' /\ RowInv'
<1> DEFINE f == Head(frames)
           t == f[2]
<1>1. /\ frames \in Seq(Frame) /\ frames # <<>> /\ f \in Frame /\ frames' = Tail(frames)
      /\ todo' = Work(f) /\ active' = active /\ mode = "loop" /\ Clean
      /\ UNCHANGED <<mode, rows, tool, src, finalized>>
  BY TailFacts DEF TurnType, Consumes, ConsumerKeeps, display, Mar, Clean
<1>2. /\ t \in Tool /\ Plain(Work(f)) /\ Has(Work(f), Forgets) /\ NoRowStarts(Work(f))
      /\ Behind(Work(f), Rows(t, {"complete", "error"}), Forgets)
  BY <1>1, ResultList
<1>3. f \in Results(t) /\ \A u \in Tool : f \notin Uses(u) /\ (f \in Results(u) <=> u = t)
  BY <1>1, <1>2 DEF Uses, Results
<1>4. ~Dropped /\ ~finalized
  BY <1>1 DEF Dropped, ActiveInv
<1> HIDE DEF f, t
<1>5. \A u \in Tool : /\ Has(frames, Results(u)) <=> Has(frames', Results(u)) \/ u = t
                      /\ Has(frames, Uses(u)) <=> Has(frames', Uses(u))
  BY <1>1, <1>3, HasTail DEF f
<1>6. ~Has(frames, Uses(t)) /\ ~Has(frames', Results(t))
  BY <1>1, <1>2, <1>3, TailOrder DEF f, FramesInv
<1>7. tool[t] = "told"
  BY <1>2, <1>5 DEF FramesInv
<1>8. active = t
  <2>1. Open(t)
    BY <1>2, <1>5, <1>6, <1>7 DEF Open, Pending
  <2>2. QED
    BY <1>1, <1>2, <1>4, <2>1 DEF ActiveInv
<1>9. ASSUME NEW u \in Tool PROVE ~Open(u)'
  <2>1. CASE u = t
    BY <1>1, <1>6, <1>7, <2>1 DEF Open, Pending
  <2>2. CASE u # t
    <3>1. ~Open(u)
      BY <1>1, <1>4, <1>8, <2>2 DEF ActiveInv
    <3>2. QED
      BY <1>1, <1>5, <2>2, <3>1 DEF Open, Pending
  <2>3. QED
    BY <2>1, <2>2
<1>10. ~Has(Work(f), Fins)
  BY <1>2 DEF Plain
<1>11. ActiveInv'
  BY <1>1, <1>2, <1>4, <1>9, <1>10 DEF ActiveInv
<1>12. RowInv'
  BY <1>1, <1>2, <1>4, <1>8 DEF RowInv, NoRowStarts
<1>13. QED
  BY <1>11, <1>12

LEMMA VerdictConsumed ==
  ASSUME TurnType, FramesInv, ActiveInv, RowInv, Consumes, Clean',
         Head(frames)[1] \in {"success", "failure"}
  PROVE  ActiveInv' /\ RowInv'
<1> DEFINE f == Head(frames)
<1>1. /\ frames \in Seq(Frame) /\ frames # <<>> /\ f \in Frame /\ frames' = Tail(frames)
      /\ todo' = Work(f) /\ active' = active /\ mode = "loop" /\ Clean
      /\ UNCHANGED <<mode, rows, tool, src, finalized>> /\ todo = <<>>
  BY TailFacts DEF TurnType, Consumes, ConsumerKeeps, display, Mar, Clean
<1>2. Final(Work(f))
  BY <1>1, WorkLists
<1>3. f \in Verdicts /\ \A u \in Tool : f \notin Results(u)
  BY <1>1 DEF Verdicts, Results
<1>4. ~Dropped /\ ~finalized /\ ~Has(todo, Forgets)
  BY <1>1 DEF Dropped, ActiveInv, Has
<1> HIDE DEF f
<1>5. Has(frames, Verdicts) /\ Tail(frames) = <<>>
  BY <1>1, <1>3, HasTail, TailOrder DEF f, FramesInv
<1>6. src # "live" /\ Settled
  BY <1>5 DEF FramesInv
<1>7. \A u \in Tool : ~Has(frames, Results(u))
  <2>1. Len(<<>>) = 0
    OBVIOUS
  <2>2. \A A : ~Has(<<>>, A)
    BY <2>1 DEF Has
  <2>3. QED
    BY <1>1, <1>3, <1>5, <2>2, HasTail DEF f
<1>8. \A u \in Tool : ~Pending(u)
  BY <1>6, <1>7 DEF Pending, Settled
<1>9. active = None
  BY <1>1, <1>4, <1>8 DEF ActiveInv, TurnType
<1>10. NoRow
  BY <1>1, <1>9, SdkTurnAssumption DEF RowInv, NoRow
<1>11. \A u \in Tool : ~Open(u)'
  <2>1. \A u \in Tool : ~Has(frames', Results(u))
    BY <1>1, <1>5, <1>7, HasTail DEF f
  <2>2. QED
    BY <1>1, <1>6, <2>1 DEF Open, Pending, Settled
<1>12. ActiveInv'
  BY <1>1, <1>2, <1>5, <1>6, <1>9, <1>11 DEF ActiveInv, Final
<1>13. NoRow'
  BY <1>1, <1>10 DEF NoRow
<1>14. RowInv'
  BY <1>1, <1>2, <1>4, <1>13 DEF RowInv, Final, NoRowStarts, NoRow
<1>15. QED
  BY <1>12, <1>14

\* The consumer turns to its catch block: the active row is flipped there.
LEMMA RescueKeepsRows ==
  ASSUME TurnType, RowInv, Clean, mode' = "catch", todo' = Rescue, UNCHANGED <<active, finalized, rows>>
  PROVE  RowInv'
<1>1. /\ ~Has(Rescue, Forgets) /\ NoRowStarts(Rescue)
      /\ active # None => Has(Rescue, Rows(active, {"error"}))
  BY RescueList DEF Final
<1>2. Behind(Rescue, Rows(active, {"complete", "error"}), Forgets)
  BY <1>1 DEF Behind, Has
<1>3. \A t \in Tool : rows[t] = "in_progress" => active = t /\ active # None
  BY SdkTurnAssumption DEF RowInv
<1>4. finalized' => NoRow'
  BY DEF RowInv, NoRow
<1>5. QED
  BY <1>1, <1>2, <1>3, <1>4 DEF RowInv, NoRowStarts

\* What a call writes into a row; a call that is not lost is shown unless the message
\* is finalized.
LEMMA RowShown ==
  ASSUME TurnType, MsgInv, WorksOff, "lost" \notin marred'
  PROVE  LET call == Head(todo)
         IN  rows' = IF call[1] = "row" /\ ~finalized THEN [rows EXCEPT ![call[2]] = call[3]] ELSE rows
<1> DEFINE call == Head(todo)
<1>0. "lost" \notin marred /\ todo # <<>> /\ call \in CallOf
  BY CallEnds
<1>1. /\ opened => msg = IF finalized THEN "stopped" ELSE "open"
      /\ finalized => opened
  <2>1. \/ opened
        \/ mode # "loop" /\ todo = <<>>
        \/ ~finalized
    BY <1>0 DEF MsgInv
  <2>2. QED
    BY <1>0, <2>1 DEF MsgInv
<1>2. CASE SlackCall(call)
  BY <1>0, <1>1, <1>2 DEF SlackCall, Shows, Mar
<1>3. CASE RecordCall(call) \/ Forget(call) \/ Finalize(call)
  BY <1>3 DEF RecordCall, Forget, Finalize, display
<1>4. QED
  BY <1>2, <1>3 DEF WorksOff

LEMMA CallKeepsActive ==
  ASSUME TurnType, ActiveInv, WorksOff, Clean', mode' = "loop"
  PROVE  ActiveInv'
<1> DEFINE h == Head(todo)
<1>1. /\ todo \in Seq(CallOf) /\ todo # <<>> /\ h \in CallOf /\ Clean
      /\ UNCHANGED <<frames, src, tool>> /\ mode = "loop" /\ todo' = Tail(todo)
  BY CallEnds DEF TurnType, Clean
<1>2. \A A : Has(todo, A) <=> h \in A \/ Has(todo', A)
  BY <1>1, HasTail
<1>3. /\ h \in Forgets => active' = None
      /\ h \notin Forgets => active' = active
      /\ h \notin Fins => finalized' = finalized
  BY <1>1, CallEffect
<1>4. (Dropped' <=> Dropped) /\ \A t \in Tool : (Open(t)' <=> Open(t)) /\ (Pending(t)' <=> Pending(t))
  BY <1>1 DEF Dropped, Open, Pending
<1> HIDE DEF h
<1>5. /\ \A t \in Tool : Open(t) => active = t \/ Dropped
      /\ active # None => Pending(active) \/ Has(todo, Forgets) \/ Dropped
      /\ Has(todo, Forgets) => (\A t \in Tool : ~Open(t)) \/ Dropped
      /\ Has(todo, Fins) \/ finalized => active = None /\ frames = <<>> /\ src # "live"
  BY <1>1 DEF ActiveInv
<1>6. active \in Tool \cup {None}
  BY DEF TurnType
<1>7. CASE h \in Forgets
  <2>1. active' = None /\ ((\A t \in Tool : ~Open(t)) \/ Dropped)
    BY <1>2, <1>3, <1>5, <1>7
  <2>2. (\A t \in Tool : ~Open(t)') \/ Dropped'
    BY <1>4, <2>1
  <2>3. Has(todo', Fins) \/ finalized' => frames' = <<>> /\ src' # "live"
    BY <1>1, <1>2, <1>3, <1>5
  <2>4. QED
    BY <2>1, <2>2, <2>3 DEF ActiveInv
<1>8. CASE h \notin Forgets
  <2>1. active' = active
    BY <1>3, <1>8
  <2>2. active' # None => Pending(active)' \/ Has(todo', Forgets) \/ Dropped'
    BY <1>1, <1>2, <1>4, <1>5, <1>6, <1>8, <2>1
  <2>3. \A t \in Tool : Open(t)' => active' = t \/ Dropped'
    BY <1>4, <1>5, <2>1
  <2>4. Has(todo', Forgets) => (\A t \in Tool : ~Open(t)') \/ Dropped'
    BY <1>2, <1>4, <1>5
  <2>5. Has(todo', Fins) \/ finalized' => active' = None /\ frames' = <<>> /\ src' # "live"
    BY <1>1, <1>2, <1>3, <1>5, <2>1
  <2>6. QED
    BY <2>2, <2>3, <2>4, <2>5 DEF ActiveInv
<1>9. QED
  BY <1>7, <1>8

LEMMA CallKeepsRows ==
  ASSUME TurnType, FinInv, MsgInv, ActiveInv, RowInv, WorksOff, Clean'
  PROVE  RowInv'
<1> DEFINE h == Head(todo)
<1>1. /\ todo \in Seq(CallOf) /\ todo # <<>> /\ h \in CallOf /\ Clean /\ "lost" \notin marred'
      /\ \/ mode' = mode /\ todo' = Tail(todo)
         \/ mode' = "catch" /\ todo' = Rescue /\ UNCHANGED <<active, finalized, rows>>
  BY CallEnds DEF TurnType, Clean
<1>2. CASE mode' = "catch" /\ todo' = Rescue /\ UNCHANGED <<active, finalized, rows>>
  BY <1>1, <1>2, RescueKeepsRows
<1>3. CASE mode' = mode /\ todo' = Tail(todo)
  <2>1. /\ \A A : Has(todo, A) <=> h \in A \/ Has(todo', A)
        /\ \A A, B : Behind(todo, A, B) => h \notin B /\ (h \notin A => Behind(todo', A, B))
    BY <1>1, <1>3, HasTail, BehindTail
  <2>2. rows' = IF h[1] = "row" /\ ~finalized THEN [rows EXCEPT ![h[2]] = h[3]] ELSE rows
    BY <1>1, RowShown
  <2>3. /\ h \in Forgets => active' = None
        /\ h \notin Forgets => active' = active
        /\ h \notin Fins => finalized' = finalized
    BY <1>3, CallEffect
  <2>4. h \in Fins => Tail(todo) = <<>>
    BY <1>1, ClosedTail DEF FinInv
  <2>5. h[1] = "row" => h[2] \in Tool /\ h[3] \in RowState /\ h \notin Forgets /\ h \notin Fins
    BY <1>1 DEF CallOf, Forgets, Fins
  <2>6. \A t \in Tool : \A S : h \in Rows(t, S) <=> h[1] = "row" /\ h[2] = t /\ h[3] \in S
    BY <1>1 DEF Rows
  <2>7. rows \in [Tool -> RowState]
    BY DEF TurnType
  <2> HIDE DEF h
  <2>r. /\ \A t \in Tool : rows[t] = "in_progress" => active = t
        /\ finalized => NoRow
        /\ \A t \in Tool : Has(todo, Rows(t, {"in_progress"})) =>
             mode = "loop" /\ active = t /\ ~Has(todo, Forgets)
        /\ NoRow \/ Behind(todo, Rows(active, {"complete", "error"}), Forgets)
        /\ mode # "loop" =>
             /\ ~Has(todo, Forgets)
             /\ \A t \in Tool : rows[t] = "in_progress" => Has(todo, Rows(t, {"error"}))
    BY <1>1 DEF RowInv
  <2>8. ASSUME NEW t \in Tool, Has(todo', Rows(t, {"in_progress"}))
        PROVE  mode' = "loop" /\ active' = t /\ ~Has(todo', Forgets)
    <3>1. Has(todo, Rows(t, {"in_progress"}))
      BY <2>1, <2>8
    <3>2. mode = "loop" /\ active = t /\ ~Has(todo, Forgets)
      BY <2>r, <3>1
    <3>3. h \notin Forgets /\ ~Has(todo', Forgets)
      BY <2>1, <3>2
    <3>4. QED
      BY <1>3, <2>3, <3>2, <3>3
  <2>9. CASE h[1] = "row" /\ ~finalized
    <3>1. /\ \A t \in Tool : rows'[t] = IF t = h[2] THEN h[3] ELSE rows[t]
          /\ active' = active /\ ~finalized'
      BY <2>2, <2>3, <2>5, <2>7, <2>9
    <3>2. CASE h[3] = "in_progress"
      <4>1. Has(todo, Rows(h[2], {"in_progress"}))
        BY <2>1, <2>5, <2>6, <2>9, <3>2
      <4>2. mode = "loop" /\ active = h[2] /\ ~Has(todo, Forgets) /\ ~Has(todo', Forgets)
        BY <2>1, <2>5, <2>9, <2>r, <4>1
      <4>3. Behind(todo', Rows(active', {"complete", "error"}), Forgets)
        BY <4>2 DEF Behind, Has
      <4>4. \A t \in Tool : rows'[t] = "in_progress" => active' = t
        BY <2>r, <3>1, <4>2
      <4>5. QED
        BY <1>3, <2>8, <3>1, <4>2, <4>3, <4>4 DEF RowInv
    <3>3. CASE h[3] # "in_progress"
      <4>1. \A t \in Tool : rows'[t] = "in_progress" => rows[t] = "in_progress" /\ t # h[2]
        BY <3>1, <3>3
      <4>2. NoRow' \/ Behind(todo', Rows(active', {"complete", "error"}), Forgets)
        <5>1. CASE NoRow
          BY <4>1, <5>1 DEF NoRow
        <5>2. CASE Behind(todo, Rows(active, {"complete", "error"}), Forgets)
          <6>1. CASE h \in Rows(active, {"complete", "error"})
            <7>1. active = h[2]
              BY <6>1 DEF Rows
            <7>2. QED
              BY <2>r, <4>1, <7>1 DEF NoRow
          <6>2. CASE h \notin Rows(active, {"complete", "error"})
            BY <2>1, <3>1, <5>2, <6>2
          <6>3. QED
            BY <6>1, <6>2
        <5>3. QED
          BY <2>r, <5>1, <5>2
      <4>3. mode # "loop" => \A t \in Tool : rows'[t] = "in_progress" => Has(todo', Rows(t, {"error"}))
        BY <2>1, <2>6, <2>r, <4>1
      <4>4. QED
        BY <1>3, <2>1, <2>8, <2>r, <3>1, <4>1, <4>2, <4>3 DEF RowInv
    <3>4. QED
      BY <3>2, <3>3
  <2>10. CASE ~(h[1] = "row" /\ ~finalized)
    <3>1. rows' = rows
      BY <2>2, <2>10
    <3>2. NoRow' <=> NoRow
      BY <3>1 DEF NoRow
    <3>3. h \in Forgets => NoRow
      BY <2>1, <2>r
    <3>4. finalized' => NoRow
      <4>1. CASE finalized
        BY <2>r, <4>1
      <4>2. CASE h \in Fins
        <5>1. CASE mode = "loop"
          <6>1. active = None
            BY <1>1, <2>1, <4>2, <5>1 DEF ActiveInv
          <6>2. QED
            BY <2>r, <6>1, SdkTurnAssumption DEF NoRow
        <5>2. CASE mode # "loop"
          <6>0. Len(<<>>) = 0
            OBVIOUS
          <6>1. Len(todo') = 0
            BY <1>3, <2>4, <4>2, <6>0, Zenon
          <6>2. \A A : ~Has(todo', A)
            BY <6>1 DEF Has
          <6>3. \A t \in Tool : h \notin Rows(t, {"error"})
            BY <2>5, <2>6, <4>2
          <6>4. QED
            BY <2>1, <2>r, <5>2, <6>2, <6>3 DEF NoRow
        <5>3. QED
          BY <5>1, <5>2
      <4>3. QED
        BY <2>3, <4>1, <4>2
    <3>5. NoRow \/ Behind(todo', Rows(active', {"complete", "error"}), Forgets)
      <4>1. CASE h \in Rows(active, {"complete", "error"})
        <5>1. h[1] = "row"
          BY <4>1 DEF Rows
        <5>2. QED
          BY <2>10, <2>r, <5>1
      <4>2. CASE h \notin Rows(active, {"complete", "error"})
        BY <2>1, <2>3, <2>r, <3>3, <4>2
      <4>3. QED
        BY <4>1, <4>2
    <3>6. \A t \in Tool : rows'[t] = "in_progress" => active' = t
      BY <2>3, <2>r, <3>1, <3>3 DEF NoRow
    <3>7. mode # "loop" =>
             /\ ~Has(todo', Forgets)
             /\ \A t \in Tool : rows'[t] = "in_progress" => Has(todo', Rows(t, {"error"}))
      <4>1. ASSUME NEW t \in Tool, rows[t] = "in_progress" PROVE h \notin Rows(t, {"error"})
        BY <2>6, <2>10, <2>r, <4>1 DEF NoRow
      <4>2. QED
        BY <2>1, <2>r, <3>1, <4>1
    <3>8. QED
      BY <1>3, <2>8, <3>2, <3>4, <3>5, <3>6, <3>7 DEF RowInv
  <2>11. QED
    BY <2>9, <2>10
<1>4. QED
  BY <1>1, <1>2, <1>3

LEMMA LoopEndKeepsRows ==
  ASSUME TurnType, FramesInv, ActiveInv, RowInv, LoopEnds, Clean'
  PROVE  RowInv'
<1>1. /\ mode = "loop" /\ todo = <<>> /\ frames = <<>> /\ mode' = "catch" /\ Clean
      /\ UNCHANGED <<active, finalized, rows>>
      /\ todo' = Rescue \/ (src = "ended" /\ todo' = <<<<"fin">>>>)
  BY DEF LoopEnds, display, Clean
<1>2. CASE todo' = Rescue
  BY <1>1, <1>2, RescueKeepsRows
<1>3. CASE src = "ended" /\ todo' = <<<<"fin">>>>
  <2>1. \A A : ~Has(frames, A) /\ ~Has(todo, A)
    BY <1>1 DEF Has
  <2>2. Settled
    BY <1>1, <1>3 DEF FramesInv, Clean
  <2>3. active = None
    BY <1>1, <1>3, <2>1, <2>2 DEF ActiveInv, Pending, Settled, Dropped, TurnType
  <2>4. NoRow'
    BY <1>1, <2>3, SdkTurnAssumption DEF RowInv, NoRow
  <2>5. ~Has(todo', Forgets) /\ NoRowStarts(todo')
    BY <1>3, LastFinalize
  <2>6. QED
    BY <1>1, <2>4, <2>5 DEF RowInv, NoRow, NoRowStarts
<1>4. QED
  BY <1>1, <1>2, <1>3

LEMMA RowInvStep ==
  ASSUME TurnType, FinInv, MsgInv, FramesInv, ActiveInv, RowInv, [Next]_vars
  PROVE  ActiveInv' /\ RowInv'
<1> SUFFICES ASSUME Clean' PROVE ActiveInv' /\ RowInv'
  BY DEF ActiveInv, RowInv
<1>1. CASE Consumes
  <2>1. Head(frames)[1] \in {"use", "result", "success", "failure"}
    BY <1>1, TailFacts, WorkLists DEF Consumes, TurnType
  <2>2. QED
    BY <1>1, <2>1, UseConsumed, ResultConsumed, VerdictConsumed
<1>2. CASE LoopEnds
  <2>1. mode' # "loop"
    BY <1>2 DEF LoopEnds
  <2>2. QED
    BY <1>2, <2>1, LoopEndKeepsRows DEF ActiveInv
<1>3. CASE WorksOff
  BY <1>3, CallKeepsActive, CallKeepsRows DEF ActiveInv
<1>4. CASE Saves
  BY <1>4 DEF Saves, ActiveInv, RowInv, NoRow, Clean
<1>5. CASE Held /\ ~Consumes
  <2>1. Clean /\ UNCHANGED <<mode, todo, active, finalized, rows>>
    BY <1>5 DEF Held, Clean
  <2>2. RowInv'
    BY <2>1 DEF RowInv, NoRow
  <2>3. /\ Dropped' \/ \A t \in Tool : (Open(t)' => Open(t)) /\ (Pending(t) => Pending(t)')
        /\ Dropped => Dropped'
        /\ frames = <<>> /\ src # "live" => frames' = <<>> /\ src' # "live"
    BY <1>5, OpenMoves
  <2>4. active \in Tool \cup {None}
    BY DEF TurnType
  <2>5. ASSUME mode = "loop", active # None
        PROVE  Pending(active)' \/ Has(todo, Forgets) \/ Dropped'
    BY <2>1, <2>3, <2>4, <2>5 DEF ActiveInv
  <2>6. ActiveInv'
    BY <2>1, <2>3, <2>5 DEF ActiveInv
  <2>7. QED
    BY <2>2, <2>6
<1>6. QED
  BY <1>1, <1>2, <1>3, <1>4, <1>5, Kinds

-----------------------------------------------------------------------------
(* The message is settled.                                                 *)

SettledInv ==
  TurnType /\ FinInv /\ MsgInv /\ VerdictInv /\ FramesInv /\ ActiveInv /\ RowInv

LEMMA SettledInit == Init => SettledInv
<1> SUFFICES ASSUME Init PROVE SettledInv
  OBVIOUS
<1>1. /\ todo = <<>> /\ frames = <<>> /\ mode = "loop" /\ src = "live" /\ ~finalized /\ ~opened
      /\ msg = "none" /\ active = None /\ marred = {}
      /\ \A t \in Tool : rows[t] = "none" /\ tool[t] = "none"
  BY DEF Init
<1>2. Len(todo) = 0 /\ Len(frames) = 0
  BY <1>1
<1>3. /\ \A A : ~Has(todo, A) /\ ~Has(frames, A) /\ Once(frames, A) /\ Latest(frames, A)
      /\ \A A, B : Behind(todo, A, B) /\ Precedes(frames, A, B)
      /\ Closed(todo)
  BY <1>2 DEF Has, Once, Latest, Behind, Precedes, Closed
<1>4. FinInv /\ MsgInv /\ VerdictInv
  BY <1>1, <1>3 DEF FinInv, MsgInv, VerdictInv
<1>5. FramesInv
  BY <1>1, <1>3 DEF FramesInv
<1>6. ActiveInv /\ RowInv
  BY <1>1, <1>3 DEF ActiveInv, RowInv, Open, Pending, NoRow
<1>7. QED
  BY <1>4, <1>5, <1>6, TurnTypeInit DEF SettledInv

LEMMA SettledMessage == SettledInv => MessageSettled
<1> SUFFICES ASSUME SettledInv, mode = "ended"
             PROVE  /\ "lost" \notin marred => msg # "open"
                    /\ Clean => NoRow
                    /\ marred \cap {"lost", "quiet"} = {} => body # {}
  BY DEF MessageSettled, MessageStopped, NoRowAtWork, VerdictShown, Clean, NoRow
<1>1. finalized /\ todo = <<>>
  BY DEF SettledInv, FinInv
<1>2. "lost" \notin marred => msg # "open"
  BY <1>1 DEF SettledInv, MsgInv
<1>3. Clean => NoRow
  BY <1>1 DEF SettledInv, RowInv
<1>4. marred \cap {"lost", "quiet"} = {} => body # {}
  BY <1>1 DEF SettledInv, VerdictInv
<1>5. QED
  BY <1>2, <1>3, <1>4

\* A turn whose stream has begun and that has ended leaves no message streaming, no
\* row at work, and has told the user how it ended, but for the excuses of the property
\* (sdk-stream.ts:18-27, 340, 353).
THEOREM MessageIsSettled == Spec => []MessageSettled
<1>1. SettledInv /\ [Next]_vars => SettledInv'
  <2>1. TurnType /\ FinInv /\ [Next]_vars => TurnType' /\ FinInv'
    BY TurnTypeStep, FinInvStep
  <2>2. TurnType /\ MsgInv /\ VerdictInv /\ [Next]_vars => MsgInv' /\ VerdictInv'
    BY MsgInvStep, VerdictInvStep
  <2>3. TurnType /\ FramesInv /\ [Next]_vars => FramesInv'
    BY FramesInvStep
  <2>4. SettledInv /\ [Next]_vars => ActiveInv' /\ RowInv'
    BY RowInvStep DEF SettledInv
  <2>5. QED
    BY <2>1, <2>2, <2>3, <2>4 DEF SettledInv
<1>2. QED
  BY <1>1, SettledInit, SettledMessage, PTL DEF Spec
============================================================================
