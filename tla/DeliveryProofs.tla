--------------------------- MODULE DeliveryProofs ---------------------------
(***************************************************************************)
(* Proofs about Delivery, for every set of events, every number of         *)
(* sendings and restarts, and whatever fails.                              *)
(***************************************************************************)
EXTENDS Delivery, TLAPS

\* A copy that passed the check and has not written its record yet.
Holding(c) == pc[c] \in {"saving", "recording"}

\* This process may already have recorded e, or will never be asked to again.
Claimed(e) == e \in seen \/ Stale(e)

\* Why an event is recorded once per process: the key is in the cache from the
\* check on, at most one copy holds it, and before that nothing was recorded.
ClaimInv ==
  /\ \A e \in Event : log[e] <= lives
  /\ \A e \in Event : up /\ ~Claimed(e) => log[e] < lives
  /\ \A c \in Copy : Holding(c) => c[1] \in seen /\ log[c[1]] < lives
  /\ \A c, d \in Copy : Holding(c) /\ Holding(d) /\ c[1] = d[1] => c = d

\* A dead process handles nothing.
DownInv == ~up => \A c \in Copy : pc[c] \notin InTenant

Inv == TypeOK /\ ClaimInv /\ DownInv

-----------------------------------------------------------------------------
\* A copy names its event.
LEMMA CopyParts ==
  ASSUME NEW c \in Copy
  PROVE  /\ c[1] \in Event /\ c[2] \in 1 .. MaxSends
         /\ c = <<c[1], c[2]>>
BY DEF Copy

Stage == {"unsent"} \cup InBot \cup InTenant \cup Over

LEMMA InitInv == Init => Inv
<1> SUFFICES ASSUME Init PROVE Inv
  OBVIOUS
<1>1. TypeOK
  BY DEF Init, TypeOK
<1>2. \A c \in Copy : ~Holding(c)
  BY DEF Init, Holding
<1>3. \A e \in Event : log[e] = 0 /\ lives = 1
  BY DEF Init
<1>4. ClaimInv
  BY <1>2, <1>3 DEF ClaimInv
<1>5. DownInv
  BY DEF Init, DownInv
<1> QED
  BY <1>1, <1>4, <1>5 DEF Inv

\* Moving one copy keeps pc a function over the copies.
LEMMA GotoType ==
  ASSUME TypeOK, NEW c \in Copy,
         NEW l \in Stage, Goto(c, l)
  PROVE  /\ pc' \in [Copy -> Stage]
         /\ pc'[c] = l
         /\ \A d \in Copy : d # c => pc'[d] = pc[d]
BY DEF TypeOK, Goto, Stage

\* While a copy of e is on its way, e is not stale.
LEMMA BusyNotStale ==
  ASSUME NEW c \in Copy, pc[c] \notin Over, pc[c] # "unsent"
  PROVE  ~Stale(c[1])
<1>1. c[1] \in Event /\ c[2] \in 1 .. MaxSends /\ c = <<c[1], c[2]>>
  BY CopyParts
<1>2. pc[<<c[1], c[2]>>] \notin Over \cup {"unsent"}
  BY <1>1
<1> QED
  BY <1>1, <1>2 DEF Stale

\* What has become of an event stays so: Slack never sends it again.
LEMMA StaleStable ==
  ASSUME TypeOK, [Next]_vars, NEW e \in Event, Stale(e)
  PROVE  Stale(e)'
<1>1. \A c \in Copy : c[1] = e => pc[c] \in Over \cup {"unsent"}
  BY CopyParts DEF Stale
<1>2. ASSUME NEW c \in Copy, NEW l \in Stage, Goto(c, l), acked \subseteq acked',
             pc[c] \notin Over \cup {"unsent"}
      PROVE  Stale(e)'
  <2>1. \A i \in 1 .. MaxSends : <<e, i>> \in Copy /\ <<e, i>> # c
    BY <1>1, <1>2 DEF Copy
  <2>2. \A i \in 1 .. MaxSends : pc'[<<e, i>>] = pc[<<e, i>>]
    BY <2>1, <1>2, GotoType
  <2> QED
    BY <2>2, <1>2 DEF Stale
<1>3. CASE UNCHANGED <<pc, acked>>
  BY <1>3 DEF Stale
<1>4. CASE \E f \in Event, i \in 1 .. MaxSends : SlackSends(f, i)
  <2> PICK f \in Event, i \in 1 .. MaxSends : SlackSends(f, i)
    BY <1>4
  <2>1. f # e
    <3>1. ASSUME f = e PROVE FALSE
      BY <3>1 DEF SlackSends, Stale
    <3> QED BY <3>1
  <2>2. \A j \in 1 .. MaxSends : <<e, j>> \in Copy /\ <<e, j>> # <<f, i>>
    BY <2>1 DEF Copy
  <2>3. <<f, i>> \in Copy /\ "acking" \in Stage
    BY DEF Copy, Stage, InBot
  <2>4. \A j \in 1 .. MaxSends : pc'[<<e, j>>] = pc[<<e, j>>]
    BY <2>2, <2>3, GotoType DEF SlackSends
  <2> QED
    BY <2>4 DEF Stale, SlackSends
<1>5. CASE \E c \in Copy : CopyStep(c) \/ RecordThrows(c) \/ DispatchThrows(c)
  <2> PICK c \in Copy : CopyStep(c) \/ RecordThrows(c) \/ DispatchThrows(c)
    BY <1>5
  <2>1. acked \subseteq acked' /\ pc[c] \notin Over \cup {"unsent"}
    BY DEF CopyStep, BotAcks, Forward, LoadStarts, LoadEnds, Check, Checks, Saved,
           Record, RecordThrows, DispatchThrows, Over
  <2>2. \E l \in Stage : Goto(c, l)
    BY DEF CopyStep, BotAcks, Forward, LoadStarts, LoadEnds, Check, Saved,
           Record, RecordThrows, DispatchThrows, Stage, InBot, InTenant, Over
  <2> QED
    BY <2>1, <2>2, <1>2
<1>6. CASE Crash
  <2>1. \A i \in 1 .. MaxSends : <<e, i>> \in Copy
    BY DEF Copy
  <2>2. \A i \in 1 .. MaxSends :
          pc[<<e, i>>] \in Over \cup {"unsent"} => pc'[<<e, i>>] = pc[<<e, i>>]
    BY <1>6, <2>1 DEF Crash, InTenant, Over
  <2> QED
    BY <2>2, <1>6 DEF Stale, Crash
<1> QED
  BY <1>3, <1>4, <1>5, <1>6 DEF Next, Restart, vars

-----------------------------------------------------------------------------
\* Every step keeps the types.
LEMMA TypeStep == ASSUME TypeOK, [Next]_vars PROVE TypeOK'
<1>1. ASSUME NEW c \in Copy, NEW l \in Stage, Goto(c, l)
      PROVE  pc' \in [Copy -> {"unsent"} \cup InBot \cup InTenant \cup Over]
  BY <1>1, GotoType DEF Stage
<1>2. "acking" \in Stage /\ "forwarding" \in Stage /\ "refused" \in Stage
      /\ "arrived" \in Stage /\ "loading" \in Stage /\ "checking" \in Stage
      /\ "duplicate" \in Stage /\ "saving" \in Stage /\ "recording" \in Stage
      /\ "recorded" \in Stage
  BY DEF Stage, InBot, InTenant, Over
<1>3. CASE UNCHANGED vars
  BY <1>3 DEF vars, TypeOK
<1>4. CASE \E e \in Event, i \in 1 .. MaxSends : SlackSends(e, i)
  <2> PICK e \in Event, i \in 1 .. MaxSends : SlackSends(e, i)
    BY <1>4
  <2>1. <<e, i>> \in Copy
    BY DEF Copy
  <2> QED
    BY <1>1, <1>2, <2>1 DEF SlackSends, TypeOK
<1>5. ASSUME NEW c \in Copy,
             CopyStep(c) \/ RecordThrows(c) \/ DispatchThrows(c)
      PROVE  TypeOK'
  <2>1. c[1] \in Event
    BY CopyParts
  <2>2. CASE BotAcks(c)
    BY <1>1, <1>2, <2>1, <2>2 DEF BotAcks, TypeOK
  <2>3. CASE Forward(c) \/ LoadStarts(c) \/ LoadEnds(c) \/ DispatchThrows(c)
             \/ RecordThrows(c)
    BY <1>1, <1>2, <2>3 DEF Forward, LoadStarts, LoadEnds, DispatchThrows,
                            RecordThrows, TypeOK
  <2>4. CASE Check(c)
    <3>1. seen' \subseteq Event /\ snap' \in [Copy -> SUBSET Event]
      BY <2>1, <2>4 DEF Check, TypeOK
    <3>2. pc' \in [Copy -> {"unsent"} \cup InBot \cup InTenant \cup Over]
      BY <1>1, <1>2, <2>4 DEF Check
    <3> QED
      BY <2>4, <3>1, <3>2 DEF Check, TypeOK
  <2>5. CASE Saved(c)
    <3>1. file' \subseteq Event
      BY <2>5 DEF Saved, TypeOK
    <3> QED
      BY <1>1, <1>2, <2>5, <3>1 DEF Saved, TypeOK
  <2>6. CASE Record(c)
    <3>1. log' \in [Event -> Nat]
      BY <2>1, <2>6 DEF Record, TypeOK
    <3> QED
      BY <1>1, <1>2, <2>6, <3>1 DEF Record, TypeOK
  <2> QED
    BY <1>5, <2>2, <2>3, <2>4, <2>5, <2>6 DEF CopyStep
<1>6. CASE Crash
  <2>1. pc' \in [Copy -> {"unsent"} \cup InBot \cup InTenant \cup Over]
    BY <1>6 DEF Crash, TypeOK, Over
  <2> QED
    BY <1>6, <2>1 DEF Crash, TypeOK
<1>7. CASE Restart
  BY <1>7 DEF Restart, TypeOK
<1> QED
  BY <1>3, <1>4, <1>5, <1>6, <1>7 DEF Next

\* A copy that moves between stages before the check, or to its end without a
\* record, leaves the claims as they are.
LEMMA QuietStep ==
  ASSUME Inv, [Next]_vars, NEW c \in Copy, NEW l \in Stage, Goto(c, l),
         l \notin {"saving", "recording"},
         seen \subseteq seen', UNCHANGED <<log, lives, up>>
  PROVE  ClaimInv'
<1>1. \A d \in Copy : Holding(d)' => Holding(d)
  BY GotoType DEF Inv, Holding
<1>2. \A e \in Event : Claimed(e) => Claimed(e)'
  BY StaleStable DEF Inv, Claimed
<1> QED
  BY <1>1, <1>2 DEF Inv, ClaimInv

LEMMA DownStep == ASSUME Inv, [Next]_vars PROVE DownInv'
<1>1. CASE UNCHANGED vars
  BY <1>1 DEF vars, Inv, DownInv
<1>2. CASE \E e \in Event, i \in 1 .. MaxSends : SlackSends(e, i)
  <2> PICK e \in Event, i \in 1 .. MaxSends : SlackSends(e, i)
    BY <1>2
  <2>1. <<e, i>> \in Copy /\ "acking" \in Stage
    BY DEF Copy, Stage, InBot
  <2>2. \A d \in Copy : pc'[d] = pc[d] \/ pc'[d] = "acking"
    BY <2>1, GotoType DEF SlackSends, Inv
  <2> QED
    BY <2>2 DEF SlackSends, Inv, DownInv, InTenant
<1>3. ASSUME NEW c \in Copy,
             CopyStep(c) \/ RecordThrows(c) \/ DispatchThrows(c)
      PROVE  DownInv'
  <2>1. \E l \in Stage : Goto(c, l) /\ (l \in InTenant => up)
    <3>1. CASE BotAcks(c) \/ Forward(c)
      BY <3>1 DEF BotAcks, Forward, Stage, InBot, InTenant, Over
    <3>2. CASE LoadStarts(c) \/ LoadEnds(c) \/ Check(c) \/ Saved(c) \/ Record(c)
               \/ RecordThrows(c) \/ DispatchThrows(c)
      <4>1. pc[c] \in InTenant
        BY <3>2 DEF LoadStarts, LoadEnds, Check, Checks, Saved, Record,
                    RecordThrows, DispatchThrows, InTenant
      <4>2. up
        BY <4>1 DEF Inv, DownInv
      <4> QED
        BY <3>2, <4>2 DEF LoadStarts, LoadEnds, Check, Saved, Record, RecordThrows,
                          DispatchThrows, Stage, InTenant, Over
    <3> QED
      BY <1>3, <3>1, <3>2 DEF CopyStep
  <2>2. UNCHANGED up
    BY <1>3 DEF CopyStep, BotAcks, Forward, LoadStarts, LoadEnds, Check, Saved,
                Record, RecordThrows, DispatchThrows
  <2> QED
    BY <2>1, <2>2, GotoType DEF Inv, DownInv
<1>4. CASE Crash
  BY <1>4 DEF Crash, Inv, TypeOK, DownInv, InTenant
<1>5. CASE Restart
  BY <1>5 DEF Restart, DownInv
<1> QED
  BY <1>1, <1>2, <1>3, <1>4, <1>5 DEF Next

\* The check: the key was not there, so nobody holds it and it is not recorded.
LEMMA CheckStep ==
  ASSUME Inv, [Next]_vars, NEW c \in Copy, Check(c)
  PROVE  ClaimInv'
<1>1. PICK old \in SUBSET {e \in seen : Stale(e)} :
        \/ /\ c[1] \in seen
           /\ seen' = seen \ old
           /\ Goto(c, "duplicate")
        \/ /\ c[1] \notin seen
           /\ seen' = (seen \ old) \cup {c[1]}
           /\ Goto(c, "saving")
  BY DEF Check
<1>2. pc[c] \in InTenant
  BY DEF Check, Checks, InTenant
<1>3. up /\ ~Stale(c[1])
  BY <1>2, BusyNotStale DEF InTenant, Over, Inv, DownInv
<1>4. \A d \in Copy : Holding(d) => d[1] \in seen /\ d[1] \notin old
  BY <1>1, BusyNotStale DEF Holding, Over, Inv, ClaimInv
<1>5. \A e \in Event : Claimed(e) => Claimed(e)'
  BY <1>1, StaleStable DEF Inv, Claimed
<1>6. UNCHANGED <<log, lives, up>>
  BY DEF Check
<1>7. "duplicate" \in Stage /\ "saving" \in Stage
  BY DEF Stage, InTenant, Over
<1>8. CASE Goto(c, "duplicate") /\ seen' = seen \ old
  <2>1. \A d \in Copy : Holding(d)' => Holding(d)
    BY <1>7, <1>8, GotoType DEF Inv, Holding
  <2> QED
    BY <1>4, <1>5, <1>6, <1>8, <2>1 DEF Inv, ClaimInv
<1>9. CASE /\ c[1] \notin seen
           /\ Goto(c, "saving") /\ seen' = (seen \ old) \cup {c[1]}
  <2>1. \A d \in Copy : d # c /\ Holding(d)' => Holding(d)
    BY <1>7, <1>9, GotoType DEF Inv, Holding
  <2>2. log[c[1]] < lives
    BY <1>3, <1>9, CopyParts DEF Inv, ClaimInv, Claimed
  <2>3. \A d \in Copy : Holding(d) => d[1] # c[1]
    BY <1>4, <1>9
  <2>4. \A d \in Copy : Holding(d)' => d[1] \in seen' /\ log'[d[1]] < lives'
    BY <1>4, <1>6, <1>9, <2>1, <2>2 DEF Inv, ClaimInv
  <2>5. \A d, f \in Copy : Holding(d)' /\ Holding(f)' /\ d[1] = f[1] => d = f
    BY <2>1, <2>3 DEF Inv, ClaimInv
  <2> QED
    BY <1>5, <1>6, <2>4, <2>5 DEF Inv, ClaimInv
<1> QED
  BY <1>1, <1>8, <1>9

\* The record: its copy was the only one to hold the key.
LEMMA RecordStep ==
  ASSUME Inv, [Next]_vars, NEW c \in Copy, Record(c)
  PROVE  ClaimInv'
<1>1. c[1] \in Event /\ "recorded" \in Stage
  BY CopyParts DEF Stage, Over
<1>2. Holding(c) /\ c[1] \in seen /\ log[c[1]] < lives
  BY DEF Record, Holding, Inv, ClaimInv
<1>3. \A d \in Copy : Holding(d)' => Holding(d) /\ d # c
  BY <1>1, GotoType DEF Record, Inv, Holding
<1>4. \A d \in Copy : Holding(d)' => d[1] # c[1]
  BY <1>2, <1>3 DEF Inv, ClaimInv
<1>5. /\ log'[c[1]] = log[c[1]] + 1
      /\ \A e \in Event : e # c[1] => log'[e] = log[e]
  BY <1>1 DEF Record, Inv, TypeOK
<1>6. log[c[1]] \in Nat /\ lives \in Nat
  BY <1>1 DEF Inv, TypeOK
<1>7. UNCHANGED <<seen, lives, up>>
  BY DEF Record
<1>8. \A e \in Event : Claimed(e) => Claimed(e)'
  BY <1>7, StaleStable DEF Inv, Claimed
<1>9. \A e \in Event : log'[e] <= lives'
  BY <1>2, <1>5, <1>6, <1>7 DEF Inv, ClaimInv
<1>10. \A e \in Event : up' /\ ~Claimed(e)' => log'[e] < lives'
  <2> SUFFICES ASSUME NEW e \in Event, up', ~Claimed(e)' PROVE log'[e] < lives'
    OBVIOUS
  <2>1. e # c[1]
    BY <1>2, <1>7 DEF Claimed
  <2> QED
    BY <1>5, <1>7, <1>8, <2>1 DEF Inv, ClaimInv
<1>11. \A d \in Copy : Holding(d)' => d[1] \in seen' /\ log'[d[1]] < lives'
  BY <1>3, <1>4, <1>5, <1>7, CopyParts DEF Inv, ClaimInv
<1>12. \A d, f \in Copy : Holding(d)' /\ Holding(f)' /\ d[1] = f[1] => d = f
  BY <1>3 DEF Inv, ClaimInv
<1> QED
  BY <1>9, <1>10, <1>11, <1>12 DEF ClaimInv

LEMMA ClaimStep == ASSUME Inv, [Next]_vars PROVE ClaimInv'
<1>1. CASE UNCHANGED vars
  BY <1>1 DEF vars, Inv, ClaimInv, Claimed, Stale, Holding
<1>2. CASE \E e \in Event, i \in 1 .. MaxSends : SlackSends(e, i)
  <2> PICK e \in Event, i \in 1 .. MaxSends : SlackSends(e, i)
    BY <1>2
  <2>1. <<e, i>> \in Copy /\ "acking" \in Stage
    BY DEF Copy, Stage, InBot
  <2> QED
    BY <2>1, QuietStep DEF SlackSends
<1>3. ASSUME NEW c \in Copy,
             CopyStep(c) \/ RecordThrows(c) \/ DispatchThrows(c)
      PROVE  ClaimInv'
  <2>1. CASE BotAcks(c) \/ Forward(c) \/ LoadStarts(c) \/ LoadEnds(c)
             \/ RecordThrows(c) \/ DispatchThrows(c)
    <3>1. \E l \in Stage \ {"saving", "recording"} : Goto(c, l)
      BY <2>1 DEF BotAcks, Forward, LoadStarts, LoadEnds, RecordThrows,
                  DispatchThrows, Stage, InBot, InTenant, Over
    <3>2. seen \subseteq seen' /\ UNCHANGED <<log, lives, up>>
      BY <2>1 DEF BotAcks, Forward, LoadStarts, LoadEnds, RecordThrows,
                  DispatchThrows
    <3> QED
      BY <3>1, <3>2, QuietStep
  <2>2. CASE Check(c)
    BY <2>2, CheckStep
  <2>3. CASE Record(c)
    BY <2>3, RecordStep
  <2>4. CASE Saved(c)
    <3>1. pc[c] = "saving" /\ Goto(c, "recording") /\ "recording" \in Stage
          /\ UNCHANGED <<seen, log, lives, up>>
      BY <2>4 DEF Saved, Stage, InTenant
    <3>2. \A d \in Copy : Holding(d)' => Holding(d)
      BY <3>1, GotoType DEF Inv, Holding
    <3>3. \A e \in Event : Claimed(e) => Claimed(e)'
      BY <3>1, StaleStable DEF Inv, Claimed
    <3> QED
      BY <3>1, <3>2, <3>3 DEF Inv, ClaimInv
  <2> QED
    BY <1>3, <2>1, <2>2, <2>3, <2>4 DEF CopyStep
<1>4. CASE Crash
  <2>1. \A c \in Copy : ~Holding(c)'
    BY <1>4 DEF Crash, Inv, TypeOK, Holding, InTenant
  <2> QED
    BY <1>4, <2>1 DEF Crash, Inv, ClaimInv
<1>5. CASE Restart
  <2>1. \A c \in Copy : ~Holding(c)'
    BY <1>5 DEF Restart, Inv, DownInv, Holding, InTenant
  <2>2. \A e \in Event : log'[e] < lives'
    BY <1>5 DEF Restart, Inv, TypeOK, ClaimInv
  <2>3. \A e \in Event : log'[e] <= lives'
    BY <1>5 DEF Restart, Inv, TypeOK, ClaimInv
  <2> QED
    BY <2>1, <2>2, <2>3 DEF ClaimInv
<1> QED
  BY <1>1, <1>2, <1>3, <1>4, <1>5 DEF Next

-----------------------------------------------------------------------------
LEMMA InvStep == Inv /\ [Next]_vars => Inv'
BY TypeStep, ClaimStep, DownStep DEF Inv

LEMMA Invariance == SafeSpec => []Inv
<1>1. Init => Inv
  BY InitInv
<1>2. Inv /\ [Next]_vars => Inv'
  BY InvStep
<1> QED
  BY <1>1, <1>2, PTL DEF SafeSpec

\* The variables of the delivery path keep their types.
THEOREM TypeCorrect == SafeSpec => []TypeOK
<1>1. Inv => TypeOK
  BY DEF Inv
<1> QED
  BY <1>1, Invariance, PTL

\* handleMessage behind isDuplicate: however often Slack sends an event, whatever
\* the interleaving of loads, checks, saves and crashes, each tenant process
\* records it at most once; without a restart it is recorded at most once.
THEOREM RecordedOncePerLife == SafeSpec => []OncePerLife
<1>1. Inv => OncePerLife
  BY DEF Inv, ClaimInv, OncePerLife
<1> QED
  BY <1>1, Invariance, PTL
=============================================================================
